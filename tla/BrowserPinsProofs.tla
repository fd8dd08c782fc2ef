--------------------------- MODULE BrowserPinsProofs ---------------------------
(***************************************************************************)
(* Proofs about BrowserInstances for any profiles, launches, calls and limits: *)
(* a visible panel pins whichever instance serves its profile, and the limit   *)
(* is overrun by one at most.                                                 *)
(*                                                                         *)
(* On top of the invariant IInv of BrowserInstancesProofs, the first needs     *)
(* what keeps a panel from pinning an instance that is not, or no longer, the  *)
(* registered one:                                                           *)
(*                                                                         *)
(* - a registered instance that is cleaned up is about to be unregistered, as  *)
(*   the stop that cleaned it up is a continuation away from its end (StartsOK) *)
(* - a call awaits a start of its own profile, and if that start is published   *)
(*   and another one registered, that one is not published (AwaitsOK): a new     *)
(*   instance is published only when nothing is Ready, and while it alone holds *)
(*   the launch lock.                                                         *)
(*                                                                         *)
(* The second needs that the victim of an eviction is registered for as long   *)
(* as the limit is overrun, so that there is room once it is stopped (RoomInv). *)
(***************************************************************************)
EXTENDS BrowserInstancesProofs

Cleaned(b) == b.phase = "held" /\ b.cleanup # "none"
StartsOK ==
  \A p \in Profiles :
    LET i == profile[p].start IN
    i # None =>
      /\ browser[i].owner = p /\ browser[i].phase # "unused"
      /\ browser[i].retiring = "none"
      /\ Cleaned(browser[i]) =>
           \E s \in stops : s.inst = i /\ s.stage = "cleaning"

AwaitsOK ==
  \A c \in Callers : call[c].pc = "awaiting" =>
    LET i == call[c].inst
        j == profile[call[c].goal].start IN
    /\ browser[i].owner = call[c].goal /\ browser[i].phase # "unused"
    /\ browser[i].phase = "held" /\ j # None /\ browser[j].phase = "held" => i = j

PinInv == StartsOK /\ AwaitsOK /\ PanelsStayPinned

-----------------------------------------------------------------------------
(* What steps have in common.                                                *)

Alike(b, d) ==
  /\ d.phase = b.phase /\ d.owner = b.owner /\ d.panels = b.panels
  /\ d.cleanup = b.cleanup /\ d.retiring = b.retiring

BrowsersAlike == \A i \in Instances : Alike(browser[i], browser'[i])
VisibleStay == \A p \in Profiles : profile'[p].visible \subseteq profile[p].visible
StartsAlike == VisibleStay /\ \A p \in Profiles : profile'[p].start = profile[p].start
StopsLast == \A s \in stops : s.stage = "cleaning" => s \in stops'
(* Whoever begins to await a start finds it registered, and what has been      *)
(* unpinned stays so.                                                        *)
AwaitsLast ==
  \A c \in Callers :
    /\ call[c].unpin # None => call'[c].unpin # None
    /\ call'[c].pc = "awaiting" =>
         \/ /\ call[c].pc = "awaiting"
            /\ call'[c].goal = call[c].goal /\ call'[c].inst = call[c].inst
         \/ /\ call'[c].goal \in Profiles /\ profile[call'[c].goal].start # None
            /\ call'[c].inst = profile[call'[c].goal].start

LEMMA AwaitedIs ==
  ASSUME IInv, NEW c \in Callers, call[c].pc = "awaiting"
  PROVE call[c].inst \in Instances /\ call[c].goal \in Profiles
<1>1. CallOK(c, call[c], browser)
  BY Types
<1> QED BY <1>1 DEF CallOK

(* Nothing is published, nothing is registered, and what stays registered is   *)
(* neither retired nor cleaned up unless its stop is about to end.             *)
LEMMA PinsStay ==
  ASSUME IInv, PinInv, VisibleStay, AwaitsLast,
         \A p \in Profiles : profile'[p].start \in {None, profile[p].start},
         \A i \in Instances :
           /\ browser'[i].owner = browser[i].owner
           /\ \A x \in browser[i].panels \ browser'[i].panels : call'[x].unpin # None
           /\ browser[i].phase # "unused" => browser'[i].phase # "unused"
           /\ browser'[i].phase = "held" => browser[i].phase = "held",
         \A p \in Profiles : profile'[p].start # None =>
           /\ browser'[profile[p].start].retiring = "none"
           /\ Cleaned(browser'[profile[p].start]) =>
                \E s \in stops' : s.inst = profile[p].start /\ s.stage = "cleaning"
  PROVE PinInv'
<1>1. ASSUME NEW p \in Profiles, profile'[p].start # None
      PROVE /\ profile'[p].start = profile[p].start /\ profile[p].start \in Instances
            /\ browser[profile[p].start].owner = p
            /\ browser[profile[p].start].phase # "unused"
  BY <1>1, Types DEF PinInv, StartsOK
<1>2. StartsOK'
  BY <1>1 DEF StartsOK
<1>3. ASSUME NEW c \in Callers, call'[c].pc = "awaiting"
      PROVE LET i == call'[c].inst
                j == profile'[call'[c].goal].start IN
            /\ browser'[i].owner = call'[c].goal /\ browser'[i].phase # "unused"
            /\ browser'[i].phase = "held" /\ j # None /\ browser'[j].phase = "held" => i = j
  <2> DEFINE i == call'[c].inst
             p == call'[c].goal
  <2>1. CASE /\ call[c].pc = "awaiting"
             /\ call'[c].goal = call[c].goal /\ call'[c].inst = call[c].inst
    <3>1. /\ i \in Instances /\ p \in Profiles /\ i = call[c].inst /\ p = call[c].goal
          /\ call[c].pc = "awaiting"
      BY <1>3, <2>1, AwaitedIs
    <3>2. /\ browser[i].owner = p /\ browser[i].phase # "unused"
          /\ browser[i].phase = "held" /\ profile[p].start # None
             /\ browser[profile[p].start].phase = "held" => i = profile[p].start
      BY <3>1 DEF PinInv, AwaitsOK
    <3> HIDE DEF i, p
    <3>3. /\ browser'[i].owner = p /\ browser'[i].phase # "unused"
          /\ browser'[i].phase = "held" => browser[i].phase = "held"
      BY <3>1, <3>2
    <3>4. profile'[p].start # None =>
            /\ profile'[p].start = profile[p].start
            /\ browser'[profile[p].start].phase = "held" =>
                 browser[profile[p].start].phase = "held"
      BY <1>1, <3>1
    <3>5. browser'[i].phase = "held" /\ profile'[p].start # None
          /\ browser'[profile'[p].start].phase = "held" => i = profile'[p].start
      BY <3>2, <3>3, <3>4
    <3> QED BY <3>3, <3>5 DEF i, p
  <2>2. CASE p \in Profiles /\ profile[p].start # None /\ i = profile[p].start
    <3> HIDE DEF i, p
    <3>1. i \in Instances /\ browser[i].owner = p /\ browser[i].phase # "unused"
      BY <2>2, Types DEF PinInv, StartsOK
    <3>2. browser'[i].owner = p /\ browser'[i].phase # "unused"
      BY <3>1
    <3>3. profile'[p].start # None => i = profile'[p].start
      BY <2>2
    <3> QED BY <3>2, <3>3 DEF i, p
  <2> QED BY <1>3, <2>1, <2>2 DEF AwaitsLast
<1>4. AwaitsOK'
  BY <1>3 DEF AwaitsOK
<1>5. PanelsStayPinned'
  <2> SUFFICES ASSUME NEW p \in Profiles, profile'[p].start # None,
                      browser'[profile'[p].start].phase = "held",
                      NEW x \in profile'[p].visible, call'[x].unpin = None
               PROVE x \in browser'[profile'[p].start].panels
    BY DEF PanelsStayPinned
  <2> DEFINE j == profile[p].start
  <2>1. profile'[p].start = j /\ j \in Instances /\ j # None
    BY <1>1
  <2>2. x \in profile[p].visible /\ x \in Callers
    BY Types DEF VisibleStay, ProfileRecord, Callers, Calls
  <2>3. call[x].unpin = None
    BY <2>2 DEF AwaitsLast
  <2>4. browser[j].phase = "held"
    <3> HIDE DEF j
    <3> QED BY <2>1
  <2>5. x \in browser[j].panels
    BY <2>1, <2>2, <2>3, <2>4 DEF PinInv, PanelsStayPinned
  <2> HIDE DEF j
  <2> QED BY <2>1, <2>5
<1> QED BY <1>2, <1>4, <1>5 DEF PinInv

LEMMA AlikeStays ==
  ASSUME IInv, PinInv, BrowsersAlike, StartsAlike, StopsLast, AwaitsLast
  PROVE PinInv'
<1>1. \A p \in Profiles : profile'[p].start = profile[p].start /\ VisibleStay
  BY DEF StartsAlike
<1>2. ASSUME NEW p \in Profiles, profile'[p].start # None
      PROVE /\ browser'[profile[p].start].retiring = "none"
            /\ Cleaned(browser'[profile[p].start]) =>
                 \E s \in stops' : s.inst = profile[p].start /\ s.stage = "cleaning"
  <2>1. profile[p].start # None /\ profile[p].start \in Instances
    BY <1>1, <1>2, Types
  <2>2. Alike(browser[profile[p].start], browser'[profile[p].start])
    BY <2>1 DEF BrowsersAlike
  <2> QED BY <2>1, <2>2 DEF Alike, Cleaned, PinInv, StartsOK, StopsLast
<1>3. \A i \in Instances :
        /\ browser'[i].owner = browser[i].owner /\ browser'[i].panels = browser[i].panels
        /\ browser[i].phase # "unused" => browser'[i].phase # "unused"
        /\ browser'[i].phase = "held" => browser[i].phase = "held"
  BY DEF BrowsersAlike, Alike
<1> QED BY <1>1, <1>2, <1>3, PinsStay DEF StartsAlike

LEMMA AllAlike == browser' = browser => BrowsersAlike
  BY DEF BrowsersAlike, Alike

LEMMA AllRegistered == profile' = profile => StartsAlike
  BY DEF StartsAlike, VisibleStay

LEMMA AllLast == stops' = stops => StopsLast
  BY DEF StopsLast

LEMMA AllAwait == call' = call => AwaitsLast
  BY DEF AwaitsLast

(* One call changes and does not await a start, or one that is registered.     *)
LEMMA OneAwaits ==
  ASSUME IInv, NEW c \in Callers, NEW r, call' = [call EXCEPT ![c] = r],
         r.unpin = call[c].unpin,
         r.pc = "awaiting" => /\ r.goal \in Profiles /\ profile[r.goal].start # None
                              /\ r.inst = profile[r.goal].start
  PROVE AwaitsLast
<1>1. \A d \in Callers : call'[d] = IF d = c THEN r ELSE call[d]
  BY Types DEF CallMap
<1> QED BY <1>1 DEF AwaitsLast

LEMMA OneAlike ==
  ASSUME IInv, NEW i \in Instances, NEW d, browser' = [browser EXCEPT ![i] = d],
         Alike(browser[i], d)
  PROVE BrowsersAlike
  BY OneInstance DEF BrowsersAlike, Alike

LEMMA OneRegistered ==
  ASSUME IInv, NEW p \in Profiles, NEW d, profile' = [profile EXCEPT ![p] = d],
         d.start = profile[p].start, d.visible = profile[p].visible
  PROVE StartsAlike
  BY OneProfile DEF StartsAlike, VisibleStay

LEMMA NotesAlike ==
  ASSUME NEW b \in BrowserRecord
  PROVE Alike(b, NoteActivity(b))
  BY DEF Alike, NoteActivity, BrowserRecord

LEMMA DropsDone ==
  ASSUME NEW c, StopDone(c), stops' = stops \ {StopOf(c)}
  PROVE StopsLast
<1>1. StopOf(c).stage = "done"
  BY DEF StopDone, StopOf
<1> QED BY <1>1 DEF StopsLast

(* stopHeld up to its first await.                                           *)
LEMMA AskAlike ==
  ASSUME IInv, NEW i \in Instances, browser[i].phase = "held", AskToStop(i)
  PROVE BrowsersAlike /\ StartsAlike
<1> DEFINE b == [browser[i] EXCEPT !.asked = TRUE, !.timer = FALSE]
           p == browser[i].owner
           d == [profile[p] EXCEPT !.lifecycle = "sleeping"]
<1>1. browser' = [browser EXCEPT ![i] = b]
  BY Types DEF AskToStop, BrowserMap
<1>2. Alike(browser[i], b)
  BY Types DEF Alike, BrowserRecord
<1> HIDE DEF b
<1>3. BrowsersAlike
  BY <1>1, <1>2, OneAlike
<1>4. p \in Profiles /\ profile[p] \in ProfileRecord
  BY Types DEF InstanceOK
<1>5. profile' = [profile EXCEPT ![p] = d]
  BY <1>4, Types DEF AskToStop, ProfileMap
<1>6. d.start = profile[p].start /\ d.visible = profile[p].visible
  BY <1>4 DEF ProfileRecord
<1> HIDE DEF p, d
<1>7. StartsAlike
  BY <1>4, <1>5, <1>6, OneRegistered
<1> QED BY <1>3, <1>7

LEMMA StopAlike ==
  ASSUME IInv, NEW i \in Instances, browser[i].phase = "held", NEW by, StopHeld(i, by)
  PROVE BrowsersAlike /\ StartsAlike /\ StopsLast
<1>1. StopsLast
  BY DEF StopHeld, StopsLast
<1> QED BY <1>1, AskAlike DEF StopHeld

(* What a call becomes when it does not await a start.                         *)
LEMMA NotAwaiting ==
  ASSUME IInv, NEW c \in Callers
  PROVE LET Keeps(r) == r.pc # "awaiting" /\ r.unpin = call[c].unpin IN
        /\ \A e : Keeps(Thrown(c, e))
        /\ Keeps(Settled(c))
        /\ \A p : Keeps(Entry(c, p)) /\ Keeps([Entry(c, p) EXCEPT !.retried = TRUE])
        /\ \A x \in Pcs : LET r == [call[c] EXCEPT !.pc = x]
                           IN r.pc = x /\ r.unpin = call[c].unpin
<1>1. call[c] \in CallRecord
  BY Types
<1>2. \A e : Thrown(c, e).pc = "ending" /\ Thrown(c, e).unpin = call[c].unpin
  BY <1>1 DEF Thrown, CallRecord
<1>3. Settled(c).pc = "done" /\ Settled(c).unpin = call[c].unpin
  BY <1>1 DEF Settled, CallRecord
<1>4. ASSUME NEW p
      PROVE LET r == Entry(c, p)
                z == [r EXCEPT !.retried = TRUE]
            IN /\ r.pc # "awaiting" /\ r.unpin = call[c].unpin
               /\ z.pc # "awaiting" /\ z.unpin = call[c].unpin
  BY <1>1 DEF Entry, CallRecord
<1>5. \A x \in Pcs : LET r == [call[c] EXCEPT !.pc = x]
                     IN r.pc = x /\ r.unpin = call[c].unpin
  BY <1>1 DEF CallRecord
<1> QED BY <1>2, <1>3, <1>4, <1>5

LEMMA AwaitingOf ==
  ASSUME IInv, NEW c \in Callers, NEW i
  PROVE LET r == Awaiting(c, i)
        IN r.pc = "awaiting" /\ r.inst = i /\ r.goal = call[c].goal
           /\ r.unpin = call[c].unpin
<1>1. call[c] \in CallRecord
  BY Types
<1> QED BY <1>1 DEF Awaiting, CallRecord

(* beginStart registers an instance that nobody has launched or awaits.        *)
LEMMA StartPins ==
  ASSUME IInv, PinInv, NEW c \in Callers, NEW p \in Profiles, call[c].goal = p,
         BeginStart(c, p), StopsLast
  PROVE PinInv'
<1> DEFINE i == CHOOSE j \in Unused : TRUE
           b == [browser[i] EXCEPT !.phase = "checking", !.owner = p]
           d == [profile[p] EXCEPT !.start = i, !.lifecycle = "waking"]
<1>1. i \in Instances /\ browser[i].phase = "unused"
  BY DEF BeginStart, Unused
<1>2. /\ browser' = [browser EXCEPT ![i].phase = "checking", ![i].owner = p]
      /\ profile' = [profile EXCEPT ![p].start = i, ![p].lifecycle = "waking"]
      /\ call' = [call EXCEPT ![c] = Awaiting(c, i)]
  BY DEF BeginStart
<1> HIDE DEF i
<1>3. browser' = [browser EXCEPT ![i] = b] /\ profile' = [profile EXCEPT ![p] = d]
  BY <1>1, <1>2, Types DEF BrowserMap, ProfileMap, BrowserRecord, ProfileRecord
<1>4. /\ b.phase = "checking" /\ b.owner = p /\ b.panels = browser[i].panels
      /\ b.cleanup = browser[i].cleanup /\ b.retiring = browser[i].retiring
  BY <1>1, Types DEF BrowserRecord
<1>5. d.start = i /\ d.visible = profile[p].visible
  BY Types DEF ProfileRecord
<1>6. browser[i].cleanup = "none" /\ browser[i].retiring = "none"
  BY <1>1, Types DEF InstanceOK
<1> HIDE DEF b, d
<1>7. \A j \in Instances : browser'[j] = IF j = i THEN b ELSE browser[j]
  BY <1>1, <1>3, OneInstance
<1>8. \A q \in Profiles : profile'[q] = IF q = p THEN d ELSE profile[q]
  BY <1>3, OneProfile
<1>9. \A x \in Callers : call'[x] = IF x = c THEN Awaiting(c, i) ELSE call[x]
  BY <1>2, Types DEF CallMap
<1>10. \A q \in Profiles : profile[q].start # i
  BY <1>1, DisjointAssumption DEF PinInv, StartsOK, Callers
<1>11. ASSUME NEW q \in Profiles, q # p, profile'[q].start # None
       PROVE /\ profile'[q] = profile[q] /\ profile[q].start \in Instances
             /\ browser'[profile[q].start] = browser[profile[q].start]
  BY <1>7, <1>8, <1>10, <1>11, Types
<1>12. profile'[p].start = i /\ browser'[i] = b
  BY <1>1, <1>5, <1>7, <1>8
<1>13. StartsOK'
  <2> SUFFICES ASSUME NEW q \in Profiles, profile'[q].start # None
               PROVE LET j == profile'[q].start IN
                     /\ browser'[j].owner = q /\ browser'[j].phase # "unused"
                     /\ browser'[j].retiring = "none"
                     /\ Cleaned(browser'[j]) =>
                          \E s \in stops' : s.inst = j /\ s.stage = "cleaning"
    BY DEF StartsOK
  <2>1. CASE q = p
    BY <1>4, <1>6, <1>12, <2>1 DEF Cleaned
  <2>2. CASE q # p
    BY <1>11, <2>2 DEF PinInv, StartsOK, StopsLast
  <2> QED BY <2>1, <2>2
<1>14. ASSUME NEW x \in Callers, call'[x].pc = "awaiting"
       PROVE LET k == call'[x].inst
                 j == profile'[call'[x].goal].start IN
             /\ browser'[k].owner = call'[x].goal /\ browser'[k].phase # "unused"
             /\ browser'[k].phase = "held" /\ j # None /\ browser'[j].phase = "held" => k = j
  <2>1. CASE x = c
    <3>1. call'[x].inst = i /\ call'[x].goal = p
      BY <1>9, <2>1, AwaitingOf
    <3> QED BY <1>4, <1>12, <3>1
  <2>2. CASE x # c
    <3> DEFINE k == call[x].inst
               q == call[x].goal
    <3>1. call'[x] = call[x] /\ call[x].pc = "awaiting"
      BY <1>9, <1>14, <2>2
    <3>2. /\ k \in Instances /\ q \in Profiles
          /\ browser[k].owner = q /\ browser[k].phase # "unused"
          /\ browser[k].phase = "held" /\ profile[q].start # None
             /\ browser[profile[q].start].phase = "held" => k = profile[q].start
      BY <3>1, AwaitedIs DEF PinInv, AwaitsOK
    <3> HIDE DEF k, q
    <3>3. browser'[k] = browser[k]
      BY <1>1, <1>7, <3>2
    <3>4. CASE q = p
      BY <1>4, <1>12, <3>1, <3>2, <3>3, <3>4 DEF k, q
    <3>5. CASE q # p
      <4>1. profile'[q].start # None =>
              /\ profile'[q].start = profile[q].start
              /\ browser'[profile[q].start] = browser[profile[q].start]
        BY <1>11, <3>2, <3>5
      <4> QED BY <3>1, <3>2, <3>3, <4>1 DEF k, q
    <3> QED BY <3>4, <3>5
  <2> QED BY <2>1, <2>2
<1>15. AwaitsOK'
  BY <1>14 DEF AwaitsOK
<1>16. PanelsStayPinned'
  <2> SUFFICES ASSUME NEW q \in Profiles, profile'[q].start # None,
                      browser'[profile'[q].start].phase = "held",
                      NEW x \in profile'[q].visible, call'[x].unpin = None
               PROVE x \in browser'[profile'[q].start].panels
    BY DEF PanelsStayPinned
  <2>1. q # p
    BY <1>4, <1>12
  <2>2. x \in profile[q].visible /\ x \in Callers
    BY <1>11, <2>1, Types DEF ProfileRecord, Callers, Calls
  <2>3. call[x].unpin = None
    BY <1>9, <2>2, AwaitingOf
  <2> QED BY <1>11, <2>1, <2>2, <2>3 DEF PinInv, PanelsStayPinned
<1> QED BY <1>13, <1>15, <1>16 DEF PinInv

(* The entry of a profile goes; the others are as they were.                   *)
LEMMA EntryGoes ==
  ASSUME IInv, NEW p \in Profiles, NEW d, profile' = [profile EXCEPT ![p] = d],
         d.start = None, d.visible = profile[p].visible
  PROVE VisibleStay /\ \A q \in Profiles : profile'[q].start = IF q = p THEN None
                                                                ELSE profile[q].start
<1>1. \A q \in Profiles : profile'[q] = IF q = p THEN d ELSE profile[q]
  BY OneProfile
<1> QED BY <1>1 DEF VisibleStay

(* Nothing else than that happens.                                            *)
LEMMA EntryLost ==
  ASSUME IInv, PinInv, browser' = browser, StopsLast, AwaitsLast, VisibleStay, NEW p,
         \A q \in Profiles : profile'[q].start = IF q = p THEN None ELSE profile[q].start
  PROVE PinInv'
<1>1. ASSUME NEW q \in Profiles, profile'[q].start # None
      PROVE /\ browser'[profile[q].start].retiring = "none"
            /\ Cleaned(browser'[profile[q].start]) =>
                 \E s \in stops' : s.inst = profile[q].start /\ s.stage = "cleaning"
  <2>1. profile[q].start # None
    BY <1>1
  <2> QED BY <2>1 DEF PinInv, StartsOK, StopsLast
<1> QED BY <1>1, PinsStay

-----------------------------------------------------------------------------
(* The calls.                                                                *)

LEMMA ArrivesPins ==
  ASSUME IInv, PinInv, NEW c \in Callers, NEW p, call' = [call EXCEPT ![c] = Entry(c, p)],
         UNCHANGED <<browser, profile, stops>>
  PROVE PinInv'
<1>1. AwaitsLast
  BY NotAwaiting, OneAwaits
<1> QED BY <1>1, AllAlike, AllRegistered, AllLast, AlikeStays

LEMMA ThrowsPins ==
  ASSUME IInv, PinInv, NEW c \in Callers, NEW e, call' = [call EXCEPT ![c] = Thrown(c, e)],
         browser' = browser, StartsAlike, StopsLast
  PROVE PinInv'
<1>1. AwaitsLast
  BY NotAwaiting, OneAwaits
<1> QED BY <1>1, AllAlike, AlikeStays

LEMMA WaitsPins ==
  ASSUME IInv, PinInv, NEW c \in Callers, NEW x \in Pcs \ {"awaiting"},
         call' = [call EXCEPT ![c].pc = x], BrowsersAlike, StartsAlike, StopsLast
  PROVE PinInv'
<1> DEFINE r == [call[c] EXCEPT !.pc = x]
<1>1. r.pc # "awaiting" /\ r.unpin = call[c].unpin /\ call' = [call EXCEPT ![c] = r]
  BY NotAwaiting
<1> HIDE DEF r
<1>2. AwaitsLast
  BY <1>1, OneAwaits
<1> QED BY <1>2, AlikeStays

(* A call shares the start of its profile.                                    *)
LEMMA SharesPins ==
  ASSUME IInv, PinInv, NEW c \in Callers, NEW p \in Profiles, p = call[c].goal,
         profile[p].start # None, call' = [call EXCEPT ![c] = Awaiting(c, profile[p].start)],
         UNCHANGED <<browser, profile, stops>>
  PROVE PinInv'
<1>1. AwaitsLast
  <2> DEFINE r == Awaiting(c, profile[p].start)
  <2>1. /\ r.pc = "awaiting" /\ r.inst = profile[p].start /\ r.goal = p
        /\ r.unpin = call[c].unpin
    BY AwaitingOf
  <2>2. call' = [call EXCEPT ![c] = r]
    OBVIOUS
  <2> HIDE DEF r
  <2> QED BY <2>1, <2>2, OneAwaits
<1> QED BY <1>1, AllAlike, AllRegistered, AllLast, AlikeStays

LEMMA EnterPins ==
  ASSUME IInv, PinInv, NEW c \in Callers, Enter(c) PROVE PinInv'
<1> DEFINE p == call[c].goal
<1>1. p \in Profiles /\ call[c].pc = "entering"
  <2>1. call[c].pc = "entering" /\ CallOK(c, call[c], browser)
    BY Types DEF Enter, CanEnter
  <2> QED BY <2>1 DEF CallOK
<1>2. stops' = stops
  BY DEF Enter
<1>3. CASE /\ profile' = [profile EXCEPT ![p].failure = FALSE]
           /\ call' = [call EXCEPT ![c] = Thrown(c, "other")]
           /\ UNCHANGED <<browser, chain>>
  <2> DEFINE d == [profile[p] EXCEPT !.failure = FALSE]
  <2>1. profile' = [profile EXCEPT ![p] = d]
    BY <1>3
  <2>2. d.start = profile[p].start /\ d.visible = profile[p].visible
    BY <1>1, Types DEF ProfileRecord
  <2> HIDE DEF d, p
  <2>3. StartsAlike
    BY <1>1, <2>1, <2>2, OneRegistered
  <2> QED BY <1>2, <1>3, <2>3, AllLast, ThrowsPins DEF p
<1>4. CASE /\ profile[p].start # None
           /\ call' = [call EXCEPT ![c] = Awaiting(c, profile[p].start)]
           /\ UNCHANGED <<browser, profile, chain>>
  BY <1>1, <1>2, <1>4, SharesPins
<1>5. CASE BeginStart(c, p)
  BY <1>1, <1>2, <1>5, AllLast, StartPins
<1>6. CASE /\ call' = [call EXCEPT ![c].pc = "reserved"]
           /\ UNCHANGED <<browser, profile>>
  <2>1. "reserved" \in Pcs \ {"awaiting"}
    BY DEF Pcs
  <2> QED BY <1>2, <1>6, <2>1, AllAlike, AllRegistered, AllLast, WaitsPins
<1> QED BY <1>3, <1>4, <1>5, <1>6 DEF Enter

LEMMA ReservePins ==
  ASSUME IInv, PinInv, NEW c \in Callers, Reserve(c) PROVE PinInv'
<1> DEFINE p == call[c].goal
<1>1. p \in Profiles
  <2>1. call[c].pc = "reserved" /\ CallOK(c, call[c], browser)
    BY Types DEF Reserve, CanReserve
  <2> QED BY <2>1 DEF CallOK
<1>2. stops' = stops
  BY DEF Reserve
<1>3. CASE /\ profile[p].start # None
           /\ call' = [call EXCEPT ![c] = Awaiting(c, profile[p].start)]
           /\ UNCHANGED <<browser, profile, candidates>>
  BY <1>1, <1>2, <1>3, SharesPins
<1>4. CASE BeginStart(c, p)
  BY <1>1, <1>2, <1>4, AllLast, StartPins
<1>5. CASE /\ call' = [call EXCEPT ![c].pc = "choosing"]
           /\ UNCHANGED <<browser, profile, chain>>
  <2>1. "choosing" \in Pcs \ {"awaiting"}
    BY DEF Pcs
  <2> QED BY <1>2, <1>5, <2>1, AllAlike, AllRegistered, AllLast, WaitsPins
<1> QED BY <1>3, <1>4, <1>5 DEF Reserve

LEMMA ChoosePins ==
  ASSUME IInv, PinInv, NEW c \in Callers, Choose(c) PROVE PinInv'
<1>1. CASE /\ call' = [call EXCEPT ![c] = Thrown(c, "other")]
           /\ UNCHANGED <<browser, profile, stops>>
  BY <1>1, AllRegistered, AllLast, ThrowsPins
<1>2. CASE /\ ~\E i \in candidates : Rejected(i)
           /\ \E i \in Evictable : StopHeld(i, c)
           /\ call' = [call EXCEPT ![c].pc = "evicting"]
  <2>1. PICK i \in Evictable : StopHeld(i, c)
    BY <1>2
  <2>2. candidates \subseteq Instances /\ CanChoose(c)
    BY DEF IInv, Others, Choose
  <2>3. i \in Instances /\ browser[i].phase = "held"
    BY <1>2, <2>1, <2>2 DEF Evictable, CanChoose, StartSettled
  <2>4. "evicting" \in Pcs \ {"awaiting"}
    BY DEF Pcs
  <2>5. BrowsersAlike /\ StartsAlike /\ StopsLast
    BY <2>1, <2>3, StopAlike
  <2> QED BY <1>2, <2>4, <2>5, WaitsPins
<1> QED BY <1>1, <1>2 DEF Choose

LEMMA EvictedPins ==
  ASSUME IInv, PinInv, NEW c \in Callers, Evicted(c) PROVE PinInv'
<1> DEFINE p == call[c].goal
<1>1. p \in Profiles
  <2>1. call[c].pc = "evicting" /\ CallOK(c, call[c], browser)
    BY Types DEF Evicted
  <2> QED BY <2>1 DEF CallOK
<1>2. StopsLast
  BY DropsDone DEF Evicted
<1>3. CASE BeginStart(c, p)
  BY <1>1, <1>2, <1>3, StartPins
<1>4. CASE /\ call' = [call EXCEPT ![c] = Thrown(c, "other")]
           /\ UNCHANGED <<browser, profile>>
  BY <1>2, <1>4, AllRegistered, ThrowsPins
<1> QED BY <1>3, <1>4 DEF Evicted

(* A panel pins the instance it awaited: if another one is registered by now,    *)
(* it is not published.                                                      *)
LEMMA PanelPins ==
  ASSUME IInv, PinInv, NEW c \in Panels, NEW i \in Instances, NEW p \in Profiles,
         c \in Callers, call[c].pc = "awaiting", i = call[c].inst, p = call[c].goal,
         browser[i].phase = "held",
         browser' = [browser EXCEPT ![i] =
           NoteActivity([browser[i] EXCEPT !.panels = browser[i].panels \cup {c}])],
         profile' = [profile EXCEPT ![p].visible = @ \cup {c}],
         call' = [call EXCEPT ![c] = Settled(c)], stops' = stops
  PROVE PinInv'
<1> DEFINE b == [browser[i] EXCEPT !.panels = browser[i].panels \cup {c}]
           e == NoteActivity(b)
           d == [profile[p] EXCEPT !.visible = profile[p].visible \cup {c}]
<1>1. /\ e.phase = browser[i].phase /\ e.owner = browser[i].owner
      /\ e.cleanup = browser[i].cleanup /\ e.retiring = browser[i].retiring
      /\ e.panels = browser[i].panels \cup {c}
  <2>1. browser[i] \in BrowserRecord
    BY Types
  <2> QED BY <2>1 DEF NoteActivity, BrowserRecord
<1>2. d.start = profile[p].start /\ d.visible = profile[p].visible \cup {c}
  BY Types DEF ProfileRecord
<1>3. browser' = [browser EXCEPT ![i] = e] /\ profile' = [profile EXCEPT ![p] = d]
  OBVIOUS
<1> HIDE DEF b, e, d
<1>4. \A j \in Instances : browser'[j] = IF j = i THEN e ELSE browser[j]
  BY <1>3, OneInstance
<1>5. \A q \in Profiles : profile'[q] = IF q = p THEN d ELSE profile[q]
  BY <1>3, OneProfile
<1>6. \A j \in Instances :
        /\ browser'[j].phase = browser[j].phase /\ browser'[j].owner = browser[j].owner
        /\ browser'[j].cleanup = browser[j].cleanup /\ browser'[j].retiring = browser[j].retiring
  BY <1>1, <1>4
<1>7. \A q \in Profiles : profile'[q].start = profile[q].start
                          /\ profile[q].start \in Instances \cup {None}
  BY <1>2, <1>5, Types
<1>8. StartsOK'
  <2> SUFFICES ASSUME NEW q \in Profiles, profile'[q].start # None
               PROVE LET j == profile'[q].start IN
                     /\ browser'[j].owner = q /\ browser'[j].phase # "unused"
                     /\ browser'[j].retiring = "none"
                     /\ Cleaned(browser'[j]) =>
                          \E s \in stops' : s.inst = j /\ s.stage = "cleaning"
    BY DEF StartsOK
  <2> DEFINE j == profile[q].start
  <2>1. profile'[q].start = j /\ j \in Instances /\ j # None
    BY <1>7
  <2>2. /\ browser[j].owner = q /\ browser[j].phase # "unused"
        /\ browser[j].retiring = "none"
        /\ Cleaned(browser[j]) => \E s \in stops : s.inst = j /\ s.stage = "cleaning"
    BY <2>1 DEF PinInv, StartsOK
  <2> HIDE DEF j
  <2> QED BY <1>6, <2>1, <2>2 DEF Cleaned
<1>9. AwaitsOK'
  <2>1. ASSUME NEW x \in Callers, call'[x].pc = "awaiting"
        PROVE LET k == call'[x].inst
                  j == profile'[call'[x].goal].start IN
              /\ browser'[k].owner = call'[x].goal /\ browser'[k].phase # "unused"
              /\ browser'[k].phase = "held" /\ j # None /\ browser'[j].phase = "held" => k = j
    <3>1. x # c /\ call'[x] = call[x]
      BY <2>1, NotAwaiting, Types DEF CallMap
    <3> DEFINE k == call[x].inst
               q == call[x].goal
    <3>2. /\ k \in Instances /\ q \in Profiles
          /\ browser[k].owner = q /\ browser[k].phase # "unused"
          /\ browser[k].phase = "held" /\ profile[q].start # None
             /\ browser[profile[q].start].phase = "held" => k = profile[q].start
      BY <2>1, <3>1, AwaitedIs DEF PinInv, AwaitsOK
    <3>3. profile'[q].start = profile[q].start
          /\ (profile[q].start # None =>
                browser'[profile[q].start].phase = browser[profile[q].start].phase)
      BY <1>6, <1>7, <3>2
    <3>4. browser'[k].phase = browser[k].phase /\ browser'[k].owner = browser[k].owner
      BY <1>6, <3>2
    <3> HIDE DEF k, q
    <3> QED BY <3>1, <3>2, <3>3, <3>4 DEF k, q
  <2> QED BY <2>1 DEF AwaitsOK
<1>10. PanelsStayPinned'
  <2> SUFFICES ASSUME NEW q \in Profiles, profile'[q].start # None,
                      browser'[profile'[q].start].phase = "held",
                      NEW x \in profile'[q].visible, call'[x].unpin = None
               PROVE x \in browser'[profile'[q].start].panels
    BY DEF PanelsStayPinned
  <2> DEFINE j == profile[q].start
  <2>0. x \in profile[q].visible \/ (q = p /\ x = c)
    BY <1>2, <1>5
  <2>1. /\ profile'[q].start = j /\ j \in Instances /\ j # None /\ browser[j].phase = "held"
        /\ browser[j].owner = q
        /\ x \in profile[q].visible => x \in browser[j].panels
    <3>1. profile'[q].start = j /\ j \in Instances /\ j # None /\ browser[j].phase = "held"
      BY <1>6, <1>7
    <3>2. ASSUME x \in profile[q].visible PROVE call[x].unpin = None
      <4>1. x \in Callers
        BY <3>2, Types DEF ProfileRecord, Callers, Calls
      <4>2. call'[x] = IF x = c THEN Settled(c) ELSE call[x]
        BY <4>1, Types DEF CallMap
      <4> QED BY <4>2, NotAwaiting
    <3> QED BY <3>1, <3>2 DEF PinInv, PanelsStayPinned, StartsOK
  <2>2. CASE q = p
    <3>1. i = j
      BY <2>1, <2>2 DEF PinInv, AwaitsOK
    <3> HIDE DEF j
    <3> QED BY <1>1, <1>4, <2>0, <2>1, <3>1
  <2>3. CASE q # p
    <3>1. browser'[j].panels = browser[j].panels \/ browser'[j].panels = browser[j].panels \cup {c}
      BY <1>1, <1>4, <2>1
    <3> HIDE DEF j
    <3> QED BY <2>0, <2>1, <2>3, <3>1
  <2> QED BY <2>2, <2>3
<1> QED BY <1>8, <1>9, <1>10 DEF PinInv

LEMMA UsePins ==
  ASSUME IInv, PinInv, NEW c \in Callers, Use(c) PROVE PinInv'
<1> DEFINE i == call[c].inst
<1>1. /\ call[c].pc = "awaiting" /\ StartSettled(i) /\ stops' = stops
      /\ call[c] \in CallRecord /\ i \in Instances /\ call[c].goal \in Profiles
      /\ browser[i] \in BrowserRecord
  BY Types, AwaitedIs DEF Use, CanUse
<1>2. "using" \in Pcs \ {"awaiting"}
  BY DEF Pcs
<1>3. CASE /\ call' = [call EXCEPT ![c] =
                 Thrown(c, IF browser[i].phase = "repair" THEN "repair" ELSE "other")]
           /\ UNCHANGED <<browser, profile>>
  BY <1>1, <1>3, AllRegistered, AllLast, ThrowsPins
<1>4. CASE /\ browser' = [browser EXCEPT ![i] =
                            NoteActivity([browser[i] EXCEPT !.leases = browser[i].leases + 1])]
           /\ call' = [call EXCEPT ![c].pc = "using", ![c].original = i]
           /\ UNCHANGED profile
  <2> DEFINE b == [browser[i] EXCEPT !.leases = browser[i].leases + 1]
             r == [call[c] EXCEPT !.pc = "using", !.original = i]
  <2>1. Alike(browser[i], NoteActivity(b))
    BY <1>1 DEF Alike, NoteActivity, BrowserRecord
  <2>2. r.pc = "using" /\ r.unpin = call[c].unpin
    BY <1>1 DEF CallRecord
  <2>3. call' = [call EXCEPT ![c] = r]
    BY <1>1, <1>4, Types DEF CallMap, CallRecord
  <2>4. browser' = [browser EXCEPT ![i] = NoteActivity(b)]
    BY <1>4
  <2> HIDE DEF r, b
  <2>5. AwaitsLast
    BY <2>2, <2>3, OneAwaits
  <2>6. BrowsersAlike
    BY <1>1, <2>1, <2>4, OneAlike
  <2> QED BY <1>1, <1>4, <2>5, <2>6, AllRegistered, AllLast, AlikeStays
<1>5. CASE call' = [call EXCEPT ![c].pc = "using"] /\ UNCHANGED <<browser, profile>>
  BY <1>1, <1>2, <1>5, AllAlike, AllRegistered, AllLast, WaitsPins
<1>6. CASE /\ ~Rejected(i) /\ c \in Panels
           /\ browser' = [browser EXCEPT ![i] =
                NoteActivity([browser[i] EXCEPT !.panels = browser[i].panels \cup {c}])]
           /\ profile' = [profile EXCEPT ![call[c].goal].visible = @ \cup {c}]
           /\ call' = [call EXCEPT ![c] = Settled(c)]
  <2>1. browser[i].phase = "held"
    BY <1>1, <1>6 DEF StartSettled
  <2> QED BY <1>1, <1>6, <2>1, PanelPins
<1>7. CASE call' = [call EXCEPT ![c] = Settled(c)] /\ UNCHANGED <<browser, profile>>
  <2>1. AwaitsLast
    BY <1>7, NotAwaiting, OneAwaits
  <2> QED BY <1>1, <1>7, <2>1, AllAlike, AllRegistered, AllLast, AlikeStays
<1> QED BY <1>3, <1>4, <1>5, <1>6, <1>7 DEF Use

LEMMA FinishPins ==
  ASSUME IInv, PinInv, NEW c \in Callers, Finish(c) PROVE PinInv'
<1>1. PICK i \in {call[c].inst, call[c].original} :
        call' = [call EXCEPT ![c].pc = "ending", ![c].inst = i]
  BY DEF Finish
<1> DEFINE r == [call[c] EXCEPT !.pc = "ending", !.inst = i]
<1>2. call' = [call EXCEPT ![c] = r]
  BY <1>1, Types DEF CallMap, CallRecord
<1>3. r.pc = "ending" /\ r.unpin = call[c].unpin
  BY Types DEF CallRecord
<1> HIDE DEF r
<1>4. AwaitsLast
  BY <1>2, <1>3, OneAwaits
<1> QED BY <1>4, AllAlike, AllRegistered, AllLast, AlikeStays DEF Finish

LEMMA UserStopPins ==
  ASSUME IInv, PinInv, NEW c \in Callers, Unreachable(c) \/ Quarantine(c) PROVE PinInv'
<1>1. /\ call[c].pc = "using" /\ StopHeld(call[c].inst, c)
      /\ \E x \in {"abandoning", "quarantining"} : call' = [call EXCEPT ![c].pc = x]
  BY DEF Unreachable, Quarantine
<1>2. call[c].inst \in Instances /\ browser[call[c].inst].phase = "held"
  <2>1. CallOK(c, call[c], browser)
    BY Types
  <2> QED BY <1>1, <2>1 DEF CallOK, Held
<1>3. {"abandoning", "quarantining"} \subseteq Pcs \ {"awaiting"}
  BY DEF Pcs
<1>4. BrowsersAlike /\ StartsAlike /\ StopsLast
  BY <1>1, <1>2, StopAlike
<1> QED BY <1>1, <1>3, <1>4, WaitsPins

LEMMA StopOverPins ==
  ASSUME IInv, PinInv, NEW c \in Callers, Abandoned(c) \/ Quarantined(c) PROVE PinInv'
<1> DEFINE p == call[c].goal
           d == [profile[p] EXCEPT !.start = None]
<1>1. browser' = browser /\ StopsLast
  BY DropsDone DEF Abandoned, Quarantined
<1>2. AwaitsLast
  <2>1. CASE Abandoned(c)
    BY <2>1, NotAwaiting, OneAwaits DEF Abandoned
  <2>2. CASE Quarantined(c)
    BY <2>2, NotAwaiting, OneAwaits DEF Quarantined
  <2> QED BY <2>1, <2>2
<1>3. CASE profile' = profile
  BY <1>1, <1>2, <1>3, AllAlike, AllRegistered, AlikeStays
<1>4. CASE call[c].pc = "abandoning" /\ profile' = [profile EXCEPT ![p] = d]
  <2>1. p \in Profiles
    <3>1. CallOK(c, call[c], browser)
      BY Types
    <3> QED BY <1>4, <3>1 DEF CallOK
  <2>2. d.start = None /\ d.visible = profile[p].visible
    BY <2>1, Types DEF ProfileRecord
  <2> HIDE DEF p, d
  <2>3. VisibleStay /\ \A q \in Profiles : profile'[q].start = IF q = p THEN None
                                                                ELSE profile[q].start
    BY <1>4, <2>1, <2>2, EntryGoes
  <2> QED BY <1>1, <1>2, <2>3, EntryLost
<1> QED BY <1>3, <1>4 DEF Abandoned, Quarantined

LEMMA EndPins ==
  ASSUME IInv, PinInv, NEW c \in Callers, End(c) PROVE PinInv'
<1> DEFINE o == call[c].original
           i == call[c].inst
           p == call[c].goal
           freed == IF o = None THEN browser ELSE [browser EXCEPT ![o].leases = @ - 1]
<1>1. /\ call[c].pc = "ending" /\ call' = [call EXCEPT ![c] = Settled(c)] /\ stops' = stops
      /\ browser' = IF i = None THEN freed ELSE [freed EXCEPT ![i] = NoteActivity(@)]
  BY DEF End, CanEnd
<1>2. p \in Profiles /\ (o # None => o \in Instances) /\ (i # None => i \in Instances)
  <2>1. CallOK(c, call[c], browser)
    BY Types
  <2> QED BY <1>1, <2>1 DEF CallOK, Held
<1>3. AwaitsLast
  BY <1>1, NotAwaiting, OneAwaits
<1>4. StartsAlike
  <2>1. \/ profile' = profile
        \/ \E l : profile' = [profile EXCEPT ![p].lifecycle = l]
        \/ profile' = [profile EXCEPT ![p].failure = TRUE]
    BY DEF End
  <2>2. profile[p] \in ProfileRecord
    BY <1>2, Types
  <2>3. \A l : LET d == [profile[p] EXCEPT !.lifecycle = l]
               IN d.start = profile[p].start /\ d.visible = profile[p].visible
    BY <2>2 DEF ProfileRecord
  <2>4. LET d == [profile[p] EXCEPT !.failure = TRUE]
        IN d.start = profile[p].start /\ d.visible = profile[p].visible
    BY <2>2 DEF ProfileRecord
  <2> HIDE DEF p
  <2>5. CASE profile' = profile
    BY <2>5, AllRegistered
  <2>6. ASSUME NEW l, profile' = [profile EXCEPT ![p].lifecycle = l] PROVE StartsAlike
    <3> DEFINE d == [profile[p] EXCEPT !.lifecycle = l]
    <3>1. profile' = [profile EXCEPT ![p] = d] /\ d.start = profile[p].start
          /\ d.visible = profile[p].visible
      BY <2>3, <2>6
    <3> HIDE DEF d
    <3> QED BY <1>2, <3>1, OneRegistered
  <2>7. CASE profile' = [profile EXCEPT ![p].failure = TRUE]
    <3> DEFINE d == [profile[p] EXCEPT !.failure = TRUE]
    <3>1. profile' = [profile EXCEPT ![p] = d] /\ d.start = profile[p].start
          /\ d.visible = profile[p].visible
      BY <2>4, <2>7
    <3> HIDE DEF d
    <3> QED BY <1>2, <3>1, OneRegistered
  <2> QED BY <2>1, <2>5, <2>6, <2>7
<1>5. \A j \in Instances : freed[j] \in BrowserRecord /\ Alike(browser[j], freed[j])
      /\ freed \in BrowserMap
  <2>1. CASE o = None
    BY <2>1, Types DEF Alike
  <2>2. CASE o # None
    <3> DEFINE x == browser[o].leases - 1
               d == [browser[o] EXCEPT !.leases = x]
    <3>1. browser \in BrowserMap /\ browser[o] \in BrowserRecord /\ o \in Instances
      BY <1>2, <2>2, Types
    <3>2. x \in Nat
      <4>1. CallOK(c, call[c], browser)
        BY Types
      <4>2. c \in Scripts
        BY <2>2, <4>1 DEF CallOK
      <4> QED BY <3>1, <4>2, LeaseHeld DEF IInv
    <3>3. freed = [browser EXCEPT ![o] = d]
      BY <2>2
    <3> HIDE DEF x
    <3>4. d \in BrowserRecord /\ Alike(browser[o], d)
      BY <3>1, <3>2 DEF BrowserRecord, Alike
    <3> HIDE DEF d, freed, o
    <3>5. freed \in BrowserMap /\ \A j \in Instances : freed[j] = IF j = o THEN d ELSE browser[j]
      BY <3>1, <3>3, <3>4 DEF BrowserMap
    <3> QED BY <3>4, <3>5, Types DEF Alike
  <2> QED BY <2>1, <2>2
<1> HIDE DEF freed
<1>6. BrowsersAlike
  <2>1. CASE i = None
    BY <1>1, <1>5, <2>1 DEF BrowsersAlike
  <2>2. CASE i # None
    <3> DEFINE d == NoteActivity(freed[i])
    <3>1. freed[i] \in BrowserRecord /\ Alike(freed[i], d)
      BY <1>2, <1>5, <2>2, NotesAlike
    <3>2. browser' = [freed EXCEPT ![i] = d]
      BY <1>1, <2>2
    <3> HIDE DEF d
    <3>3. \A j \in Instances : browser'[j] = IF j = i THEN d ELSE freed[j]
      BY <1>5, <3>2 DEF BrowserMap
    <3> QED BY <1>5, <3>1, <3>3 DEF Alike, BrowsersAlike
  <2> QED BY <2>1, <2>2
<1> QED BY <1>1, <1>3, <1>4, <1>6, AllLast, AlikeStays

(* unpinPanel takes the panel off the profile ...                             *)
LEMMA UnpinPins ==
  ASSUME IInv, PinInv, NEW c \in Panels, Unpin(c) PROVE PinInv'
<1> DEFINE p == call[c].goal
           x == IF profile[p].start = None THEN "done" ELSE profile[p].start
           v == profile[p].visible \ {c}
           d == [profile[p] EXCEPT !.visible = v]
<1>1. /\ c \in Callers /\ call' = [call EXCEPT ![c].unpin = x] /\ x # None
      /\ profile' = [profile EXCEPT ![p] = d] /\ UNCHANGED <<browser, stops>>
  BY DisjointAssumption DEF Unpin, Callers, Calls
<1>2. p \in Profiles
  <2>1. call[c].pc # "idle" /\ CallOK(c, call[c], browser) /\ c \in Calls
    BY <1>1, Types DEF Unpin, Calls
  <2> QED BY <2>1 DEF CallOK
<1>3. d.start = profile[p].start /\ d.visible = v
  BY <1>2, Types DEF ProfileRecord
<1>4. \A q \in Profiles : profile'[q] = IF q = p THEN d ELSE profile[q]
  <2> HIDE DEF p, d
  <2> QED BY <1>1, <1>2, OneProfile
<1>5. StartsAlike
  BY <1>3, <1>4 DEF StartsAlike, VisibleStay
<1> HIDE DEF x
<1>6. AwaitsLast
  <2> DEFINE r == [call[c] EXCEPT !.unpin = x]
  <2>1. call[c] \in CallRecord /\ call \in CallMap
    BY <1>1, Types
  <2>2. r.unpin = x /\ r.pc = call[c].pc /\ r.goal = call[c].goal /\ r.inst = call[c].inst
    BY <2>1 DEF CallRecord
  <2>3. call' = [call EXCEPT ![c] = r]
    BY <1>1
  <2> HIDE DEF r
  <2>4. \A y \in Callers : call'[y] = IF y = c THEN r ELSE call[y]
    BY <2>1, <2>3 DEF CallMap
  <2> QED BY <1>1, <2>2, <2>4 DEF AwaitsLast
<1> QED BY <1>1, <1>5, <1>6, AllAlike, AllLast, AlikeStays

(* ... and off the instance it awaited.                                       *)
LEMMA UnpinnedPins ==
  ASSUME IInv, PinInv, NEW c \in Panels, Unpinned(c) PROVE PinInv'
<1> DEFINE i == call[c].unpin
           b == [browser[i] EXCEPT !.panels = browser[i].panels \ {c}]
           e == NoteActivity(b)
           r == [call[c] EXCEPT !.unpin = "done"]
<1>1. /\ c \in Callers /\ i \in Instances /\ call' = [call EXCEPT ![c].unpin = "done"]
      /\ UNCHANGED <<profile, stops>>
      /\ browser' = browser \/ browser' = [browser EXCEPT ![i] = e]
  BY DEF Unpinned, CanUnpin, Callers, Calls
<1>2. /\ e.phase = browser[i].phase /\ e.owner = browser[i].owner
      /\ e.cleanup = browser[i].cleanup /\ e.retiring = browser[i].retiring
      /\ e.panels = browser[i].panels \ {c}
  <2>1. browser[i] \in BrowserRecord
    BY <1>1, Types
  <2> QED BY <2>1 DEF NoteActivity, BrowserRecord
<1>3. \A y \in Callers : call'[y] = IF y = c THEN r ELSE call[y]
  BY <1>1, Types DEF CallMap
<1>4. r.unpin = "done" /\ r.pc = call[c].pc /\ r.goal = call[c].goal /\ r.inst = call[c].inst
  BY <1>1, Types DEF CallRecord
<1> HIDE DEF b, e, r
<1>5. call'[c].unpin # None
  BY <1>1, <1>3, <1>4, DisjointAssumption
<1>6. AwaitsLast
  BY <1>3, <1>4, <1>5 DEF AwaitsLast
<1>7. ASSUME NEW j \in Instances
      PROVE /\ browser'[j].phase = browser[j].phase /\ browser'[j].owner = browser[j].owner
            /\ browser'[j].cleanup = browser[j].cleanup
            /\ browser'[j].retiring = browser[j].retiring
            /\ browser[j].panels \ browser'[j].panels \subseteq {c}
  <2> HIDE DEF i
  <2>1. browser'[j] = browser[j] \/ (j = i /\ browser'[j] = e)
    BY <1>1, Types DEF BrowserMap
  <2> QED BY <1>2, <2>1
<1>8. ASSUME NEW p \in Profiles, profile'[p].start # None
      PROVE /\ browser'[profile[p].start].retiring = "none"
            /\ Cleaned(browser'[profile[p].start]) =>
                 \E s \in stops' : s.inst = profile[p].start /\ s.stage = "cleaning"
  <2> DEFINE j == profile[p].start
  <2>1. j \in Instances /\ j # None
    BY <1>1, <1>8, Types
  <2>2. /\ browser[j].retiring = "none"
        /\ Cleaned(browser[j]) => \E s \in stops : s.inst = j /\ s.stage = "cleaning"
    BY <2>1 DEF PinInv, StartsOK
  <2> HIDE DEF j
  <2>3. browser'[j].retiring = "none" /\ Cleaned(browser'[j]) = Cleaned(browser[j])
    BY <1>7, <2>1, <2>2 DEF Cleaned
  <2> QED BY <1>1, <2>2, <2>3 DEF j
<1>9. VisibleStay /\ \A p \in Profiles : profile'[p].start \in {None, profile[p].start}
  BY <1>1 DEF VisibleStay
<1> QED BY <1>5, <1>6, <1>7, <1>8, <1>9, PinsStay

-----------------------------------------------------------------------------
(* Launching.                                                                *)

(* One instance that is not registered as cleaned up changes before it is     *)
(* published, or its profile's entry goes.                                    *)
LEMMA InstancePins ==
  ASSUME IInv, PinInv, NEW i \in Instances, NEW d, browser' = [browser EXCEPT ![i] = d],
         d.owner = browser[i].owner, d.panels = browser[i].panels,
         browser[i].phase # "unused" => d.phase # "unused",
         d.phase = "held" => browser[i].phase = "held",
         \/ d.retiring = browser[i].retiring
            /\ (Cleaned(d) => Cleaned(browser[i]))
         \/ \A p \in Profiles : profile'[p].start # i,
         VisibleStay, AwaitsLast, StopsLast,
         \A p \in Profiles : profile'[p].start \in {None, profile[p].start}
  PROVE PinInv'
<1>1. \A j \in Instances : browser'[j] = IF j = i THEN d ELSE browser[j]
  BY OneInstance
<1>2. \A j \in Instances :
        /\ browser'[j].owner = browser[j].owner /\ browser'[j].panels = browser[j].panels
        /\ browser[j].phase # "unused" => browser'[j].phase # "unused"
        /\ browser'[j].phase = "held" => browser[j].phase = "held"
  BY <1>1
<1>3. ASSUME NEW p \in Profiles, profile'[p].start # None
      PROVE /\ browser'[profile[p].start].retiring = "none"
            /\ Cleaned(browser'[profile[p].start]) =>
                 \E s \in stops' : s.inst = profile[p].start /\ s.stage = "cleaning"
  <2> DEFINE j == profile[p].start
  <2>1. profile'[p].start = j /\ j \in Instances /\ j # None
    BY <1>3, Types
  <2>2. /\ browser[j].retiring = "none"
        /\ Cleaned(browser[j]) => \E s \in stops' : s.inst = j /\ s.stage = "cleaning"
    BY <2>1 DEF PinInv, StartsOK, StopsLast
  <2> HIDE DEF j
  <2>3. CASE j = i
    BY <1>1, <2>1, <2>2, <2>3
  <2>4. CASE j # i
    BY <1>1, <2>1, <2>2, <2>4
  <2> QED BY <2>3, <2>4 DEF j
<1> QED BY <1>2, <1>3, PinsStay

(* Before it is published, only the phase and the process of an instance change. *)
LEMMA PhasePins ==
  ASSUME IInv, PinInv, NEW i \in Instances, NEW ph \in Phases \ {"unused", "held"}, NEW a,
         browser' = [browser EXCEPT ![i].phase = ph, ![i].alive = a],
         VisibleStay, UNCHANGED <<call, stops>>,
         \A p \in Profiles : profile'[p].start \in {None, profile[p].start}
  PROVE PinInv'
<1> DEFINE d == [browser[i] EXCEPT !.phase = ph, !.alive = a]
<1>1. browser[i] \in BrowserRecord /\ browser \in BrowserMap
  BY Types
<1>2. browser' = [browser EXCEPT ![i] = d]
  BY <1>1 DEF BrowserMap, BrowserRecord
<1>3. /\ d.phase = ph /\ d.owner = browser[i].owner /\ d.panels = browser[i].panels
      /\ d.retiring = browser[i].retiring /\ d.cleanup = browser[i].cleanup
  BY <1>1 DEF BrowserRecord
<1> HIDE DEF d
<1>4. AwaitsLast /\ StopsLast
  BY AllAwait, AllLast
<1> QED BY <1>2, <1>3, <1>4, InstancePins DEF Cleaned

LEMMA ProfileFields ==
  ASSUME IInv, NEW p \in Profiles, NEW f \in {"lock", "lifecycle", "failure", "crashes"}, NEW v,
         profile' = [profile EXCEPT ![p] = [profile[p] EXCEPT ![f] = v]]
  PROVE StartsAlike
<1> DEFINE d == [profile[p] EXCEPT ![f] = v]
<1>1. d.start = profile[p].start /\ d.visible = profile[p].visible
  BY Types DEF ProfileRecord
<1>2. profile' = [profile EXCEPT ![p] = d]
  OBVIOUS
<1> HIDE DEF d
<1> QED BY <1>1, <1>2, OneRegistered

(* failedStart: the entry of the profile goes.                                *)
LEMMA FailPins ==
  ASSUME IInv, PinInv, NEW i \in Instances, browser[i].phase # "unused",
         NEW ph \in {"failed", "repair"}, FailedStart(i, ph), UNCHANGED <<call, stops>>
  PROVE PinInv'
<1> DEFINE p == browser[i].owner
           l == IF ph = "repair" THEN "repair-required" ELSE "sleeping"
           d == [profile[p] EXCEPT !.start = None, !.lifecycle = l]
<1>1. p \in Profiles /\ profile[p] \in ProfileRecord /\ profile \in ProfileMap
  <2>1. InstanceOK(i, browser[i], profile)
    BY Types
  <2>2. p \in Profiles
    BY <2>1 DEF InstanceOK
  <2> QED BY <2>2, Types
<1>2. /\ browser' = [browser EXCEPT ![i].phase = ph]
      /\ profile' = [profile EXCEPT ![p].start = None, ![p].lifecycle = l]
  BY DEF FailedStart
<1>3. browser' = [browser EXCEPT ![i].phase = ph, ![i].alive = browser[i].alive]
  BY <1>2, Types, PhaseIs
<1> HIDE DEF p, l
<1>4. profile' = [profile EXCEPT ![p] = d]
  BY <1>1, <1>2 DEF ProfileMap, ProfileRecord
<1>5. d.start = None /\ d.visible = profile[p].visible
  BY <1>1 DEF ProfileRecord
<1> HIDE DEF d
<1>6. \A q \in Profiles : profile'[q] = IF q = p THEN d ELSE profile[q]
  BY <1>1, <1>4, OneProfile
<1>7. VisibleStay /\ \A q \in Profiles : profile'[q].start \in {None, profile[q].start}
  BY <1>5, <1>6 DEF VisibleStay
<1>8. ph \in Phases \ {"unused", "held"}
  BY DEF Phases
<1> QED BY <1>3, <1>7, <1>8, PhasePins

(* publishRunningBrowser: nothing is Ready, so whoever awaits another instance of *)
(* the profile awaits one that has not settled, and what is registered instead  *)
(* of this one is not published, since its lock would still be there.           *)
LEMMA PublishPins ==
  ASSUME IInv, PinInv, NEW i \in Instances, Publish(i), ~Ready
  PROVE PinInv'
<1> DEFINE p == browser[i].owner
           b == [browser[i] EXCEPT !.phase = "held", !.panels = profile[p].visible]
           e == NoteActivity(b)
           d == [profile[p] EXCEPT !.lifecycle = "running"]
<1>1. /\ browser[i].phase = "starting" /\ browser' = [browser EXCEPT ![i] = e]
      /\ profile' = [profile EXCEPT ![p].lifecycle = "running"]
      /\ UNCHANGED <<call, stops>>
  BY DEF Publish, LaunchUnchanged
<1>2. p \in Profiles /\ profile[p].lock = i
  <2>1. InstanceOK(i, browser[i], profile)
    BY Types
  <2> QED BY <1>1, <2>1 DEF InstanceOK
<1>3. /\ e.phase = "held" /\ e.owner = p /\ e.panels = profile[p].visible
      /\ e.cleanup = browser[i].cleanup /\ e.retiring = browser[i].retiring
  <2>1. browser[i] \in BrowserRecord
    BY Types
  <2> QED BY <2>1 DEF NoteActivity, BrowserRecord
<1>4. d.start = profile[p].start /\ d.visible = profile[p].visible
  BY <1>2, Types DEF ProfileRecord
<1>5. profile' = [profile EXCEPT ![p] = d]
  BY <1>1
<1> HIDE DEF b, e, d
<1>6. \A j \in Instances : browser'[j] = IF j = i THEN e ELSE browser[j]
  BY <1>1, OneInstance
<1>8. \A q \in Profiles : /\ profile'[q].start = profile[q].start
                          /\ profile'[q].visible = profile[q].visible
                          /\ profile[q].start \in Instances \cup {None}
  <2> HIDE DEF p
  <2> QED BY <1>2, <1>4, <1>5, OneProfile, Types
<1>9. profile[p].start # None /\ browser[profile[p].start].phase = "held" => FALSE
  <2> DEFINE j == profile[p].start
  <2> SUFFICES ASSUME j # None, browser[j].phase = "held" PROVE FALSE
    OBVIOUS
  <2>1. j \in Instances /\ browser[j].owner = p /\ j # i
    BY <1>1, <1>2, Types DEF PinInv, StartsOK
  <2>2. browser[j].cleanup \notin {"none", "running"}
    <3> HIDE DEF j
    <3>1. InstanceOK(j, browser[j], profile)
      BY <2>1, Types
    <3> QED BY <1>2, <2>1, <3>1 DEF InstanceOK
  <2>3. PICK s \in stops : s.inst = j /\ s.stage = "cleaning"
    BY <1>2, <2>2 DEF PinInv, StartsOK, Cleaned
  <2>4. CleanupSettled(j)
    <3> HIDE DEF j
    <3>1. browser[j] \in BrowserRecord
      BY <2>1, Types
    <3> QED BY <2>2, <3>1 DEF CleanupSettled, BrowserRecord
  <2>5. CanFinishStop(s)
    BY <2>3, <2>4 DEF CanFinishStop
  <2> QED BY <2>5 DEF Ready
<1>10. StartsOK'
  <2> SUFFICES ASSUME NEW q \in Profiles, profile'[q].start # None
               PROVE LET j == profile'[q].start IN
                     /\ browser'[j].owner = q /\ browser'[j].phase # "unused"
                     /\ browser'[j].retiring = "none"
                     /\ Cleaned(browser'[j]) =>
                          \E s \in stops' : s.inst = j /\ s.stage = "cleaning"
    BY DEF StartsOK
  <2> DEFINE j == profile[q].start
  <2>1. profile'[q].start = j /\ j \in Instances /\ j # None
    BY <1>8
  <2>2. /\ browser[j].owner = q /\ browser[j].phase # "unused"
        /\ browser[j].retiring = "none"
        /\ Cleaned(browser[j]) => \E s \in stops : s.inst = j /\ s.stage = "cleaning"
    BY <2>1 DEF PinInv, StartsOK
  <2>3. /\ browser'[j].owner = browser[j].owner /\ browser'[j].cleanup = browser[j].cleanup
        /\ browser'[j].retiring = browser[j].retiring
        /\ browser'[j].phase = IF j = i THEN "held" ELSE browser[j].phase
    BY <1>3, <1>6, <2>1
  <2>4. browser[i].cleanup = "none"
    BY <1>1, Types DEF InstanceOK
  <2> HIDE DEF j
  <2>5. Cleaned(browser'[j]) => Cleaned(browser[j])
    BY <2>3, <2>4 DEF Cleaned
  <2>6. browser'[j].phase # "unused"
    BY <2>2, <2>3
  <2> QED BY <1>1, <2>1, <2>2, <2>3, <2>5, <2>6
<1>11. AwaitsOK'
  <2>1. ASSUME NEW x \in Callers, call'[x].pc = "awaiting"
        PROVE LET k == call'[x].inst
                  j == profile'[call'[x].goal].start IN
              /\ browser'[k].owner = call'[x].goal /\ browser'[k].phase # "unused"
              /\ browser'[k].phase = "held" /\ j # None /\ browser'[j].phase = "held" => k = j
    <3> DEFINE k == call[x].inst
               q == call[x].goal
               j == profile[q].start
    <3>1. call' = call /\ call[x].pc = "awaiting"
      BY <1>1, <2>1
    <3>2. /\ k \in Instances /\ q \in Profiles
          /\ browser[k].owner = q /\ browser[k].phase # "unused"
      BY <3>1, AwaitedIs DEF PinInv, AwaitsOK
    <3>3. profile'[q].start = j /\ j \in Instances \cup {None}
      BY <1>8, <3>2
    <3>4. browser[k].phase # "held"
      <4>1. ~CanUse(x) /\ ~CanUnpin(x)
        BY DEF Ready
      <4> QED BY <3>1, <3>2, <4>1 DEF CanUse, CanUnpin, StartSettled
    <3>5. j # None => browser[j].owner = q
      BY <3>2 DEF PinInv, StartsOK
    <3>6. q = p => ~(j # None /\ browser[j].phase = "held")
      BY <1>9
    <3> HIDE DEF k, q, j
    <3>7. browser'[k].owner = q /\ browser'[k].phase # "unused"
      BY <1>3, <1>6, <3>2
    <3>8. ASSUME browser'[k].phase = "held", j # None, browser'[j].phase = "held" PROVE k = j
      <4>1. k = i /\ q = p
        BY <1>6, <3>2, <3>4, <3>8
      <4>2. browser[j].phase # "held" /\ j \in Instances
        BY <3>3, <3>6, <3>8, <4>1
      <4> QED BY <1>6, <3>8, <4>1, <4>2
    <3> QED BY <3>1, <3>3, <3>7, <3>8 DEF k, q
  <2> QED BY <2>1 DEF AwaitsOK
<1>12. PanelsStayPinned'
  <2> SUFFICES ASSUME NEW q \in Profiles, profile'[q].start # None,
                      browser'[profile'[q].start].phase = "held",
                      NEW x \in profile'[q].visible, call'[x].unpin = None
               PROVE x \in browser'[profile'[q].start].panels
    BY DEF PanelsStayPinned
  <2> DEFINE j == profile[q].start
  <2>1. /\ profile'[q].start = j /\ j \in Instances /\ j # None
        /\ profile'[q].visible = profile[q].visible
    BY <1>8
  <2>2. browser[j].owner = q /\ browser'[j].phase = "held"
    BY <2>1 DEF PinInv, StartsOK
  <2>3. browser[j].phase = "held" => x \in browser[j].panels
    BY <1>1, <2>1 DEF PinInv, PanelsStayPinned
  <2> HIDE DEF j
  <2>4. CASE j = i
    BY <1>3, <1>6, <2>1, <2>2, <2>4
  <2>5. CASE j # i
    BY <1>6, <2>1, <2>2, <2>3, <2>5
  <2> QED BY <2>4, <2>5
<1> QED BY <1>10, <1>11, <1>12 DEF PinInv

(* The other steps of a launch.                                              *)
LEMMA LaunchPins ==
  ASSUME IInv, PinInv, NEW i \in Instances,
         \/ CheckCrashes(i) \/ AcquireLock(i) \/ Spawn(i) \/ AbortLaunch(i)
         \/ AbortedProcessEnds(i) \/ AbortedLockReleased(i) \/ Aborted(i)
  PROVE PinInv'
<1> DEFINE p == browser[i].owner
<1>1. browser[i].phase # "unused" /\ UNCHANGED <<call, stops>> /\ browser \in BrowserMap
  BY Types DEF CheckCrashes, AcquireLock, Spawn, AbortLaunch, AbortedProcessEnds,
     AbortedLockReleased, Aborted, LaunchUnchanged
<1>2. p \in Profiles
  <2>1. InstanceOK(i, browser[i], profile)
    BY Types
  <2> QED BY <1>1, <2>1 DEF InstanceOK
<1>3. ASSUME NEW ph \in {"failed", "repair"}, FailedStart(i, ph) PROVE PinInv'
  BY <1>1, <1>3, FailPins
<1>4. ASSUME NEW ph \in {"locking", "spawning", "starting", "aborting"}, NEW a,
             browser' = [browser EXCEPT ![i].phase = ph, ![i].alive = a], StartsAlike
      PROVE PinInv'
  <2>1. ph \in Phases \ {"unused", "held"}
    BY DEF Phases
  <2> QED BY <1>1, <1>4, <2>1, PhasePins DEF StartsAlike
<1>5. ASSUME NEW ph \in {"locking", "spawning", "starting", "aborting"},
             browser' = [browser EXCEPT ![i].phase = ph], StartsAlike
      PROVE PinInv'
  <2>1. browser' = [browser EXCEPT ![i].phase = ph, ![i].alive = browser[i].alive]
    BY <1>1, <1>5, PhaseIs
  <2> QED BY <1>4, <1>5, <2>1
<1>6. ASSUME NEW l, profile' = [profile EXCEPT ![p].lock = l] PROVE StartsAlike
  <2>1. profile' = [profile EXCEPT ![p] = [profile[p] EXCEPT !["lock"] = l]]
    BY <1>6
  <2> HIDE DEF p
  <2> QED BY <1>2, <2>1, ProfileFields
<1>7. CASE CheckCrashes(i)
  BY <1>3, <1>5, <1>7, AllRegistered DEF CheckCrashes
<1>8. CASE AcquireLock(i)
  BY <1>3, <1>5, <1>6, <1>8 DEF AcquireLock
<1>9. CASE Spawn(i)
  BY <1>4, <1>9, AllRegistered DEF Spawn
<1>10. CASE AbortLaunch(i)
  BY <1>5, <1>10, AllRegistered DEF AbortLaunch
<1>11. CASE AbortedProcessEnds(i)
  <2>1. /\ UNCHANGED profile
        /\ \A j \in Instances :
             \/ browser'[j] = [browser[j] EXCEPT !.alive = FALSE, !.ended = TRUE]
             \/ browser'[j] = [browser[j] EXCEPT !.alive = FALSE]
             \/ browser'[j] = browser[j]
    BY <1>11 DEF AbortedProcessEnds
  <2>2. ASSUME NEW j \in Instances PROVE Alike(browser[j], browser'[j])
    <3>1. browser[j] \in BrowserRecord
      BY Types
    <3> QED BY <2>1, <3>1 DEF Alike, BrowserRecord
  <2>3. BrowsersAlike
    BY <2>2 DEF BrowsersAlike
  <2> QED BY <1>1, <2>1, <2>3, AllRegistered, AllLast, AllAwait, AlikeStays
<1>12. CASE AbortedLockReleased(i)
  <2>1. StartsAlike
    BY <1>6, <1>12, AllRegistered DEF AbortedLockReleased
  <2>2. PICK x \in {"done", "failed"} : browser' = [browser EXCEPT ![i].cleanup = x]
    BY <1>12 DEF AbortedLockReleased
  <2> DEFINE d == [browser[i] EXCEPT !.cleanup = x]
  <2>3. browser' = [browser EXCEPT ![i] = d]
    BY <2>2
  <2>4. /\ d.owner = browser[i].owner /\ d.panels = browser[i].panels
        /\ d.retiring = browser[i].retiring /\ d.phase = "aborting"
    BY <1>12, Types DEF BrowserRecord, AbortedLockReleased
  <2> HIDE DEF d
  <2>5. AwaitsLast /\ StopsLast
    BY <1>1, AllAwait, AllLast
  <2>6. VisibleStay /\ \A q \in Profiles : profile'[q].start \in {None, profile[q].start}
    BY <2>1 DEF StartsAlike
  <2> QED BY <2>3, <2>4, <2>5, <2>6, InstancePins DEF Cleaned
<1>13. CASE Aborted(i)
  BY <1>3, <1>13 DEF Aborted
<1> QED BY <1>7, <1>8, <1>9, <1>10, <1>11, <1>12, <1>13

-----------------------------------------------------------------------------
(* The end of an instance.                                                    *)

LEMMA BegunKeeps ==
  ASSUME NEW b \in BrowserRecord
  PROVE LET d == CleanupBegun(b)
        IN /\ d \in BrowserRecord /\ d.phase = b.phase /\ d.owner = b.owner
           /\ d.panels = b.panels /\ d.retiring = b.retiring
  BY DEF CleanupBegun, BrowserRecord

LEMMA NoticeExitPins ==
  ASSUME IInv, PinInv, NEW i \in Instances, NoticeExit(i) PROVE PinInv'
<1> DEFINE b == browser[i]
           p == b.owner
           o == [profile[p] EXCEPT !.start = None, !.retirement = i]
<1>1. /\ b.phase = "held" /\ stops' = stops
      /\ profile' = [profile EXCEPT ![p].start = None, ![p].retirement = i]
  BY DEF NoticeExit
<1>2. p \in Profiles /\ b \in BrowserRecord /\ browser \in BrowserMap
  <2>1. InstanceOK(i, b, profile)
    BY Types
  <2> QED BY <1>1, <2>1, Types DEF InstanceOK
<1>3. profile[p] \in ProfileRecord /\ profile \in ProfileMap
  <2> HIDE DEF p
  <2> QED BY <1>2, Types
<1>4. profile' = [profile EXCEPT ![p] = o] /\ o.start = None /\ o.visible = profile[p].visible
  <2> HIDE DEF p
  <2> QED BY <1>1, <1>2, <1>3 DEF ProfileMap, ProfileRecord
<1>5. VisibleStay /\ \A q \in Profiles : profile'[q].start = IF q = p THEN None
                                                              ELSE profile[q].start
  <2> HIDE DEF p, o
  <2> QED BY <1>2, <1>4, EntryGoes
<1>6. \A q \in Profiles : profile'[q].start # i
  <2> SUFFICES ASSUME NEW q \in Profiles, profile'[q].start = i PROVE FALSE
    OBVIOUS
  <2>1. i # None
    BY DisjointAssumption DEF Callers
  <2>2. q # p /\ profile[q].start = i
    BY <1>5, <2>1
  <2> QED BY <2>1, <2>2 DEF PinInv, StartsOK
<1>7. StopsLast
  BY <1>1, AllLast
<1>8. AwaitsLast
  <2>1. i \in Callers
    BY DEF Callers
  <2>2. CASE call' = [call EXCEPT ![i].pc = "restart"]
    <3> DEFINE r == [call[i] EXCEPT !.pc = "restart"]
    <3>1. call' = [call EXCEPT ![i] = r]
      BY <2>2
    <3>2. r.pc = "restart" /\ r.unpin = call[i].unpin
      BY <2>1, Types DEF CallRecord
    <3> HIDE DEF r
    <3> QED BY <2>1, <3>1, <3>2, OneAwaits
  <2> QED BY <2>2, AllAwait DEF NoticeExit
<1>9. PICK d : /\ browser' = [browser EXCEPT ![i] = d] /\ d.owner = b.owner
               /\ d.panels = b.panels /\ d.phase = b.phase
  <2>1. CASE b.asked
    <3> DEFINE e == [b EXCEPT !.timer = FALSE, !.retiring = "cleaning"]
    <3> DEFINE d == CleanupBegun(e)
    <3>1. browser' = [browser EXCEPT ![i] = d]
      BY <2>1 DEF NoticeExit
    <3>2. e \in BrowserRecord /\ e.owner = b.owner /\ e.panels = b.panels /\ e.phase = b.phase
      BY <1>2 DEF BrowserRecord
    <3> HIDE DEF e
    <3>3. d.owner = b.owner /\ d.panels = b.panels /\ d.phase = b.phase
      BY <3>2, BegunKeeps
    <3> HIDE DEF d
    <3> QED BY <3>1, <3>3
  <2>2. CASE ~b.asked
    <3> DEFINE d == [b EXCEPT !.timer = FALSE, !.retiring = "recording"]
    <3>1. browser' = [browser EXCEPT ![i].timer = FALSE, ![i].retiring = "recording"]
      BY <2>2 DEF NoticeExit
    <3>2. browser' = [browser EXCEPT ![i] = d]
      BY <1>2, <3>1 DEF BrowserMap, BrowserRecord
    <3>3. d.owner = b.owner /\ d.panels = b.panels /\ d.phase = b.phase
      BY <1>2 DEF BrowserRecord
    <3> HIDE DEF d
    <3> QED BY <3>2, <3>3
  <2> QED BY <2>1, <2>2
<1>10. \A q \in Profiles : profile'[q].start \in {None, profile[q].start}
  BY <1>5
<1> QED BY <1>1, <1>5, <1>6, <1>7, <1>8, <1>9, <1>10, InstancePins

(* An instance that retires is not registered any more.                        *)
LEMMA RetiringPins ==
  ASSUME IInv, PinInv, NEW i \in Instances, browser[i].retiring # "none",
         NEW d, browser' = [browser EXCEPT ![i] = d],
         d.owner = browser[i].owner, d.panels = browser[i].panels, d.phase = browser[i].phase,
         StartsAlike, UNCHANGED <<call, stops>>
  PROVE PinInv'
<1>1. \A p \in Profiles : profile'[p].start # i
  <2> SUFFICES ASSUME NEW p \in Profiles, profile'[p].start = i PROVE FALSE
    OBVIOUS
  <2>1. i # None
    BY DisjointAssumption DEF Callers
  <2>2. profile[p].start = i
    BY DEF StartsAlike
  <2> QED BY <2>1, <2>2 DEF PinInv, StartsOK
<1>2. AwaitsLast /\ StopsLast
  BY AllAwait, AllLast
<1>3. VisibleStay /\ \A p \in Profiles : profile'[p].start \in {None, profile[p].start}
  BY DEF StartsAlike
<1> QED BY <1>1, <1>2, <1>3, InstancePins

LEMMA RecordCrashPins ==
  ASSUME IInv, PinInv, NEW i \in Instances, RecordCrash(i) PROVE PinInv'
<1> DEFINE b == browser[i]
           p == b.owner
<1>1. b.retiring = "recording" /\ UNCHANGED <<call, stops>>
  BY DEF RecordCrash
<1>2. p \in Profiles /\ b \in BrowserRecord
  <2>1. InstanceOK(i, b, profile)
    BY Types
  <2> QED BY <1>1, <2>1, Types DEF InstanceOK
<1>3. profile[p] \in ProfileRecord /\ profile \in ProfileMap
  <2> HIDE DEF p
  <2> QED BY <1>2, Types
<1>4. StartsAlike
  <2>1. CASE profile' = [profile EXCEPT ![p].crashes = @ + 1]
    <3> DEFINE n == profile[p].crashes + 1
    <3>1. profile' = [profile EXCEPT ![p] = [profile[p] EXCEPT !["crashes"] = n]]
      BY <2>1
    <3> HIDE DEF p, n
    <3> QED BY <1>2, <3>1, ProfileFields
  <2>2. CASE profile' = [profile EXCEPT ![p].failure = TRUE,
                                        ![p].retirement = IF @ = i THEN None ELSE @]
    <3> DEFINE m == IF profile[p].retirement = i THEN None ELSE profile[p].retirement
               d == [profile[p] EXCEPT !.failure = TRUE, !.retirement = m]
    <3>1. profile' = [profile EXCEPT ![p] = d]
      BY <1>2, <1>3, <2>2 DEF ProfileMap, ProfileRecord
    <3> HIDE DEF m, p
    <3>2. d.start = profile[p].start /\ d.visible = profile[p].visible
      BY <1>3 DEF ProfileRecord
    <3> HIDE DEF d
    <3> QED BY <1>2, <3>1, <3>2, OneRegistered
  <2> QED BY <2>1, <2>2 DEF RecordCrash
<1>5. PICK d : /\ browser' = [browser EXCEPT ![i] = d] /\ d.owner = b.owner
               /\ d.panels = b.panels /\ d.phase = b.phase
  <2>1. CASE browser' = [browser EXCEPT ![i] = CleanupBegun([@ EXCEPT !.retiring = "cleaning"])]
    <3> DEFINE e == [b EXCEPT !.retiring = "cleaning"]
               d == CleanupBegun(e)
    <3>1. browser' = [browser EXCEPT ![i] = d]
      BY <2>1
    <3>2. e \in BrowserRecord /\ e.owner = b.owner /\ e.panels = b.panels /\ e.phase = b.phase
      BY <1>2 DEF BrowserRecord
    <3> HIDE DEF e
    <3>3. d.owner = b.owner /\ d.panels = b.panels /\ d.phase = b.phase
      BY <3>2, BegunKeeps
    <3> HIDE DEF d
    <3> QED BY <3>1, <3>3
  <2>2. CASE browser' = [browser EXCEPT ![i].retiring = "done"]
    <3> DEFINE d == [b EXCEPT !.retiring = "done"]
    <3>1. browser' = [browser EXCEPT ![i] = d]
      BY <2>2
    <3>2. d.owner = b.owner /\ d.panels = b.panels /\ d.phase = b.phase
      BY <1>2 DEF BrowserRecord
    <3> HIDE DEF d
    <3> QED BY <3>1, <3>2
  <2> QED BY <2>1, <2>2 DEF RecordCrash
<1> QED BY <1>1, <1>4, <1>5, RetiringPins

LEMMA FinishRetirementPins ==
  ASSUME IInv, PinInv, NEW i \in Instances, FinishRetirement(i) PROVE PinInv'
<1> DEFINE b == browser[i]
           p == b.owner
           d == [b EXCEPT !.retiring = "done"]
           l == IF b.cleanup = "done" THEN "sleeping" ELSE profile[p].lifecycle
           f == profile[p].failure \/ b.cleanup = "failed"
           m == IF profile[p].retirement = i THEN None ELSE profile[p].retirement
           o == [profile[p] EXCEPT !.lifecycle = l, !.failure = f, !.retirement = m]
<1>1. /\ b.retiring = "cleaning" /\ browser' = [browser EXCEPT ![i] = d]
      /\ UNCHANGED <<call, stops>>
  BY DEF FinishRetirement, CanFinishRetirement
<1>2. p \in Profiles /\ b \in BrowserRecord
  <2>1. InstanceOK(i, b, profile)
    BY Types
  <2> QED BY <1>1, <2>1, Types DEF InstanceOK
<1>3. profile[p] \in ProfileRecord /\ profile \in ProfileMap
  <2> HIDE DEF p
  <2> QED BY <1>2, Types
<1>4. d.owner = b.owner /\ d.panels = b.panels /\ d.phase = b.phase
  BY <1>2 DEF BrowserRecord
<1>5. profile' = [profile EXCEPT ![p].lifecycle = l, ![p].failure = f, ![p].retirement = m]
  BY <1>2, <1>3 DEF FinishRetirement, ProfileMap, ProfileRecord
<1> HIDE DEF d, l, f, m
<1>6. StartsAlike
  <2> HIDE DEF p
  <2>1. profile' = [profile EXCEPT ![p] = o]
    BY <1>2, <1>3, <1>5 DEF ProfileMap, ProfileRecord
  <2>2. o.start = profile[p].start /\ o.visible = profile[p].visible
    BY <1>3 DEF ProfileRecord
  <2> HIDE DEF o
  <2> QED BY <1>2, <2>1, <2>2, OneRegistered
<1> QED BY <1>1, <1>4, <1>6, RetiringPins

(* A cleanup that runs has been begun.                                        *)
LEMMA CleanupPins ==
  ASSUME IInv, PinInv, NEW i \in Instances, Cleanup(i) PROVE PinInv'
<1> DEFINE b == browser[i]
           p == b.owner
<1>1. b.cleanup = "running" /\ UNCHANGED <<call, stops>>
  BY DEF Cleanup
<1>2. p \in Profiles /\ b \in BrowserRecord
  <2>1. InstanceOK(i, b, profile)
    BY Types
  <2> QED BY <1>1, <2>1, Types DEF InstanceOK
<1>3. StartsAlike
  <2> DEFINE l == IF profile[p].lock = i THEN None ELSE profile[p].lock
  <2>1. \/ profile' = profile
        \/ profile' = [profile EXCEPT ![p] = [profile[p] EXCEPT !["lock"] = l]]
    BY DEF Cleanup
  <2> HIDE DEF p, l
  <2> QED BY <1>2, <2>1, ProfileFields, AllRegistered
<1>4. PICK x \in {"done", "failed"} : browser' = [browser EXCEPT ![i].cleanup = x]
  BY DEF Cleanup
<1> DEFINE d == [b EXCEPT !.cleanup = x]
<1>5. browser' = [browser EXCEPT ![i] = d]
  BY <1>4
<1>6. /\ d.owner = b.owner /\ d.panels = b.panels /\ d.phase = b.phase
      /\ d.retiring = b.retiring
  BY <1>2 DEF BrowserRecord
<1> HIDE DEF d
<1>7. AwaitsLast /\ StopsLast
  BY <1>1, AllAwait, AllLast
<1>8. VisibleStay /\ \A q \in Profiles : profile'[q].start \in {None, profile[q].start}
  BY <1>3 DEF StartsAlike
<1> QED BY <1>1, <1>5, <1>6, <1>7, <1>8, InstancePins DEF Cleaned

LEMMA RestartPins ==
  ASSUME IInv, PinInv, NEW i \in Instances, Restart(i) PROVE PinInv'
<1>1. UNCHANGED <<browser, profile, stops>> /\ i \in Callers
  BY DEF Restart, Callers
<1>2. CASE call' = [call EXCEPT ![i] = [@ EXCEPT !.pc = "done"]]
  <2>1. call' = [call EXCEPT ![i].pc = "done"] /\ "done" \in Pcs \ {"awaiting"}
    BY <1>2 DEF Pcs
  <2> QED BY <1>1, <2>1, AllAlike, AllRegistered, AllLast, WaitsPins
<1>3. CASE call' = [call EXCEPT ![i] = Entry(i, browser[i].owner)]
  BY <1>1, <1>3, ArrivesPins
<1> QED BY <1>2, <1>3 DEF Restart

(* Only processes, timers and requests of instances change.                    *)
LEMMA DiePins ==
  ASSUME IInv, PinInv, NEW i \in Instances, Die(i) PROVE PinInv'
<1>1. UNCHANGED <<profile, call, stops>>
  BY DEF Die
<1>2. PICK a : browser' = [browser EXCEPT ![i].alive = FALSE, ![i].asked = a]
  <2>1. browser \in BrowserMap
    BY Types
  <2>2. PICK k \in BOOLEAN :
          browser' = [browser EXCEPT ![i].alive = FALSE, ![i].asked = @ \/ k]
    BY DEF Die
  <2>3. browser' = [browser EXCEPT ![i].alive = FALSE, ![i].asked = browser[i].asked \/ k]
    BY <2>1, <2>2 DEF BrowserMap, BrowserRecord
  <2> QED BY <2>3
<1> DEFINE d == [browser[i] EXCEPT !.alive = FALSE, !.asked = a]
<1>3. browser' = [browser EXCEPT ![i] = d] /\ Alike(browser[i], d)
  BY <1>2, Types DEF BrowserMap, BrowserRecord, Alike
<1> HIDE DEF d
<1>4. BrowsersAlike
  BY <1>3, OneAlike
<1> QED BY <1>1, <1>4, AllRegistered, AllLast, AllAwait, AlikeStays

LEMMA IdleTimerPins ==
  ASSUME IInv, PinInv, NEW i \in Instances, IdleTimer(i) PROVE PinInv'
<1>1. browser[i].timer /\ call' = call
  BY DEF IdleTimer
<1>2. CASE browser' = [browser EXCEPT ![i].timer = FALSE] /\ UNCHANGED <<profile, stops>>
  <2> DEFINE d == [browser[i] EXCEPT !.timer = FALSE]
  <2>1. browser' = [browser EXCEPT ![i] = d]
    BY <1>2
  <2>2. Alike(browser[i], d)
    BY Types DEF BrowserRecord, Alike
  <2> HIDE DEF d
  <2>3. BrowsersAlike
    BY <2>1, <2>2, OneAlike
  <2> QED BY <1>1, <1>2, <2>3, AllRegistered, AllLast, AllAwait, AlikeStays
<1>3. CASE StopHeld(i, "timer")
  <2>1. browser[i].phase = "held"
    <3>1. InstanceOK(i, browser[i], profile)
      BY Types
    <3> QED BY <1>1, <3>1 DEF InstanceOK
  <2> QED BY <1>1, <1>3, <2>1, StopAlike, AllAwait, AlikeStays
<1> QED BY <1>2, <1>3 DEF IdleTimer

LEMMA OwnerStopPins ==
  ASSUME IInv, PinInv, NEW p \in Profiles, OwnerStop(p) PROVE PinInv'
<1>1. StopsLast /\ UNCHANGED <<browser, profile, call>>
  BY DEF OwnerStop, StopsLast
<1> QED BY <1>1, AllAlike, AllRegistered, AllAwait, AlikeStays

LEMMA BeginStopPins ==
  ASSUME IInv, PinInv, NEW s \in stops, BeginStop(s) PROVE PinInv'
<1>1. call' = call /\ StopsLast
  BY DEF BeginStop, CanBeginStop, StopsLast
<1>2. CASE UNCHANGED <<browser, profile>>
  BY <1>1, <1>2, AllAlike, AllRegistered, AllAwait, AlikeStays
<1>3. CASE ~Rejected(s.inst) /\ AskToStop(s.inst)
  <2>1. s.inst \in Instances /\ browser[s.inst].phase = "held"
    BY <1>3, Types DEF BeginStop, CanBeginStop, StartSettled
  <2> QED BY <1>1, <1>3, <2>1, AskAlike, AllAwait, AlikeStays
<1> QED BY <1>2, <1>3 DEF BeginStop

LEMMA ProfileEventPins ==
  ASSUME IInv, PinInv, NEW p \in Profiles,
         CrashWindowPasses(p) \/ BeginMaintenance(p) \/ EndMaintenance(p)
  PROVE PinInv'
<1>1. UNCHANGED <<browser, call, stops>>
  BY DEF CrashWindowPasses, BeginMaintenance, EndMaintenance
<1>2. StartsAlike
  <2>1. CASE CrashWindowPasses(p)
    <3>1. profile' = [profile EXCEPT ![p] = [profile[p] EXCEPT !["crashes"] = 0]]
      BY <2>1 DEF CrashWindowPasses
    <3> QED BY <3>1, ProfileFields
  <2>2. CASE BeginMaintenance(p)
    <3>1. profile' = [profile EXCEPT ![p] = [profile[p] EXCEPT !["lock"] = "maintenance"]]
      BY <2>2 DEF BeginMaintenance
    <3> QED BY <3>1, ProfileFields
  <2>3. CASE EndMaintenance(p)
    <3>1. profile' = [profile EXCEPT ![p] = [profile[p] EXCEPT !["lock"] = None]]
      BY <2>3 DEF EndMaintenance
    <3> QED BY <3>1, ProfileFields
  <2> QED BY <2>1, <2>2, <2>3
<1> QED BY <1>1, <1>2, AllAlike, AllLast, AllAwait, AlikeStays

-----------------------------------------------------------------------------
(* stopHeld after its first await, and the host.                              *)

LEMMA CloseBrowserPins ==
  ASSUME IInv, PinInv, NEW s \in stops, CloseBrowser(s) PROVE PinInv'
<1> DEFINE K == Serving(browser[s.inst].owner) \cup {s.inst}
<1>1. /\ browser' = [j \in Instances |-> IF j \in K THEN [browser[j] EXCEPT !.alive = FALSE]
                                         ELSE browser[j]]
      /\ s.stage = "closing" /\ stops \ {s} \subseteq stops' /\ UNCHANGED <<call, profile>>
  BY DEF CloseBrowser
<1> HIDE DEF K
<1>2. BrowsersAlike
  <2> SUFFICES ASSUME NEW j \in Instances PROVE Alike(browser[j], browser'[j])
    BY DEF BrowsersAlike
  <2> DEFINE d == [browser[j] EXCEPT !.alive = FALSE]
  <2>1. browser'[j] = d \/ browser'[j] = browser[j]
    BY <1>1
  <2>2. Alike(browser[j], d)
    BY Types DEF BrowserRecord, Alike
  <2> HIDE DEF d
  <2> QED BY <2>1, <2>2 DEF Alike
<1>3. StopsLast
  BY <1>1 DEF StopsLast
<1> QED BY <1>1, <1>2, <1>3, AllRegistered, AllAwait, AlikeStays

(* An instance that is cleaned up while it is registered is so for this stop.    *)
LEMMA StopSettlesPins ==
  ASSUME IInv, PinInv, NEW s \in stops, StopSettles(s) PROVE PinInv'
<1> DEFINE i == s.inst
           b == browser[i]
           d == CleanupBegun(b)
<1>1. /\ s.stage = "ending" /\ browser' = [browser EXCEPT ![i] = d]
      /\ UNCHANGED <<profile, call>>
  BY DEF StopSettles
<1>2. s \in StopRecord /\ i \in Instances /\ b.phase = "held" /\ b \in BrowserRecord
  BY <1>1, Types
<1>3. PICK z \in stops' : z.inst = i /\ z.stage = "cleaning" /\ stops \ {s} \subseteq stops'
  <2>1. LET z == [s EXCEPT !.stage = "cleaning"] IN z.inst = i /\ z.stage = "cleaning"
    BY <1>2 DEF StopRecord
  <2>2. LET z == [s EXCEPT !.stage = "cleaning", !.ok = FALSE]
        IN z.inst = i /\ z.stage = "cleaning"
    BY <1>2 DEF StopRecord
  <2> QED BY <2>1, <2>2 DEF StopSettles
<1>4. /\ d.owner = b.owner /\ d.panels = b.panels /\ d.phase = b.phase
      /\ d.retiring = b.retiring
  BY <1>2, BegunKeeps
<1> HIDE DEF d
<1>5. \A j \in Instances : browser'[j] = IF j = i THEN d ELSE browser[j]
  BY <1>1, <1>2, OneInstance
<1>6. ASSUME NEW p \in Profiles, profile'[p].start # None
      PROVE /\ browser'[profile[p].start].retiring = "none"
            /\ Cleaned(browser'[profile[p].start]) =>
                 \E t \in stops' : t.inst = profile[p].start /\ t.stage = "cleaning"
  <2> DEFINE j == profile[p].start
  <2>1. j \in Instances /\ j # None
    BY <1>1, <1>6, Types
  <2>2. /\ browser[j].retiring = "none"
        /\ Cleaned(browser[j]) => \E t \in stops' : t.inst = j /\ t.stage = "cleaning"
    BY <1>1, <1>3, <2>1 DEF PinInv, StartsOK
  <2> HIDE DEF j
  <2> HIDE DEF i, b
  <2>3. browser'[j].retiring = "none"
    <3>1. CASE j = i
      BY <1>4, <1>5, <2>1, <2>2, <3>1 DEF b
    <3>2. CASE j # i
      BY <1>5, <2>1, <2>2, <3>2
    <3> QED BY <3>1, <3>2
  <2>4. Cleaned(browser'[j]) => \E t \in stops' : t.inst = j /\ t.stage = "cleaning"
    <3>1. CASE j = i
      BY <1>3, <3>1
    <3>2. CASE j # i
      BY <1>5, <2>1, <2>2, <3>2
    <3> QED BY <3>1, <3>2
  <2> QED BY <2>3, <2>4 DEF j
<1>7. \A j \in Instances :
        /\ browser'[j].owner = browser[j].owner /\ browser'[j].panels = browser[j].panels
        /\ browser[j].phase # "unused" => browser'[j].phase # "unused"
        /\ browser'[j].phase = "held" => browser[j].phase = "held"
  BY <1>2, <1>4, <1>5
<1>8. VisibleStay /\ AwaitsLast
      /\ \A p \in Profiles : profile'[p].start \in {None, profile[p].start}
  BY <1>1, AllAwait DEF VisibleStay
<1> QED BY <1>6, <1>7, <1>8, PinsStay

(* The entry of the profile goes with the stop, so no other entry loses one.     *)
LEMMA FinishStopPins ==
  ASSUME IInv, PinInv, NEW s \in stops, FinishStop(s) PROVE PinInv'
<1> DEFINE i == s.inst
           p == browser[i].owner
           f == profile[p].failure \/ (s.by = "timer" /\ ~(s.ok /\ browser[i].cleanup = "done"))
           d == [profile[p] EXCEPT !.start = None, !.failure = f]
<1>1. s.stage = "cleaning" /\ stops \ {s} \subseteq stops' /\ UNCHANGED <<browser, call>>
  BY DEF FinishStop, CanFinishStop
<1>2. p \in Profiles /\ i \in Instances
  BY <1>1, Types
<1>3. profile[p] \in ProfileRecord /\ profile \in ProfileMap
  <2> HIDE DEF p
  <2> QED BY <1>2, Types
<1>4. profile' = [profile EXCEPT ![p].start = None, ![p].failure = f]
  BY <1>2, <1>3 DEF FinishStop, ProfileMap, ProfileRecord
<1> HIDE DEF f
<1>5. VisibleStay /\ \A q \in Profiles : profile'[q].start = IF q = p THEN None
                                                              ELSE profile[q].start
  <2> HIDE DEF p
  <2>1. profile' = [profile EXCEPT ![p] = d]
    BY <1>2, <1>3, <1>4 DEF ProfileMap, ProfileRecord
  <2>2. d.start = None /\ d.visible = profile[p].visible
    BY <1>3 DEF ProfileRecord
  <2> HIDE DEF d
  <2> QED BY <1>2, <2>1, <2>2, EntryGoes
<1>6. ASSUME NEW q \in Profiles, profile'[q].start # None
      PROVE /\ browser'[profile[q].start].retiring = "none"
            /\ Cleaned(browser'[profile[q].start]) =>
                 \E t \in stops' : t.inst = profile[q].start /\ t.stage = "cleaning"
  <2> DEFINE j == profile[q].start
  <2>1. q # p /\ j # None
    BY <1>5, <1>6
  <2>2. /\ browser[j].retiring = "none" /\ browser[j].owner = q
        /\ Cleaned(browser[j]) => \E t \in stops : t.inst = j /\ t.stage = "cleaning"
    BY <2>1 DEF PinInv, StartsOK
  <2>3. j # i
    BY <2>1, <2>2
  <2> HIDE DEF j
  <2>4. Cleaned(browser'[j]) => \E t \in stops' : t.inst = j /\ t.stage = "cleaning"
    BY <1>1, <2>2, <2>3
  <2> QED BY <1>1, <2>2, <2>4 DEF j
<1>7. AwaitsLast /\ \A q \in Profiles : profile'[q].start \in {None, profile[q].start}
  BY <1>1, <1>5, AllAwait
<1> QED BY <1>1, <1>5, <1>6, <1>7, PinsStay

LEMMA DisposePins ==
  ASSUME IInv, PinInv, Dispose PROVE PinInv'
<1>1. call' = call
  BY DEF Dispose
<1>2. CASE UNCHANGED <<browser, profile>>
           /\ stops' \in {stops, {s \in stops : s.by # "dispose" \/ s.stage # "done"}}
  <2>1. StopsLast
    BY <1>2 DEF StopsLast
  <2> QED BY <1>1, <1>2, <2>1, AllAlike, AllRegistered, AllAwait, AlikeStays
<1>3. CASE LET held == {i \in leaving : browser[i].phase = "held"} IN
           /\ browser' = [i \in Instances |-> IF i \in held
                 THEN [browser[i] EXCEPT !.asked = TRUE, !.timer = FALSE]
                 ELSE browser[i]]
           /\ profile' = [p \in Profiles |-> IF \E i \in held : browser[i].owner = p
                 THEN [profile[p] EXCEPT !.lifecycle = "sleeping"] ELSE profile[p]]
           /\ stops' = stops \cup
                {[inst |-> i, by |-> "dispose", stage |-> "closing", ok |-> TRUE] : i \in held}
  <2> DEFINE held == {i \in leaving : browser[i].phase = "held"}
  <2>1. browser' = [i \in Instances |-> IF i \in held
                      THEN [browser[i] EXCEPT !.asked = TRUE, !.timer = FALSE] ELSE browser[i]]
    BY <1>3
  <2>2. profile' = [p \in Profiles |-> IF \E i \in held : browser[i].owner = p
                      THEN [profile[p] EXCEPT !.lifecycle = "sleeping"] ELSE profile[p]]
    BY <1>3
  <2>3. StopsLast
    BY <1>3 DEF StopsLast
  <2> HIDE DEF held
  <2>4. BrowsersAlike
    <3> SUFFICES ASSUME NEW j \in Instances PROVE Alike(browser[j], browser'[j])
      BY DEF BrowsersAlike
    <3> DEFINE d == [browser[j] EXCEPT !.asked = TRUE, !.timer = FALSE]
    <3>1. browser'[j] = d \/ browser'[j] = browser[j]
      BY <2>1
    <3>2. Alike(browser[j], d)
      BY Types DEF BrowserRecord, Alike
    <3> HIDE DEF d
    <3> QED BY <3>1, <3>2 DEF Alike
  <2>5. StartsAlike
    <3> SUFFICES ASSUME NEW q \in Profiles
                 PROVE profile'[q].visible \subseteq profile[q].visible
                       /\ profile'[q].start = profile[q].start
      BY DEF StartsAlike, VisibleStay
    <3> DEFINE d == [profile[q] EXCEPT !.lifecycle = "sleeping"]
    <3>1. profile'[q] = d \/ profile'[q] = profile[q]
      BY <2>2
    <3>2. d.visible = profile[q].visible /\ d.start = profile[q].start
      BY Types DEF ProfileRecord
    <3> HIDE DEF d
    <3> QED BY <3>1, <3>2
  <2> QED BY <1>1, <2>3, <2>4, <2>5, AllAwait, AlikeStays
<1> QED BY <1>2, <1>3 DEF Dispose

LEMMA NothingPins ==
  ASSUME IInv, PinInv, UNCHANGED <<browser, profile, call, stops>> PROVE PinInv'
  BY AllAlike, AllRegistered, AllLast, AllAwait, AlikeStays

-----------------------------------------------------------------------------
(* The invariant.                                                            *)

LEMMA PinsHeld == IInv /\ PinInv /\ [Next]_vars => PinInv'
<1> SUFFICES ASSUME IInv, PinInv, [Next]_vars PROVE PinInv'
  OBVIOUS
<1>1. CASE Continuation
  <2>1. ASSUME NEW c \in Callers,
               \/ Enter(c) \/ Reserve(c) \/ Choose(c) \/ Evicted(c) \/ Use(c)
               \/ Abandoned(c) \/ Quarantined(c) \/ End(c)
        PROVE PinInv'
    BY <2>1, EnterPins, ReservePins, ChoosePins, EvictedPins, UsePins, StopOverPins, EndPins
  <2>2. ASSUME NEW i \in Instances, Restart(i) \/ FinishRetirement(i) PROVE PinInv'
    BY <2>2, RestartPins, FinishRetirementPins
  <2>3. ASSUME NEW s \in stops, BeginStop(s) \/ FinishStop(s) PROVE PinInv'
    BY <2>3, BeginStopPins, FinishStopPins
  <2>4. ASSUME NEW c \in Panels, Unpinned(c) PROVE PinInv'
    BY <2>4, UnpinnedPins
  <2> QED BY <1>1, <2>1, <2>2, <2>3, <2>4, DisposePins DEF Continuation
<1>2. CASE ~Ready /\ Completion
  <2>1. ASSUME NEW i \in Instances,
               \/ Launch(i) \/ NoticeExit(i) \/ RecordCrash(i) \/ Cleanup(i)
               \/ AbortLaunch(i)
        PROVE PinInv'
    BY <1>2, <2>1, LaunchPins, PublishPins, NoticeExitPins, RecordCrashPins, CleanupPins
       DEF Launch
  <2>2. ASSUME NEW s \in stops, CloseBrowser(s) \/ StopSettles(s) PROVE PinInv'
    BY <2>2, CloseBrowserPins, StopSettlesPins
  <2>3. ASSUME NEW c \in Calls, Finish(c) \/ Unreachable(c) PROVE PinInv'
    BY <2>3, FinishPins, UserStopPins DEF Callers
  <2> QED BY <1>2, <2>1, <2>2, <2>3 DEF Completion
<1>3. CASE Request
  <2>1. ASSUME NEW c \in Calls, NEW p \in Profiles, Arrive(c, p) PROVE PinInv'
    BY <2>1, ArrivesPins DEF Arrive, Callers
  <2>2. ASSUME NEW c \in Calls, Quarantine(c) PROVE PinInv'
    BY <2>2, UserStopPins DEF Callers
  <2>3. ASSUME NEW c \in Panels, Unpin(c) PROVE PinInv'
    BY <2>3, UnpinPins
  <2>4. ASSUME NEW i \in Instances, Die(i) \/ IdleTimer(i) PROVE PinInv'
    BY <2>4, DiePins, IdleTimerPins
  <2>5. ASSUME NEW p \in Profiles,
               \/ OwnerStop(p) \/ CrashWindowPasses(p)
               \/ BeginMaintenance(p) \/ EndMaintenance(p)
        PROVE PinInv'
    BY <2>5, OwnerStopPins, ProfileEventPins
  <2>6. ASSUME HostDisconnected \/ HostReconnected \/ BeginDispose PROVE PinInv'
    BY <2>6, NothingPins DEF HostDisconnected, HostReconnected, BeginDispose
  <2> QED BY <1>3, <2>1, <2>2, <2>3, <2>4, <2>5, <2>6 DEF Request
<1>4. CASE UNCHANGED vars
  BY <1>4, NothingPins DEF vars
<1> QED BY <1>1, <1>2, <1>3, <1>4 DEF Next

LEMMA PinInvariant == Spec => []PinInv
<1>1. Init => PinInv
  <2> SUFFICES ASSUME Init PROVE PinInv
    OBVIOUS
  <2>1. \A p \in Profiles : profile[p].start = None
    BY DEF Init
  <2>2. \A c \in Callers : call[c].pc = "idle"
    BY DEF Init
  <2> QED BY <2>1, <2>2 DEF PinInv, StartsOK, AwaitsOK, PanelsStayPinned
<1> QED BY <1>1, PinsHeld, Invariant, PTL DEF Spec

(* A visible panel that is not being unpinned pins whichever instance serves its   *)
(* profile, also the one that is started while the panel is there, or that replaces *)
(* a crashed one.                                                                  *)
THEOREM PanelsArePinned == Spec => []PanelsStayPinned
<1>1. PinInv => PanelsStayPinned
  BY DEF PinInv
<1> QED BY <1>1, PinInvariant, PTL

-----------------------------------------------------------------------------
(* How far the limit is overrun.                                             *)

Registered == {p \in Profiles : profile[p].start # None}
Overrun == StartsSize > AwakeLimit
InMap(i) == \E p \in Profiles : profile[p].start = i

(* A call has a stop of its own only while it awaits it.                      *)
Stopping == {"evicting", "abandoning", "quarantining"}
OwnStops ==
  \A s \in stops : s.by \in Callers =>
    /\ call[s.by].pc \in Stopping
    /\ \A t \in stops : t.by = s.by => t = s

(* While the limit is overrun, whoever makes room will stop a registered start. *)
RoomInv ==
  /\ IsFiniteSet(Registered) /\ AtMostOneOver /\ OwnStops
  /\ Overrun =>
       /\ \A c \in Callers : call[c].pc = "choosing" => \A i \in candidates : InMap(i)
       /\ \A s \in stops : s.by \in Callers /\ call[s.by].pc = "evicting"
                           => s.stage # "done" /\ InMap(s.inst)

LEMMA SizeIs ==
  ASSUME RoomInv
  PROVE /\ IsFiniteSet(Registered) /\ StartsSize = Cardinality(Registered)
        /\ StartsSize \in Nat /\ StartsSize <= AwakeLimit + 1 /\ AwakeLimit \in Nat
<1>1. IsFiniteSet(Registered) /\ StartsSize = Cardinality(Registered)
  BY DEF RoomInv, Registered, StartsSize
<1> QED BY <1>1, FS_CardinalityType, LimitAssumption DEF RoomInv, AtMostOneOver

(* Entries only go: then the limit is overrun as before, or not at all.         *)
StartsGo == \A p \in Profiles : profile'[p].start \in {None, profile[p].start}

LEMMA SizeGoes ==
  ASSUME RoomInv, StartsGo
  PROVE /\ IsFiniteSet(Registered') /\ AtMostOneOver'
        /\ Overrun' => Overrun /\ \A p \in Profiles : profile'[p].start = profile[p].start
<1>1. Registered' \subseteq Registered
  BY DEF Registered, StartsGo
<1>2. StartsSize' = Cardinality(Registered')
  BY DEF Registered, StartsSize
<1>3. /\ IsFiniteSet(Registered') /\ Cardinality(Registered') \in Nat
      /\ Cardinality(Registered') <= Cardinality(Registered)
      /\ Cardinality(Registered) = Cardinality(Registered') => Registered = Registered'
  BY <1>1, SizeIs, FS_Subset, FS_CardinalityType
<1>4. AtMostOneOver'
  BY <1>2, <1>3, SizeIs DEF AtMostOneOver
<1>5. ASSUME Overrun'
      PROVE Overrun /\ \A p \in Profiles : profile'[p].start = profile[p].start
  <2>1. Cardinality(Registered') > AwakeLimit
    BY <1>2, <1>5 DEF Overrun
  <2>2. Overrun /\ Cardinality(Registered) = Cardinality(Registered')
    BY <1>3, <2>1, SizeIs DEF Overrun
  <2>3. Registered = Registered'
    BY <1>3, <2>2
  <2> QED BY <2>2, <2>3 DEF Registered, StartsGo
<1> QED BY <1>3, <1>4, <1>5

(* An entry is made where none was: one more, or as many if there was one.       *)
LEMMA SizeGrows ==
  ASSUME RoomInv, NEW p \in Profiles,
         \A q \in Profiles : q # p => profile'[q].start = profile[q].start
  PROVE IsFiniteSet(Registered') /\ StartsSize' \in Nat /\ StartsSize' <= StartsSize + 1
<1>1. Registered' \subseteq Registered \cup {p}
  BY DEF Registered
<1>2. StartsSize' = Cardinality(Registered')
  BY DEF Registered, StartsSize
<1>3. /\ IsFiniteSet(Registered \cup {p})
      /\ Cardinality(Registered \cup {p}) <= Cardinality(Registered) + 1
      /\ Cardinality(Registered \cup {p}) \in Nat
  <2>1. /\ IsFiniteSet(Registered) /\ Cardinality(Registered) \in Nat
        /\ IsFiniteSet(Registered \cup {p})
    BY SizeIs, FS_AddElement, FS_CardinalityType
  <2>2. Cardinality(Registered \cup {p}) = IF p \in Registered THEN Cardinality(Registered)
                                          ELSE Cardinality(Registered) + 1
    BY <2>1, FS_AddElement
  <2>3. Cardinality(Registered \cup {p}) \in Nat
    BY <2>1, FS_CardinalityType
  <2> QED BY <2>1, <2>2, <2>3
<1>4. /\ IsFiniteSet(Registered') /\ Cardinality(Registered') \in Nat
      /\ Cardinality(Registered') <= Cardinality(Registered \cup {p})
  BY <1>1, <1>3, FS_Subset, FS_CardinalityType
<1> QED BY <1>2, <1>3, <1>4, SizeIs

(* What the steps other than a start have in common.                            *)
LEMMA RoomKept ==
  ASSUME RoomInv, StartsGo, OwnStops', candidates' \subseteq candidates,
         \A c \in Callers : call'[c].pc = "choosing" => call[c].pc = "choosing",
         Overrun' => \A s \in stops' : s.by \in Callers /\ call'[s.by].pc = "evicting"
                                       => s.stage # "done" /\ InMap(s.inst)
  PROVE RoomInv'
<1>1. /\ IsFiniteSet(Registered') /\ AtMostOneOver'
      /\ Overrun' => Overrun /\ \A i : InMap(i) => InMap(i)'
  BY SizeGoes DEF InMap
<1>2. Overrun' => \A c \in Callers : call'[c].pc = "choosing" =>
                    \A i \in candidates' : InMap(i)'
  BY <1>1 DEF RoomInv
<1>3. Overrun' => \A s \in stops' : s.by \in Callers /\ call'[s.by].pc = "evicting"
                                    => s.stage # "done" /\ InMap(s.inst)'
  BY <1>1
<1> QED BY <1>1, <1>2, <1>3 DEF RoomInv

(* A step that begins no start, and no stop for a call.                         *)
CallsMove ==
  \A c \in Callers : \/ call'[c].pc = call[c].pc
                     \/ call[c].pc \notin Stopping
                        /\ call'[c].pc \notin {"choosing", "evicting"}
NoNewStops == \A s \in stops' : s \in stops \/ s.by \notin Callers

LEMMA QuietRoom ==
  ASSUME RoomInv, StartsGo, CallsMove, NoNewStops, candidates' \subseteq candidates
  PROVE RoomInv'
<1>1. OwnStops'
  BY DEF RoomInv, OwnStops, NoNewStops, CallsMove, Stopping
<1>2. \A c \in Callers : call'[c].pc = "choosing" => call[c].pc = "choosing"
  BY DEF CallsMove
<1>3. Overrun' => Overrun
  BY SizeGoes
<1>4. Overrun' => \A s \in stops' : s.by \in Callers /\ call'[s.by].pc = "evicting"
                                    => s.stage # "done" /\ InMap(s.inst)
  BY <1>3 DEF RoomInv, NoNewStops, CallsMove
<1> QED BY <1>1, <1>2, <1>4, RoomKept

(* What a field other than `start` is set to does not matter.                   *)
LEMMA FieldsGo ==
  ASSUME IInv, NEW p \in Profiles, NEW d, profile' = [profile EXCEPT ![p] = d],
         d.start \in {None, profile[p].start}
  PROVE StartsGo
  BY OneProfile DEF StartsGo

LEMMA AlikeGo == StartsAlike => StartsGo
  BY DEF StartsAlike, StartsGo

LEMMA CallsRest == call' = call => CallsMove
  BY DEF CallsMove

LEMMA StopsRest == stops' \subseteq stops => NoNewStops
  BY DEF NoNewStops

LEMMA OneCalls ==
  ASSUME IInv, NEW c \in Callers, NEW r, call' = [call EXCEPT ![c] = r],
         call[c].pc \notin Stopping, r.pc \notin {"choosing", "evicting"}
  PROVE CallsMove
<1>1. \A d \in Callers : call'[d] = IF d = c THEN r ELSE call[d]
  BY Types DEF CallMap
<1> QED BY <1>1 DEF CallsMove

LEMMA NewPcs ==
  ASSUME IInv, NEW c \in Callers
  PROVE /\ \A e : Thrown(c, e).pc = "ending"
        /\ Settled(c).pc = "done"
        /\ \A p : Entry(c, p).pc \in {"entering", "ending"}
        /\ \A i : Awaiting(c, i).pc = "awaiting"
        /\ \A x : [call[c] EXCEPT !.pc = x].pc = x
<1>1. call[c] \in CallRecord
  BY Types
<1>2. \A e : Thrown(c, e).pc = "ending"
  BY <1>1 DEF Thrown, CallRecord
<1>3. Settled(c).pc = "done"
  BY <1>1 DEF Settled, CallRecord
<1>4. \A p : Entry(c, p).pc \in {"entering", "ending"}
  BY <1>1 DEF Entry, CallRecord
<1>5. \A i : Awaiting(c, i).pc = "awaiting"
  BY <1>1 DEF Awaiting, CallRecord
<1>6. \A x : [call[c] EXCEPT !.pc = x].pc = x
  BY <1>1 DEF CallRecord
<1> QED BY <1>2, <1>3, <1>4, <1>5, <1>6

(* beginStart, where the limit was not overrun before.                         *)
LEMMA StartRoom ==
  ASSUME IInv, RoomInv, NEW c \in Callers, NEW p \in Profiles, BeginStart(c, p),
         call[c].pc # "idle", StartsSize <= AwakeLimit,
         \/ StartsSize < AwakeLimit /\ call[c].pc \notin Stopping
         \/ \A d \in Callers \ {c} : call[d].pc \notin {"choosing", "evicting"},
         OwnStops'
  PROVE RoomInv'
<1> DEFINE i == CHOOSE j \in Unused : TRUE
           d == [profile[p] EXCEPT !.start = i, !.lifecycle = "waking"]
<1>1. /\ profile' = [profile EXCEPT ![p].start = i, ![p].lifecycle = "waking"]
      /\ call' = [call EXCEPT ![c] = Awaiting(c, i)]
  BY DEF BeginStart
<1> HIDE DEF i
<1>2. profile' = [profile EXCEPT ![p] = d]
  BY <1>1, Types DEF ProfileMap, ProfileRecord
<1>3. \A q \in Profiles : q # p => profile'[q].start = profile[q].start
  BY <1>2, OneProfile
<1>4. IsFiniteSet(Registered') /\ StartsSize' \in Nat /\ StartsSize' <= StartsSize + 1
  BY <1>3, SizeGrows
<1>5. AtMostOneOver'
  BY <1>4, SizeIs DEF AtMostOneOver
<1>6. \A e \in Callers : call'[e].pc = IF e = c THEN "awaiting" ELSE call[e].pc
  <2>1. Awaiting(c, i).pc = "awaiting"
    BY NewPcs
  <2> QED BY <1>1, <2>1, Types DEF CallMap
<1>7. CASE StartsSize < AwakeLimit
  <2>1. ~Overrun'
    BY <1>4, <1>7, SizeIs DEF Overrun
  <2> QED BY <1>4, <1>5, <2>1 DEF RoomInv
<1>8. CASE \A e \in Callers \ {c} : call[e].pc \notin {"choosing", "evicting"}
  <2>1. \A e \in Callers : call'[e].pc \notin {"choosing", "evicting"}
    BY <1>6, <1>8
  <2> QED BY <1>4, <1>5, <2>1 DEF RoomInv
<1> QED BY <1>7, <1>8

LEMMA StartKeepsStops ==
  ASSUME IInv, RoomInv, NEW c \in Callers, NEW p, BeginStart(c, p),
         call[c].pc \notin Stopping, stops' = stops
  PROVE OwnStops'
<1>1. \A d \in Callers : d # c => call'[d] = call[d]
  BY Types DEF BeginStart, CallMap
<1>2. \A s \in stops : s.by \in Callers => s.by # c
  BY DEF RoomInv, OwnStops
<1> QED BY <1>1, <1>2 DEF RoomInv, OwnStops

LEMMA GoalIs ==
  ASSUME IInv, NEW c \in Callers, call[c].pc \notin {"idle", "restart", "done"}
  PROVE call[c].goal \in Profiles
  BY Types DEF CallOK

LEMMA EnterRoom ==
  ASSUME IInv, RoomInv, NEW c \in Callers, Enter(c) PROVE RoomInv'
<1> DEFINE p == call[c].goal
<1>1. call[c].pc = "entering" /\ stops' = stops /\ candidates' = candidates
  BY DEF Enter, CanEnter
<1>2. p \in Profiles
  BY <1>1, GoalIs
<1>3. call[c].pc \notin Stopping
  BY <1>1 DEF Stopping
<1>4. NoNewStops
  BY <1>1, StopsRest
<1>5. CASE /\ profile' = [profile EXCEPT ![p].failure = FALSE]
           /\ call' = [call EXCEPT ![c] = Thrown(c, "other")]
  <2>1. CallsMove
    BY <1>3, <1>5, NewPcs, OneCalls
  <2>2. StartsGo
    <3>1. profile' = [profile EXCEPT ![p] = [profile[p] EXCEPT !["failure"] = FALSE]]
      BY <1>5
    <3> HIDE DEF p
    <3> QED BY <1>2, <3>1, ProfileFields, AlikeGo
  <2> QED BY <1>1, <1>4, <2>1, <2>2, QuietRoom
<1>6. CASE call' = [call EXCEPT ![c] = Awaiting(c, profile[p].start)] /\ profile' = profile
  <2>1. CallsMove
    BY <1>3, <1>6, NewPcs, OneCalls
  <2> QED BY <1>1, <1>4, <1>6, <2>1, AllRegistered, AlikeGo, QuietRoom
<1>7. CASE StartsSize < AwakeLimit /\ BeginStart(c, p)
  <2>1. StartsSize <= AwakeLimit
    BY <1>7, SizeIs
  <2> QED BY <1>1, <1>2, <1>3, <1>7, <2>1, StartKeepsStops, StartRoom
<1>8. CASE call' = [call EXCEPT ![c].pc = "reserved"] /\ profile' = profile
  <2>1. CallsMove
    <3> DEFINE r == [call[c] EXCEPT !.pc = "reserved"]
    <3>1. call' = [call EXCEPT ![c] = r] /\ r.pc = "reserved"
      BY <1>8, NewPcs
    <3> HIDE DEF r
    <3> QED BY <1>3, <3>1, OneCalls
  <2> QED BY <1>1, <1>4, <1>8, <2>1, AllRegistered, AlikeGo, QuietRoom
<1> QED BY <1>5, <1>6, <1>7, <1>8 DEF Enter

(* serializedCapacityStart: the candidates are what is registered.               *)
LEMMA ReserveRoom ==
  ASSUME IInv, RoomInv, NEW c \in Callers, Reserve(c) PROVE RoomInv'
<1> DEFINE p == call[c].goal
<1>1. call[c].pc = "reserved" /\ stops' = stops
  BY DEF Reserve, CanReserve
<1>2. p \in Profiles
  BY <1>1, GoalIs
<1>3. call[c].pc \notin Stopping
  BY <1>1 DEF Stopping
<1>4. NoNewStops
  BY <1>1, StopsRest
<1>5. CASE /\ call' = [call EXCEPT ![c] = Awaiting(c, profile[p].start)]
           /\ UNCHANGED <<profile, candidates>>
  <2>1. CallsMove
    BY <1>3, <1>5, NewPcs, OneCalls
  <2> QED BY <1>4, <1>5, <2>1, AllRegistered, AlikeGo, QuietRoom
<1>6. CASE StartsSize < AwakeLimit /\ BeginStart(c, p)
  <2>1. StartsSize <= AwakeLimit
    BY <1>6, SizeIs
  <2> QED BY <1>1, <1>2, <1>3, <1>6, <2>1, StartKeepsStops, StartRoom
<1>7. CASE /\ candidates' = {profile[q].start : q \in Profiles} \ {None}
           /\ call' = [call EXCEPT ![c].pc = "choosing"]
           /\ profile' = profile
  <2>1. \A d \in Callers : call'[d].pc = IF d = c THEN "choosing" ELSE call[d].pc
    <3>1. [call[c] EXCEPT !.pc = "choosing"].pc = "choosing"
      BY NewPcs
    <3> QED BY <1>7, <3>1, Types DEF CallMap
  <2>2. /\ IsFiniteSet(Registered') /\ AtMostOneOver'
        /\ Overrun' => Overrun
    BY <1>7, AllRegistered, AlikeGo, SizeGoes
  <2>3. \A i \in candidates' : InMap(i)'
    BY <1>7 DEF InMap
  <2>4. OwnStops'
    BY <1>1, <2>1 DEF RoomInv, OwnStops, Stopping
  <2>5. Overrun' => \A s \in stops' : s.by \in Callers /\ call'[s.by].pc = "evicting"
                                      => s.stage # "done" /\ InMap(s.inst)'
    BY <1>1, <1>7, <2>1, <2>2 DEF RoomInv, InMap
  <2> QED BY <2>2, <2>3, <2>4, <2>5 DEF RoomInv
<1> QED BY <1>5, <1>6, <1>7 DEF Reserve

(* stopHeld for a call: its only stop.                                         *)
LEMMA OwnStopBegins ==
  ASSUME IInv, RoomInv, NEW c \in Callers, NEW i \in Instances, browser[i].phase = "held",
         StopHeld(i, c), call[c].pc \notin Stopping, NEW x \in Stopping,
         call' = [call EXCEPT ![c].pc = x], candidates' \subseteq candidates,
         x = "evicting" => (Overrun => InMap(i))
  PROVE RoomInv'
<1> DEFINE z == [inst |-> i, by |-> c, stage |-> "closing", ok |-> TRUE]
<1>1. stops' = stops \cup {z} /\ z.by = c /\ z.inst = i /\ z.stage = "closing"
  BY DEF StopHeld
<1> HIDE DEF z
<1>2. StartsGo
  BY StopAlike, AlikeGo
<1>3. \A d \in Callers : call'[d].pc = IF d = c THEN x ELSE call[d].pc
  <2>1. [call[c] EXCEPT !.pc = x].pc = x
    BY NewPcs
  <2> QED BY <2>1, Types DEF CallMap
<1>4. \A s \in stops : s.by # c
  BY DEF RoomInv, OwnStops
<1>5. OwnStops'
  BY <1>1, <1>3, <1>4 DEF RoomInv, OwnStops
<1>6. \A d \in Callers : call'[d].pc = "choosing" => call[d].pc = "choosing"
  BY <1>3 DEF Stopping
<1>7. Overrun' => Overrun
  BY <1>2, SizeGoes
<1>8. Overrun' => \A s \in stops' : s.by \in Callers /\ call'[s.by].pc = "evicting"
                                    => s.stage # "done" /\ InMap(s.inst)
  BY <1>1, <1>3, <1>4, <1>7 DEF RoomInv
<1> QED BY <1>2, <1>5, <1>6, <1>8, RoomKept

LEMMA ChooseRoom ==
  ASSUME IInv, RoomInv, NEW c \in Callers, Choose(c) PROVE RoomInv'
<1>1. call[c].pc = "choosing" /\ candidates' = {}
  BY DEF Choose, CanChoose
<1>2. call[c].pc \notin Stopping
  BY <1>1 DEF Stopping
<1>3. CASE /\ call' = [call EXCEPT ![c] = Thrown(c, "other")]
           /\ UNCHANGED <<profile, stops>>
  <2>1. CallsMove
    BY <1>2, <1>3, NewPcs, OneCalls
  <2> QED BY <1>1, <1>3, <2>1, AllRegistered, AlikeGo, StopsRest, QuietRoom
<1>4. CASE /\ ~\E i \in candidates : Rejected(i)
           /\ \E i \in Evictable : StopHeld(i, c)
           /\ call' = [call EXCEPT ![c].pc = "evicting"]
  <2>1. PICK i \in Evictable : StopHeld(i, c)
    BY <1>4
  <2>2. i \in candidates /\ i \in Instances
    BY DEF Evictable, IInv, Others
  <2>3. browser[i].phase = "held"
    BY <1>4, <2>2 DEF Choose, CanChoose, StartSettled
  <2>4. Overrun => InMap(i)
    BY <1>1, <2>2 DEF RoomInv
  <2>5. "evicting" \in Stopping
    BY DEF Stopping
  <2> QED BY <1>1, <1>2, <1>4, <2>1, <2>2, <2>3, <2>4, <2>5, OwnStopBegins
<1> QED BY <1>3, <1>4 DEF Choose

LEMMA UserStopRoom ==
  ASSUME IInv, RoomInv, NEW c \in Callers, Unreachable(c) \/ Quarantine(c) PROVE RoomInv'
<1>1. /\ call[c].pc = "using" /\ StopHeld(call[c].inst, c) /\ candidates' = candidates
      /\ \E x \in {"abandoning", "quarantining"} : call' = [call EXCEPT ![c].pc = x]
  BY DEF Unreachable, Quarantine
<1>2. call[c].inst \in Instances /\ browser[call[c].inst].phase = "held"
  <2>1. CallOK(c, call[c], browser)
    BY Types
  <2> QED BY <1>1, <2>1 DEF CallOK, Held
<1>3. PICK x \in Stopping : x # "evicting" /\ call' = [call EXCEPT ![c].pc = x]
  BY <1>1 DEF Stopping
<1>4. call[c].pc \notin Stopping
  BY <1>1 DEF Stopping
<1> QED BY <1>1, <1>2, <1>3, <1>4, OwnStopBegins

(* The stop of a call is over, and the call goes on without it.                 *)
LEMMA OwnStopDone ==
  ASSUME RoomInv, NEW c \in Callers, StopDone(c), stops' = stops \ {StopOf(c)},
         \A d \in Callers : d # c => call'[d].pc = call[d].pc
  PROVE OwnStops' /\ \A s \in stops' : s.by # c
<1>1. StopOf(c) \in stops /\ StopOf(c).by = c
  BY DEF StopDone, StopOf
<1>2. \A s \in stops' : s \in stops /\ s.by # c
  BY <1>1 DEF RoomInv, OwnStops
<1> QED BY <1>2 DEF RoomInv, OwnStops

LEMMA StopOverRoom ==
  ASSUME IInv, RoomInv, NEW c \in Callers, Abandoned(c) \/ Quarantined(c) PROVE RoomInv'
<1> DEFINE p == call[c].goal
           d == [profile[p] EXCEPT !.start = None]
<1>0. Abandoned(c) \/ Quarantined(c)
  OBVIOUS
<1>1. /\ StopDone(c) /\ stops' = stops \ {StopOf(c)} /\ candidates' = candidates
      /\ call[c].pc \in {"abandoning", "quarantining"}
      /\ profile' = profile \/ profile' = [profile EXCEPT ![p] = d]
  BY DEF Abandoned, Quarantined
<1>2. \E r : call' = [call EXCEPT ![c] = r] /\ r.pc \in {"entering", "ending"}
  <2>1. CASE Abandoned(c)
    <3> DEFINE r == [Entry(c, call[c].goal) EXCEPT !.retried = TRUE]
    <3>1. call' = [call EXCEPT ![c] = r]
      BY <2>1 DEF Abandoned
    <3>2. r.pc \in {"entering", "ending"}
      BY Types DEF Entry, CallRecord
    <3> HIDE DEF r
    <3> QED BY <3>1, <3>2
  <2>2. CASE Quarantined(c)
    <3>1. Thrown(c, "other").pc = "ending"
      BY NewPcs
    <3> QED BY <2>2, <3>1 DEF Quarantined
  <2> QED BY <1>0, <2>1, <2>2
<1>3. PICK r : call' = [call EXCEPT ![c] = r] /\ r.pc \in {"entering", "ending"}
  BY <1>2
<1>4. \A x \in Callers : call'[x] = IF x = c THEN r ELSE call[x]
  BY <1>3, Types DEF CallMap
<1>5. OwnStops' /\ \A s \in stops' : s \in stops /\ s.by # c
  BY <1>1, <1>4, OwnStopDone
<1>6. StartsGo
  <2>1. p \in Profiles
    BY <1>1, GoalIs
  <2>2. d.start = None
    BY <2>1, Types DEF ProfileRecord
  <2> HIDE DEF p, d
  <2> QED BY <1>1, <2>1, <2>2, FieldsGo, AllRegistered, AlikeGo
<1>7. \A x \in Callers : call'[x].pc = "choosing" => call[x].pc = "choosing"
  BY <1>3, <1>4
<1>8. Overrun' => Overrun
  BY <1>6, SizeGoes
<1>9. Overrun' => \A s \in stops' : s.by \in Callers /\ call'[s.by].pc = "evicting"
                                    => s.stage # "done" /\ InMap(s.inst)
  BY <1>4, <1>5, <1>8 DEF RoomInv
<1> QED BY <1>1, <1>5, <1>6, <1>7, <1>9, RoomKept

(* The eviction is over: its victim is off the Map, so the limit is not overrun, *)
(* and nobody else makes room.                                                 *)
LEMMA EvictedRoom ==
  ASSUME IInv, RoomInv, NEW c \in Callers, Evicted(c) PROVE RoomInv'
<1> DEFINE p == call[c].goal
<1>1. /\ call[c].pc = "evicting" /\ StopDone(c) /\ stops' = stops \ {StopOf(c)}
      /\ candidates' = candidates
  BY DEF Evicted
<1>2. p \in Profiles
  BY <1>1, GoalIs
<1>3. \A d \in Callers \ {c} : call[d].pc \notin {"choosing", "evicting"}
  <2>1. chain[1] = c
    BY <1>1 DEF IInv, ChainOK
  <2> QED BY <2>1 DEF IInv, ChainOK
<1>4. ~Overrun
  <2>1. PICK s \in stops : s.by = c /\ s.stage = "done"
    BY <1>1 DEF StopDone
  <2> QED BY <1>1, <2>1 DEF RoomInv
<1>5. CASE BeginStart(c, p)
  <2>1. StartsSize <= AwakeLimit
    BY <1>4, SizeIs DEF Overrun
  <2>2. \A d \in Callers : d # c => call'[d].pc = call[d].pc
    BY <1>5, Types DEF BeginStart, CallMap
  <2>3. OwnStops'
    BY <1>1, <2>2, OwnStopDone
  <2> QED BY <1>1, <1>2, <1>3, <1>5, <2>1, <2>3, StartRoom
<1>6. CASE call' = [call EXCEPT ![c] = Thrown(c, "other")] /\ profile' = profile
  <2>1. \A d \in Callers : call'[d].pc = IF d = c THEN "ending" ELSE call[d].pc
    <3>1. Thrown(c, "other").pc = "ending"
      BY NewPcs
    <3> QED BY <1>6, <3>1, Types DEF CallMap
  <2>2. OwnStops'
    BY <1>1, <2>1, OwnStopDone
  <2>3. StartsGo
    BY <1>6, AllRegistered, AlikeGo
  <2>4. ~Overrun'
    BY <1>4, <2>3, SizeGoes
  <2>5. \A d \in Callers : call'[d].pc = "choosing" => call[d].pc = "choosing"
    BY <2>1
  <2> QED BY <1>1, <2>2, <2>3, <2>4, <2>5, RoomKept
<1> QED BY <1>5, <1>6 DEF Evicted
(* A call that makes no room goes on.                                          *)
LEMMA UseRoom ==
  ASSUME IInv, RoomInv, NEW c \in Callers, Use(c) PROVE RoomInv'
<1>1. /\ call[c].pc = "awaiting" /\ UNCHANGED <<candidates, stops>>
      /\ call[c].goal \in Profiles
  BY AwaitedIs DEF Use, CanUse
<1>2. call[c].pc \notin Stopping
  BY <1>1 DEF Stopping
<1>3. StartsGo
  <2> DEFINE p == call[c].goal
  <2>1. CASE profile' = profile
    BY <2>1, AllRegistered, AlikeGo
  <2>2. CASE profile' = [profile EXCEPT ![p].visible = @ \cup {c}]
    <3> HIDE DEF p
    <3> QED BY <2>2, Types DEF StartsGo, ProfileMap, ProfileRecord
  <2> QED BY <2>1, <2>2 DEF Use
<1>4. CallsMove
  <2>1. PICK r : call' = [call EXCEPT ![c] = r] /\ r.pc \in {"ending", "using", "done"}
    <3>1. ASSUME NEW o, call' = [call EXCEPT ![c].pc = "using", ![c].original = o]
          PROVE \E r : call' = [call EXCEPT ![c] = r] /\ r.pc = "using"
      <4> DEFINE r == [call[c] EXCEPT !.pc = "using", !.original = o]
      <4>1. call' = [call EXCEPT ![c] = r]
        BY <3>1, Types DEF CallMap, CallRecord
      <4>2. r.pc = "using"
        BY Types DEF CallRecord
      <4> HIDE DEF r
      <4> QED BY <4>1, <4>2
    <3>2. ASSUME call' = [call EXCEPT ![c].pc = "using"]
          PROVE \E r : call' = [call EXCEPT ![c] = r] /\ r.pc = "using"
      <4>1. [call[c] EXCEPT !.pc = "using"].pc = "using"
        BY NewPcs
      <4> QED BY <3>2, <4>1
    <3>3. ASSUME NEW e, call' = [call EXCEPT ![c] = Thrown(c, e)]
          PROVE \E r : call' = [call EXCEPT ![c] = r] /\ r.pc = "ending"
      BY <3>3, NewPcs
    <3>4. ASSUME call' = [call EXCEPT ![c] = Settled(c)]
          PROVE \E r : call' = [call EXCEPT ![c] = r] /\ r.pc = "done"
      BY <3>4, NewPcs
    <3> QED BY <3>1, <3>2, <3>3, <3>4 DEF Use
  <2> QED BY <1>2, <2>1, OneCalls
<1> QED BY <1>1, <1>3, <1>4, StopsRest, QuietRoom

LEMMA FinishRoom ==
  ASSUME IInv, RoomInv, NEW c \in Callers, Finish(c) PROVE RoomInv'
<1>1. PICK i : call' = [call EXCEPT ![c].pc = "ending", ![c].inst = i]
  BY DEF Finish
<1> DEFINE r == [call[c] EXCEPT !.pc = "ending", !.inst = i]
<1>2. call' = [call EXCEPT ![c] = r] /\ r.pc = "ending"
  BY <1>1, Types DEF CallMap, CallRecord
<1> HIDE DEF r
<1>3. call[c].pc \notin Stopping /\ UNCHANGED <<profile, candidates, stops>>
  BY DEF Finish, Stopping
<1>4. CallsMove
  BY <1>2, <1>3, OneCalls
<1> QED BY <1>3, <1>4, AllRegistered, AlikeGo, StopsRest, QuietRoom

LEMMA EndRoom ==
  ASSUME IInv, RoomInv, NEW c \in Callers, End(c) PROVE RoomInv'
<1> DEFINE p == call[c].goal
<1>1. /\ call[c].pc = "ending" /\ call' = [call EXCEPT ![c] = Settled(c)]
      /\ UNCHANGED <<candidates, stops>>
  BY DEF End, CanEnd
<1>2. call[c].pc \notin Stopping
  BY <1>1 DEF Stopping
<1>3. CallsMove
  BY <1>1, <1>2, NewPcs, OneCalls
<1>4. p \in Profiles
  BY <1>1, GoalIs
<1>5. StartsGo
  <2>1. ASSUME NEW f \in {"lifecycle", "failure"}, NEW v,
               profile' = [profile EXCEPT ![p] = [profile[p] EXCEPT ![f] = v]]
        PROVE StartsGo
    <3> HIDE DEF p
    <3> QED BY <1>4, <2>1, ProfileFields, AlikeGo
  <2>2. \/ profile' = profile
        \/ \E v : profile' = [profile EXCEPT ![p] = [profile[p] EXCEPT !["lifecycle"] = v]]
        \/ \E v : profile' = [profile EXCEPT ![p] = [profile[p] EXCEPT !["failure"] = v]]
    BY DEF End
  <2> QED BY <2>1, <2>2, AllRegistered, AlikeGo
<1> QED BY <1>1, <1>3, <1>5, StopsRest, QuietRoom

LEMMA RestartRoom ==
  ASSUME IInv, RoomInv, NEW i \in Instances, Restart(i) PROVE RoomInv'
<1>1. /\ i \in Callers /\ call[i].pc = "restart" /\ UNCHANGED <<profile, candidates, stops>>
  BY DEF Restart, CanRestart, Callers
<1>2. call[i].pc \notin Stopping
  BY <1>1 DEF Stopping
<1>3. CallsMove
  <2>1. CASE call' = [call EXCEPT ![i] = [@ EXCEPT !.pc = "done"]]
    <3>1. [call[i] EXCEPT !.pc = "done"].pc = "done"
      BY <1>1, NewPcs
    <3> DEFINE r == [call[i] EXCEPT !.pc = "done"]
    <3>2. call' = [call EXCEPT ![i] = r]
      BY <2>1
    <3> HIDE DEF r
    <3> QED BY <1>1, <1>2, <3>1, <3>2, OneCalls DEF r
  <2>2. CASE call' = [call EXCEPT ![i] = Entry(i, browser[i].owner)]
    BY <1>1, <1>2, <2>2, NewPcs, OneCalls
  <2> QED BY <2>1, <2>2 DEF Restart
<1> QED BY <1>1, <1>3, AllRegistered, AlikeGo, StopsRest, QuietRoom

LEMMA ArriveRoom ==
  ASSUME IInv, RoomInv, NEW c \in Callers, NEW p, Arrive(c, p) PROVE RoomInv'
<1>1. /\ call[c].pc = "idle" /\ call' = [call EXCEPT ![c] = Entry(c, p)]
      /\ UNCHANGED <<profile, candidates, stops>>
  BY DEF Arrive
<1>2. call[c].pc \notin Stopping
  BY <1>1 DEF Stopping
<1>3. CallsMove
  BY <1>1, <1>2, NewPcs, OneCalls
<1> QED BY <1>1, <1>3, AllRegistered, AlikeGo, StopsRest, QuietRoom

(* No call moves and no call's stop begins: only the entries matter.             *)
LEMMA EntriesRoom ==
  ASSUME RoomInv, StartsGo, call' = call, NoNewStops, candidates' = candidates
  PROVE RoomInv'
  BY CallsRest, QuietRoom

LEMMA LaunchRoom ==
  ASSUME IInv, RoomInv, NEW i \in Instances, Launch(i) \/ AbortLaunch(i) PROVE RoomInv'
<1> DEFINE p == browser[i].owner
<1>1. UNCHANGED <<call, candidates, stops>> /\ browser[i].phase # "unused"
  BY DEF Launch, CheckCrashes, AcquireLock, Spawn, Publish, AbortLaunch,
     AbortedProcessEnds, AbortedLockReleased, Aborted, LaunchUnchanged
<1>2. p \in Profiles
  <2>1. InstanceOK(i, browser[i], profile)
    BY Types
  <2> QED BY <1>1, <2>1 DEF InstanceOK
<1>3. ASSUME NEW f \in {"lock", "lifecycle"}, NEW v,
             profile' = [profile EXCEPT ![p] = [profile[p] EXCEPT ![f] = v]]
      PROVE StartsGo
  <2> HIDE DEF p
  <2> QED BY <1>2, <1>3, ProfileFields, AlikeGo
<1>4. ASSUME NEW ph, FailedStart(i, ph) PROVE StartsGo
  <2> DEFINE l == IF ph = "repair" THEN "repair-required" ELSE "sleeping"
             d == [profile[p] EXCEPT !.start = None, !.lifecycle = l]
  <2>1. profile' = [profile EXCEPT ![p].start = None, ![p].lifecycle = l]
    BY <1>4 DEF FailedStart
  <2> HIDE DEF l
  <2> HIDE DEF p
  <2>2. profile' = [profile EXCEPT ![p] = d]
    BY <1>2, <2>1, Types DEF ProfileMap, ProfileRecord
  <2>3. d.start = None
    BY <1>2, Types DEF ProfileRecord
  <2> HIDE DEF d
  <2> QED BY <1>2, <2>2, <2>3, FieldsGo
<1>5. StartsGo
  <2>1. \/ profile' = profile
        \/ \E ph : FailedStart(i, ph)
        \/ \E v : profile' = [profile EXCEPT ![p] = [profile[p] EXCEPT !["lock"] = v]]
        \/ \E v : profile' = [profile EXCEPT ![p] = [profile[p] EXCEPT !["lifecycle"] = v]]
    BY DEF Launch, CheckCrashes, AcquireLock, Spawn, Publish, AbortLaunch,
       AbortedProcessEnds, AbortedLockReleased, Aborted
  <2> QED BY <1>3, <1>4, <2>1, AllRegistered, AlikeGo
<1> QED BY <1>1, <1>5, StopsRest, EntriesRoom

LEMMA NoticeExitRoom ==
  ASSUME IInv, RoomInv, NEW i \in Instances, NoticeExit(i) PROVE RoomInv'
<1> DEFINE p == browser[i].owner
           d == [profile[p] EXCEPT !.start = None, !.retirement = i]
<1>1. /\ browser[i].phase = "held" /\ browser[i].retiring = "none"
      /\ UNCHANGED <<candidates, stops>>
      /\ profile' = [profile EXCEPT ![p].start = None, ![p].retirement = i]
  BY DEF NoticeExit
<1>2. p \in Profiles
  <2>1. InstanceOK(i, browser[i], profile)
    BY Types
  <2> QED BY <1>1, <2>1 DEF InstanceOK
<1>3. StartsGo
  <2> HIDE DEF p
  <2>1. profile' = [profile EXCEPT ![p] = d]
    BY <1>1, <1>2, Types DEF ProfileMap, ProfileRecord
  <2>2. d.start = None
    BY <1>2, Types DEF ProfileRecord
  <2> HIDE DEF d
  <2> QED BY <1>2, <2>1, <2>2, FieldsGo
<1>4. CallsMove
  <2>1. i \in Callers
    BY DEF Callers
  <2>2. call[i].pc \notin Stopping
    <3>1. CallOK(i, call[i], browser)
      BY <2>1, Types
    <3> QED BY <1>1, <3>1 DEF CallOK, Stopping
  <2>3. CASE call' = [call EXCEPT ![i].pc = "restart"]
    <3> DEFINE r == [call[i] EXCEPT !.pc = "restart"]
    <3>1. call' = [call EXCEPT ![i] = r] /\ r.pc = "restart"
      BY <2>1, <2>3, NewPcs
    <3> HIDE DEF r
    <3> QED BY <2>1, <2>2, <3>1, OneCalls
  <2> QED BY <2>3, CallsRest DEF NoticeExit
<1> QED BY <1>1, <1>3, <1>4, StopsRest, QuietRoom

LEMMA RetiringRoom ==
  ASSUME IInv, RoomInv, NEW i \in Instances,
         RecordCrash(i) \/ Cleanup(i) \/ FinishRetirement(i)
  PROVE RoomInv'
<1> DEFINE p == browser[i].owner
<1>1. /\ UNCHANGED <<call, candidates, stops>> /\ browser[i].phase = "held"
  <2>1. InstanceOK(i, browser[i], profile)
    BY Types
  <2> QED BY <2>1 DEF RecordCrash, Cleanup, FinishRetirement, CanFinishRetirement, InstanceOK
<1>2. p \in Profiles
  <2>1. InstanceOK(i, browser[i], profile)
    BY Types
  <2> QED BY <1>1, <2>1 DEF InstanceOK
<1>3. profile[p] \in ProfileRecord /\ profile \in ProfileMap
  <2> HIDE DEF p
  <2> QED BY <1>2, Types
<1>4. ASSUME NEW x, NEW y, NEW z,
             profile' = [profile EXCEPT ![p].lifecycle = x, ![p].failure = y,
                                        ![p].retirement = z]
      PROVE StartsGo
  <2> DEFINE d == [profile[p] EXCEPT !.lifecycle = x, !.failure = y, !.retirement = z]
  <2> HIDE DEF p
  <2>1. profile' = [profile EXCEPT ![p] = d]
    BY <1>2, <1>3, <1>4 DEF ProfileMap, ProfileRecord
  <2>2. d.start = profile[p].start
    BY <1>3 DEF ProfileRecord
  <2> HIDE DEF d
  <2> QED BY <1>2, <2>1, <2>2, FieldsGo
<1>5. ASSUME NEW y, NEW z,
             profile' = [profile EXCEPT ![p].failure = y, ![p].retirement = z]
      PROVE StartsGo
  <2> DEFINE d == [profile[p] EXCEPT !.failure = y, !.retirement = z]
  <2> HIDE DEF p
  <2>1. profile' = [profile EXCEPT ![p] = d]
    BY <1>2, <1>3, <1>5 DEF ProfileMap, ProfileRecord
  <2>2. d.start = profile[p].start
    BY <1>3 DEF ProfileRecord
  <2> HIDE DEF d
  <2> QED BY <1>2, <2>1, <2>2, FieldsGo
<1>6. ASSUME NEW f \in {"crashes", "lock"}, NEW v,
             profile' = [profile EXCEPT ![p] = [profile[p] EXCEPT ![f] = v]]
      PROVE StartsGo
  <2> HIDE DEF p
  <2> QED BY <1>2, <1>6, ProfileFields, AlikeGo
<1>7. StartsGo
  <2>1. CASE RecordCrash(i)
    <3>1. CASE profile' = [profile EXCEPT ![p].crashes = @ + 1]
      <4> DEFINE n == profile[p].crashes + 1
      <4>1. profile' = [profile EXCEPT ![p] = [profile[p] EXCEPT !["crashes"] = n]]
        BY <3>1
      <4> HIDE DEF n
      <4> QED BY <1>6, <4>1
    <3>2. CASE profile' = [profile EXCEPT ![p].failure = TRUE,
                             ![p].retirement = IF @ = i THEN None ELSE @]
      <4> DEFINE m == IF profile[p].retirement = i THEN None ELSE profile[p].retirement
      <4>1. profile' = [profile EXCEPT ![p].failure = TRUE, ![p].retirement = m]
        BY <1>2, <1>3, <3>2 DEF ProfileMap, ProfileRecord
      <4> HIDE DEF m
      <4> QED BY <1>5, <4>1
    <3> QED BY <2>1, <3>1, <3>2 DEF RecordCrash
  <2>2. CASE Cleanup(i)
    <3> DEFINE l == IF profile[p].lock = i THEN None ELSE profile[p].lock
    <3>1. \/ profile' = profile
          \/ profile' = [profile EXCEPT ![p] = [profile[p] EXCEPT !["lock"] = l]]
      BY <2>2 DEF Cleanup
    <3> HIDE DEF l
    <3> QED BY <1>6, <3>1, AllRegistered, AlikeGo
  <2>3. CASE FinishRetirement(i)
    <3> DEFINE x == IF browser[i].cleanup = "done" THEN "sleeping" ELSE profile[p].lifecycle
               y == profile[p].failure \/ browser[i].cleanup = "failed"
               z == IF profile[p].retirement = i THEN None ELSE profile[p].retirement
    <3>1. profile' = [profile EXCEPT ![p].lifecycle = x, ![p].failure = y, ![p].retirement = z]
      BY <1>2, <1>3, <2>3 DEF FinishRetirement, ProfileMap, ProfileRecord
    <3> HIDE DEF x, y, z
    <3> QED BY <1>4, <3>1
  <2> QED BY <2>1, <2>2, <2>3
<1> QED BY <1>1, <1>7, StopsRest, EntriesRoom

(* The stages of a stop.  When a stop for room is done, its victim is off the Map. *)
LEMMA StopMoves ==
  ASSUME RoomInv, NEW s \in stops, StartsGo, call' = call, candidates' = candidates,
         \A t \in stops' : (t \in stops /\ t # s) \/ (t.by = s.by /\ t.inst = s.inst),
         \A t, u \in stops' : t \notin stops \ {s} /\ u \notin stops \ {s} => t = u,
         Overrun' /\ s.by \in Callers /\ call[s.by].pc = "evicting" =>
           \A t \in stops' : t.by = s.by => t.stage # "done"
  PROVE RoomInv'
<1>1. OwnStops'
  <2> SUFFICES ASSUME NEW t \in stops', t.by \in Callers
               PROVE /\ call[t.by].pc \in Stopping
                     /\ \A u \in stops' : u.by = t.by => u = t
    BY DEF OwnStops
  <2>1. \A u \in stops : u.by \in Callers =>
          call[u.by].pc \in Stopping /\ \A v \in stops : v.by = u.by => v = u
    BY DEF RoomInv, OwnStops
  <2>2. CASE t \in stops /\ t # s
    BY <2>1, <2>2
  <2>3. CASE t.by = s.by /\ ~(t \in stops /\ t # s)
    BY <2>1, <2>3
  <2> QED BY <2>2, <2>3
<1>2. Overrun' => Overrun
  BY SizeGoes
<1>3. Overrun' => \A t \in stops' : t.by \in Callers /\ call'[t.by].pc = "evicting"
                                    => t.stage # "done" /\ InMap(t.inst)
  BY <1>2 DEF RoomInv
<1> QED BY <1>1, <1>3, RoomKept

LEMMA StopStagesRoom ==
  ASSUME IInv, RoomInv, NEW s \in stops, CloseBrowser(s) \/ StopSettles(s) PROVE RoomInv'
<1>1. UNCHANGED <<profile, call, candidates>> /\ s \in StopRecord
  BY Types DEF CloseBrowser, StopSettles
<1>2. PICK t : /\ stops' = (stops \ {s}) \cup {t}
               /\ t.by = s.by /\ t.inst = s.inst /\ t.stage # "done"
  <2>1. LET t == [s EXCEPT !.stage = "ending"]
        IN t.by = s.by /\ t.inst = s.inst /\ t.stage # "done"
    BY <1>1 DEF StopRecord
  <2>2. LET t == [s EXCEPT !.stage = "cleaning"]
        IN t.by = s.by /\ t.inst = s.inst /\ t.stage # "done"
    BY <1>1 DEF StopRecord
  <2>3. LET t == [s EXCEPT !.stage = "cleaning", !.ok = FALSE]
        IN t.by = s.by /\ t.inst = s.inst /\ t.stage # "done"
    BY <1>1 DEF StopRecord
  <2> QED BY <2>1, <2>2, <2>3 DEF CloseBrowser, StopSettles
<1>3. StartsGo
  BY <1>1, AllRegistered, AlikeGo
<1>4. s.by \in Callers => \A u \in stops' : u.by = s.by => u.stage # "done"
  BY <1>2 DEF RoomInv, OwnStops
<1>5. /\ \A u \in stops' : (u \in stops /\ u # s) \/ (u.by = s.by /\ u.inst = s.inst)
      /\ \A u, v \in stops' : u \notin stops \ {s} /\ v \notin stops \ {s} => u = v
  BY <1>2
<1> QED BY <1>1, <1>3, <1>4, <1>5, StopMoves

LEMMA FinishStopRoom ==
  ASSUME IInv, PinInv, RoomInv, NEW s \in stops, FinishStop(s) PROVE RoomInv'
<1> DEFINE i == s.inst
           p == browser[i].owner
           f == profile[p].failure \/ (s.by = "timer" /\ ~(s.ok /\ browser[i].cleanup = "done"))
           d == [profile[p] EXCEPT !.start = None, !.failure = f]
<1>1. UNCHANGED <<call, candidates>> /\ s \in StopRecord /\ p \in Profiles
  BY Types DEF FinishStop, CanFinishStop
<1>2. PICK t : /\ stops' \in {stops \ {s}, (stops \ {s}) \cup {t}}
               /\ t.by = s.by /\ t.inst = s.inst
  <2> DEFINE t == [s EXCEPT !.stage = "done", !.ok = s.ok /\ browser[i].cleanup = "done"]
  <2>1. stops' \in {stops \ {s}, (stops \ {s}) \cup {t}}
    BY DEF FinishStop
  <2>2. t.by = s.by /\ t.inst = s.inst
    BY <1>1 DEF StopRecord
  <2> HIDE DEF t
  <2> QED BY <2>1, <2>2
<1>3. profile' = [profile EXCEPT ![p] = d] /\ d.start = None
  <2>1. profile' = [profile EXCEPT ![p].start = None, ![p].failure = f]
    BY <1>1, Types DEF FinishStop, ProfileMap, ProfileRecord
  <2> HIDE DEF f
  <2> HIDE DEF p
  <2> QED BY <1>1, <2>1, Types DEF ProfileMap, ProfileRecord
<1>4. StartsGo /\ profile'[p].start = None
  <2> HIDE DEF d
  <2> HIDE DEF p
  <2>1. StartsGo
    BY <1>1, <1>3, FieldsGo
  <2>2. \A q \in Profiles : profile'[q] = IF q = p THEN d ELSE profile[q]
    BY <1>1, <1>3, OneProfile
  <2> QED BY <1>1, <1>3, <2>1, <2>2
<1>5. ASSUME Overrun', s.by \in Callers, call[s.by].pc = "evicting" PROVE FALSE
  <2>1. Overrun /\ profile[p].start = None
    BY <1>1, <1>4, <1>5, SizeGoes
  <2>2. PICK q \in Profiles : profile[q].start = i
    BY <1>5, <2>1 DEF RoomInv, InMap
  <2>3. i # None
    BY Types, DisjointAssumption DEF Callers
  <2>4. browser[i].owner = q
    BY <2>2, <2>3 DEF PinInv, StartsOK
  <2> QED BY <2>1, <2>2, <2>3, <2>4
<1>6. \A u \in stops' : u \in stops \ {s} \/ u = t
  BY <1>2
<1>7. /\ \A u \in stops' : (u \in stops /\ u # s) \/ (u.by = s.by /\ u.inst = s.inst)
      /\ \A u, v \in stops' : u \notin stops \ {s} /\ v \notin stops \ {s} => u = v
  BY <1>2, <1>6
<1> HIDE DEF p, d, i
<1> QED BY <1>1, <1>4, <1>5, <1>7, StopMoves

LEMMA DisposeRoom ==
  ASSUME IInv, RoomInv, Dispose PROVE RoomInv'
<1>1. call' = call /\ candidates' = candidates
  BY DEF Dispose
<1>2. NoNewStops
  <2>1. CASE stops' \in {stops, {s \in stops : s.by # "dispose" \/ s.stage # "done"}}
    BY <2>1 DEF NoNewStops
  <2>2. CASE \E H : stops' = stops \cup
               {[inst |-> i, by |-> "dispose", stage |-> "closing", ok |-> TRUE] : i \in H}
    BY <2>2, DisjointAssumption DEF NoNewStops
  <2> QED BY <2>1, <2>2 DEF Dispose
<1>3. StartsGo
  <2> SUFFICES ASSUME NEW q \in Profiles PROVE profile'[q].start = profile[q].start
    BY DEF StartsGo
  <2> DEFINE d == [profile[q] EXCEPT !.lifecycle = "sleeping"]
  <2>1. profile'[q] = d \/ profile'[q] = profile[q]
    BY DEF Dispose
  <2>2. d.start = profile[q].start
    BY Types DEF ProfileRecord
  <2> HIDE DEF d
  <2> QED BY <2>1, <2>2
<1> QED BY <1>1, <1>2, <1>3, EntriesRoom

LEMMA UnpinRoom ==
  ASSUME IInv, RoomInv, NEW c \in Panels, Unpin(c) \/ Unpinned(c) PROVE RoomInv'
<1>0. Unpin(c) \/ Unpinned(c)
  OBVIOUS
<1>1. c \in Callers /\ UNCHANGED <<candidates, stops>>
  BY DEF Unpin, Unpinned, Callers, Calls
<1>2. StartsGo
  <2>1. CASE Unpin(c)
    <3> DEFINE p == call[c].goal
    <3>1. profile' = [profile EXCEPT ![p].visible = @ \ {c}]
      BY <2>1 DEF Unpin
    <3> HIDE DEF p
    <3> QED BY <3>1, Types DEF StartsGo, ProfileMap, ProfileRecord
  <2>2. CASE Unpinned(c)
    BY <2>2, AllRegistered, AlikeGo DEF Unpinned
  <2> QED BY <1>0, <2>1, <2>2
<1>3. CallsMove
  <2>1. PICK x : call' = [call EXCEPT ![c].unpin = x]
    BY <1>0 DEF Unpin, Unpinned
  <2> DEFINE r == [call[c] EXCEPT !.unpin = x]
  <2>2. call' = [call EXCEPT ![c] = r]
    BY <2>1
  <2>3. r.pc = call[c].pc
    BY <1>1, Types DEF CallRecord
  <2> HIDE DEF r
  <2>4. \A y \in Callers : call'[y] = IF y = c THEN r ELSE call[y]
    BY <1>1, <2>2, Types DEF CallMap
  <2> QED BY <2>3, <2>4 DEF CallsMove
<1> QED BY <1>1, <1>2, <1>3, StopsRest, QuietRoom

LEMMA TimerRoom ==
  ASSUME IInv, RoomInv, NEW i \in Instances, Die(i) \/ IdleTimer(i) PROVE RoomInv'
<1>1. UNCHANGED <<call, candidates>>
  BY DEF Die, IdleTimer
<1>2. CASE UNCHANGED <<profile, stops>>
  BY <1>1, <1>2, AllRegistered, AlikeGo, StopsRest, EntriesRoom
<1>3. CASE StopHeld(i, "timer") /\ browser[i].timer
  <2>1. browser[i].phase = "held"
    <3>1. InstanceOK(i, browser[i], profile)
      BY Types
    <3> QED BY <1>3, <3>1 DEF InstanceOK
  <2>2. NoNewStops
    BY <1>3, DisjointAssumption DEF StopHeld, NoNewStops
  <2> QED BY <1>1, <1>3, <2>1, <2>2, StopAlike, AlikeGo, EntriesRoom
<1> QED BY <1>2, <1>3 DEF Die, IdleTimer

LEMMA ProfileEventRoom ==
  ASSUME IInv, RoomInv, NEW p \in Profiles,
         OwnerStop(p) \/ CrashWindowPasses(p) \/ BeginMaintenance(p) \/ EndMaintenance(p)
  PROVE RoomInv'
<1>1. UNCHANGED <<call, candidates>>
  BY DEF OwnerStop, CrashWindowPasses, BeginMaintenance, EndMaintenance
<1>2. CASE OwnerStop(p)
  <2>1. NoNewStops /\ profile' = profile
    BY <1>2, DisjointAssumption DEF OwnerStop, NoNewStops
  <2> QED BY <1>1, <2>1, AllRegistered, AlikeGo, EntriesRoom
<1>3. ASSUME NEW f \in {"crashes", "lock"}, NEW v, stops' = stops,
             profile' = [profile EXCEPT ![p] = [profile[p] EXCEPT ![f] = v]]
      PROVE RoomInv'
  BY <1>1, <1>3, ProfileFields, AlikeGo, StopsRest, EntriesRoom
<1>4. CASE CrashWindowPasses(p)
  <2>1. profile' = [profile EXCEPT ![p] = [profile[p] EXCEPT !["crashes"] = 0]]
    BY <1>4 DEF CrashWindowPasses
  <2> QED BY <1>3, <1>4, <2>1 DEF CrashWindowPasses
<1>5. CASE BeginMaintenance(p)
  <2>1. profile' = [profile EXCEPT ![p] = [profile[p] EXCEPT !["lock"] = "maintenance"]]
    BY <1>5 DEF BeginMaintenance
  <2> QED BY <1>3, <1>5, <2>1 DEF BeginMaintenance
<1>6. CASE EndMaintenance(p)
  <2>1. profile' = [profile EXCEPT ![p] = [profile[p] EXCEPT !["lock"] = None]]
    BY <1>6 DEF EndMaintenance
  <2> QED BY <1>3, <1>6, <2>1 DEF EndMaintenance
<1> QED BY <1>2, <1>4, <1>5, <1>6

(* The owner's stop begins once the start it awaited has settled.              *)
LEMMA BeginStopRoom ==
  ASSUME IInv, RoomInv, NEW s \in stops, BeginStop(s) PROVE RoomInv'
<1>1. s \in StopRecord /\ s.stage = "waiting" /\ UNCHANGED <<call, candidates>>
  BY Types DEF BeginStop, CanBeginStop
<1>2. StartsGo
  <2>1. CASE UNCHANGED <<browser, profile>>
    BY <2>1, AllRegistered, AlikeGo
  <2>2. CASE ~Rejected(s.inst) /\ AskToStop(s.inst)
    <3>1. s.inst \in Instances /\ browser[s.inst].phase = "held"
      BY <2>2, Types DEF BeginStop, CanBeginStop, StartSettled
    <3> QED BY <2>2, <3>1, AskAlike, AlikeGo
  <2> QED BY <2>1, <2>2 DEF BeginStop
<1>3. PICK t : /\ stops' \in {stops \ {s}, (stops \ {s}) \cup {t}}
               /\ t.by = s.by /\ t.inst = s.inst /\ t.stage # "done"
  <2> DEFINE t == [s EXCEPT !.stage = "closing"]
  <2>1. stops' \in {stops \ {s}, (stops \ {s}) \cup {t}}
    BY DEF BeginStop
  <2>2. t.by = s.by /\ t.inst = s.inst /\ t.stage # "done"
    BY <1>1 DEF StopRecord
  <2> HIDE DEF t
  <2> QED BY <2>1, <2>2
<1>4. \A u \in stops' : u \in stops \ {s} \/ u = t
  BY <1>3
<1>5. s.by \in Callers => \A u \in stops' : u.by = s.by => u.stage # "done"
  BY <1>3, <1>4 DEF RoomInv, OwnStops
<1>6. /\ \A u \in stops' : (u \in stops /\ u # s) \/ (u.by = s.by /\ u.inst = s.inst)
      /\ \A u, v \in stops' : u \notin stops \ {s} /\ v \notin stops \ {s} => u = v
  BY <1>3, <1>4
<1> QED BY <1>1, <1>2, <1>5, <1>6, StopMoves

LEMMA NothingRoom ==
  ASSUME RoomInv, UNCHANGED <<profile, call, candidates, stops>> PROVE RoomInv'
  BY AllRegistered, AlikeGo, StopsRest, EntriesRoom

LEMMA RoomHeld == IInv /\ PinInv /\ RoomInv /\ [Next]_vars => RoomInv'
<1> SUFFICES ASSUME IInv, PinInv, RoomInv, [Next]_vars PROVE RoomInv'
  OBVIOUS
<1>1. CASE Continuation
  <2>1. ASSUME NEW c \in Callers,
               \/ Enter(c) \/ Reserve(c) \/ Choose(c) \/ Evicted(c) \/ Use(c)
               \/ Abandoned(c) \/ Quarantined(c) \/ End(c)
        PROVE RoomInv'
    BY <2>1, EnterRoom, ReserveRoom, ChooseRoom, EvictedRoom, UseRoom, StopOverRoom, EndRoom
  <2>2. ASSUME NEW i \in Instances, Restart(i) \/ FinishRetirement(i) PROVE RoomInv'
    BY <2>2, RestartRoom, RetiringRoom
  <2>3. ASSUME NEW s \in stops, BeginStop(s) \/ FinishStop(s) PROVE RoomInv'
    BY <2>3, BeginStopRoom, FinishStopRoom
  <2>4. ASSUME NEW c \in Panels, Unpinned(c) PROVE RoomInv'
    BY <2>4, UnpinRoom
  <2> QED BY <1>1, <2>1, <2>2, <2>3, <2>4, DisposeRoom DEF Continuation
<1>2. CASE Completion
  <2>1. ASSUME NEW i \in Instances,
               \/ Launch(i) \/ NoticeExit(i) \/ RecordCrash(i) \/ Cleanup(i)
               \/ AbortLaunch(i)
        PROVE RoomInv'
    BY <2>1, LaunchRoom, NoticeExitRoom, RetiringRoom
  <2>2. ASSUME NEW s \in stops, CloseBrowser(s) \/ StopSettles(s) PROVE RoomInv'
    BY <2>2, StopStagesRoom
  <2>3. ASSUME NEW c \in Calls, Finish(c) \/ Unreachable(c) PROVE RoomInv'
    BY <2>3, FinishRoom, UserStopRoom DEF Callers
  <2> QED BY <1>2, <2>1, <2>2, <2>3 DEF Completion
<1>3. CASE Request
  <2>1. ASSUME NEW c \in Calls, NEW p \in Profiles, Arrive(c, p) PROVE RoomInv'
    BY <2>1, ArriveRoom DEF Callers
  <2>2. ASSUME NEW c \in Calls, Quarantine(c) PROVE RoomInv'
    BY <2>2, UserStopRoom DEF Callers
  <2>3. ASSUME NEW i \in Instances, Die(i) \/ IdleTimer(i) PROVE RoomInv'
    BY <2>3, TimerRoom
  <2>4. ASSUME NEW p \in Profiles,
               \/ OwnerStop(p) \/ CrashWindowPasses(p)
               \/ BeginMaintenance(p) \/ EndMaintenance(p)
        PROVE RoomInv'
    BY <2>4, ProfileEventRoom
  <2>5. ASSUME HostDisconnected \/ HostReconnected \/ BeginDispose PROVE RoomInv'
    BY <2>5, NothingRoom DEF HostDisconnected, HostReconnected, BeginDispose
  <2> QED BY <1>3, <2>1, <2>2, <2>3, <2>4, <2>5, UnpinRoom DEF Request
<1>4. CASE UNCHANGED vars
  BY <1>4, NothingRoom DEF vars
<1> QED BY <1>1, <1>2, <1>3, <1>4 DEF Next

(* Browsers awake, or about to be, may be one more than the limit on a host, but   *)
(* never two more, for every limit, any number of profiles and calls, and however *)
(* starts, exits and evictions overlap.                                           *)
THEOREM LimitOverrunByOne == Spec => []AtMostOneOver
<1>1. Init => RoomInv
  <2> SUFFICES ASSUME Init PROVE RoomInv
    OBVIOUS
  <2>1. Registered = {} /\ stops = {} /\ \A c \in Callers : call[c].pc = "idle"
    BY DEF Init, Registered
  <2>2. IsFiniteSet(Registered) /\ StartsSize = 0
    BY <2>1, FS_EmptySet DEF Registered, StartsSize
  <2> QED BY <2>1, <2>2, LimitAssumption DEF RoomInv, AtMostOneOver, OwnStops, Overrun
<1>2. RoomInv => AtMostOneOver
  BY DEF RoomInv
<1> QED BY <1>1, <1>2, RoomHeld, PinInvariant, Invariant, PTL DEF Spec
==============================================================================
