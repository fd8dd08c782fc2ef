------------------------ MODULE BrowserInstancesProofs ------------------------
(***************************************************************************)
(* Proofs about BrowserInstances for any profiles, launches, calls and limits: *)
(* type correctness, that a browser that serves its profile holds the lock,    *)
(* that leases are balanced, and that the runtime keeps the promise of        *)
(* LaunchLock.                                                               *)
(*                                                                         *)
(* Most steps leave the phases and locks alone (Same), and whatever they do,   *)
(* an instance that is published stays so, and a dead one stays dead (Stays).   *)
(* This is why calls and stops may remember an instance across their awaits.   *)
(***************************************************************************)
EXTENDS BrowserInstances, FiniteSetTheorems, TLAPS

BrowserMap == [Instances -> BrowserRecord]
ProfileMap == [Profiles -> ProfileRecord]
CallMap == [Callers -> CallRecord]

(* A published process holds the lock from its launch to the end of its        *)
(* cleanup, which only begins once it is dead; an aborted launch gives the lock  *)
(* back while its process is being ended.                                      *)
InstanceOK(i, b, P) ==
  /\ b.phase # "unused" => b.owner \in Profiles
  /\ b.alive => b.phase \in {"starting", "held", "aborting"}
  /\ b.retiring # "none" => b.phase = "held" /\ ~b.alive
  /\ b.cleanup # "none" =>
       \/ b.phase = "held" /\ ~b.alive
       \/ b.phase \in {"aborting", "failed"} /\ b.cleanup # "running"
  /\ b.ended => b.phase \in {"aborting", "failed"} /\ ~b.alive
  /\ b.timer => b.phase = "held"
  /\ \/ b.phase \in {"spawning", "starting"}
     \/ b.phase = "aborting" /\ b.cleanup = "none"
     \/ b.phase = "held" /\ b.cleanup \in {"none", "running"}
     => P[b.owner].lock = i

Held(b, i) == i \in Instances /\ b[i].phase = "held"

(* What a call may remember.                                                 *)
CallOK(c, r, b) ==
  /\ r.pc \notin {"idle", "restart", "done"} => r.goal \in Profiles
  /\ c \in Calls /\ r.pc # "idle" => r.goal \in Profiles
  /\ r.original # None =>
       /\ c \in Scripts /\ Held(b, r.original)
       /\ r.retried \/ r.pc \in {"using", "abandoning", "quarantining", "ending"}
  /\ r.pc = "awaiting" => r.inst \in Instances
  /\ r.pc = "using" => Held(b, r.inst)
  /\ r.pc = "ending" => r.inst = None \/ Held(b, r.inst)
  /\ c \in Instances /\ r.pc # "idle" => b[c].retiring # "none"

StopOK(s, b) ==
  /\ s \in StopRecord
  /\ s.stage # "waiting" => b[s.inst].phase = "held"
  /\ s.stage \notin {"waiting", "closing"} => ~b[s.inst].alive

(* Who waits in the chain, and who is first in it.                            *)
Waiting == {"reserved", "choosing", "evicting"}
ChainOK ==
  /\ chain \in Seq(Callers)
  /\ \A j, k \in 1..Len(chain) : chain[j] = chain[k] => j = k
  /\ \A k \in 1..Len(chain) : call[chain[k]].pc \in Waiting
  /\ \A c \in Callers : call[c].pc \in Waiting => \E k \in 1..Len(chain) : chain[k] = c
  /\ \A c \in Callers : call[c].pc \in {"choosing", "evicting"} => chain[1] = c

BrowsersOK == browser \in BrowserMap /\ \A i \in Instances : InstanceOK(i, browser[i], profile)
CallsOK == call \in CallMap /\ \A c \in Callers : CallOK(c, call[c], browser)
StopsOK == \A s \in stops : StopOK(s, browser)
Others ==
  /\ candidates \subseteq Instances /\ offline \in BOOLEAN
  /\ disposing \in {"no", "chain", "starts", "stopping", "retiring", "done"}
  /\ leaving \subseteq Instances
  /\ disturbances \in 0..MaxDisturbances

IInv == /\ BrowsersOK /\ profile \in ProfileMap /\ CallsOK /\ StopsOK /\ ChainOK
        /\ LeasesBalanced /\ Others

-----------------------------------------------------------------------------
(* What steps have in common.                                                *)

Same(b, d) ==
  /\ d.phase = b.phase /\ d.owner = b.owner /\ d.alive = b.alive
  /\ d.cleanup = b.cleanup /\ d.retiring = b.retiring /\ d.ended = b.ended
  /\ d.timer => b.timer \/ b.phase = "held"

Stays ==
  \A i \in Instances :
    /\ browser[i].phase = "held" => browser'[i].phase = "held"
    /\ browser[i].phase = "held" /\ ~browser[i].alive => ~browser'[i].alive
    /\ browser[i].retiring # "none" => browser'[i].retiring # "none"

LocksStay == \A p \in Profiles : profile'[p].lock = profile[p].lock

LEMMA SameStays ==
  ASSUME BrowsersOK, browser' \in BrowserMap, LocksStay,
         \A i \in Instances : Same(browser[i], browser'[i])
  PROVE BrowsersOK' /\ Stays
<1>1. \A i \in Instances : InstanceOK(i, browser'[i], profile')
  <2> SUFFICES ASSUME NEW i \in Instances PROVE InstanceOK(i, browser'[i], profile')
    OBVIOUS
  <2>1. InstanceOK(i, browser[i], profile) /\ Same(browser[i], browser'[i])
    BY DEF BrowsersOK
  <2> QED BY <2>1 DEF InstanceOK, Same, LocksStay
<1>2. Stays
  BY DEF Stays, Same
<1> QED BY <1>1, <1>2 DEF BrowsersOK

(* Nothing happens to the browsers.                                          *)
LEMMA BrowsersStay ==
  ASSUME BrowsersOK, browser' = browser, LocksStay
  PROVE BrowsersOK' /\ Stays
<1>1. \A i \in Instances : Same(browser[i], browser'[i])
  BY DEF Same
<1> QED BY <1>1, SameStays DEF BrowsersOK

(* One instance changes.                                                     *)
LEMMA OneBrowser ==
  ASSUME BrowsersOK, NEW i \in Instances, NEW d \in BrowserRecord,
         browser' = [browser EXCEPT ![i] = d],
         InstanceOK(i, d, profile'),
         \A j \in Instances : j # i =>
           \/ browser[j].phase = "unused"
           \/ profile'[browser[j].owner].lock = profile[browser[j].owner].lock
           \/ profile[browser[j].owner].lock # j,
         browser[i].phase = "held" => d.phase = "held" /\ (~browser[i].alive => ~d.alive),
         browser[i].retiring # "none" => d.retiring # "none"
  PROVE BrowsersOK' /\ Stays
<1>1. browser \in BrowserMap /\ \A j \in Instances : InstanceOK(j, browser[j], profile)
  BY DEF BrowsersOK
<1>2. /\ browser' \in BrowserMap
      /\ \A j \in Instances : browser'[j] = IF j = i THEN d ELSE browser[j]
  BY <1>1 DEF BrowserMap
<1>3. ASSUME NEW j \in Instances PROVE InstanceOK(j, browser'[j], profile')
  <2>1. CASE j = i
    BY <1>2, <2>1
  <2>2. CASE j # i
    <3>1. browser'[j] = browser[j]
      BY <1>2, <2>2
    <3>2. InstanceOK(j, browser[j], profile)
      BY <1>1
    <3> QED BY <2>2, <3>1, <3>2 DEF InstanceOK
  <2> QED BY <2>1, <2>2
<1>4. Stays
  BY <1>2 DEF Stays
<1> QED BY <1>2, <1>3, <1>4 DEF BrowsersOK

LEMMA OneCall ==
  ASSUME CallsOK, Stays, NEW c \in Callers, NEW r \in CallRecord,
         CallOK(c, r, browser'), call' = [call EXCEPT ![c] = r]
  PROVE CallsOK'
<1>1. /\ call' \in CallMap
      /\ \A d \in Callers : call'[d] = IF d = c THEN r ELSE call[d]
  BY DEF CallsOK, CallMap
<1>2. ASSUME NEW d \in Callers PROVE CallOK(d, call'[d], browser')
  <2>1. CASE d = c
    BY <1>1, <2>1
  <2>2. CASE d # c
    <3>1. CallOK(d, call[d], browser) /\ call'[d] = call[d]
      BY <1>1, <2>2 DEF CallsOK
    <3> QED BY <3>1 DEF CallOK, Held, Stays
  <2> QED BY <2>1, <2>2
<1> QED BY <1>1, <1>2 DEF CallsOK

LEMMA CallsStay ==
  ASSUME CallsOK, Stays, call' = call
  PROVE CallsOK'
  BY DEF CallsOK, CallOK, Held, Stays

LEMMA StopsStay ==
  ASSUME StopsOK, Stays,
         \A s \in stops' : s \in stops \/ StopOK(s, browser')
  PROVE StopsOK'
<1> SUFFICES ASSUME NEW s \in stops' PROVE StopOK(s, browser')
  BY DEF StopsOK
<1>1. CASE s \in stops
  <2>1. StopOK(s, browser) /\ s.inst \in Instances
    BY <1>1 DEF StopsOK, StopOK, StopRecord
  <2> QED BY <2>1 DEF StopOK, Stays
<1> QED BY <1>1

LEMMA ChainStays ==
  ASSUME ChainOK, chain' = chain,
         \A c \in Callers : \/ call'[c].pc = call[c].pc
                            \/ call[c].pc \notin Waiting /\ call'[c].pc \notin Waiting
  PROVE ChainOK'
<1>1. \A k \in 1..Len(chain) : chain[k] \in Callers
  BY DEF ChainOK
<1> QED BY <1>1 DEF ChainOK, Waiting

(* The first of the chain leaves it.                                         *)
LEMMA ChainDrops ==
  ASSUME ChainOK, call \in CallMap, NEW c \in Callers, chain # << >>, Head(chain) = c,
         chain' = Tail(chain), NEW r, r.pc \notin Waiting, call' = [call EXCEPT ![c] = r]
  PROVE ChainOK'
<1>1. /\ chain \in Seq(Callers) /\ Len(chain) \in Nat \ {0} /\ chain[1] = c
      /\ \A k \in 1..Len(chain) : chain[k] \in Callers
  BY DEF ChainOK
<1>2. /\ chain' \in Seq(Callers) /\ Len(chain') = Len(chain) - 1
      /\ \A k \in 1..Len(chain') : chain'[k] = chain[k + 1] /\ k + 1 \in 1..Len(chain)
  BY <1>1
<1>3. \A d \in Callers : call'[d] = IF d = c THEN r ELSE call[d]
  BY DEF CallMap
<1>4. \A k \in 1..Len(chain') : chain'[k] # c
  BY <1>1, <1>2 DEF ChainOK
<1>5. \A j, k \in 1..Len(chain') : chain'[j] = chain'[k] => j = k
  BY <1>1, <1>2 DEF ChainOK
<1>6. \A k \in 1..Len(chain') : call'[chain'[k]].pc \in Waiting
  BY <1>1, <1>2, <1>3, <1>4 DEF ChainOK
<1>7. ASSUME NEW d \in Callers, call'[d].pc \in Waiting
      PROVE \E k \in 1..Len(chain') : chain'[k] = d
  <2>1. d # c /\ call[d].pc \in Waiting
    BY <1>3, <1>7
  <2>2. PICK k \in 1..Len(chain) : chain[k] = d
    BY <2>1 DEF ChainOK
  <2>3. k # 1 /\ k - 1 \in 1..Len(chain')
    BY <1>1, <1>2, <2>1, <2>2
  <2> QED BY <1>2, <2>2, <2>3
<1>8. \A d \in Callers : call'[d].pc \notin {"choosing", "evicting"}
  BY <1>1, <1>3 DEF ChainOK, Waiting
<1> QED BY <1>2, <1>5, <1>6, <1>7, <1>8 DEF ChainOK

LEMMA LeasesStay ==
  ASSUME LeasesBalanced, \A i \in Instances : browser'[i].leases = browser[i].leases,
         \A c \in Scripts : call'[c].original = call[c].original
  PROVE LeasesBalanced'
<1> SUFFICES ASSUME NEW i \in Instances
             PROVE browser'[i].leases = Cardinality({c \in Scripts : call'[c].original = i})
  BY DEF LeasesBalanced
<1>1. {c \in Scripts : call'[c].original = i} = {c \in Scripts : call[c].original = i}
  OBVIOUS
<1> QED BY <1>1 DEF LeasesBalanced

LEMMA CallLasts ==
  ASSUME Stays, NEW c \in Callers, NEW r \in CallRecord, CallOK(c, r, browser)
  PROVE CallOK(c, r, browser')
  BY DEF CallOK, Held, Stays

(* One call changes without changing its lease.                              *)
LEMMA CallFields ==
  ASSUME call \in CallMap, NEW c \in Callers, NEW r, call' = [call EXCEPT ![c] = r]
  PROVE \A d \in Callers : call'[d] = IF d = c THEN r ELSE call[d]
  BY DEF CallMap

Pcs == {"idle", "restart", "entering", "reserved", "choosing", "evicting", "awaiting",
        "using", "abandoning", "quarantining", "ending", "done"}

LEMMA PcIs ==
  ASSUME call \in CallMap, NEW c \in Callers, NEW x \in Pcs
  PROVE LET r == [call[c] EXCEPT !.pc = x]
        IN /\ r \in CallRecord /\ r.pc = x /\ r.goal = call[c].goal /\ r.inst = call[c].inst
           /\ r.original = call[c].original /\ r.retried = call[c].retried
<1>1. call[c] \in CallRecord
  BY DEF CallMap
<1> QED BY <1>1 DEF CallRecord, Pcs

(* What a call becomes keeps its lease and its goal.                          *)
LEMMA EntryIs ==
  ASSUME IInv, NEW c \in Callers, NEW p \in Profiles,
         call[c].pc \in {"idle", "restart", "abandoning"},
         c \in Instances => call[c].pc # "idle"
  PROVE LET e == Entry(c, p)
            r == [e EXCEPT !.retried = TRUE]
        IN /\ e \in CallRecord /\ e.pc \notin Waiting /\ e.original = call[c].original
           /\ call[c].pc # "abandoning" => CallOK(c, e, browser)
           /\ r \in CallRecord /\ r.pc \notin Waiting /\ r.original = call[c].original
           /\ CallOK(c, r, browser)
<1> DEFINE e == Entry(c, p)
           r == [e EXCEPT !.retried = TRUE]
<1>1. call[c] \in CallRecord /\ CallOK(c, call[c], browser)
  BY DEF IInv, CallsOK, CallMap
<1>2. profile[p].retirement \in Instances \cup {None}
  BY DEF IInv, ProfileMap, ProfileRecord
<1>3. /\ e \in CallRecord /\ e.original = call[c].original /\ e.retried = call[c].retried
      /\ e.goal = p
      /\ \/ e.pc = "ending" /\ e.inst = call[c].original
         \/ e.pc = "entering"
  BY <1>1, <1>2 DEF Entry, CallRecord
<1> HIDE DEF e
<1>4. /\ r \in CallRecord /\ r.original = e.original /\ r.retried /\ r.goal = p
      /\ r.pc = e.pc /\ r.inst = e.inst
  BY <1>3 DEF CallRecord
<1> HIDE DEF r
<1>5. e.pc \notin Waiting
  BY <1>3 DEF Waiting
<1>6. call[c].pc # "abandoning" => CallOK(c, e, browser)
  BY <1>1, <1>3 DEF CallOK
<1>7. CallOK(c, r, browser)
  BY <1>1, <1>3, <1>4 DEF CallOK
<1> QED BY <1>3, <1>4, <1>5, <1>6, <1>7 DEF e, r

LEMMA AwaitingIs ==
  ASSUME IInv, NEW c \in Callers, NEW i \in Instances,
         call[c].pc \in {"entering", "reserved", "evicting"}
  PROVE LET r == Awaiting(c, i)
        IN /\ r \in CallRecord /\ r.pc \notin Waiting /\ r.original = call[c].original
           /\ CallOK(c, r, browser)
<1> DEFINE r == Awaiting(c, i)
<1>1. call[c] \in CallRecord /\ CallOK(c, call[c], browser)
  BY DEF IInv, CallsOK, CallMap
<1>2. /\ r \in CallRecord /\ r.pc = "awaiting" /\ r.inst = i /\ r.goal = call[c].goal
      /\ r.original = call[c].original /\ r.retried = call[c].retried
  BY <1>1 DEF Awaiting, CallRecord
<1> HIDE DEF r
<1>3. CallOK(c, r, browser)
  BY <1>1, <1>2 DEF CallOK
<1> QED BY <1>2, <1>3 DEF r, Waiting

LEMMA ThrownIs ==
  ASSUME IInv, NEW c \in Callers, NEW e \in {"none", "offline", "repair", "other"},
         call[c].pc \notin {"idle", "restart", "done"}
  PROVE LET r == Thrown(c, e)
        IN /\ r \in CallRecord /\ r.pc \notin Waiting /\ r.original = call[c].original
           /\ CallOK(c, r, browser)
<1> DEFINE r == Thrown(c, e)
<1>1. call[c] \in CallRecord /\ CallOK(c, call[c], browser)
  BY DEF IInv, CallsOK, CallMap
<1>2. /\ r \in CallRecord /\ r.pc = "ending" /\ r.inst = call[c].original
      /\ r.goal = call[c].goal /\ r.original = call[c].original /\ r.retried = call[c].retried
  BY <1>1 DEF Thrown, CallRecord
<1> HIDE DEF r
<1>3. CallOK(c, r, browser)
  BY <1>1, <1>2 DEF CallOK
<1> QED BY <1>2, <1>3 DEF r, Waiting

LEMMA SettledIs ==
  ASSUME IInv, NEW c \in Callers, call[c].pc # "idle"
  PROVE LET r == Settled(c)
        IN /\ r \in CallRecord /\ r.pc = "done" /\ r.pc \notin Waiting /\ r.original = None
           /\ CallOK(c, r, browser)
<1> DEFINE r == Settled(c)
<1>1. call[c] \in CallRecord /\ CallOK(c, call[c], browser)
  BY DEF IInv, CallsOK, CallMap
<1>2. /\ r \in CallRecord /\ r.pc = "done" /\ r.original = None
      /\ r.goal = call[c].goal
  BY <1>1 DEF Settled, CallRecord
<1> HIDE DEF r
<1>3. CallOK(c, r, browser)
  BY <1>1, <1>2 DEF CallOK
<1> QED BY <1>2, <1>3 DEF r, Waiting

(* A call changes, keeps its lease and does not wait in the chain before or     *)
(* after.                                                                    *)
LEMMA CallSteps ==
  ASSUME IInv, Stays, NEW c \in Callers, NEW r \in CallRecord, CallOK(c, r, browser),
         call[c].pc \notin Waiting, r.pc \notin Waiting, r.original = call[c].original,
         call' = [call EXCEPT ![c] = r], chain' = chain,
         \A i \in Instances : browser'[i].leases = browser[i].leases
  PROVE CallsOK' /\ ChainOK' /\ LeasesBalanced'
<1>0. call \in CallMap
  BY DEF IInv, CallsOK
<1>1. \A d \in Callers : call'[d] = IF d = c THEN r ELSE call[d]
  BY <1>0, CallFields
<1>2. CallsOK'
  BY CallLasts, OneCall DEF IInv
<1>3. ChainOK'
  BY <1>1, ChainStays DEF IInv
<1>4. LeasesBalanced'
  BY <1>1, LeasesStay DEF IInv, Callers, Calls
<1> QED BY <1>2, <1>3, <1>4

(* No call changes.                                                          *)
LEMMA NoCall ==
  ASSUME IInv, Stays, call' = call, chain' = chain,
         \A i \in Instances : browser'[i].leases = browser[i].leases
  PROVE CallsOK' /\ ChainOK' /\ LeasesBalanced'
  BY CallsStay, ChainStays, LeasesStay DEF IInv

(* stopHeld up to its first await: the instance and its profile.              *)
LEMMA StopAsked ==
  ASSUME IInv, NEW i \in Instances, browser[i].phase = "held", AskToStop(i)
  PROVE /\ BrowsersOK' /\ Stays /\ profile' \in ProfileMap
        /\ \A j \in Instances : browser'[j].leases = browser[j].leases
<1> DEFINE b == [browser[i] EXCEPT !.asked = TRUE, !.timer = FALSE]
<1>1. browser \in BrowserMap /\ browser[i] \in BrowserRecord
  BY DEF IInv, BrowsersOK, BrowserMap
<1>2. browser' = [browser EXCEPT ![i] = b]
  BY DEF AskToStop
<1>3. b \in BrowserRecord /\ Same(browser[i], b) /\ b.leases = browser[i].leases
  BY <1>1 DEF BrowserRecord, Same
<1> HIDE DEF b
<1>4. /\ browser' \in BrowserMap
      /\ \A j \in Instances : browser'[j] = IF j = i THEN b ELSE browser[j]
  BY <1>1, <1>2, <1>3 DEF BrowserMap
<1>5. browser[i].owner \in Profiles
  BY DEF IInv, BrowsersOK, InstanceOK
<1>6. profile' \in ProfileMap /\ LocksStay
  <2> DEFINE p == browser[i].owner
  <2>1. profile \in ProfileMap /\ profile[p] \in ProfileRecord
    BY <1>5 DEF IInv, ProfileMap
  <2>2. profile' = [profile EXCEPT ![p].lifecycle = "sleeping"]
    BY DEF AskToStop
  <2> HIDE DEF p
  <2> QED BY <1>5, <2>1, <2>2 DEF ProfileMap, ProfileRecord, LocksStay, p
<1>7. \A j \in Instances : Same(browser[j], browser'[j])
  BY <1>3, <1>4 DEF Same
<1>8. BrowsersOK' /\ Stays
  BY <1>4, <1>6, <1>7, SameStays DEF IInv
<1>9. \A j \in Instances : browser'[j].leases = browser[j].leases
  BY <1>3, <1>4
<1> QED BY <1>6, <1>8, <1>9

LEMMA StopBegins ==
  ASSUME IInv, NEW i \in Instances, browser[i].phase = "held", NEW by \in Stoppers,
         StopHeld(i, by)
  PROVE /\ BrowsersOK' /\ Stays /\ StopsOK' /\ profile' \in ProfileMap
        /\ \A j \in Instances : browser'[j].leases = browser[j].leases
<1> DEFINE s == [inst |-> i, by |-> by, stage |-> "closing", ok |-> TRUE]
<1>1. /\ BrowsersOK' /\ Stays /\ profile' \in ProfileMap
      /\ \A j \in Instances : browser'[j].leases = browser[j].leases
  BY StopAsked DEF StopHeld
<1>2. stops' = stops \cup {s}
  BY DEF StopHeld
<1>3. s \in StopRecord /\ s.inst = i /\ s.stage = "closing"
  BY DEF StopRecord
<1> HIDE DEF s
<1>4. StopOK(s, browser')
  BY <1>1, <1>3 DEF StopOK, Stays
<1>5. StopsOK'
  BY <1>1, <1>2, <1>4, StopsStay DEF IInv
<1> QED BY <1>1, <1>5

(* beginStart.                                                               *)
LEMMA StartBegins ==
  ASSUME IInv, NEW c \in Callers, NEW p \in Profiles, BeginStart(c, p),
         call[c].pc \in {"entering", "reserved", "evicting"}
  PROVE /\ BrowsersOK' /\ Stays /\ profile' \in ProfileMap /\ CallsOK'
        /\ \A j \in Instances : browser'[j].leases = browser[j].leases
        /\ \E r : /\ call' = [call EXCEPT ![c] = r] /\ r.pc \notin Waiting
                  /\ r.original = call[c].original
<1> DEFINE i == CHOOSE j \in Unused : TRUE
           b == [browser[i] EXCEPT !.phase = "checking", !.owner = p]
<1>1. i \in Instances /\ browser[i].phase = "unused"
  BY DEF BeginStart, Unused
<1>2. /\ browser' = [browser EXCEPT ![i].phase = "checking", ![i].owner = p]
      /\ profile' = [profile EXCEPT ![p].start = i, ![p].lifecycle = "waking"]
      /\ call' = [call EXCEPT ![c] = Awaiting(c, i)]
  BY DEF BeginStart
<1> HIDE DEF i
<1>3. browser \in BrowserMap /\ browser[i] \in BrowserRecord
  BY <1>1 DEF IInv, BrowsersOK, BrowserMap
<1>4. InstanceOK(i, browser[i], profile)
  BY <1>1 DEF IInv, BrowsersOK
<1>5. /\ b \in BrowserRecord /\ b.leases = browser[i].leases /\ b.phase = "checking"
      /\ b.owner = p /\ b.alive = browser[i].alive /\ b.cleanup = browser[i].cleanup
      /\ b.retiring = browser[i].retiring /\ b.timer = browser[i].timer
      /\ b.ended = browser[i].ended /\ browser' = [browser EXCEPT ![i] = b]
  BY <1>2, <1>3 DEF BrowserRecord, BrowserMap, Phases
<1> HIDE DEF b
<1>6. InstanceOK(i, b, profile')
  BY <1>1, <1>4, <1>5 DEF InstanceOK
<1>7. profile' \in ProfileMap /\ LocksStay
  <2>1. profile \in ProfileMap /\ profile[p] \in ProfileRecord
    BY DEF IInv, ProfileMap
  <2>2. profile' = [profile EXCEPT ![p].start = i, ![p].lifecycle = "waking"]
    BY <1>2
  <2> QED BY <1>1, <2>1, <2>2 DEF ProfileMap, ProfileRecord, LocksStay
<1>8. \A j \in Instances : browser[j].phase # "unused" => browser[j].owner \in Profiles
  BY DEF IInv, BrowsersOK, InstanceOK
<1>9. BrowsersOK' /\ Stays
  BY <1>1, <1>4, <1>5, <1>6, <1>7, <1>8, OneBrowser DEF IInv, LocksStay, InstanceOK
<1>10. CallsOK'
  BY <1>1, <1>2, <1>9, AwaitingIs, CallLasts, OneCall DEF IInv
<1>11. \A j \in Instances : browser'[j].leases = browser[j].leases
  BY <1>3, <1>5 DEF BrowserMap
<1> QED BY <1>1, <1>2, <1>7, <1>9, <1>10, <1>11, AwaitingIs

(* The browsers stay and stops may be over.                                  *)
LEMMA NoBrowser ==
  ASSUME IInv, browser' = browser, LocksStay, stops' \subseteq stops
  PROVE /\ BrowsersOK' /\ Stays /\ StopsOK'
        /\ \A j \in Instances : browser'[j].leases = browser[j].leases
  BY BrowsersStay, StopsStay DEF IInv

LEMMA LocksSame ==
  ASSUME profile' = profile
  PROVE LocksStay
  BY DEF LocksStay

-----------------------------------------------------------------------------
(* heldInstance.                                                             *)

LEMMA Arrives ==
  ASSUME IInv, NEW c \in Calls, NEW p \in Profiles, Arrive(c, p)
  PROVE IInv'
<1>1. /\ call[c].pc = "idle" /\ call' = [call EXCEPT ![c] = Entry(c, p)]
      /\ UNCHANGED <<browser, profile, chain, candidates, stops, offline, disposing,
                     leaving, disturbances>>
  BY DEF Arrive
<1>2. c \in Callers /\ c \notin Instances
  BY DisjointAssumption DEF Callers
<1>3. /\ BrowsersOK' /\ Stays /\ StopsOK'
      /\ \A j \in Instances : browser'[j].leases = browser[j].leases
  BY <1>1, NoBrowser, LocksSame
<1>4. CallsOK' /\ ChainOK' /\ LeasesBalanced'
  BY <1>1, <1>2, <1>3, EntryIs, CallSteps DEF Waiting
<1> QED BY <1>1, <1>3, <1>4 DEF IInv, Others

LEMMA ChainAdds ==
  ASSUME ChainOK, call \in CallMap, NEW c \in Callers, call[c].pc \notin Waiting,
         chain' = Append(chain, c), NEW r, r.pc = "reserved", call' = [call EXCEPT ![c] = r]
  PROVE ChainOK'
<1>1. /\ chain \in Seq(Callers) /\ Len(chain) \in Nat
      /\ \A k \in 1..Len(chain) : chain[k] \in Callers /\ chain[k] # c
  BY DEF ChainOK
<1>2. /\ chain' \in Seq(Callers) /\ Len(chain') = Len(chain) + 1 /\ chain'[Len(chain) + 1] = c
      /\ \A k \in 1..Len(chain) : chain'[k] = chain[k]
  BY <1>1
<1>3. \A d \in Callers : call'[d] = IF d = c THEN r ELSE call[d]
  BY DEF CallMap
<1>4. \A k \in 1..Len(chain') : k = Len(chain) + 1 \/ k \in 1..Len(chain)
  BY <1>1, <1>2
<1>5. \A j, k \in 1..Len(chain') : chain'[j] = chain'[k] => j = k
  BY <1>1, <1>2, <1>4 DEF ChainOK
<1>6. \A k \in 1..Len(chain') : call'[chain'[k]].pc \in Waiting
  <2> SUFFICES ASSUME NEW k \in 1..Len(chain') PROVE call'[chain'[k]].pc \in Waiting
    OBVIOUS
  <2>1. CASE k = Len(chain) + 1
    BY <1>2, <1>3, <2>1 DEF Waiting
  <2>2. CASE k \in 1..Len(chain)
    BY <1>1, <1>2, <1>3, <2>2 DEF ChainOK
  <2> QED BY <1>4, <2>1, <2>2
<1>7. ASSUME NEW d \in Callers, call'[d].pc \in Waiting
      PROVE \E k \in 1..Len(chain') : chain'[k] = d
  <2>1. CASE d = c
    BY <1>1, <1>2, <2>1
  <2>2. CASE d # c
    <3>1. PICK k \in 1..Len(chain) : chain[k] = d
      BY <1>3, <1>7, <2>2 DEF ChainOK
    <3> QED BY <1>1, <1>2, <3>1
  <2> QED BY <2>1, <2>2
<1>8. ASSUME NEW d \in Callers, call'[d].pc \in {"choosing", "evicting"}
      PROVE chain'[1] = d
  <2>1. d # c /\ call[d].pc \in {"choosing", "evicting"}
    BY <1>3, <1>8
  <2>2. chain[1] = d /\ \E k \in 1..Len(chain) : chain[k] = d
    BY <2>1 DEF ChainOK, Waiting
  <2>3. 1 \in 1..Len(chain)
    BY <1>1, <2>2
  <2> QED BY <1>2, <2>2, <2>3
<1> QED BY <1>2, <1>5, <1>6, <1>7, <1>8 DEF ChainOK

LEMMA Enters ==
  ASSUME IInv, NEW c \in Callers, Enter(c)
  PROVE IInv'
<1> DEFINE p == call[c].goal
<1>1. call[c].pc = "entering" /\ call \in CallMap /\ CallOK(c, call[c], browser)
  BY DEF Enter, CanEnter, IInv, CallsOK
<1>2. p \in Profiles /\ call[c].pc \notin Waiting
  BY <1>1 DEF CallOK, Waiting
<1>3. UNCHANGED <<candidates, stops, offline, disposing, leaving, disturbances>>
  BY DEF Enter
<1>4. profile \in ProfileMap /\ profile[p] \in ProfileRecord
  BY <1>2 DEF IInv, ProfileMap
<1>5. CASE /\ profile' = [profile EXCEPT ![p].failure = FALSE]
           /\ call' = [call EXCEPT ![c] = Thrown(c, "other")]
           /\ UNCHANGED <<browser, chain>>
  <2>1. profile' \in ProfileMap /\ LocksStay
    BY <1>4, <1>5 DEF ProfileMap, ProfileRecord, LocksStay
  <2>2. /\ BrowsersOK' /\ Stays /\ StopsOK'
        /\ \A j \in Instances : browser'[j].leases = browser[j].leases
    BY <1>3, <1>5, <2>1, NoBrowser
  <2>3. CallsOK' /\ ChainOK' /\ LeasesBalanced'
    BY <1>1, <1>2, <1>5, <2>2, ThrownIs, CallSteps
  <2> QED BY <1>3, <2>1, <2>2, <2>3 DEF IInv, Others
<1>6. CASE /\ profile[p].start # None
           /\ call' = [call EXCEPT ![c] = Awaiting(c, profile[p].start)]
           /\ UNCHANGED <<browser, profile, chain>>
  <2>1. profile[p].start \in Instances
    BY <1>4, <1>6 DEF ProfileRecord
  <2>2. /\ BrowsersOK' /\ Stays /\ StopsOK'
        /\ \A j \in Instances : browser'[j].leases = browser[j].leases
    BY <1>3, <1>6, NoBrowser, LocksSame
  <2>3. CallsOK' /\ ChainOK' /\ LeasesBalanced'
    BY <1>1, <1>2, <1>6, <2>1, <2>2, AwaitingIs, CallSteps
  <2> QED BY <1>3, <1>4, <1>6, <2>2, <2>3 DEF IInv, Others
<1>7. CASE BeginStart(c, p) /\ UNCHANGED chain
  <2>1. PICK r : /\ call' = [call EXCEPT ![c] = r] /\ r.pc \notin Waiting
                 /\ r.original = call[c].original
    BY <1>1, <1>2, <1>7, StartBegins
  <2>2. /\ BrowsersOK' /\ Stays /\ profile' \in ProfileMap /\ CallsOK'
        /\ \A j \in Instances : browser'[j].leases = browser[j].leases
    BY <1>1, <1>2, <1>7, StartBegins
  <2>3. \A d \in Callers : call'[d] = IF d = c THEN r ELSE call[d]
    BY <1>1, <2>1, CallFields
  <2>4. ChainOK'
    BY <1>2, <1>7, <2>1, <2>3, ChainStays DEF IInv
  <2>5. LeasesBalanced'
    BY <2>1, <2>2, <2>3, LeasesStay DEF IInv, Callers, Calls
  <2>6. StopsOK'
    BY <1>3, <2>2, StopsStay DEF IInv
  <2> QED BY <1>3, <2>2, <2>4, <2>5, <2>6 DEF IInv, Others
<1>8. CASE /\ call' = [call EXCEPT ![c].pc = "reserved"]
           /\ chain' = Append(chain, c)
           /\ UNCHANGED <<browser, profile>>
  <2> DEFINE r == [call[c] EXCEPT !.pc = "reserved"]
  <2>1. /\ r \in CallRecord /\ r.pc = "reserved" /\ r.goal = call[c].goal
        /\ r.original = call[c].original /\ r.retried = call[c].retried
    BY <1>1, PcIs DEF Pcs
  <2>2. call' = [call EXCEPT ![c] = r]
    BY <1>8
  <2> HIDE DEF r
  <2>3. /\ BrowsersOK' /\ Stays /\ StopsOK'
        /\ \A j \in Instances : browser'[j].leases = browser[j].leases
    BY <1>3, <1>8, NoBrowser, LocksSame
  <2>4. CallOK(c, r, browser)
    BY <1>1, <2>1 DEF CallOK
  <2>5. CallsOK'
    BY <2>1, <2>2, <2>3, <2>4, CallLasts, OneCall DEF IInv
  <2>6. ChainOK'
    BY <1>1, <1>2, <1>8, <2>1, <2>2, ChainAdds DEF IInv
  <2>7. LeasesBalanced'
    BY <1>1, <2>1, <2>2, <2>3, CallFields, LeasesStay DEF IInv, Callers, Calls
  <2> QED BY <1>3, <1>4, <1>8, <2>3, <2>5, <2>6, <2>7 DEF IInv, Others
<1> QED BY <1>5, <1>6, <1>7, <1>8 DEF Enter

(* Who is first leaves the chain as it changes.                              *)
LEMMA FirstLeaves ==
  ASSUME IInv, Stays, NEW c \in Callers, NEW r, r.pc \notin Waiting,
         r.original = call[c].original, call' = [call EXCEPT ![c] = r],
         chain # << >>, Head(chain) = c, chain' = Tail(chain),
         \A i \in Instances : browser'[i].leases = browser[i].leases
  PROVE ChainOK' /\ LeasesBalanced'
<1>1. call \in CallMap
  BY DEF IInv, CallsOK
<1>2. ChainOK'
  BY <1>1, ChainDrops DEF IInv
<1>3. \A d \in Callers : call'[d] = IF d = c THEN r ELSE call[d]
  BY <1>1, CallFields
<1>4. LeasesBalanced'
  BY <1>3, LeasesStay DEF IInv, Callers, Calls
<1> QED BY <1>2, <1>4

LEMMA First ==
  ASSUME IInv, NEW c \in Callers, call[c].pc \in Waiting
  PROVE /\ chain # << >>
        /\ call[c].pc \in {"choosing", "evicting"} => Head(chain) = c
        /\ Head(chain) = chain[1]
<1>1. chain \in Seq(Callers) /\ \E k \in 1..Len(chain) : chain[k] = c
  BY DEF IInv, ChainOK
<1>2. chain # << >>
  BY <1>1
<1>3. Head(chain) = chain[1]
  BY <1>1, <1>2
<1> QED BY <1>2, <1>3 DEF IInv, ChainOK

(* A call that goes on waiting as the first of the chain.                     *)
LEMMA FirstWaits ==
  ASSUME IInv, Stays, NEW c \in Callers, NEW x \in {"choosing", "evicting"},
         call[c].pc \in Waiting, Head(chain) = c,
         call' = [call EXCEPT ![c].pc = x], chain' = chain,
         \A i \in Instances : browser'[i].leases = browser[i].leases
  PROVE CallsOK' /\ ChainOK' /\ LeasesBalanced'
<1> DEFINE r == [call[c] EXCEPT !.pc = x]
<1>1. call \in CallMap /\ CallOK(c, call[c], browser)
  BY DEF IInv, CallsOK
<1>2. /\ r \in CallRecord /\ r.pc = x /\ r.goal = call[c].goal
      /\ r.original = call[c].original /\ r.retried = call[c].retried
  <2>1. x \in Pcs
    BY DEF Pcs
  <2> QED BY <1>1, <2>1, PcIs
<1>3. call' = [call EXCEPT ![c] = r]
  OBVIOUS
<1> HIDE DEF r
<1>4. \A d \in Callers : call'[d] = IF d = c THEN r ELSE call[d]
  BY <1>1, <1>3, CallFields
<1>5. CallOK(c, r, browser)
  BY <1>1, <1>2 DEF CallOK, Waiting
<1>6. CallsOK'
  BY <1>2, <1>3, <1>5, CallLasts, OneCall DEF IInv
<1>7. \A k \in 1..Len(chain) : chain[k] \in Callers
  BY DEF IInv, ChainOK
<1>8. chain[1] = c
  BY First
<1>9. ChainOK'
  <2>1. \A k \in 1..Len(chain) : call'[chain[k]].pc \in Waiting
    BY <1>2, <1>4, <1>7 DEF IInv, ChainOK, Waiting
  <2>2. \A d \in Callers : call'[d].pc \in Waiting => \E k \in 1..Len(chain) : chain[k] = d
    BY <1>4 DEF IInv, ChainOK
  <2>3. \A d \in Callers : call'[d].pc \in {"choosing", "evicting"} => chain[1] = d
    BY <1>4, <1>8 DEF IInv, ChainOK
  <2> QED BY <2>1, <2>2, <2>3 DEF IInv, ChainOK
<1>10. LeasesBalanced'
  BY <1>2, <1>4, LeasesStay DEF IInv, Callers, Calls
<1> QED BY <1>6, <1>9, <1>10

LEMMA Reserves ==
  ASSUME IInv, NEW c \in Callers, Reserve(c)
  PROVE IInv'
<1> DEFINE p == call[c].goal
<1>1. /\ call[c].pc = "reserved" /\ Head(chain) = c
      /\ call \in CallMap /\ CallOK(c, call[c], browser)
  BY DEF Reserve, CanReserve, IInv, CallsOK
<1>2. p \in Profiles /\ call[c].pc \in Waiting /\ chain # << >>
  BY <1>1, First DEF CallOK, Waiting
<1>3. UNCHANGED <<stops, offline, disposing, leaving, disturbances>>
  BY DEF Reserve
<1>4. profile \in ProfileMap /\ \A q \in Profiles : profile[q].start \in Instances \cup {None}
  BY DEF IInv, ProfileMap, ProfileRecord
<1>5. CASE /\ profile[p].start # None
           /\ call' = [call EXCEPT ![c] = Awaiting(c, profile[p].start)]
           /\ chain' = Tail(chain)
           /\ UNCHANGED <<browser, profile, candidates>>
  <2>1. profile[p].start \in Instances
    BY <1>2, <1>4, <1>5
  <2>2. /\ BrowsersOK' /\ Stays /\ StopsOK'
        /\ \A j \in Instances : browser'[j].leases = browser[j].leases
    BY <1>3, <1>5, NoBrowser, LocksSame
  <2>3. CallsOK'
    BY <1>1, <1>5, <2>1, <2>2, AwaitingIs, CallLasts, OneCall DEF IInv
  <2>4. ChainOK' /\ LeasesBalanced'
    BY <1>1, <1>2, <1>5, <2>1, <2>2, AwaitingIs, FirstLeaves
  <2> QED BY <1>3, <1>4, <1>5, <2>2, <2>3, <2>4 DEF IInv, Others
<1>6. CASE BeginStart(c, p) /\ chain' = Tail(chain) /\ UNCHANGED candidates
  <2>1. PICK r : /\ call' = [call EXCEPT ![c] = r] /\ r.pc \notin Waiting
                 /\ r.original = call[c].original
    BY <1>1, <1>2, <1>6, StartBegins
  <2>2. /\ BrowsersOK' /\ Stays /\ profile' \in ProfileMap /\ CallsOK'
        /\ \A j \in Instances : browser'[j].leases = browser[j].leases
    BY <1>1, <1>2, <1>6, StartBegins
  <2>3. ChainOK' /\ LeasesBalanced'
    BY <1>1, <1>2, <1>6, <2>1, <2>2, FirstLeaves
  <2>4. StopsOK'
    BY <1>3, <2>2, StopsStay DEF IInv
  <2> QED BY <1>3, <1>6, <2>2, <2>3, <2>4 DEF IInv, Others
<1>7. CASE /\ candidates' = {profile[q].start : q \in Profiles} \ {None}
           /\ call' = [call EXCEPT ![c].pc = "choosing"]
           /\ UNCHANGED <<browser, profile, chain>>
  <2>1. /\ BrowsersOK' /\ Stays /\ StopsOK'
        /\ \A j \in Instances : browser'[j].leases = browser[j].leases
    BY <1>3, <1>7, NoBrowser, LocksSame
  <2>2. CallsOK' /\ ChainOK' /\ LeasesBalanced'
    BY <1>1, <1>2, <1>7, <2>1, FirstWaits
  <2>3. candidates' \subseteq Instances
    BY <1>4, <1>7
  <2> QED BY <1>3, <1>4, <1>7, <2>1, <2>2, <2>3 DEF IInv, Others
<1> QED BY <1>5, <1>6, <1>7 DEF Reserve

LEMMA Chooses ==
  ASSUME IInv, NEW c \in Callers, Choose(c)
  PROVE IInv'
<1>1. /\ call[c].pc = "choosing" /\ call[c].pc \in Waiting
      /\ call \in CallMap /\ candidates \subseteq Instances
  BY DEF Choose, CanChoose, IInv, CallsOK, Waiting, Others
<1>2. chain # << >> /\ Head(chain) = c
  BY <1>1, First
<1>3. candidates' = {} /\ UNCHANGED <<offline, disposing, leaving, disturbances>>
  BY DEF Choose
<1>4. CASE /\ call' = [call EXCEPT ![c] = Thrown(c, "other")]
           /\ chain' = Tail(chain)
           /\ UNCHANGED <<browser, profile, stops>>
  <2>1. /\ BrowsersOK' /\ Stays /\ StopsOK'
        /\ \A j \in Instances : browser'[j].leases = browser[j].leases
    BY <1>4, NoBrowser, LocksSame
  <2>2. CallsOK'
    BY <1>1, <1>4, <2>1, ThrownIs, CallLasts, OneCall DEF IInv
  <2>3. ChainOK' /\ LeasesBalanced'
    BY <1>1, <1>2, <1>4, <2>1, ThrownIs, FirstLeaves
  <2> QED BY <1>3, <1>4, <2>1, <2>2, <2>3 DEF IInv, Others
<1>5. CASE /\ ~\E i \in candidates : Rejected(i)
           /\ \E i \in Evictable : StopHeld(i, c)
           /\ call' = [call EXCEPT ![c].pc = "evicting"]
           /\ UNCHANGED chain
  <2>1. PICK i \in Evictable : StopHeld(i, c)
    BY <1>5
  <2>2. i \in Instances /\ browser[i].phase = "held"
    BY <1>1, <1>5, <2>1 DEF Evictable, Choose, CanChoose, StartSettled
  <2>3. c \in Stoppers
    BY DEF Stoppers
  <2>4. /\ BrowsersOK' /\ Stays /\ StopsOK' /\ profile' \in ProfileMap
        /\ \A j \in Instances : browser'[j].leases = browser[j].leases
    BY <2>1, <2>2, <2>3, StopBegins
  <2>5. CallsOK' /\ ChainOK' /\ LeasesBalanced'
    BY <1>1, <1>2, <1>5, <2>4, FirstWaits
  <2> QED BY <1>3, <2>4, <2>5 DEF IInv, Others
<1> QED BY <1>4, <1>5 DEF Choose

LEMMA Evicts ==
  ASSUME IInv, NEW c \in Callers, Evicted(c)
  PROVE IInv'
<1> DEFINE p == call[c].goal
<1>1. /\ call[c].pc = "evicting" /\ call[c].pc \in Waiting
      /\ call \in CallMap /\ CallOK(c, call[c], browser)
  BY DEF Evicted, IInv, CallsOK, Waiting
<1>2. chain # << >> /\ Head(chain) = c /\ p \in Profiles
  BY <1>1, First DEF CallOK
<1>3. /\ chain' = Tail(chain) /\ stops' \subseteq stops
      /\ UNCHANGED <<candidates, offline, disposing, leaving, disturbances>>
  BY DEF Evicted
<1>4. CASE BeginStart(c, p)
  <2>1. PICK r : /\ call' = [call EXCEPT ![c] = r] /\ r.pc \notin Waiting
                 /\ r.original = call[c].original
    BY <1>1, <1>2, <1>4, StartBegins
  <2>2. /\ BrowsersOK' /\ Stays /\ profile' \in ProfileMap /\ CallsOK'
        /\ \A j \in Instances : browser'[j].leases = browser[j].leases
    BY <1>1, <1>2, <1>4, StartBegins
  <2>3. ChainOK' /\ LeasesBalanced'
    BY <1>2, <1>3, <2>1, <2>2, FirstLeaves
  <2>4. StopsOK'
    BY <1>3, <2>2, StopsStay DEF IInv
  <2> QED BY <1>3, <2>2, <2>3, <2>4 DEF IInv, Others
<1>5. CASE /\ call' = [call EXCEPT ![c] = Thrown(c, "other")]
           /\ UNCHANGED <<browser, profile>>
  <2>1. /\ BrowsersOK' /\ Stays /\ StopsOK'
        /\ \A j \in Instances : browser'[j].leases = browser[j].leases
    BY <1>3, <1>5, NoBrowser, LocksSame
  <2>2. CallsOK'
    BY <1>1, <1>5, <2>1, ThrownIs, CallLasts, OneCall DEF IInv
  <2>3. ChainOK' /\ LeasesBalanced'
    BY <1>1, <1>2, <1>3, <1>5, <2>1, ThrownIs, FirstLeaves
  <2> QED BY <1>3, <1>5, <2>1, <2>2, <2>3 DEF IInv, Others
<1> QED BY <1>4, <1>5 DEF Evicted

-----------------------------------------------------------------------------
(* What the calls do with the instance they were given.                       *)

LEMMA Notes ==
  ASSUME NEW b \in BrowserRecord
  PROVE LET d == NoteActivity(b)
        IN d \in BrowserRecord /\ d.leases = b.leases /\ (b.phase = "held" => Same(b, d))
<1> DEFINE d == NoteActivity(b)
<1>1. d \in BrowserRecord /\ d.leases = b.leases
  BY DEF NoteActivity, BrowserRecord
<1>2. ASSUME b.phase = "held" PROVE Same(b, d)
  BY <1>2 DEF NoteActivity, Same, BrowserRecord
<1> QED BY <1>1, <1>2

LEMMA LeasesNoted ==
  ASSUME NEW b \in BrowserRecord, NEW x \in Nat, b.phase = "held"
  PROVE LET d == NoteActivity([b EXCEPT !.leases = x])
        IN d \in BrowserRecord /\ d.leases = x /\ Same(b, d)
<1> DEFINE d == NoteActivity([b EXCEPT !.leases = x])
<1>1. d \in BrowserRecord /\ d.leases = x
  BY DEF NoteActivity, BrowserRecord
<1>2. Same(b, d)
  BY DEF NoteActivity, Same, BrowserRecord
<1> QED BY <1>1, <1>2

LEMMA PanelsNoted ==
  ASSUME NEW b \in BrowserRecord, NEW P \in SUBSET Panels, b.phase = "held"
  PROVE LET d == NoteActivity([b EXCEPT !.panels = P])
        IN d \in BrowserRecord /\ d.leases = b.leases /\ Same(b, d)
<1> DEFINE d == NoteActivity([b EXCEPT !.panels = P])
<1>1. d \in BrowserRecord /\ d.leases = b.leases
  BY DEF NoteActivity, BrowserRecord
<1>2. Same(b, d)
  BY DEF NoteActivity, Same, BrowserRecord
<1> QED BY <1>1, <1>2

(* One instance changes in what Same leaves open.                             *)
LEMMA Touches ==
  ASSUME IInv, NEW i \in Instances, NEW d \in BrowserRecord, Same(browser[i], d),
         browser' = [browser EXCEPT ![i] = d], LocksStay, stops' \subseteq stops
  PROVE /\ BrowsersOK' /\ Stays /\ StopsOK'
        /\ \A j \in Instances : browser'[j] = IF j = i THEN d ELSE browser[j]
<1>1. /\ browser' \in BrowserMap
      /\ \A j \in Instances : browser'[j] = IF j = i THEN d ELSE browser[j]
  BY DEF IInv, BrowsersOK, BrowserMap
<1>2. \A j \in Instances : Same(browser[j], browser'[j])
  BY <1>1 DEF Same
<1>3. BrowsersOK' /\ Stays
  BY <1>1, <1>2, SameStays DEF IInv
<1>4. StopsOK'
  BY <1>3, StopsStay DEF IInv
<1> QED BY <1>1, <1>3, <1>4

LEMMA LeasesTaken ==
  ASSUME LeasesBalanced, NEW i \in Instances, NEW c \in Scripts, call[c].original = None,
         \A j \in Instances : browser'[j].leases = IF j = i THEN browser[i].leases + 1
                                                   ELSE browser[j].leases,
         \A d \in Scripts : call'[d].original = IF d = c THEN i ELSE call[d].original
  PROVE LeasesBalanced'
<1> DEFINE Lessees(j) == {d \in Scripts : call[d].original = j}
           Lessees1(j) == {d \in Scripts : call'[d].original = j}
<1>1. i # None
  BY DisjointAssumption DEF Callers
<1>2. \A j \in Instances : browser[j].leases = Cardinality(Lessees(j))
  BY DEF LeasesBalanced
<1>3. IsFiniteSet(Lessees(i)) /\ c \notin Lessees(i)
  BY <1>1, ScriptsAssumption, FS_Subset
<1>4. Lessees1(i) = Lessees(i) \cup {c}
  OBVIOUS
<1>5. \A j \in Instances : j # i => Lessees1(j) = Lessees(j)
  BY DisjointAssumption DEF Callers
<1> HIDE DEF Lessees, Lessees1
<1>6. Cardinality(Lessees1(i)) = Cardinality(Lessees(i)) + 1
  BY <1>3, <1>4, FS_AddElement
<1>7. \A j \in Instances : browser'[j].leases = Cardinality(Lessees1(j))
  BY <1>2, <1>5, <1>6
<1> QED BY <1>7 DEF LeasesBalanced, Lessees1

LEMMA LeasesReturned ==
  ASSUME LeasesBalanced, NEW i \in Instances, NEW c \in Scripts, call[c].original = i,
         \A j \in Instances : browser'[j].leases = IF j = i THEN browser[i].leases - 1
                                                   ELSE browser[j].leases,
         \A d \in Scripts : call'[d].original = IF d = c THEN None ELSE call[d].original
  PROVE LeasesBalanced'
<1> DEFINE Lessees(j) == {d \in Scripts : call[d].original = j}
           Lessees1(j) == {d \in Scripts : call'[d].original = j}
<1>1. \A j \in Instances : j # None
  BY DisjointAssumption DEF Callers
<1>2. \A j \in Instances : browser[j].leases = Cardinality(Lessees(j))
  BY DEF LeasesBalanced
<1>3. IsFiniteSet(Lessees(i)) /\ c \in Lessees(i)
  BY ScriptsAssumption, FS_Subset
<1>4. Lessees1(i) = Lessees(i) \ {c}
  BY <1>1
<1>5. \A j \in Instances : j # i => Lessees1(j) = Lessees(j)
  BY <1>1
<1> HIDE DEF Lessees, Lessees1
<1>6. Cardinality(Lessees1(i)) = Cardinality(Lessees(i)) - 1
  BY <1>3, <1>4, FS_RemoveElement
<1>7. \A j \in Instances : browser'[j].leases = Cardinality(Lessees1(j))
  BY <1>2, <1>5, <1>6
<1> QED BY <1>7 DEF LeasesBalanced, Lessees1

LEMMA Uses ==
  ASSUME IInv, NEW c \in Callers, Use(c)
  PROVE IInv'
<1> DEFINE i == call[c].inst
<1>1. /\ call[c].pc = "awaiting" /\ StartSettled(i)
      /\ call \in CallMap /\ call[c] \in CallRecord /\ CallOK(c, call[c], browser)
  BY DEF Use, CanUse, IInv, CallsOK, CallMap
<1>2. /\ i \in Instances /\ call[c].pc \notin Waiting /\ call[c].goal \in Profiles
      /\ ~Rejected(i) => browser[i].phase = "held"
  BY <1>1 DEF CallOK, Waiting, StartSettled
<1>3. UNCHANGED <<chain, candidates, stops, offline, disposing, leaving, disturbances>>
  BY DEF Use
<1>4. browser \in BrowserMap /\ browser[i] \in BrowserRecord
  BY <1>2 DEF IInv, BrowsersOK, BrowserMap
<1>5. c \notin Scripts => call[c].original = None
  BY <1>1 DEF CallOK
<1>6. CASE /\ Rejected(i)
           /\ call' = [call EXCEPT ![c] =
                 Thrown(c, IF browser[i].phase = "repair" THEN "repair" ELSE "other")]
           /\ UNCHANGED <<browser, profile>>
  <2>1. /\ BrowsersOK' /\ Stays /\ StopsOK'
        /\ \A j \in Instances : browser'[j].leases = browser[j].leases
    BY <1>3, <1>6, NoBrowser, LocksSame
  <2>2. PICK e \in {"none", "offline", "repair", "other"} :
          call' = [call EXCEPT ![c] = Thrown(c, e)]
    BY <1>6
  <2>3. CallsOK' /\ ChainOK' /\ LeasesBalanced'
    BY <1>1, <1>2, <1>3, <2>1, <2>2, ThrownIs, CallSteps
  <2> QED BY <1>3, <1>6, <2>1, <2>3 DEF IInv, Others
<1>7. CASE /\ ~Rejected(i) /\ c \in Scripts /\ ~call[c].retried
           /\ browser' = [browser EXCEPT ![i] =
                            NoteActivity([browser[i] EXCEPT !.leases = browser[i].leases + 1])]
           /\ call' = [call EXCEPT ![c].pc = "using", ![c].original = i]
           /\ UNCHANGED profile
  <2> DEFINE d == NoteActivity([browser[i] EXCEPT !.leases = browser[i].leases + 1])
             r == [call[c] EXCEPT !.pc = "using", !.original = i]
  <2>1. browser[i].leases + 1 \in Nat
    BY <1>4 DEF BrowserRecord
  <2>2. d \in BrowserRecord /\ d.leases = browser[i].leases + 1 /\ Same(browser[i], d)
    BY <1>2, <1>4, <1>7, <2>1, LeasesNoted
  <2>3. browser' = [browser EXCEPT ![i] = d]
    BY <1>7
  <2>4. call' = [call EXCEPT ![c] = r]
    BY <1>1, <1>7 DEF CallMap, CallRecord
  <2>5. profile' = profile
    BY <1>7
  <2>6. i \in Instances \cup {None} /\ "using" \in Pcs
    BY <1>2 DEF Pcs
  <2>7. /\ r \in CallRecord /\ r.pc = "using" /\ r.original = i /\ r.inst = i
        /\ r.goal = call[c].goal
    <3> DEFINE q == [call[c] EXCEPT !.pc = "using"]
    <3>1. /\ q \in CallRecord /\ q.pc = "using" /\ q.goal = call[c].goal
          /\ q.inst = call[c].inst
      BY <1>1, <2>6, PcIs
    <3>2. r = [q EXCEPT !.original = i]
      BY <1>1 DEF CallRecord
    <3> HIDE DEF q, r
    <3> QED BY <2>6, <3>1, <3>2 DEF CallRecord
  <2> HIDE DEF d, r
  <2>8. /\ BrowsersOK' /\ Stays /\ StopsOK'
        /\ \A j \in Instances : browser'[j] = IF j = i THEN d ELSE browser[j]
    BY <1>2, <1>3, <2>2, <2>3, <2>5, Touches, LocksSame
  <2>9. \A x \in Callers : call'[x] = IF x = c THEN r ELSE call[x]
    BY <1>1, <2>4, CallFields
  <2>10. CallOK(c, r, browser)
    BY <1>1, <1>2, <1>7, <2>7 DEF CallOK, Held
  <2>11. CallsOK'
    BY <2>7, <2>8, <2>10, <2>4, CallLasts, OneCall DEF IInv
  <2>12. ChainOK'
    BY <1>2, <1>3, <2>7, <2>9, ChainStays DEF IInv, Waiting
  <2>13. call[c].original = None
    BY <1>1, <1>7 DEF CallOK
  <2>14. LeasesBalanced'
    <3>1. c \in Scripts
      BY <1>7
    <3>2. \A j \in Instances : browser'[j].leases = IF j = i THEN browser[i].leases + 1
                                                     ELSE browser[j].leases
      BY <1>2, <2>2, <2>8
    <3>3. \A x \in Scripts : call'[x].original = IF x = c THEN i ELSE call[x].original
      BY <2>7, <2>9 DEF Callers, Calls
    <3> QED BY <1>2, <2>13, <3>1, <3>2, <3>3, LeasesTaken DEF IInv
  <2> QED BY <1>3, <2>8, <2>11, <2>12, <2>14, <2>5 DEF IInv, Others
<1>8. CASE /\ ~Rejected(i)
           /\ call' = [call EXCEPT ![c].pc = "using"]
           /\ UNCHANGED <<browser, profile>>
  <2> DEFINE r == [call[c] EXCEPT !.pc = "using"]
  <2>1. /\ r \in CallRecord /\ r.pc = "using" /\ r.goal = call[c].goal /\ r.inst = i
        /\ r.original = call[c].original /\ r.retried = call[c].retried
    BY <1>1, PcIs DEF Pcs
  <2>2. call' = [call EXCEPT ![c] = r]
    BY <1>8
  <2> HIDE DEF r
  <2>3. /\ BrowsersOK' /\ Stays /\ StopsOK'
        /\ \A j \in Instances : browser'[j].leases = browser[j].leases
    BY <1>3, <1>8, NoBrowser, LocksSame
  <2>4. CallOK(c, r, browser)
    BY <1>1, <1>2, <1>8, <2>1 DEF CallOK, Held
  <2>5. CallsOK' /\ ChainOK' /\ LeasesBalanced'
    BY <1>2, <1>3, <2>1, <2>2, <2>3, <2>4, CallSteps DEF Waiting
  <2> QED BY <1>3, <1>8, <2>3, <2>5 DEF IInv, Others
<1>9. CASE /\ ~Rejected(i) /\ c \in Panels
           /\ browser' = [browser EXCEPT ![i] =
                NoteActivity([browser[i] EXCEPT !.panels = browser[i].panels \cup {c}])]
           /\ profile' = [profile EXCEPT ![call[c].goal].visible = @ \cup {c}]
           /\ call' = [call EXCEPT ![c] = Settled(c)]
  <2> DEFINE d == NoteActivity([browser[i] EXCEPT !.panels = browser[i].panels \cup {c}])
  <2>1. browser[i].panels \cup {c} \in SUBSET Panels /\ c \notin Scripts
    BY <1>4, <1>9, DisjointAssumption DEF BrowserRecord
  <2>2. d \in BrowserRecord /\ d.leases = browser[i].leases /\ Same(browser[i], d)
    BY <1>2, <1>4, <1>9, <2>1, PanelsNoted
  <2>3. browser' = [browser EXCEPT ![i] = d]
    BY <1>9
  <2> HIDE DEF d
  <2>4. profile' \in ProfileMap /\ LocksStay
    <3> DEFINE p == call[c].goal
    <3>1. profile \in ProfileMap /\ profile[p] \in ProfileRecord /\ p \in Profiles
      BY <1>2 DEF IInv, ProfileMap
    <3>2. profile' = [profile EXCEPT ![p].visible = profile[p].visible \cup {c}]
      BY <1>9
    <3>3. profile[p].visible \cup {c} \in SUBSET Panels
      BY <1>9, <3>1 DEF ProfileRecord
    <3> HIDE DEF p
    <3> QED BY <3>1, <3>2, <3>3 DEF ProfileMap, ProfileRecord, LocksStay
  <2>5. /\ BrowsersOK' /\ Stays /\ StopsOK'
        /\ \A j \in Instances : browser'[j] = IF j = i THEN d ELSE browser[j]
    BY <1>2, <1>3, <2>2, <2>3, <2>4, Touches
  <2>6. CallsOK' /\ ChainOK' /\ LeasesBalanced'
    BY <1>1, <1>2, <1>3, <1>5, <1>9, <2>1, <2>2, <2>5, SettledIs, CallSteps
  <2> QED BY <1>3, <2>4, <2>5, <2>6 DEF IInv, Others
<1>10. CASE /\ c \in Instances
            /\ call' = [call EXCEPT ![c] = Settled(c)]
            /\ UNCHANGED <<browser, profile>>
  <2>1. /\ BrowsersOK' /\ Stays /\ StopsOK'
        /\ \A j \in Instances : browser'[j].leases = browser[j].leases
    BY <1>3, <1>10, NoBrowser, LocksSame
  <2>2. c \notin Scripts
    BY <1>10, DisjointAssumption DEF Calls
  <2>3. CallsOK' /\ ChainOK' /\ LeasesBalanced'
    BY <1>1, <1>2, <1>3, <1>5, <1>10, <2>1, <2>2, SettledIs, CallSteps
  <2> QED BY <1>3, <1>10, <2>1, <2>3 DEF IInv, Others
<1> QED BY <1>6, <1>7, <1>8, <1>9, <1>10 DEF Use

LEMMA Disturbs ==
  ASSUME Others, Disturb
  PROVE disturbances' \in 0..MaxDisturbances
  BY LimitAssumption DEF Others, Disturb

LEMMA Finishes ==
  ASSUME IInv, NEW c \in Calls, Finish(c)
  PROVE IInv'
<1>1. /\ c \in Callers /\ call[c].pc = "using" /\ call \in CallMap /\ call[c] \in CallRecord
      /\ CallOK(c, call[c], browser)
  BY DEF Finish, IInv, CallsOK, CallMap, Callers
<1>2. PICK i \in {call[c].inst, call[c].original} :
        call' = [call EXCEPT ![c].pc = "ending", ![c].inst = i]
  BY DEF Finish
<1>3. UNCHANGED <<browser, profile, chain, candidates, stops, offline, disposing, leaving,
                  disturbances>>
  BY DEF Finish
<1> DEFINE q == [call[c] EXCEPT !.pc = "ending"]
           r == [q EXCEPT !.inst = i]
<1>4. i \in Instances \cup {None} /\ (i = None \/ Held(browser, i))
  BY <1>1, <1>2 DEF CallRecord, CallOK
<1>5. /\ q \in CallRecord /\ q.pc = "ending" /\ q.goal = call[c].goal
      /\ q.original = call[c].original /\ q.retried = call[c].retried
  <2>1. "ending" \in Pcs
    BY DEF Pcs
  <2> QED BY <1>1, <2>1, PcIs
<1>6. call' = [call EXCEPT ![c] = r]
  BY <1>1, <1>2 DEF CallMap, CallRecord
<1> HIDE DEF q
<1>7. /\ r \in CallRecord /\ r.pc = "ending" /\ r.inst = i /\ r.goal = call[c].goal
      /\ r.original = call[c].original /\ r.retried = call[c].retried
  BY <1>4, <1>5 DEF CallRecord
<1> HIDE DEF r
<1>8. /\ BrowsersOK' /\ Stays /\ StopsOK'
      /\ \A j \in Instances : browser'[j].leases = browser[j].leases
  BY <1>3, NoBrowser, LocksSame
<1>9. CallOK(c, r, browser)
  BY <1>1, <1>4, <1>7 DEF CallOK
<1>10. CallsOK' /\ ChainOK' /\ LeasesBalanced'
  BY <1>1, <1>3, <1>6, <1>7, <1>8, <1>9, CallSteps DEF Waiting
<1> QED BY <1>3, <1>8, <1>10 DEF IInv, Others

(* A call that stops the instance it uses.                                    *)
LEMMA UserStops ==
  ASSUME IInv, NEW c \in Callers, NEW x \in {"abandoning", "quarantining"},
         call[c].pc = "using", StopHeld(call[c].inst, c),
         call' = [call EXCEPT ![c].pc = x], chain' = chain
  PROVE /\ BrowsersOK' /\ StopsOK' /\ profile' \in ProfileMap
        /\ CallsOK' /\ ChainOK' /\ LeasesBalanced'
<1> DEFINE r == [call[c] EXCEPT !.pc = x]
<1>1. /\ call \in CallMap /\ CallOK(c, call[c], browser) /\ c \in Stoppers
      /\ call[c].pc \notin Waiting
  BY DEF IInv, CallsOK, Stoppers, Waiting
<1>2. call[c].inst \in Instances /\ browser[call[c].inst].phase = "held"
  BY <1>1 DEF CallOK, Held
<1>3. /\ BrowsersOK' /\ Stays /\ StopsOK' /\ profile' \in ProfileMap
      /\ \A j \in Instances : browser'[j].leases = browser[j].leases
  BY <1>1, <1>2, StopBegins
<1>4. /\ r \in CallRecord /\ r.pc = x /\ r.goal = call[c].goal
      /\ r.original = call[c].original /\ r.retried = call[c].retried
  <2>1. x \in Pcs
    BY DEF Pcs
  <2> QED BY <1>1, <2>1, PcIs
<1>5. call' = [call EXCEPT ![c] = r]
  OBVIOUS
<1> HIDE DEF r
<1>6. CallOK(c, r, browser) /\ r.pc \notin Waiting
  BY <1>1, <1>4 DEF CallOK, Waiting
<1>7. CallsOK' /\ ChainOK' /\ LeasesBalanced'
  BY <1>1, <1>3, <1>4, <1>5, <1>6, CallSteps
<1> QED BY <1>3, <1>7

LEMMA Abandons ==
  ASSUME IInv, NEW c \in Calls, Unreachable(c)
  PROVE IInv'
<1>1. /\ c \in Callers /\ call[c].pc = "using" /\ StopHeld(call[c].inst, c)
      /\ call' = [call EXCEPT ![c].pc = "abandoning"]
      /\ UNCHANGED <<chain, candidates, offline, disposing, leaving>>
  BY DEF Unreachable, Callers
<1>3. disturbances' \in 0..MaxDisturbances
  BY Disturbs DEF IInv, Others, Unreachable
<1>2. /\ BrowsersOK' /\ StopsOK' /\ profile' \in ProfileMap
      /\ CallsOK' /\ ChainOK' /\ LeasesBalanced'
  BY <1>1, UserStops
<1> QED BY <1>1, <1>2, <1>3 DEF IInv, Others

LEMMA Quarantines ==
  ASSUME IInv, NEW c \in Calls, Quarantine(c)
  PROVE IInv'
<1>1. /\ c \in Callers /\ call[c].pc = "using" /\ StopHeld(call[c].inst, c)
      /\ call' = [call EXCEPT ![c].pc = "quarantining"]
      /\ UNCHANGED <<chain, candidates, offline, disposing, leaving>>
  BY DEF Quarantine, Callers
<1>2. /\ BrowsersOK' /\ StopsOK' /\ profile' \in ProfileMap
      /\ CallsOK' /\ ChainOK' /\ LeasesBalanced'
  BY <1>1, UserStops
<1>3. disturbances' \in 0..MaxDisturbances
  BY Disturbs DEF IInv, Quarantine
<1> QED BY <1>1, <1>2, <1>3 DEF IInv, Others

LEMMA Retries ==
  ASSUME IInv, NEW c \in Callers, Abandoned(c)
  PROVE IInv'
<1> DEFINE p == call[c].goal
           r == [Entry(c, p) EXCEPT !.retried = TRUE]
<1>1. /\ call[c].pc = "abandoning" /\ call' = [call EXCEPT ![c] = r] /\ stops' \subseteq stops
      /\ profile' = profile \/ profile' = [profile EXCEPT ![p].start = None]
      /\ UNCHANGED <<browser, chain, candidates, offline, disposing, leaving,
                     disturbances>>
  BY DEF Abandoned
<1>2. p \in Profiles /\ call[c].pc \notin Waiting
  BY <1>1 DEF IInv, CallsOK, CallOK, Waiting
<1>3. profile' \in ProfileMap /\ LocksStay
  <2>1. profile \in ProfileMap /\ profile[p] \in ProfileRecord
    BY <1>2 DEF IInv, ProfileMap
  <2> HIDE DEF p
  <2> QED BY <1>1, <1>2, <2>1 DEF ProfileMap, ProfileRecord, LocksStay
<1>4. /\ BrowsersOK' /\ Stays /\ StopsOK'
      /\ \A j \in Instances : browser'[j].leases = browser[j].leases
  BY <1>1, <1>3, NoBrowser
<1>5. /\ r \in CallRecord /\ r.pc \notin Waiting /\ r.original = call[c].original
      /\ CallOK(c, r, browser)
  BY <1>1, <1>2, EntryIs
<1> HIDE DEF r
<1>6. CallsOK' /\ ChainOK' /\ LeasesBalanced'
  BY <1>1, <1>2, <1>4, <1>5, CallSteps
<1> QED BY <1>1, <1>3, <1>4, <1>6 DEF IInv, Others

LEMMA QuarantineEnds ==
  ASSUME IInv, NEW c \in Callers, Quarantined(c)
  PROVE IInv'
<1>1. /\ call[c].pc = "quarantining" /\ call' = [call EXCEPT ![c] = Thrown(c, "other")]
      /\ stops' \subseteq stops
      /\ UNCHANGED <<browser, profile, chain, candidates, offline, disposing, leaving,
                     disturbances>>
  BY DEF Quarantined
<1>2. call[c].pc \notin Waiting
  BY <1>1 DEF Waiting
<1>3. /\ BrowsersOK' /\ Stays /\ StopsOK'
      /\ \A j \in Instances : browser'[j].leases = browser[j].leases
  BY <1>1, NoBrowser, LocksSame
<1>4. CallsOK' /\ ChainOK' /\ LeasesBalanced'
  BY <1>1, <1>2, <1>3, ThrownIs, CallSteps
<1> QED BY <1>1, <1>3, <1>4 DEF IInv, Others

LEMMA LeaseHeld ==
  ASSUME LeasesBalanced, NEW i \in Instances, NEW c \in Scripts, call[c].original = i
  PROVE browser[i].leases - 1 \in Nat
<1> DEFINE Lessees == {d \in Scripts : call[d].original = i}
<1>1. IsFiniteSet(Lessees) /\ c \in Lessees
  BY ScriptsAssumption, FS_Subset
<1>2. browser[i].leases = Cardinality(Lessees)
  BY DEF LeasesBalanced
<1> HIDE DEF Lessees
<1>3. Cardinality(Lessees \ {c}) = Cardinality(Lessees) - 1 /\ IsFiniteSet(Lessees \ {c})
  BY <1>1, FS_RemoveElement
<1> QED BY <1>2, <1>3, FS_CardinalityType

LEMMA Ends ==
  ASSUME IInv, NEW c \in Callers, End(c)
  PROVE IInv'
<1> DEFINE o == call[c].original
           i == call[c].inst
           p == call[c].goal
           freed == IF o = None THEN browser ELSE [browser EXCEPT ![o].leases = @ - 1]
<1>1. /\ call[c].pc = "ending" /\ call' = [call EXCEPT ![c] = Settled(c)]
      /\ UNCHANGED <<chain, candidates, stops, offline, disposing, leaving, disturbances>>
      /\ browser' = IF i = None THEN freed ELSE [freed EXCEPT ![i] = NoteActivity(@)]
  BY DEF End, CanEnd
<1>2. call \in CallMap /\ CallOK(c, call[c], browser)
  BY DEF IInv, CallsOK
<1>3. /\ p \in Profiles /\ (i # None => Held(browser, i))
      /\ o # None => o \in Instances /\ browser[o].phase = "held" /\ c \in Scripts
  BY <1>1, <1>2 DEF CallOK, Held
<1>4. browser \in BrowserMap
  BY DEF IInv, BrowsersOK
<1>5. \A j \in Instances : j # None
  BY DisjointAssumption DEF Callers
<1>6. /\ freed \in BrowserMap
      /\ \A j \in Instances :
           /\ Same(browser[j], freed[j])
           /\ freed[j].leases = IF j = o THEN browser[o].leases - 1 ELSE browser[j].leases
  <2>1. CASE o = None
    BY <1>4, <1>5, <2>1 DEF Same
  <2>2. CASE o # None
    <3> DEFINE x == browser[o].leases - 1
               d == [browser[o] EXCEPT !.leases = x]
    <3>1. x \in Nat /\ browser[o] \in BrowserRecord
      BY <1>3, <1>4, <2>2, LeaseHeld DEF IInv, BrowserMap
    <3>2. freed = [browser EXCEPT ![o] = d]
      BY <2>2
    <3> HIDE DEF x
    <3>3. d \in BrowserRecord /\ d.leases = x /\ Same(browser[o], d)
      BY <3>1 DEF BrowserRecord, Same
    <3> HIDE DEF d, freed
    <3>4. \A j \in Instances : freed[j] = IF j = o THEN d ELSE browser[j]
      BY <1>3, <1>4, <2>2, <3>2 DEF BrowserMap
    <3>5. freed \in BrowserMap
      BY <1>3, <1>4, <2>2, <3>2, <3>3 DEF BrowserMap
    <3>6. \A j \in Instances : Same(browser[j], freed[j])
      BY <3>3, <3>4 DEF Same
    <3>7. \A j \in Instances : freed[j].leases = IF j = o THEN x ELSE browser[j].leases
      BY <3>3, <3>4
    <3> QED BY <3>5, <3>6, <3>7 DEF x
  <2> QED BY <2>1, <2>2
<1> HIDE DEF freed
<1>7. /\ browser' \in BrowserMap
      /\ \A j \in Instances :
           /\ Same(freed[j], browser'[j])
           /\ browser'[j].leases = freed[j].leases
  <2>1. CASE i = None
    BY <1>1, <1>6, <2>1 DEF Same
  <2>2. CASE i # None
    <3> DEFINE d == NoteActivity(freed[i])
    <3>1. i \in Instances /\ freed[i].phase = "held" /\ freed[i] \in BrowserRecord
      BY <1>3, <1>6, <2>2 DEF Held, Same, BrowserMap
    <3>2. d \in BrowserRecord /\ d.leases = freed[i].leases /\ Same(freed[i], d)
      BY <3>1, Notes
    <3>3. browser' = [freed EXCEPT ![i] = d]
      BY <1>1, <2>2
    <3> HIDE DEF d
    <3>4. /\ browser' \in BrowserMap
          /\ \A j \in Instances : browser'[j] = IF j = i THEN d ELSE freed[j]
      BY <1>6, <3>1, <3>2, <3>3 DEF BrowserMap
    <3> QED BY <3>2, <3>4 DEF Same
  <2> QED BY <2>1, <2>2
<1>8. profile' \in ProfileMap /\ LocksStay
  <2>0. profile \in ProfileMap
    BY DEF IInv
  <2>1. \/ profile' = profile
        \/ profile' = [profile EXCEPT ![p].lifecycle = "repair-required"]
        \/ profile' = [profile EXCEPT ![p].lifecycle = "sleeping"]
        \/ profile' = [profile EXCEPT ![p].failure = TRUE]
    BY DEF End
  <2>2. CASE profile' = profile
    BY <2>0, <2>2 DEF LocksStay
  <2>3. CASE profile' = [profile EXCEPT ![p].lifecycle = "repair-required"]
    BY <1>3, <2>0, <2>3 DEF ProfileMap, ProfileRecord, LocksStay
  <2>4. CASE profile' = [profile EXCEPT ![p].lifecycle = "sleeping"]
    BY <1>3, <2>0, <2>4 DEF ProfileMap, ProfileRecord, LocksStay
  <2>5. CASE profile' = [profile EXCEPT ![p].failure = TRUE]
    <3>1. profile[p] \in ProfileRecord /\ p \in Profiles
      BY <1>3, <2>0 DEF ProfileMap
    <3> HIDE DEF p
    <3> QED BY <2>0, <2>5, <3>1 DEF ProfileMap, ProfileRecord, LocksStay
  <2> QED BY <2>1, <2>2, <2>3, <2>4, <2>5
<1>9. \A j \in Instances : Same(browser[j], browser'[j])
  BY <1>6, <1>7 DEF Same
<1>10. BrowsersOK' /\ Stays
  BY <1>7, <1>8, <1>9, SameStays DEF IInv
<1>11. StopsOK'
  BY <1>1, <1>10, StopsStay DEF IInv
<1>12. /\ Settled(c) \in CallRecord /\ Settled(c).pc \notin Waiting
       /\ Settled(c).original = None /\ CallOK(c, Settled(c), browser)
  BY <1>1, SettledIs
<1>13. \A x \in Callers : call'[x] = IF x = c THEN Settled(c) ELSE call[x]
  BY <1>1, <1>2, CallFields
<1>14. CallsOK'
  BY <1>1, <1>10, <1>12, CallLasts, OneCall DEF IInv
<1>15. ChainOK'
  BY <1>1, <1>12, <1>13, ChainStays DEF IInv, Waiting
<1>16. LeasesBalanced'
  <2>1. \A j \in Instances : browser'[j].leases = IF j = o THEN browser[o].leases - 1
                                                  ELSE browser[j].leases
    BY <1>6, <1>7
  <2>2. \A x \in Scripts : call'[x].original = IF x = c THEN None ELSE call[x].original
    BY <1>12, <1>13 DEF Callers, Calls
  <2>3. CASE o = None
    BY <1>5, <2>1, <2>2, <2>3, LeasesStay DEF IInv
  <2>4. CASE o # None
    BY <1>3, <1>4, <2>1, <2>2, <2>4, LeasesReturned DEF IInv
  <2> QED BY <2>3, <2>4
<1> QED BY <1>1, <1>8, <1>10, <1>11, <1>14, <1>15, <1>16 DEF IInv, Others

(* unpinPanel leaves what the panel's call remembers alone.                     *)
LEMMA UnpinIs ==
  ASSUME IInv, NEW c \in Panels, NEW x \in Instances \cup {None, "done"},
         call' = [call EXCEPT ![c].unpin = x], chain' = chain, Stays,
         \A j \in Instances : browser'[j].leases = browser[j].leases
  PROVE CallsOK' /\ ChainOK' /\ LeasesBalanced'
<1> DEFINE r == [call[c] EXCEPT !.unpin = x]
<1>1. c \in Callers /\ c \notin Scripts
  BY DisjointAssumption DEF Callers, Calls
<1>2. call \in CallMap /\ call[c] \in CallRecord /\ CallOK(c, call[c], browser)
  BY <1>1 DEF IInv, CallsOK, CallMap
<1>3. call' = [call EXCEPT ![c] = r]
  OBVIOUS
<1>4. /\ r \in CallRecord /\ r.pc = call[c].pc /\ r.goal = call[c].goal
      /\ r.inst = call[c].inst /\ r.original = call[c].original
      /\ r.retried = call[c].retried
  BY <1>2 DEF CallRecord
<1> HIDE DEF r
<1>5. CallOK(c, r, browser)
  BY <1>2, <1>4 DEF CallOK
<1>6. CallsOK'
  BY <1>1, <1>3, <1>4, <1>5, CallLasts, OneCall DEF IInv
<1>7. \A d \in Callers : call'[d] = IF d = c THEN r ELSE call[d]
  BY <1>1, <1>2, <1>3, CallFields
<1>8. ChainOK'
  BY <1>4, <1>7, ChainStays DEF IInv
<1>9. LeasesBalanced'
  BY <1>4, <1>7, LeasesStay DEF IInv, Callers, Calls
<1> QED BY <1>6, <1>8, <1>9

LEMMA Unpins ==
  ASSUME IInv, NEW c \in Panels, Unpin(c)
  PROVE IInv'
<1> DEFINE p == call[c].goal
           x == IF profile[p].start = None THEN "done" ELSE profile[p].start
<1>1. /\ call[c].pc # "idle" /\ profile' = [profile EXCEPT ![p].visible = @ \ {c}]
      /\ call' = [call EXCEPT ![c].unpin = x]
      /\ UNCHANGED <<browser, chain, candidates, stops, offline, disposing, leaving,
                     disturbances>>
  BY DEF Unpin
<1>2. c \in Callers /\ c \in Calls
  BY DEF Callers, Calls
<1>3. profile \in ProfileMap /\ p \in Profiles /\ profile[p] \in ProfileRecord
  BY <1>1, <1>2 DEF IInv, CallsOK, CallOK, ProfileMap
<1>4. x \in Instances \cup {None, "done"} /\ profile[p].visible \ {c} \in SUBSET Panels
  BY <1>3 DEF ProfileRecord
<1> HIDE DEF p, x
<1>5. profile' \in ProfileMap /\ LocksStay
  BY <1>1, <1>3, <1>4 DEF ProfileMap, ProfileRecord, LocksStay
<1>6. /\ BrowsersOK' /\ Stays /\ StopsOK'
      /\ \A j \in Instances : browser'[j].leases = browser[j].leases
  BY <1>1, <1>5, NoBrowser
<1>7. CallsOK' /\ ChainOK' /\ LeasesBalanced'
  BY <1>1, <1>4, <1>6, UnpinIs
<1> QED BY <1>1, <1>5, <1>6, <1>7 DEF IInv, Others

LEMMA UnpinEnds ==
  ASSUME IInv, NEW c \in Panels, Unpinned(c)
  PROVE IInv'
<1> DEFINE i == call[c].unpin
           P == browser[i].panels \ {c}
           d == NoteActivity([browser[i] EXCEPT !.panels = P])
<1>1. /\ i \in Instances /\ StartSettled(i)
      /\ browser' = IF Rejected(i) THEN browser ELSE [browser EXCEPT ![i] = d]
      /\ call' = [call EXCEPT ![c].unpin = "done"]
      /\ UNCHANGED <<profile, chain, candidates, stops, offline, disposing, leaving,
                     disturbances>>
  BY DEF Unpinned, CanUnpin
<1> HIDE DEF i
<1>2. /\ BrowsersOK' /\ Stays /\ StopsOK'
      /\ \A j \in Instances : browser'[j].leases = browser[j].leases
  <2>1. CASE Rejected(i)
    BY <1>1, <2>1, NoBrowser, LocksSame
  <2>2. CASE ~Rejected(i)
    <3>1. browser[i].phase = "held" /\ browser[i] \in BrowserRecord
      BY <1>1, <2>2 DEF StartSettled, IInv, BrowsersOK, BrowserMap
    <3>2. P \in SUBSET Panels
      BY <3>1 DEF BrowserRecord
    <3> HIDE DEF P
    <3>3. d \in BrowserRecord /\ d.leases = browser[i].leases /\ Same(browser[i], d)
      BY <3>1, <3>2, PanelsNoted
    <3> HIDE DEF d
    <3>4. /\ BrowsersOK' /\ Stays /\ StopsOK'
          /\ \A j \in Instances : browser'[j] = IF j = i THEN d ELSE browser[j]
      BY <1>1, <2>2, <3>3, Touches, LocksSame
    <3> QED BY <3>3, <3>4
  <2> QED BY <2>1, <2>2
<1>3. CallsOK' /\ ChainOK' /\ LeasesBalanced'
  BY <1>1, <1>2, UnpinIs
<1> QED BY <1>1, <1>2, <1>3 DEF IInv, Others

-----------------------------------------------------------------------------
(* launchBrowserInstance, and the end of an instance.                         *)

(* One instance and its profile change, no call does.                         *)
LEMMA InstanceSteps ==
  ASSUME IInv, NEW i \in Instances, NEW d \in BrowserRecord,
         browser' = [browser EXCEPT ![i] = d], d.leases = browser[i].leases,
         InstanceOK(i, d, profile'), profile' \in ProfileMap,
         \A q \in Profiles : profile'[q].lock = profile[q].lock \/ profile[q].lock \in {None, i},
         browser[i].phase = "held" => d.phase = "held" /\ (~browser[i].alive => ~d.alive),
         browser[i].retiring # "none" => d.retiring # "none",
         disturbances' \in 0..MaxDisturbances,
         UNCHANGED <<call, chain, candidates, stops, offline, disposing, leaving>>
  PROVE IInv'
<1>1. /\ BrowsersOK /\ browser \in BrowserMap
      /\ \A j \in Instances : browser[j].phase # "unused" => browser[j].owner \in Profiles
  BY DEF IInv, BrowsersOK, InstanceOK
<1>2. \A j \in Instances : j # i =>
        \/ browser[j].phase = "unused"
        \/ profile'[browser[j].owner].lock = profile[browser[j].owner].lock
        \/ profile[browser[j].owner].lock # j
  BY <1>1, DisjointAssumption DEF Callers
<1>3. BrowsersOK' /\ Stays
  BY <1>1, <1>2, OneBrowser
<1>4. \A j \in Instances : browser'[j].leases = browser[j].leases
  BY <1>1 DEF BrowserMap
<1>5. CallsOK' /\ ChainOK' /\ LeasesBalanced'
  BY <1>3, <1>4, NoCall
<1>6. StopsOK'
  BY <1>3, StopsStay DEF IInv
<1> QED BY <1>3, <1>5, <1>6 DEF IInv, Others

LEMMA Fails ==
  ASSUME IInv, NEW i \in Instances, browser[i].phase \in {"checking", "locking", "aborting"},
         ~browser[i].alive, NEW ph \in {"failed", "repair"}, FailedStart(i, ph),
         browser[i].phase = "aborting" => ph = "failed",
         LaunchUnchanged, disturbances' \in 0..MaxDisturbances
  PROVE IInv'
<1> DEFINE p == browser[i].owner
           d == [browser[i] EXCEPT !.phase = ph]
           l == IF ph = "repair" THEN "repair-required" ELSE "sleeping"
<1>1. /\ browser' = [browser EXCEPT ![i] = d]
      /\ profile' = [profile EXCEPT ![p].start = None, ![p].lifecycle = l]
  BY DEF FailedStart
<1>2. InstanceOK(i, browser[i], profile) /\ browser[i] \in BrowserRecord
  BY DEF IInv, BrowsersOK, BrowserMap
<1>3. p \in Profiles
  BY <1>2 DEF InstanceOK
<1> HIDE DEF p
<1>4. profile' \in ProfileMap /\ \A q \in Profiles : profile'[q].lock = profile[q].lock
  <2>1. l \in {"repair-required", "sleeping"}
    OBVIOUS
  <2>2. profile \in ProfileMap /\ profile[p] \in ProfileRecord
    BY <1>3 DEF IInv, ProfileMap
  <2> HIDE DEF l
  <2> QED BY <1>1, <1>3, <2>1, <2>2 DEF ProfileMap, ProfileRecord
<1>5. /\ d \in BrowserRecord /\ d.phase = ph /\ d.owner = p /\ d.alive = browser[i].alive
      /\ d.cleanup = browser[i].cleanup /\ d.retiring = browser[i].retiring
      /\ d.timer = browser[i].timer /\ d.leases = browser[i].leases
      /\ d.ended = browser[i].ended
  BY <1>2 DEF BrowserRecord, Phases, p
<1> HIDE DEF d
<1>6. InstanceOK(i, d, profile')
  BY <1>2, <1>3, <1>5 DEF InstanceOK
<1>7. browser[i].phase # "held" /\ browser[i].retiring = "none"
  BY <1>2 DEF InstanceOK, BrowserRecord
<1> QED BY <1>1, <1>4, <1>5, <1>6, <1>7, InstanceSteps DEF LaunchUnchanged, IInv, Others

(* The phase of an instance changes before it is published.                    *)
Underway == {"checking", "locking", "spawning", "starting", "aborting"}

LEMMA Proceeds ==
  ASSUME IInv, NEW i \in Instances, NEW ph \in Underway, NEW a \in BOOLEAN,
         browser[i].phase \in Underway \ {"aborting"},
         browser' = [browser EXCEPT ![i].phase = ph, ![i].alive = a],
         a => ph \in {"starting", "aborting"}, profile' \in ProfileMap,
         \A q \in Profiles : profile'[q].lock = profile[q].lock \/ profile[q].lock \in {None, i},
         ph \in {"spawning", "starting", "aborting"} => profile'[browser[i].owner].lock = i,
         disturbances' \in 0..MaxDisturbances, LaunchUnchanged
  PROVE IInv'
<1> DEFINE d == [browser[i] EXCEPT !.phase = ph, !.alive = a]
<1>1. InstanceOK(i, browser[i], profile) /\ browser \in BrowserMap /\ browser[i] \in BrowserRecord
  BY DEF IInv, BrowsersOK, BrowserMap
<1>2. browser' = [browser EXCEPT ![i] = d]
  BY <1>1 DEF BrowserMap, BrowserRecord
<1>3. /\ d \in BrowserRecord /\ d.phase = ph /\ d.owner = browser[i].owner /\ d.alive = a
      /\ d.cleanup = browser[i].cleanup /\ d.retiring = browser[i].retiring
      /\ d.timer = browser[i].timer /\ d.leases = browser[i].leases
      /\ d.ended = browser[i].ended
  BY <1>1 DEF BrowserRecord, Underway, Phases
<1> HIDE DEF d
<1>4. InstanceOK(i, d, profile')
  BY <1>1, <1>3 DEF InstanceOK, Underway
<1>5. browser[i].phase # "held" /\ browser[i].retiring = "none"
  BY <1>1 DEF InstanceOK, Underway, BrowserRecord
<1> QED BY <1>1, <1>2, <1>3, <1>4, <1>5, InstanceSteps DEF LaunchUnchanged

LEMMA PhaseIs ==
  ASSUME browser \in BrowserMap, NEW i \in Instances, NEW ph,
         browser' = [browser EXCEPT ![i].phase = ph]
  PROVE browser' = [browser EXCEPT ![i].phase = ph, ![i].alive = browser[i].alive]
  BY DEF BrowserMap, BrowserRecord

(* Browsers end, and nothing else happens to them.                             *)
BrowserEnds(b, d) ==
  /\ d.phase = b.phase /\ d.owner = b.owner /\ (d.alive => b.alive)
  /\ d.cleanup = b.cleanup /\ d.retiring = b.retiring /\ d.timer = b.timer
  /\ d.leases = b.leases
  /\ d.ended => b.ended \/ (b.phase = "aborting" /\ ~d.alive)

LEMMA BrowsersEnd ==
  ASSUME IInv, browser' \in BrowserMap, profile' = profile,
         \A j \in Instances : BrowserEnds(browser[j], browser'[j])
  PROVE /\ BrowsersOK' /\ Stays
        /\ \A j \in Instances : browser'[j].leases = browser[j].leases
<1>1. ASSUME NEW j \in Instances PROVE InstanceOK(j, browser'[j], profile')
  <2>1. InstanceOK(j, browser[j], profile)
    BY DEF IInv, BrowsersOK
  <2> QED BY <2>1 DEF InstanceOK, BrowserEnds
<1>2. Stays
  BY DEF Stays, BrowserEnds
<1> QED BY <1>1, <1>2 DEF BrowsersOK, BrowserEnds

LEMMA ProcessEnds ==
  ASSUME IInv, NEW i \in Instances, AbortedProcessEnds(i)
  PROVE IInv'
<1>1. /\ browser[i].phase = "aborting"
      /\ LaunchUnchanged /\ UNCHANGED <<profile, disturbances>>
      /\ browser \in BrowserMap /\ \A j \in Instances : browser[j] \in BrowserRecord
  BY DEF AbortedProcessEnds, IInv, BrowsersOK, BrowserMap
<1>2. PICK others : browser' = [j \in Instances |->
         CASE j = i -> [browser[j] EXCEPT !.alive = FALSE, !.ended = TRUE]
           [] j # i /\ j \in others -> [browser[j] EXCEPT !.alive = FALSE]
           [] OTHER -> browser[j]]
  BY DEF AbortedProcessEnds
<1>3. ASSUME NEW j \in Instances
      PROVE browser'[j] \in BrowserRecord /\ BrowserEnds(browser[j], browser'[j])
  <2>1. browser[j] \in BrowserRecord
    BY <1>1
  <2>2. CASE j = i
    <3>1. browser'[j] = [browser[j] EXCEPT !.alive = FALSE, !.ended = TRUE]
      BY <1>2, <2>2
    <3> QED BY <1>1, <2>1, <2>2, <3>1 DEF BrowserRecord, BrowserEnds
  <2>3. CASE j # i /\ j \in others
    <3>1. browser'[j] = [browser[j] EXCEPT !.alive = FALSE]
      BY <1>2, <2>3
    <3> QED BY <2>1, <3>1 DEF BrowserRecord, BrowserEnds
  <2>4. CASE j # i /\ j \notin others
    <3>1. browser'[j] = browser[j]
      BY <1>2, <2>4
    <3> QED BY <2>1, <3>1 DEF BrowserEnds
  <2> QED BY <2>2, <2>3, <2>4
<1>4. browser' \in BrowserMap
  <2>1. browser' = [j \in Instances |-> browser'[j]]
    BY <1>2
  <2> QED BY <1>3, <2>1 DEF BrowserMap
<1>5. /\ BrowsersOK' /\ Stays
      /\ \A j \in Instances : browser'[j].leases = browser[j].leases
  BY <1>1, <1>3, <1>4, BrowsersEnd
<1>6. CallsOK' /\ ChainOK' /\ LeasesBalanced'
  BY <1>1, <1>5, NoCall DEF LaunchUnchanged
<1>7. StopsOK'
  BY <1>1, <1>5, StopsStay DEF IInv, LaunchUnchanged
<1> QED BY <1>1, <1>5, <1>6, <1>7 DEF IInv, Others, LaunchUnchanged

LEMMA Launches ==
  ASSUME IInv, NEW i \in Instances, Launch(i) \/ AbortLaunch(i)
  PROVE IInv'
<1> DEFINE p == browser[i].owner
           b == browser[i]
<1>1. /\ InstanceOK(i, b, profile) /\ browser \in BrowserMap /\ b \in BrowserRecord
      /\ profile \in ProfileMap /\ disturbances \in 0..MaxDisturbances /\ Others
  BY DEF IInv, BrowsersOK, BrowserMap, Others
<1>2. b.phase # "unused" => p \in Profiles /\ profile[p] \in ProfileRecord
  BY <1>1 DEF InstanceOK, ProfileMap
<1>3. CASE CheckCrashes(i)
  <2>1. b.phase = "checking" /\ ~b.alive /\ LaunchUnchanged
    BY <1>1, <1>3 DEF CheckCrashes, InstanceOK
  <2>2. disturbances' \in 0..MaxDisturbances
    BY <1>1, <1>3, Disturbs DEF CheckCrashes
  <2>3. ASSUME NEW ph \in {"failed", "repair"}, FailedStart(i, ph)
        PROVE IInv'
    BY <2>1, <2>2, <2>3, Fails
  <2>4. CASE browser' = [browser EXCEPT ![i].phase = "locking"] /\ UNCHANGED profile
    <3>1. "locking" \in Underway /\ b.phase \in Underway \ {"aborting"}
      BY <2>1 DEF Underway
    <3>2. browser' = [browser EXCEPT ![i].phase = "locking", ![i].alive = b.alive]
      BY <1>1, <2>4, PhaseIs
    <3>3. b.alive \in BOOLEAN
      BY <1>1 DEF BrowserRecord
    <3>4. /\ profile' \in ProfileMap
          /\ \A q \in Profiles : profile'[q].lock = profile[q].lock
      BY <1>1, <2>4
    <3> QED BY <2>1, <2>2, <3>1, <3>2, <3>3, <3>4, Proceeds
  <2> QED BY <1>3, <2>3, <2>4 DEF CheckCrashes
<1>4. CASE AcquireLock(i)
  <2>1. b.phase = "locking" /\ ~b.alive /\ LaunchUnchanged
    BY <1>1, <1>4 DEF AcquireLock, InstanceOK
  <2>2. disturbances' \in 0..MaxDisturbances
    BY <1>1, <1>4, Disturbs DEF AcquireLock
  <2>3. CASE FailedStart(i, "failed")
    BY <2>1, <2>2, <2>3, Fails
  <2>4. CASE /\ profile[p].lock = None
             /\ browser' = [browser EXCEPT ![i].phase = "spawning"]
             /\ profile' = [profile EXCEPT ![p].lock = i]
    <3>1. "spawning" \in Underway /\ b.phase \in Underway \ {"aborting"}
      BY <2>1 DEF Underway
    <3>2. browser' = [browser EXCEPT ![i].phase = "spawning", ![i].alive = b.alive]
      BY <1>1, <2>4, PhaseIs
    <3>3. b.alive \in BOOLEAN
      BY <1>1 DEF BrowserRecord
    <3>4. /\ profile' \in ProfileMap /\ profile'[p].lock = i
          /\ \A q \in Profiles : profile'[q].lock = profile[q].lock \/ profile[q].lock = None
      BY <1>1, <1>2, <2>1, <2>4 DEF ProfileMap, ProfileRecord
    <3> HIDE DEF b
    <3> QED BY <1>1, <2>1, <2>2, <3>1, <3>2, <3>3, <3>4, Proceeds DEF b
  <2> QED BY <1>4, <2>3, <2>4 DEF AcquireLock
<1>5. CASE Spawn(i)
  <2>1. /\ b.phase = "spawning" /\ LaunchUnchanged /\ UNCHANGED <<profile, disturbances>>
        /\ browser' = [browser EXCEPT ![i].phase = "starting", ![i].alive = TRUE]
    BY <1>5 DEF Spawn
  <2>2. "starting" \in Underway /\ b.phase \in Underway \ {"aborting"}
    BY <2>1 DEF Underway
  <2>3. profile[p].lock = i
    BY <1>1, <2>1 DEF InstanceOK
  <2> QED BY <1>1, <2>1, <2>2, <2>3, Proceeds
<1>6. CASE Publish(i)
  <2> DEFINE d == NoteActivity([b EXCEPT !.phase = "held", !.panels = profile[p].visible])
  <2>1. /\ b.phase = "starting" /\ b.alive /\ LaunchUnchanged /\ UNCHANGED disturbances
        /\ browser' = [browser EXCEPT ![i] = d]
        /\ profile' = [profile EXCEPT ![p].lifecycle = "running"]
    BY <1>6 DEF Publish
  <2>2. p \in Profiles /\ profile[p].visible \in SUBSET Panels
    BY <1>2, <2>1 DEF ProfileRecord
  <2>3. /\ d \in BrowserRecord /\ d.phase = "held" /\ d.owner = p /\ d.alive = b.alive
        /\ d.cleanup = b.cleanup /\ d.retiring = b.retiring /\ d.leases = b.leases
        /\ d.ended = b.ended
    <3> DEFINE P == profile[p].visible
               e == [b EXCEPT !.phase = "held", !.panels = P]
    <3>1. P \in SUBSET Panels /\ "held" \in Phases
      BY <2>2 DEF Phases
    <3> HIDE DEF P
    <3>2. /\ e \in BrowserRecord /\ e.phase = "held" /\ e.owner = p /\ e.alive = b.alive
          /\ e.cleanup = b.cleanup /\ e.retiring = b.retiring /\ e.leases = b.leases
          /\ e.ended = b.ended
      BY <1>1, <3>1 DEF BrowserRecord
    <3> HIDE DEF e
    <3>3. d = NoteActivity(e)
      BY DEF e, P
    <3> QED BY <3>2, <3>3, Notes DEF Same
  <2> HIDE DEF d
  <2>4. /\ profile' \in ProfileMap
        /\ \A q \in Profiles : profile'[q].lock = profile[q].lock
    BY <1>1, <1>2, <2>1, <2>2 DEF ProfileMap, ProfileRecord
  <2>5. InstanceOK(i, d, profile')
    BY <1>1, <2>1, <2>2, <2>3, <2>4 DEF InstanceOK
  <2>6. b.retiring = "none"
    BY <1>1, <2>1 DEF InstanceOK, BrowserRecord
  <2> QED BY <1>1, <2>1, <2>3, <2>4, <2>5, <2>6, InstanceSteps DEF LaunchUnchanged
<1>7. CASE AbortLaunch(i)
  <2>1. /\ b.phase \in {"spawning", "starting"} /\ LaunchUnchanged /\ UNCHANGED profile
        /\ browser' = [browser EXCEPT ![i].phase = "aborting"]
        /\ UNCHANGED disturbances \/ Disturb
    BY <1>7 DEF AbortLaunch
  <2>2. "aborting" \in Underway /\ b.phase \in Underway \ {"aborting"}
    BY <2>1 DEF Underway
  <2>3. browser' = [browser EXCEPT ![i].phase = "aborting", ![i].alive = b.alive]
    BY <1>1, <2>1, PhaseIs
  <2>4. b.alive \in BOOLEAN
    BY <1>1 DEF BrowserRecord
  <2>5. disturbances' \in 0..MaxDisturbances
    BY <1>1, <2>1, Disturbs DEF IInv
  <2>6. /\ profile' \in ProfileMap /\ LaunchUnchanged /\ profile'[p].lock = i
        /\ \A q \in Profiles : profile'[q].lock = profile[q].lock
    BY <1>1, <2>1 DEF InstanceOK
  <2> HIDE DEF b
  <2> QED BY <2>2, <2>3, <2>4, <2>5, <2>6, Proceeds DEF b
<1>8. CASE AbortedProcessEnds(i)
  BY <1>8, ProcessEnds
<1>9. CASE AbortedLockReleased(i)
  <2>1. /\ b.phase = "aborting" /\ b.cleanup = "none" /\ profile[p].lock = i /\ LaunchUnchanged
        /\ profile' = profile \/ profile' = [profile EXCEPT ![p].lock = None]
        /\ UNCHANGED disturbances \/ Disturb
    BY <1>1, <1>9 DEF AbortedLockReleased, InstanceOK
  <2>2. PICK x \in {"done", "failed"} : browser' = [browser EXCEPT ![i].cleanup = x]
    BY <1>9 DEF AbortedLockReleased
  <2> DEFINE d == [b EXCEPT !.cleanup = x]
  <2>3. browser' = [browser EXCEPT ![i] = d]
    BY <2>2
  <2>4. /\ d \in BrowserRecord /\ d.phase = b.phase /\ d.owner = p /\ d.alive = b.alive
        /\ d.cleanup = x /\ d.retiring = b.retiring /\ d.leases = b.leases
        /\ d.timer = b.timer /\ d.ended = b.ended
    BY <1>1 DEF BrowserRecord
  <2> HIDE DEF d
  <2>5. /\ profile' \in ProfileMap
        /\ \A q \in Profiles : profile'[q].lock = profile[q].lock \/ profile[q].lock = i
    BY <1>1, <1>2, <2>1 DEF ProfileMap, ProfileRecord
  <2>6. InstanceOK(i, d, profile')
    BY <1>1, <2>1, <2>4 DEF InstanceOK
  <2>7. b.retiring = "none"
    BY <1>1, <2>1 DEF InstanceOK, BrowserRecord
  <2>8. disturbances' \in 0..MaxDisturbances
    BY <1>1, <2>1, Disturbs
  <2> QED BY <1>1, <2>1, <2>3, <2>4, <2>5, <2>6, <2>7, <2>8, InstanceSteps DEF LaunchUnchanged
<1>10. CASE Aborted(i)
  BY <1>1, <1>10, Fails DEF Aborted, InstanceOK
<1> QED BY <1>3, <1>4, <1>5, <1>6, <1>7, <1>8, <1>9, <1>10 DEF Launch

LEMMA Dies ==
  ASSUME IInv, NEW i \in Instances, Die(i)
  PROVE IInv'
<1> DEFINE b == browser[i]
<1>1. /\ InstanceOK(i, b, profile) /\ browser \in BrowserMap /\ b \in BrowserRecord
      /\ profile \in ProfileMap
  BY DEF IInv, BrowsersOK, BrowserMap
<1>2. PICK limit \in BOOLEAN :
        browser' = [browser EXCEPT ![i].alive = FALSE, ![i].asked = @ \/ limit]
  BY DEF Die
<1>3. /\ b.phase \in {"starting", "held"} /\ b.alive
      /\ UNCHANGED <<profile, call, chain, candidates, stops, offline, disposing, leaving>>
      /\ disturbances' \in 0..MaxDisturbances
  BY Disturbs DEF Die, IInv
<1> DEFINE k == b.asked \/ limit
           d == [b EXCEPT !.alive = FALSE, !.asked = k]
<1>4. browser' = [browser EXCEPT ![i] = d]
  BY <1>1, <1>2 DEF BrowserMap, BrowserRecord
<1>5. k \in BOOLEAN
  OBVIOUS
<1> HIDE DEF k
<1>6. /\ d \in BrowserRecord /\ d.phase = b.phase /\ d.owner = b.owner /\ ~d.alive
      /\ d.cleanup = b.cleanup /\ d.retiring = b.retiring /\ d.leases = b.leases
      /\ d.timer = b.timer /\ d.ended = b.ended
  BY <1>1, <1>5 DEF BrowserRecord
<1> HIDE DEF d
<1>7. InstanceOK(i, d, profile')
  BY <1>1, <1>3, <1>6 DEF InstanceOK
<1> QED BY <1>1, <1>3, <1>4, <1>6, <1>7, InstanceSteps

LEMMA CleanupBegins ==
  ASSUME NEW b \in BrowserRecord
  PROVE LET d == CleanupBegun(b)
        IN /\ d \in BrowserRecord /\ d.phase = b.phase /\ d.owner = b.owner
           /\ d.alive = b.alive /\ d.retiring = b.retiring /\ d.leases = b.leases
           /\ d.timer = b.timer /\ d.ended = b.ended
           /\ d.cleanup = IF b.cleanup = "none" THEN "running" ELSE b.cleanup
  BY DEF CleanupBegun, BrowserRecord

LEMMA ExitNoticed ==
  ASSUME IInv, NEW i \in Instances, NoticeExit(i)
  PROVE IInv'
<1> DEFINE b == browser[i]
           p == b.owner
<1>1. /\ InstanceOK(i, b, profile) /\ browser \in BrowserMap /\ b \in BrowserRecord
      /\ BrowsersOK /\ profile \in ProfileMap
  BY DEF IInv, BrowsersOK, BrowserMap
<1>2. /\ b.phase = "held" /\ ~b.alive /\ b.retiring = "none"
      /\ profile' = [profile EXCEPT ![p].start = None, ![p].retirement = i]
      /\ UNCHANGED <<chain, candidates, stops, offline, disposing, leaving, disturbances>>
  BY DEF NoticeExit
<1>3. p \in Profiles
  BY <1>1, <1>2 DEF InstanceOK
<1>4. profile' \in ProfileMap /\ \A q \in Profiles : profile'[q].lock = profile[q].lock
  <2> HIDE DEF p
  <2>1. profile[p] \in ProfileRecord
    BY <1>1, <1>3 DEF ProfileMap
  <2> QED BY <1>1, <1>2, <1>3, <2>1 DEF ProfileMap, ProfileRecord
<1>5. CASE b.asked
  <2> DEFINE e == [b EXCEPT !.timer = FALSE, !.retiring = "cleaning"]
             d == CleanupBegun(e)
  <2>1. browser' = [browser EXCEPT ![i] = d] /\ call' = call
    BY <1>5 DEF NoticeExit
  <2>2. /\ e \in BrowserRecord /\ e.phase = b.phase /\ e.owner = p /\ e.alive = b.alive
        /\ e.cleanup = b.cleanup /\ e.retiring = "cleaning" /\ e.leases = b.leases /\ e.ended = b.ended /\ ~e.timer
    BY <1>1 DEF BrowserRecord
  <2> HIDE DEF e
  <2>3. /\ d \in BrowserRecord /\ d.phase = b.phase /\ d.owner = p /\ d.alive = b.alive
        /\ d.retiring = "cleaning" /\ d.leases = b.leases /\ d.ended = b.ended /\ ~d.timer
        /\ d.cleanup = IF b.cleanup = "none" THEN "running" ELSE b.cleanup
    BY <2>2, CleanupBegins
  <2> HIDE DEF d
  <2>4. InstanceOK(i, d, profile')
    BY <1>1, <1>2, <1>3, <1>4, <2>3 DEF InstanceOK
  <2>5. disturbances' \in 0..MaxDisturbances
    BY <1>2 DEF IInv, Others
  <2> QED BY <1>1, <1>2, <1>4, <2>1, <2>3, <2>4, <2>5, InstanceSteps
<1>6. CASE ~b.asked
  <2> DEFINE d == [b EXCEPT !.timer = FALSE, !.retiring = "recording"]
             r == [call[i] EXCEPT !.pc = "restart"]
  <2>1. browser' = [browser EXCEPT ![i].timer = FALSE, ![i].retiring = "recording"]
    BY <1>6 DEF NoticeExit
  <2>2. browser' = [browser EXCEPT ![i] = d]
    BY <1>1, <2>1 DEF BrowserMap, BrowserRecord
  <2>3. /\ d \in BrowserRecord /\ d.phase = b.phase /\ d.owner = p /\ d.alive = b.alive
        /\ d.cleanup = b.cleanup /\ d.retiring = "recording" /\ d.leases = b.leases /\ d.ended = b.ended
        /\ ~d.timer
    BY <1>1 DEF BrowserRecord
  <2> HIDE DEF d
  <2>4. InstanceOK(i, d, profile')
    BY <1>1, <1>2, <1>3, <1>4, <2>3 DEF InstanceOK
  <2>5. \A j \in Instances : j # i => browser[j].phase = "unused" \/ browser[j].owner \in Profiles
    BY <1>1 DEF BrowsersOK, InstanceOK
  <2>6. BrowsersOK' /\ Stays
    BY <1>1, <1>2, <1>4, <2>2, <2>3, <2>4, <2>5, OneBrowser
  <2>7. browser'[i] = d /\ \A j \in Instances : browser'[j].leases = browser[j].leases
    BY <1>1, <2>2, <2>3 DEF BrowserMap
  <2>8. /\ i \in Callers /\ i \notin Scripts /\ i \notin Calls /\ call \in CallMap /\ call[i] \in CallRecord
        /\ CallOK(i, call[i], browser)
    BY DisjointAssumption DEF IInv, CallsOK, CallMap, Callers, Calls
  <2>9. call[i].pc = "idle" /\ call[i].original = None
    BY <1>2, <2>8 DEF CallOK
  <2>10. /\ r \in CallRecord /\ r.pc = "restart" /\ r.original = None
    <3>1. "restart" \in Pcs
      BY DEF Pcs
    <3> QED BY <2>8, <2>9, <3>1, PcIs
  <2>11. call' = [call EXCEPT ![i] = r]
    BY <1>6 DEF NoticeExit
  <2> HIDE DEF r
  <2>12. CallOK(i, r, browser')
    BY <2>3, <2>7, <2>8, <2>10 DEF CallOK
  <2>13. CallsOK'
    BY <2>6, <2>8, <2>10, <2>11, <2>12, OneCall DEF IInv
  <2>14. \A x \in Callers : call'[x] = IF x = i THEN r ELSE call[x]
    BY <2>8, <2>11, CallFields
  <2>15. ChainOK'
    BY <1>2, <2>9, <2>10, <2>14, ChainStays DEF IInv, Waiting
  <2>16. LeasesBalanced'
    BY <2>7, <2>8, <2>14, LeasesStay DEF IInv, Callers, Calls
  <2>17. StopsOK'
    BY <1>2, <2>6, StopsStay DEF IInv
  <2> QED BY <1>2, <1>4, <2>6, <2>13, <2>15, <2>16, <2>17 DEF IInv, Others
<1> QED BY <1>5, <1>6

LEMMA CrashRecorded ==
  ASSUME IInv, NEW i \in Instances, RecordCrash(i)
  PROVE IInv'
<1> DEFINE b == browser[i]
           p == b.owner
<1>1. /\ InstanceOK(i, b, profile) /\ browser \in BrowserMap /\ b \in BrowserRecord
      /\ profile \in ProfileMap /\ Others
  BY DEF IInv, BrowsersOK, BrowserMap
<1>2. /\ b.retiring = "recording"
      /\ UNCHANGED <<call, chain, candidates, stops, offline, disposing, leaving>>
  BY DEF RecordCrash
<1>3. p \in Profiles /\ b.phase = "held" /\ ~b.alive
  BY <1>1, <1>2 DEF InstanceOK
<1>4. profile[p] \in ProfileRecord
  BY <1>1, <1>3 DEF ProfileMap
<1>5. CASE /\ browser' = [browser EXCEPT ![i] = CleanupBegun([@ EXCEPT !.retiring = "cleaning"])]
           /\ profile' = [profile EXCEPT ![p].crashes = @ + 1]
           /\ UNCHANGED disturbances
  <2> DEFINE e == [b EXCEPT !.retiring = "cleaning"]
             d == CleanupBegun(e)
             n == profile[p].crashes + 1
  <2>1. browser' = [browser EXCEPT ![i] = d]
    BY <1>5
  <2>2. /\ e \in BrowserRecord /\ e.phase = b.phase /\ e.owner = p /\ e.alive = b.alive
        /\ e.cleanup = b.cleanup /\ e.retiring = "cleaning" /\ e.leases = b.leases /\ e.ended = b.ended
        /\ e.timer = b.timer
    BY <1>1 DEF BrowserRecord
  <2> HIDE DEF e
  <2>3. /\ d \in BrowserRecord /\ d.phase = b.phase /\ d.owner = p /\ d.alive = b.alive
        /\ d.retiring = "cleaning" /\ d.leases = b.leases /\ d.ended = b.ended /\ d.timer = b.timer
        /\ d.cleanup = IF b.cleanup = "none" THEN "running" ELSE b.cleanup
    BY <2>2, CleanupBegins
  <2> HIDE DEF d
  <2>4. n \in Nat /\ profile' = [profile EXCEPT ![p].crashes = n]
    BY <1>4, <1>5 DEF ProfileRecord
  <2> HIDE DEF n
  <2>5. profile' \in ProfileMap /\ \A q \in Profiles : profile'[q].lock = profile[q].lock
    <3> HIDE DEF p
    <3> QED BY <1>1, <1>3, <1>4, <2>4 DEF ProfileMap, ProfileRecord
  <2>6. InstanceOK(i, d, profile')
    BY <1>1, <1>3, <2>3, <2>5 DEF InstanceOK
  <2>7. disturbances' \in 0..MaxDisturbances
    BY <1>1, <1>5 DEF Others
  <2> QED BY <1>1, <1>2, <1>3, <2>1, <2>3, <2>5, <2>6, <2>7, InstanceSteps
<1>6. CASE /\ Disturb
           /\ browser' = [browser EXCEPT ![i].retiring = "done"]
           /\ profile' = [profile EXCEPT
                            ![p].failure = TRUE,
                            ![p].retirement = IF @ = i THEN None ELSE @]
  <2> DEFINE d == [b EXCEPT !.retiring = "done"]
             m == IF profile[p].retirement = i THEN None ELSE profile[p].retirement
  <2>1. browser' = [browser EXCEPT ![i] = d]
    BY <1>6
  <2>2. /\ d \in BrowserRecord /\ d.phase = b.phase /\ d.owner = p /\ d.alive = b.alive
        /\ d.cleanup = b.cleanup /\ d.retiring = "done" /\ d.leases = b.leases /\ d.ended = b.ended
        /\ d.timer = b.timer
    BY <1>1 DEF BrowserRecord
  <2> HIDE DEF d
  <2>3. m \in Instances \cup {None}
    BY <1>4 DEF ProfileRecord
  <2>4. profile' = [profile EXCEPT ![p].failure = TRUE, ![p].retirement = m]
    BY <1>1, <1>3, <1>4, <1>6 DEF ProfileMap, ProfileRecord
  <2> HIDE DEF m
  <2>5. profile' \in ProfileMap /\ \A q \in Profiles : profile'[q].lock = profile[q].lock
    <3> HIDE DEF p
    <3> QED BY <1>1, <1>3, <1>4, <2>3, <2>4 DEF ProfileMap, ProfileRecord
  <2>6. InstanceOK(i, d, profile')
    BY <1>1, <1>3, <2>2, <2>5 DEF InstanceOK
  <2>7. disturbances' \in 0..MaxDisturbances
    BY <1>1, <1>6, Disturbs
  <2> QED BY <1>1, <1>2, <1>3, <2>1, <2>2, <2>5, <2>6, <2>7, InstanceSteps
<1> QED BY <1>5, <1>6 DEF RecordCrash

LEMMA CleansUp ==
  ASSUME IInv, NEW i \in Instances, Cleanup(i)
  PROVE IInv'
<1> DEFINE b == browser[i]
           p == b.owner
           l == IF profile[p].lock = i THEN None ELSE profile[p].lock
<1>1. /\ InstanceOK(i, b, profile) /\ browser \in BrowserMap /\ b \in BrowserRecord
      /\ profile \in ProfileMap /\ Others
  BY DEF IInv, BrowsersOK, BrowserMap
<1>2. /\ b.cleanup = "running"
      /\ profile' = profile \/ profile' = [profile EXCEPT ![p].lock = l]
      /\ UNCHANGED <<call, chain, candidates, stops, offline, disposing, leaving>>
      /\ UNCHANGED disturbances \/ Disturb
  BY DEF Cleanup
<1>3. PICK x \in {"done", "failed"} : browser' = [browser EXCEPT ![i].cleanup = x]
  BY DEF Cleanup
<1>4. p \in Profiles /\ b.phase = "held" /\ ~b.alive /\ profile[p] \in ProfileRecord
  BY <1>1, <1>2 DEF InstanceOK, ProfileMap
<1>5. l \in Instances \cup {None, "maintenance"}
      /\ (l = profile[p].lock \/ profile[p].lock = i)
  BY <1>4 DEF ProfileRecord
<1> HIDE DEF l
<1>6. /\ profile' \in ProfileMap
      /\ \A q \in Profiles : profile'[q].lock = profile[q].lock \/ profile[q].lock \in {None, i}
  <2> HIDE DEF p
  <2> QED BY <1>1, <1>2, <1>4, <1>5 DEF ProfileMap, ProfileRecord
<1> DEFINE d == [b EXCEPT !.cleanup = x]
<1>7. browser' = [browser EXCEPT ![i] = d]
  BY <1>3
<1>8. /\ d \in BrowserRecord /\ d.phase = b.phase /\ d.owner = p /\ d.alive = b.alive
      /\ d.cleanup = x /\ d.retiring = b.retiring /\ d.leases = b.leases /\ d.ended = b.ended /\ d.timer = b.timer
  BY <1>1 DEF BrowserRecord
<1> HIDE DEF d
<1>9. InstanceOK(i, d, profile')
  BY <1>1, <1>4, <1>8 DEF InstanceOK
<1>10. disturbances' \in 0..MaxDisturbances
  BY <1>1, <1>2, Disturbs DEF Others
<1> QED BY <1>1, <1>2, <1>4, <1>6, <1>7, <1>8, <1>9, <1>10, InstanceSteps

LEMMA RetirementEnds ==
  ASSUME IInv, NEW i \in Instances, FinishRetirement(i)
  PROVE IInv'
<1> DEFINE b == browser[i]
           p == b.owner
           d == [b EXCEPT !.retiring = "done"]
           l == IF b.cleanup = "done" THEN "sleeping" ELSE profile[p].lifecycle
           f == profile[p].failure \/ b.cleanup = "failed"
           m == IF profile[p].retirement = i THEN None ELSE profile[p].retirement
<1>1. /\ InstanceOK(i, b, profile) /\ browser \in BrowserMap /\ b \in BrowserRecord
      /\ profile \in ProfileMap /\ disturbances \in 0..MaxDisturbances
  BY DEF IInv, BrowsersOK, BrowserMap, Others
<1>2. /\ b.retiring = "cleaning" /\ browser' = [browser EXCEPT ![i] = d]
      /\ UNCHANGED <<call, chain, candidates, stops, offline, disposing, leaving, disturbances>>
  BY DEF FinishRetirement, CanFinishRetirement
<1>3. p \in Profiles /\ b.phase = "held" /\ ~b.alive /\ profile[p] \in ProfileRecord
  BY <1>1, <1>2 DEF InstanceOK, ProfileMap
<1>4. profile' = [profile EXCEPT ![p].lifecycle = l, ![p].failure = f, ![p].retirement = m]
  BY <1>1, <1>3 DEF FinishRetirement, ProfileMap, ProfileRecord
<1>5. /\ l \in {"sleeping", "waking", "running", "repair-required"}
      /\ f \in BOOLEAN /\ m \in Instances \cup {None}
  BY <1>3 DEF ProfileRecord
<1> HIDE DEF l, f, m
<1>6. profile' \in ProfileMap /\ \A q \in Profiles : profile'[q].lock = profile[q].lock
  <2> HIDE DEF p
  <2> QED BY <1>1, <1>3, <1>4, <1>5 DEF ProfileMap, ProfileRecord
<1>7. /\ d \in BrowserRecord /\ d.phase = b.phase /\ d.owner = p /\ d.alive = b.alive
      /\ d.cleanup = b.cleanup /\ d.retiring = "done" /\ d.leases = b.leases /\ d.ended = b.ended
      /\ d.timer = b.timer
  BY <1>1 DEF BrowserRecord
<1> HIDE DEF d
<1>8. InstanceOK(i, d, profile')
  BY <1>1, <1>3, <1>6, <1>7 DEF InstanceOK
<1> QED BY <1>1, <1>2, <1>3, <1>6, <1>7, <1>8, InstanceSteps

LEMMA Restarts ==
  ASSUME IInv, NEW i \in Instances, Restart(i)
  PROVE IInv'
<1> DEFINE p == browser[i].owner
<1>1. /\ call[i].pc = "restart" /\ browser[i].retiring = "done"
      /\ UNCHANGED <<browser, profile, chain, candidates, stops, offline, disposing, leaving,
                     disturbances>>
  BY DEF Restart, CanRestart
<1>2. /\ i \in Callers /\ call \in CallMap /\ CallOK(i, call[i], browser)
      /\ call[i].pc \notin Waiting
  BY <1>1 DEF IInv, CallsOK, Callers, Waiting
<1>3. p \in Profiles
  BY <1>1 DEF IInv, BrowsersOK, InstanceOK
<1>4. /\ BrowsersOK' /\ Stays /\ StopsOK'
      /\ \A j \in Instances : browser'[j].leases = browser[j].leases
  BY <1>1, NoBrowser, LocksSame
<1>5. CASE call' = [call EXCEPT ![i] = [@ EXCEPT !.pc = "done"]]
  <2> DEFINE r == [call[i] EXCEPT !.pc = "done"]
  <2>1. /\ r \in CallRecord /\ r.pc = "done" /\ r.original = call[i].original
        /\ r.retried = call[i].retried
    <3>1. "done" \in Pcs
      BY DEF Pcs
    <3> QED BY <1>2, <3>1, PcIs
  <2>2. call' = [call EXCEPT ![i] = r]
    BY <1>5
  <2> HIDE DEF r
  <2>3. CallOK(i, r, browser) /\ r.pc \notin Waiting
    BY <1>1, <1>2, <2>1, DisjointAssumption DEF CallOK, Waiting
  <2>4. CallsOK' /\ ChainOK' /\ LeasesBalanced'
    BY <1>1, <1>2, <1>4, <2>1, <2>2, <2>3, CallSteps
  <2> QED BY <1>1, <1>4, <2>4 DEF IInv, Others
<1>6. CASE call' = [call EXCEPT ![i] = Entry(i, p)]
  <2>1. /\ Entry(i, p) \in CallRecord /\ Entry(i, p).pc \notin Waiting
        /\ Entry(i, p).original = call[i].original /\ CallOK(i, Entry(i, p), browser)
    BY <1>1, <1>2, <1>3, EntryIs
  <2>2. CallsOK' /\ ChainOK' /\ LeasesBalanced'
    BY <1>1, <1>2, <1>4, <1>6, <2>1, CallSteps
  <2> QED BY <1>1, <1>4, <2>2 DEF IInv, Others
<1> QED BY <1>5, <1>6 DEF Restart

-----------------------------------------------------------------------------
(* stopHeld after its first await.                                            *)

LEMMA Closes ==
  ASSUME IInv, NEW s \in stops, CloseBrowser(s)
  PROVE IInv'
<1> DEFINE p == browser[s.inst].owner
           K == Serving(p) \cup {s.inst}
           z == [s EXCEPT !.stage = "ending"]
<1>1. /\ browser \in BrowserMap /\ StopOK(s, browser) /\ s \in StopRecord /\ s.inst \in Instances
      /\ \A j \in Instances : browser[j] \in BrowserRecord
  BY DEF IInv, BrowsersOK, BrowserMap, StopsOK, StopOK, StopRecord
<1>2. /\ browser' = [j \in Instances |-> IF j \in K THEN [browser[j] EXCEPT !.alive = FALSE]
                                         ELSE browser[j]]
      /\ stops' = (stops \ {s}) \cup {z} /\ s.stage = "closing" /\ s.inst \in K
      /\ UNCHANGED <<profile, call, chain, candidates, offline, disposing, leaving, disturbances>>
  BY DEF CloseBrowser
<1> HIDE DEF K
<1>3. ASSUME NEW j \in Instances
      PROVE /\ browser'[j] \in BrowserRecord /\ BrowserEnds(browser[j], browser'[j])
            /\ j \in K => ~browser'[j].alive
  <2>1. browser[j] \in BrowserRecord
    BY <1>1
  <2>2. CASE j \in K
    <3>1. browser'[j] = [browser[j] EXCEPT !.alive = FALSE]
      BY <1>2, <2>2
    <3> QED BY <2>1, <3>1 DEF BrowserRecord, BrowserEnds
  <2>3. CASE j \notin K
    <3>1. browser'[j] = browser[j]
      BY <1>2, <2>3
    <3> QED BY <2>1, <2>3, <3>1 DEF BrowserEnds
  <2> QED BY <2>2, <2>3
<1>4. browser' \in BrowserMap
  <2>1. browser' = [j \in Instances |-> browser'[j]]
    BY <1>2
  <2> QED BY <1>3, <2>1 DEF BrowserMap
<1>5. /\ BrowsersOK' /\ Stays
      /\ \A j \in Instances : browser'[j].leases = browser[j].leases
  BY <1>2, <1>3, <1>4, BrowsersEnd
<1>6. z \in StopRecord /\ z.inst = s.inst
  BY <1>1 DEF StopRecord
<1> HIDE DEF z
<1>7. StopOK(z, browser')
  BY <1>1, <1>2, <1>3, <1>5, <1>6 DEF StopOK, Stays
<1>8. StopsOK'
  BY <1>2, <1>5, <1>7, StopsStay DEF IInv
<1>9. CallsOK' /\ ChainOK' /\ LeasesBalanced'
  BY <1>2, <1>5, NoCall
<1> QED BY <1>2, <1>5, <1>8, <1>9 DEF IInv, Others

LEMMA Settles ==
  ASSUME IInv, NEW s \in stops, StopSettles(s)
  PROVE IInv'
<1> DEFINE i == s.inst
           b == browser[i]
           d == CleanupBegun(b)
<1>1. /\ browser \in BrowserMap /\ StopOK(s, browser) /\ s \in StopRecord /\ i \in Instances
      /\ InstanceOK(i, b, profile) /\ b \in BrowserRecord /\ profile \in ProfileMap /\ Others
      /\ BrowsersOK
  BY DEF IInv, BrowsersOK, BrowserMap, StopsOK, StopOK, StopRecord
<1>2. /\ s.stage = "ending" /\ browser' = [browser EXCEPT ![i] = d]
      /\ UNCHANGED <<profile, call, chain, candidates, offline, disposing, leaving>>
      /\ UNCHANGED disturbances \/ Disturb
  BY DEF StopSettles
<1>3. PICK z : /\ z \in StopRecord /\ z.inst = i /\ z.stage = "cleaning"
               /\ stops' = (stops \ {s}) \cup {z}
  <2>1. CASE stops' = (stops \ {s}) \cup {[s EXCEPT !.stage = "cleaning"]}
    <3>1. LET z == [s EXCEPT !.stage = "cleaning"]
          IN z \in StopRecord /\ z.inst = i /\ z.stage = "cleaning"
      BY <1>1 DEF StopRecord
    <3> QED BY <2>1, <3>1
  <2>2. CASE stops' = (stops \ {s}) \cup {[s EXCEPT !.stage = "cleaning", !.ok = FALSE]}
    <3>1. LET z == [s EXCEPT !.stage = "cleaning", !.ok = FALSE]
          IN z \in StopRecord /\ z.inst = i /\ z.stage = "cleaning"
      BY <1>1 DEF StopRecord
    <3> QED BY <2>2, <3>1
  <2> QED BY <2>1, <2>2 DEF StopSettles
<1>4. b.phase = "held" /\ ~b.alive /\ b.owner \in Profiles
  BY <1>1, <1>2 DEF StopOK, InstanceOK
<1>5. /\ d \in BrowserRecord /\ d.phase = b.phase /\ d.owner = b.owner
      /\ d.alive = b.alive /\ d.retiring = b.retiring /\ d.leases = b.leases
      /\ d.timer = b.timer /\ d.ended = b.ended
      /\ d.cleanup = IF b.cleanup = "none" THEN "running" ELSE b.cleanup
  BY <1>1, CleanupBegins
<1> HIDE DEF d
<1>6. InstanceOK(i, d, profile')
  <2>1. profile' = profile
    BY <1>2
  <2> QED BY <1>1, <1>4, <1>5, <2>1 DEF InstanceOK
<1>7. /\ \A j \in Instances : browser'[j] = IF j = i THEN d ELSE browser[j]
      /\ \A j \in Instances : browser'[j].leases = browser[j].leases
  BY <1>1, <1>2, <1>5 DEF BrowserMap
<1>8. BrowsersOK' /\ Stays
  <2>1. profile' = profile
    BY <1>2
  <2> QED BY <1>1, <1>2, <1>4, <1>5, <1>6, <2>1, OneBrowser
<1>9. StopOK(z, browser')
  BY <1>1, <1>3, <1>4, <1>5, <1>7 DEF StopOK
<1>10. StopsOK'
  BY <1>3, <1>8, <1>9, StopsStay DEF IInv
<1>11. CallsOK' /\ ChainOK' /\ LeasesBalanced'
  BY <1>2, <1>7, <1>8, NoCall
<1>12. disturbances' \in 0..MaxDisturbances
  BY <1>1, <1>2, Disturbs DEF Others
<1> QED BY <1>1, <1>2, <1>8, <1>10, <1>11, <1>12 DEF IInv, Others

LEMMA StopEnds ==
  ASSUME IInv, NEW s \in stops, FinishStop(s)
  PROVE IInv'
<1> DEFINE p == browser[s.inst].owner
           ok == s.ok /\ browser[s.inst].cleanup = "done"
           f == profile[p].failure \/ (s.by = "timer" /\ ~ok)
           z == [s EXCEPT !.stage = "done", !.ok = ok]
<1>1. /\ s.stage = "cleaning"
      /\ profile' = [profile EXCEPT ![p].start = None,
                                    ![p].failure = @ \/ (s.by = "timer" /\ ~ok)]
      /\ stops' = (stops \ {s}) \cup (IF s.by \in {"timer", "owner"} THEN {} ELSE {z})
      /\ UNCHANGED <<browser, call, chain, candidates, offline, disposing, leaving,
                     disturbances>>
  BY DEF FinishStop, CanFinishStop
<1>2. /\ StopOK(s, browser) /\ s \in StopRecord /\ s.inst \in Instances
      /\ profile \in ProfileMap /\ InstanceOK(s.inst, browser[s.inst], profile)
  BY DEF IInv, BrowsersOK, StopsOK, StopOK, StopRecord
<1>3. p \in Profiles /\ profile[p] \in ProfileRecord
  BY <1>1, <1>2 DEF StopOK, InstanceOK, ProfileMap
<1>4. f \in BOOLEAN /\ ok \in BOOLEAN
  BY <1>2, <1>3 DEF ProfileRecord, StopRecord
<1>5. profile' = [profile EXCEPT ![p].start = None, ![p].failure = f]
  BY <1>1, <1>2, <1>3 DEF ProfileMap, ProfileRecord
<1> HIDE DEF f, ok
<1>6. profile' \in ProfileMap /\ LocksStay
  <2> HIDE DEF p
  <2> QED BY <1>2, <1>3, <1>4, <1>5 DEF ProfileMap, ProfileRecord, LocksStay
<1>7. BrowsersOK' /\ Stays
  BY <1>1, <1>6, BrowsersStay DEF IInv
<1>8. z \in StopRecord /\ z.inst = s.inst /\ z.stage = "done"
  BY <1>2, <1>4 DEF StopRecord
<1> HIDE DEF z
<1>9. StopOK(z, browser')
  BY <1>1, <1>2, <1>8 DEF StopOK
<1>10. StopsOK'
  BY <1>1, <1>7, <1>9, StopsStay DEF IInv
<1>11. CallsOK' /\ ChainOK' /\ LeasesBalanced'
  BY <1>1, <1>7, NoCall
<1> QED BY <1>1, <1>6, <1>7, <1>10, <1>11 DEF IInv, Others

-----------------------------------------------------------------------------
(* Timers, the owner and the host.                                            *)

LEMMA TimerFires ==
  ASSUME IInv, NEW i \in Instances, IdleTimer(i)
  PROVE IInv'
<1>1. /\ browser[i].timer
      /\ UNCHANGED <<call, chain, candidates, offline, disposing, leaving, disturbances>>
  BY DEF IdleTimer
<1>2. /\ browser[i].phase = "held" /\ browser[i] \in BrowserRecord
  BY <1>1 DEF IInv, BrowsersOK, BrowserMap, InstanceOK
<1>3. CASE browser' = [browser EXCEPT ![i].timer = FALSE] /\ UNCHANGED <<profile, stops>>
  <2> DEFINE d == [browser[i] EXCEPT !.timer = FALSE]
  <2>1. browser' = [browser EXCEPT ![i] = d]
    BY <1>3
  <2>2. d \in BrowserRecord /\ Same(browser[i], d) /\ d.leases = browser[i].leases
    BY <1>2 DEF BrowserRecord, Same
  <2> HIDE DEF d
  <2>3. /\ BrowsersOK' /\ Stays /\ StopsOK'
        /\ \A j \in Instances : browser'[j] = IF j = i THEN d ELSE browser[j]
    BY <1>3, <2>1, <2>2, Touches, LocksSame
  <2>4. \A j \in Instances : browser'[j].leases = browser[j].leases
    BY <2>2, <2>3
  <2>5. CallsOK' /\ ChainOK' /\ LeasesBalanced'
    BY <1>1, <2>3, <2>4, NoCall
  <2> QED BY <1>1, <1>3, <2>3, <2>5 DEF IInv, Others
<1>4. CASE StopHeld(i, "timer")
  <2>1. "timer" \in Stoppers
    BY DEF Stoppers
  <2>2. /\ BrowsersOK' /\ Stays /\ StopsOK' /\ profile' \in ProfileMap
        /\ \A j \in Instances : browser'[j].leases = browser[j].leases
    BY <1>2, <1>4, <2>1, StopBegins
  <2>3. CallsOK' /\ ChainOK' /\ LeasesBalanced'
    BY <1>1, <2>2, NoCall
  <2> QED BY <1>1, <2>2, <2>3 DEF IInv, Others
<1> QED BY <1>3, <1>4 DEF IdleTimer

LEMMA OwnerStops ==
  ASSUME IInv, NEW p \in Profiles, OwnerStop(p)
  PROVE IInv'
<1> DEFINE i == profile[p].start
           s == [inst |-> i, by |-> "owner", stage |-> "waiting", ok |-> TRUE]
<1>1. /\ i # None /\ stops' = stops \cup {s}
      /\ UNCHANGED <<browser, profile, call, chain, candidates, offline, disposing, leaving>>
      /\ disturbances' \in 0..MaxDisturbances
  BY Disturbs DEF OwnerStop, IInv, Others
<1>2. i \in Instances
  BY <1>1 DEF IInv, ProfileMap, ProfileRecord
<1> HIDE DEF i
<1>3. s \in StopRecord /\ s.stage = "waiting"
  BY <1>2 DEF StopRecord, Stoppers
<1> HIDE DEF s
<1>4. BrowsersOK' /\ Stays
  BY <1>1, BrowsersStay, LocksSame DEF IInv
<1>5. StopsOK'
  BY <1>1, <1>3, <1>4, StopsStay DEF IInv, StopOK
<1>6. CallsOK' /\ ChainOK' /\ LeasesBalanced'
  BY <1>1, <1>4, NoCall
<1> QED BY <1>1, <1>4, <1>5, <1>6 DEF IInv, Others

LEMMA OwnerStopBegins ==
  ASSUME IInv, NEW s \in stops, BeginStop(s)
  PROVE IInv'
<1> DEFINE z == [s EXCEPT !.stage = "closing"]
<1>1. /\ s \in StopRecord /\ s.inst \in Instances
      /\ s.stage = "waiting" /\ StartSettled(s.inst)
      /\ UNCHANGED <<call, chain, candidates, offline, disposing, leaving, disturbances>>
  BY DEF BeginStop, CanBeginStop, IInv, StopsOK, StopOK, StopRecord
<1>2. CASE Rejected(s.inst)
  <2>1. stops' \subseteq stops /\ UNCHANGED <<browser, profile>>
    BY <1>2 DEF BeginStop
  <2>2. /\ BrowsersOK' /\ Stays /\ StopsOK'
        /\ \A j \in Instances : browser'[j].leases = browser[j].leases
    BY <2>1, NoBrowser, LocksSame
  <2>3. CallsOK' /\ ChainOK' /\ LeasesBalanced'
    BY <1>1, <2>2, NoCall
  <2> QED BY <1>1, <2>1, <2>2, <2>3 DEF IInv, Others
<1>3. CASE ~Rejected(s.inst)
  <2>1. /\ stops' = (stops \ {s}) \cup {z} /\ AskToStop(s.inst)
        /\ browser[s.inst].phase = "held"
    BY <1>1, <1>3 DEF BeginStop, StartSettled
  <2>2. /\ BrowsersOK' /\ Stays /\ profile' \in ProfileMap
        /\ \A j \in Instances : browser'[j].leases = browser[j].leases
    BY <1>1, <2>1, StopAsked
  <2>3. z \in StopRecord /\ z.inst = s.inst /\ z.stage = "closing"
    BY <1>1 DEF StopRecord
  <2> HIDE DEF z
  <2>4. StopOK(z, browser')
    BY <1>1, <2>1, <2>2, <2>3 DEF StopOK, Stays
  <2>5. StopsOK'
    BY <2>1, <2>2, <2>4, StopsStay DEF IInv
  <2>6. CallsOK' /\ ChainOK' /\ LeasesBalanced'
    BY <1>1, <2>2, NoCall
  <2> QED BY <1>1, <2>2, <2>5, <2>6 DEF IInv, Others
<1> QED BY <1>2, <1>3

(* Only what Others is about changes.                                         *)
LEMMA OthersStep ==
  ASSUME IInv, UNCHANGED <<browser, profile, call, chain>>, stops' \subseteq stops, Others'
  PROVE IInv'
<1>1. /\ BrowsersOK' /\ Stays /\ StopsOK'
      /\ \A j \in Instances : browser'[j].leases = browser[j].leases
  BY NoBrowser, LocksSame
<1>2. CallsOK' /\ ChainOK' /\ LeasesBalanced'
  BY <1>1, NoCall
<1> QED BY <1>1, <1>2 DEF IInv

(* Only a profile changes, its lock at most from or to maintenance.             *)
LEMMA ProfileStep ==
  ASSUME IInv, UNCHANGED <<browser, call, chain, candidates, stops, offline, disposing, leaving>>,
         disturbances' \in 0..MaxDisturbances, profile' \in ProfileMap,
         \A q \in Profiles : profile'[q].lock = profile[q].lock
                             \/ profile[q].lock \in {None, "maintenance"}
  PROVE IInv'
<1>1. ASSUME NEW j \in Instances PROVE InstanceOK(j, browser'[j], profile')
  <2>1. InstanceOK(j, browser[j], profile) /\ browser' = browser
    BY DEF IInv, BrowsersOK
  <2>2. j # None /\ j # "maintenance"
    BY DisjointAssumption DEF Callers
  <2> QED BY <2>1, <2>2 DEF InstanceOK
<1>2. BrowsersOK' /\ Stays
  BY <1>1 DEF BrowsersOK, Stays, IInv
<1>3. StopsOK'
  BY <1>2, StopsStay DEF IInv
<1>4. CallsOK' /\ ChainOK' /\ LeasesBalanced'
  BY <1>2, NoCall
<1> QED BY <1>2, <1>3, <1>4 DEF IInv, Others

LEMMA ProfileEvents ==
  ASSUME IInv, NEW p \in Profiles,
         CrashWindowPasses(p) \/ BeginMaintenance(p) \/ EndMaintenance(p)
  PROVE IInv'
<1>1. profile \in ProfileMap /\ profile[p] \in ProfileRecord
  BY DEF IInv, ProfileMap
<1>2. CASE CrashWindowPasses(p)
  <2>1. /\ profile' = [profile EXCEPT ![p].crashes = 0] /\ disturbances' \in 0..MaxDisturbances
        /\ UNCHANGED <<browser, call, chain, candidates, stops, offline, disposing, leaving>>
    BY <1>2, Disturbs DEF CrashWindowPasses, IInv
  <2>2. profile' \in ProfileMap /\ \A q \in Profiles : profile'[q].lock = profile[q].lock
    BY <1>1, <2>1 DEF ProfileMap, ProfileRecord
  <2> QED BY <2>1, <2>2, ProfileStep
<1>3. CASE BeginMaintenance(p)
  <2>1. /\ profile' = [profile EXCEPT ![p].lock = "maintenance"]
        /\ profile[p].lock = None /\ disturbances' \in 0..MaxDisturbances
        /\ UNCHANGED <<browser, call, chain, candidates, stops, offline, disposing, leaving>>
    BY <1>3, Disturbs DEF BeginMaintenance, IInv
  <2>2. /\ profile' \in ProfileMap
        /\ \A q \in Profiles : profile'[q].lock = profile[q].lock \/ profile[q].lock = None
    BY <1>1, <2>1 DEF ProfileMap, ProfileRecord
  <2> QED BY <2>1, <2>2, ProfileStep
<1>4. CASE EndMaintenance(p)
  <2>1. /\ profile' = [profile EXCEPT ![p].lock = None] /\ profile[p].lock = "maintenance"
        /\ UNCHANGED <<browser, call, chain, candidates, stops, offline, disposing, leaving,
                       disturbances>>
    BY <1>4 DEF EndMaintenance
  <2>2. /\ profile' \in ProfileMap /\ disturbances' \in 0..MaxDisturbances
        /\ \A q \in Profiles : profile'[q].lock = profile[q].lock
                               \/ profile[q].lock = "maintenance"
    BY <1>1, <2>1 DEF ProfileMap, ProfileRecord, IInv, Others
  <2> QED BY <2>1, <2>2, ProfileStep
<1> QED BY <1>2, <1>3, <1>4

LEMMA HostEvents ==
  ASSUME IInv, HostDisconnected \/ HostReconnected \/ BeginDispose
  PROVE IInv'
<1>1. CASE HostDisconnected
  <2>1. disturbances' \in 0..MaxDisturbances
    BY <1>1, Disturbs DEF HostDisconnected, IInv
  <2> QED BY <1>1, <2>1, OthersStep DEF HostDisconnected, IInv, Others
<1>2. CASE HostReconnected
  BY <1>2, OthersStep DEF HostReconnected, IInv, Others
<1>3. CASE BeginDispose
  <2>1. disturbances' \in 0..MaxDisturbances
    BY <1>3, Disturbs DEF BeginDispose, IInv
  <2> QED BY <1>3, <2>1, OthersStep DEF BeginDispose, IInv, Others
<1> QED BY <1>1, <1>2, <1>3

LEMMA Disposes ==
  ASSUME IInv, Dispose
  PROVE IInv'
<1>1. /\ UNCHANGED <<call, chain, candidates, offline, disturbances>>
      /\ browser \in BrowserMap /\ profile \in ProfileMap /\ Others
      /\ \A p \in Profiles : profile[p].start \in Instances \cup {None}
                             /\ profile[p].retirement \in Instances \cup {None}
  BY DEF Dispose, IInv, BrowsersOK, ProfileMap, ProfileRecord
<1>2. CASE /\ disposing' = "starts" /\ leaving' = {profile[p].start : p \in Profiles} \ {None}
           /\ UNCHANGED <<browser, profile, stops>>
  <2>1. leaving' \subseteq Instances
    BY <1>1, <1>2
  <2> QED BY <1>1, <1>2, <2>1, OthersStep DEF Others
<1>3. CASE /\ disposing = "starts" /\ disposing' = "stopping"
           /\ LET held == {i \in leaving : browser[i].phase = "held"} IN
              /\ browser' = [i \in Instances |-> IF i \in held
                    THEN [browser[i] EXCEPT !.asked = TRUE, !.timer = FALSE]
                    ELSE browser[i]]
              /\ profile' = [p \in Profiles |-> IF \E i \in held : browser[i].owner = p
                    THEN [profile[p] EXCEPT !.lifecycle = "sleeping"] ELSE profile[p]]
              /\ stops' = stops \cup
                   {[inst |-> i, by |-> "dispose", stage |-> "closing", ok |-> TRUE] : i \in held}
           /\ leaving' = {}
  <2> DEFINE held == {i \in leaving : browser[i].phase = "held"}
             begun == {[inst |-> i, by |-> "dispose", stage |-> "closing", ok |-> TRUE] : i \in held}
  <2>1. \A i \in held : i \in Instances /\ browser[i].phase = "held"
    BY <1>1 DEF Others
  <2>2. browser' = [i \in Instances |-> IF i \in held
                      THEN [browser[i] EXCEPT !.asked = TRUE, !.timer = FALSE] ELSE browser[i]]
    BY <1>3
  <2>3. profile' = [p \in Profiles |-> IF \E i \in held : browser[i].owner = p
                      THEN [profile[p] EXCEPT !.lifecycle = "sleeping"] ELSE profile[p]]
    BY <1>3
  <2>4. stops' = stops \cup begun
    BY <1>3
  <2> HIDE DEF held
  <2>5. ASSUME NEW i \in Instances
        PROVE  /\ browser'[i] \in BrowserRecord /\ Same(browser[i], browser'[i])
               /\ browser'[i].leases = browser[i].leases
    <3> DEFINE d == [browser[i] EXCEPT !.asked = TRUE, !.timer = FALSE]
    <3>1. browser[i] \in BrowserRecord
      BY <1>1 DEF BrowserMap
    <3>2. d \in BrowserRecord /\ Same(browser[i], d) /\ d.leases = browser[i].leases
      BY <3>1 DEF BrowserRecord, Same
    <3>3. browser'[i] = IF i \in held THEN d ELSE browser[i]
      BY <2>2
    <3> HIDE DEF d
    <3> QED BY <3>1, <3>2, <3>3 DEF Same
  <2>6. browser' \in BrowserMap
    <3>1. DOMAIN browser' = Instances /\ browser' = [i \in Instances |-> browser'[i]]
      BY <2>2
    <3> QED BY <2>5, <3>1 DEF BrowserMap
  <2>7. ASSUME NEW p \in Profiles
        PROVE profile'[p] \in ProfileRecord /\ profile'[p].lock = profile[p].lock
    <3> DEFINE d == [profile[p] EXCEPT !.lifecycle = "sleeping"]
    <3>1. profile[p] \in ProfileRecord
      BY <1>1 DEF ProfileMap
    <3>2. d \in ProfileRecord /\ d.lock = profile[p].lock
      BY <3>1 DEF ProfileRecord
    <3>3. profile'[p] = d \/ profile'[p] = profile[p]
      BY <2>3
    <3> QED BY <3>1, <3>2, <3>3
  <2>8. profile' \in ProfileMap /\ LocksStay
    <3>1. DOMAIN profile' = Profiles /\ profile' = [p \in Profiles |-> profile'[p]]
      BY <2>3
    <3> QED BY <2>7, <3>1 DEF ProfileMap, LocksStay
  <2>9. BrowsersOK' /\ Stays
    BY <2>5, <2>6, <2>8, SameStays DEF IInv
  <2>10. \A s \in begun : StopOK(s, browser')
    <3> SUFFICES ASSUME NEW i \in held
                 PROVE StopOK([inst |-> i, by |-> "dispose", stage |-> "closing", ok |-> TRUE],
                              browser')
      OBVIOUS
    <3>1. i \in Instances /\ browser'[i].phase = "held"
      BY <2>1, <2>9 DEF Stays
    <3> QED BY <3>1 DEF StopOK, StopRecord, Stoppers
  <2>11. StopsOK'
    BY <2>4, <2>9, <2>10, StopsStay DEF IInv
  <2>12. CallsOK' /\ ChainOK' /\ LeasesBalanced'
    BY <1>1, <2>5, <2>9, NoCall
  <2>13. Others'
    BY <1>1, <1>3 DEF Others
  <2> QED BY <2>8, <2>9, <2>11, <2>12, <2>13 DEF IInv
<1>4. CASE /\ IF DisposeFailed
              THEN disposing' = "done" /\ leaving' = {}
              ELSE /\ disposing' = "retiring"
                   /\ leaving' = {profile[p].retirement : p \in Profiles} \ {None}
           /\ stops' = {s \in stops : s.by # "dispose" \/ s.stage # "done"}
           /\ UNCHANGED <<browser, profile>>
  <2>1. leaving' \subseteq Instances /\ disposing' \in {"done", "retiring"}
    BY <1>1, <1>4
  <2>2. stops' \subseteq stops
    BY <1>4
  <2> QED BY <1>1, <1>4, <2>1, <2>2, OthersStep DEF Others
<1>5. CASE /\ disposing' = "done" /\ leaving' = {}
           /\ UNCHANGED <<browser, profile, stops>>
  BY <1>1, <1>5, OthersStep DEF Others
<1> QED BY <1>2, <1>3, <1>4, <1>5 DEF Dispose

-----------------------------------------------------------------------------
(* The invariant.                                                            *)

LEMMA Initial == Init => IInv
<1> SUFFICES ASSUME Init PROVE IInv
  OBVIOUS
<1>1. /\ \A i \in Instances : /\ browser[i] \in BrowserRecord /\ browser[i].phase = "unused"
                              /\ ~browser[i].alive /\ browser[i].cleanup = "none"
                              /\ browser[i].retiring = "none" /\ ~browser[i].timer
                              /\ browser[i].leases = 0 /\ ~browser[i].ended
      /\ browser \in BrowserMap
  <2> DEFINE b == [phase |-> "unused", owner |-> None, alive |-> FALSE, asked |-> FALSE,
                   panels |-> {}, leases |-> 0, timer |-> FALSE, cleanup |-> "none",
                   ended |-> FALSE, retiring |-> "none"]
  <2>1. b \in BrowserRecord /\ browser = [i \in Instances |-> b]
    BY DEF BrowserRecord, Phases, Init
  <2> QED BY <2>1 DEF BrowserMap
<1>2. profile \in ProfileMap
  <2> DEFINE b == [start |-> None, lock |-> None, retirement |-> None,
                   lifecycle |-> "sleeping", crashes |-> 0, visible |-> {}, failure |-> FALSE]
  <2>1. b \in ProfileRecord /\ profile = [p \in Profiles |-> b]
    BY DEF ProfileRecord, Init
  <2> HIDE DEF b
  <2> QED BY <2>1 DEF ProfileMap
<1>3. /\ call \in CallMap
      /\ \A c \in Callers : call[c].pc = "idle" /\ call[c].original = None
  <2> DEFINE r == [pc |-> "idle", goal |-> None, inst |-> None, original |-> None,
                   awaits |-> None, unpin |-> None, retried |-> FALSE, error |-> "none"]
  <2>1. r \in CallRecord /\ call = [c \in Callers |-> r]
    BY DEF CallRecord, Init
  <2> QED BY <2>1 DEF CallMap
<1>4. BrowsersOK
  BY <1>1 DEF BrowsersOK, InstanceOK
<1>5. CallsOK
  BY <1>3 DEF CallsOK, CallOK
<1>6. StopsOK
  BY DEF StopsOK, Init
<1>7. ChainOK
  <2>1. chain = << >>
    BY DEF Init
  <2> QED BY <1>3, <2>1 DEF ChainOK, Waiting
<1>8. LeasesBalanced
  <2> SUFFICES ASSUME NEW i \in Instances
               PROVE browser[i].leases = Cardinality({c \in Scripts : call[c].original = i})
    BY DEF LeasesBalanced
  <2>1. {c \in Scripts : call[c].original = i} = {}
    BY <1>3, DisjointAssumption DEF Callers, Calls
  <2> QED BY <1>1, <2>1, FS_EmptySet
<1>9. Others
  <2>1. /\ candidates = {} /\ offline = FALSE /\ disposing = "no" /\ leaving = {}
        /\ disturbances = 0
    BY DEF Init
  <2>2. disturbances \in 0..MaxDisturbances
    BY <2>1, LimitAssumption
  <2>3. offline \in BOOLEAN
    BY <2>1
  <2> QED BY <2>1, <2>2, <2>3 DEF Others
<1> QED BY <1>2, <1>4, <1>5, <1>6, <1>7, <1>8, <1>9 DEF IInv

LEMMA Invariance == IInv /\ [Next]_vars => IInv'
<1> SUFFICES ASSUME IInv, [Next]_vars PROVE IInv'
  OBVIOUS
<1>1. CASE Continuation
  <2>1. ASSUME NEW c \in Callers,
               \/ Enter(c) \/ Reserve(c) \/ Choose(c) \/ Evicted(c) \/ Use(c)
               \/ Abandoned(c) \/ Quarantined(c) \/ End(c)
        PROVE IInv'
    BY <2>1, Enters, Reserves, Chooses, Evicts, Uses, Retries, QuarantineEnds, Ends
  <2>2. ASSUME NEW i \in Instances, Restart(i) \/ FinishRetirement(i) PROVE IInv'
    BY <2>2, Restarts, RetirementEnds
  <2>3. ASSUME NEW s \in stops, BeginStop(s) \/ FinishStop(s) PROVE IInv'
    BY <2>3, OwnerStopBegins, StopEnds
  <2>4. ASSUME NEW c \in Panels, Unpinned(c) PROVE IInv'
    BY <2>4, UnpinEnds
  <2> QED BY <1>1, <2>1, <2>2, <2>3, <2>4, Disposes DEF Continuation
<1>2. CASE Completion
  <2>1. ASSUME NEW i \in Instances,
               \/ Launch(i) \/ NoticeExit(i) \/ RecordCrash(i) \/ Cleanup(i)
               \/ AbortLaunch(i)
        PROVE IInv'
    BY <2>1, Launches, ExitNoticed, CrashRecorded, CleansUp
  <2>2. ASSUME NEW s \in stops, CloseBrowser(s) \/ StopSettles(s) PROVE IInv'
    BY <2>2, Closes, Settles
  <2>3. ASSUME NEW c \in Calls, Finish(c) \/ Unreachable(c) PROVE IInv'
    BY <2>3, Finishes, Abandons
  <2> QED BY <1>2, <2>1, <2>2, <2>3 DEF Completion
<1>3. CASE Request
  <2>1. ASSUME NEW c \in Calls, NEW p \in Profiles, Arrive(c, p) PROVE IInv'
    BY <2>1, Arrives
  <2>2. ASSUME NEW c \in Calls, Quarantine(c) PROVE IInv'
    BY <2>2, Quarantines
  <2>3. ASSUME NEW c \in Panels, Unpin(c) PROVE IInv'
    BY <2>3, Unpins
  <2>4. ASSUME NEW i \in Instances, Die(i) \/ IdleTimer(i) PROVE IInv'
    BY <2>4, Dies, TimerFires
  <2>5. ASSUME NEW p \in Profiles,
               \/ OwnerStop(p) \/ CrashWindowPasses(p)
               \/ BeginMaintenance(p) \/ EndMaintenance(p)
        PROVE IInv'
    BY <2>5, OwnerStops, ProfileEvents
  <2> QED BY <1>3, <2>1, <2>2, <2>3, <2>4, <2>5, HostEvents DEF Request
<1>4. CASE UNCHANGED vars
  BY <1>4, OthersStep DEF vars, IInv, Others
<1> QED BY <1>1, <1>2, <1>3, <1>4 DEF Next

LEMMA Invariant == Spec => []IInv
  BY Initial, Invariance, PTL DEF Spec

(* Every variable keeps its type.                                            *)
THEOREM TypeCorrect == Spec => []TypeOK
<1>1. IInv => TypeOK
  BY DEF IInv, TypeOK, BrowsersOK, BrowserMap, ProfileMap, CallsOK, CallMap, StopsOK, StopOK,
         ChainOK, Others
<1> QED BY <1>1, Invariant, PTL

(* Two browsers never serve the same profile data: whatever crashed, was         *)
(* stopped twice or was overtaken by a restart, whoever serves a profile holds   *)
(* its launch lock.                                                          *)
THEOREM LockHeldWhileServing == Spec => []ServingHoldsTheLock
<1>1. IInv => ServingHoldsTheLock
  BY DEF IInv, BrowsersOK, InstanceOK, BrowserMap, BrowserRecord, ServingHoldsTheLock, Serving
<1> QED BY <1>1, Invariant, PTL

(* The count of leases of every instance is the number of scripts that still     *)
(* lease it, also across retries and replacements.                             *)
THEOREM LeasesAreBalanced == Spec => []LeasesBalanced
<1>1. IInv => LeasesBalanced
  BY DEF IInv
<1> QED BY <1>1, Invariant, PTL

-----------------------------------------------------------------------------
(* The launch lock: what a step does to the stage of a launch.                *)

(* What the invariant says of the parts of the state.                         *)
LEMMA Types ==
  ASSUME IInv
  PROVE /\ browser \in BrowserMap /\ profile \in ProfileMap /\ call \in CallMap
        /\ \A i \in Instances : browser[i] \in BrowserRecord /\ InstanceOK(i, browser[i], profile)
        /\ \A p \in Profiles : profile[p] \in ProfileRecord
                               /\ profile[p].start \in Instances \cup {None}
        /\ \A c \in Callers : call[c] \in CallRecord /\ CallOK(c, call[c], browser)
        /\ \A s \in stops : /\ s \in StopRecord /\ s.inst \in Instances
                            /\ s.stage # "waiting" =>
                                 /\ browser[s.inst].phase = "held"
                                 /\ browser[s.inst].owner \in Profiles
<1>1. /\ browser \in BrowserMap /\ profile \in ProfileMap /\ call \in CallMap
      /\ \A i \in Instances : browser[i] \in BrowserRecord /\ InstanceOK(i, browser[i], profile)
      /\ \A p \in Profiles : profile[p] \in ProfileRecord
      /\ \A c \in Callers : call[c] \in CallRecord /\ CallOK(c, call[c], browser)
  BY DEF IInv, BrowsersOK, CallsOK, BrowserMap, ProfileMap, CallMap
<1>2. \A p \in Profiles : profile[p].start \in Instances \cup {None}
  BY <1>1 DEF ProfileRecord
<1>3. \A s \in stops : /\ s \in StopRecord /\ s.inst \in Instances
                       /\ s.stage # "waiting" => browser[s.inst].phase = "held"
  BY DEF IInv, StopsOK, StopOK, StopRecord
<1>4. \A s \in stops : s.stage # "waiting" => browser[s.inst].owner \in Profiles
  BY <1>1, <1>3 DEF InstanceOK
<1> QED BY <1>1, <1>2, <1>3, <1>4

LEMMA OneInstance ==
  ASSUME IInv, NEW i \in Instances, NEW d, browser' = [browser EXCEPT ![i] = d]
  PROVE \A j \in Instances : browser'[j] = IF j = i THEN d ELSE browser[j]
  BY Types DEF BrowserMap

LEMMA OneProfile ==
  ASSUME IInv, NEW p \in Profiles, NEW d, profile' = [profile EXCEPT ![p] = d]
  PROVE \A q \in Profiles : profile'[q] = IF q = p THEN d ELSE profile[q]
  BY Types DEF ProfileMap

(* Whoever has the lock of a profile is a launch for it that came past the     *)
(* lock file.                                                                *)
Locking(b) == b.phase \in {"spawning", "starting", "held", "aborting", "failed"}
LockOK ==
  \A p \in Profiles :
    LET i == profile[p].lock IN
    i \in Instances => browser[i].owner = p /\ Locking(browser[i])

Holder == [p \in Profiles |-> profile[p].lock]
Stages == [i \in Instances |-> Stage(i)]
Data == [i \in Instances |-> IF Stage(i) \in {"new", "over"} THEN None ELSE browser[i].owner]
LockStep == LockOK' /\ [Lock!Next]_(Lock!vars)

(* What the lock sees of an instance that does not move on.                   *)
Calm(b, d) ==
  /\ d.phase = b.phase /\ d.owner = b.owner /\ d.alive = b.alive
  /\ d.cleanup \in {b.cleanup, "running"}
Steady == LocksStay /\ \A i \in Instances : Calm(browser[i], browser'[i])

LEMMA StageIs ==
  ASSUME NEW i \in Instances
  PROVE /\ browser[i].phase \in {"unused", "checking", "locking"} => Stage(i) = "new"
        /\ browser[i].phase = "spawning" => Stage(i) = "preparing"
        /\ browser[i].phase \in {"starting", "held"} /\ browser[i].alive => Stage(i) = "serving"
        /\ \/ browser[i].phase \in {"aborting", "failed", "repair"}
           \/ browser[i].phase \in {"starting", "held"} /\ ~browser[i].alive
           => Stage(i) = IF profile[browser[i].owner].lock = i THEN "leaving" ELSE "over"
  BY DEF Stage

(* The stage depends on phase and life, and in the end on the lock.            *)
LEMMA StageStays ==
  ASSUME IInv, NEW i \in Instances, browser'[i].phase = browser[i].phase,
         browser'[i].owner = browser[i].owner, browser'[i].alive = browser[i].alive,
         \A p \in Profiles : profile'[p].lock = i <=> profile[p].lock = i
  PROVE Stage(i)' = Stage(i)
<1>1. /\ browser[i].phase \in Phases
      /\ browser[i].phase # "unused" => browser[i].owner \in Profiles
  BY Types DEF BrowserRecord, InstanceOK
<1>2. CASE browser[i].phase = "unused"
  BY <1>2 DEF Stage
<1>3. CASE browser[i].phase # "unused"
  <2>1. profile'[browser[i].owner].lock = i <=> profile[browser[i].owner].lock = i
    BY <1>1, <1>3
  <2> QED BY <2>1 DEF Stage
<1> QED BY <1>2, <1>3

LEMMA NothingMoves ==
  ASSUME LocksStay,
         \A i \in Instances :
           /\ Stage(i)' = Stage(i)
           /\ browser'[i].owner = browser[i].owner \/ Stage(i) \in {"new", "over"}
  PROVE [Lock!Next]_(Lock!vars)
<1>1. Holder' = Holder
  BY DEF Holder, LocksStay
<1>2. Stages' = Stages
  BY DEF Stages
<1>3. Data' = Data
  BY DEF Data
<1> QED BY <1>1, <1>2, <1>3 DEF Holder, Stages, Data, Lock!vars

(* One launch moves on, the lock stays where it is.                           *)
LEMMA OneMoves ==
  ASSUME LocksStay, NEW i \in Instances,
         browser'[i].owner = browser[i].owner \/ Stage(i) = "new",
         \/ Stage(i) = "new" /\ Stage(i)' = "over"
         \/ Stage(i) = "preparing" /\ Stage(i)' = "serving"
         \/ Stage(i) \in {"preparing", "serving"} /\ Stage(i)' = "leaving",
         \A j \in Instances \ {i} :
           Stage(j)' = Stage(j) /\ browser'[j].owner = browser[j].owner
  PROVE [Lock!Next]_(Lock!vars)
<1>1. Holder' = Holder
  BY DEF Holder, LocksStay
<1>2. Data' = Data
  <2>1. \A j \in Instances :
          (IF Stage(j)' \in {"new", "over"} THEN None ELSE browser'[j].owner)
          = IF Stage(j) \in {"new", "over"} THEN None ELSE browser[j].owner
    OBVIOUS
  <2> QED BY <2>1 DEF Data
<1>3. Stages' = [Stages EXCEPT ![i] = Stage(i)']
  BY DEF Stages
<1>4. Stages[i] = Stage(i)
  BY DEF Stages
<1>5. Lock!GiveUp(i) \/ Lock!Serve(i) \/ Lock!Leave(i)
  BY <1>1, <1>2, <1>3, <1>4
  DEF Holder, Stages, Data, Lock!GiveUp, Lock!Serve, Lock!Leave, Lock!Moves
<1> QED BY <1>5 DEF Lock!Next

(* Whoever has the lock afterwards had it before and may still have it.         *)
LEMMA LockKept ==
  ASSUME LockOK,
         \A p \in Profiles : profile'[p].lock \in {profile[p].lock, None, "maintenance"},
         \A i \in Instances : Locking(browser[i]) =>
           /\ browser'[i].owner = browser[i].owner
           /\ Locking(browser'[i]) \/ profile'[browser[i].owner].lock # i
  PROVE LockOK'
<1>1. None \notin Instances /\ "maintenance" \notin Instances
  BY DisjointAssumption DEF Callers
<1> SUFFICES ASSUME NEW p \in Profiles, profile'[p].lock \in Instances
             PROVE /\ browser'[profile'[p].lock].owner = p
                   /\ Locking(browser'[profile'[p].lock])
  BY DEF LockOK
<1> DEFINE i == profile'[p].lock
<1>2. i = profile[p].lock /\ i \in Instances
  BY <1>1
<1>3. browser[i].owner = p /\ Locking(browser[i])
  BY <1>2 DEF LockOK
<1> QED BY <1>2, <1>3

LEMMA SteadyLocks ==
  ASSUME IInv, LockOK, Steady
  PROVE LockStep
<1>1. \A i \in Instances : Stage(i)' = Stage(i) /\ browser'[i].owner = browser[i].owner
  BY StageStays DEF Steady, Calm, LocksStay
<1>2. LockOK'
  <2>1. \A i \in Instances : Locking(browser[i]) => Locking(browser'[i])
    BY DEF Steady, Calm, Locking
  <2> QED BY <1>1, <2>1, LockKept DEF Steady, LocksStay
<1> QED BY <1>1, <1>2, NothingMoves DEF LockStep, Steady

LEMMA OthersStage ==
  ASSUME IInv, NEW i \in Instances, NEW d, browser' = [browser EXCEPT ![i] = d],
         \A p \in Profiles : \A j \in Instances \ {i} :
           profile'[p].lock = j <=> profile[p].lock = j
  PROVE \A j \in Instances \ {i} : Stage(j)' = Stage(j) /\ browser'[j] = browser[j]
<1> SUFFICES ASSUME NEW j \in Instances, j # i
             PROVE Stage(j)' = Stage(j) /\ browser'[j] = browser[j]
  OBVIOUS
<1>1. browser'[j] = browser[j]
  BY OneInstance
<1>2. \A p \in Profiles : profile'[p].lock = j <=> profile[p].lock = j
  OBVIOUS
<1> QED BY <1>1, <1>2, StageStays

(* One launch changes, at most its stage moves on.                            *)
LEMMA Advances ==
  ASSUME IInv, LockOK, LocksStay, NEW i \in Instances, NEW d,
         browser' = [browser EXCEPT ![i] = d],
         d.owner = browser[i].owner \/ Stage(i) = "new",
         Locking(browser[i]) =>
           d.owner = browser[i].owner
           /\ (Locking(d) \/ profile[browser[i].owner].lock # i),
         \/ Stage(i)' = Stage(i)
         \/ Stage(i) = "new" /\ Stage(i)' = "over"
         \/ Stage(i) = "preparing" /\ Stage(i)' = "serving"
         \/ Stage(i) \in {"preparing", "serving"} /\ Stage(i)' = "leaving"
  PROVE LockStep
<1>1. \A j \in Instances : browser'[j] = IF j = i THEN d ELSE browser[j]
  BY OneInstance
<1>2. \A j \in Instances \ {i} : Stage(j)' = Stage(j) /\ browser'[j] = browser[j]
  BY OthersStage DEF LocksStay
<1>3. LockOK'
  <2>1. ASSUME NEW j \in Instances, Locking(browser[j])
        PROVE /\ browser'[j].owner = browser[j].owner
              /\ Locking(browser'[j]) \/ profile'[browser[j].owner].lock # j
    <3>1. CASE j = i
      <4>1. browser[i].owner \in Profiles
        BY <2>1, <3>1, Types DEF InstanceOK, Locking
      <4> QED BY <1>1, <2>1, <3>1, <4>1 DEF LocksStay
    <3>2. CASE j # i
      BY <1>1, <2>1, <3>2
    <3> QED BY <3>1, <3>2
  <2> QED BY <2>1, LockKept DEF LocksStay
<1>4. CASE Stage(i)' = Stage(i)
  <2>1. \A j \in Instances :
          /\ Stage(j)' = Stage(j)
          /\ browser'[j].owner = browser[j].owner \/ Stage(j) \in {"new", "over"}
    BY <1>1, <1>2, <1>4
  <2> QED BY <1>3, <2>1, NothingMoves DEF LockStep
<1>5. CASE Stage(i)' # Stage(i)
  <2>1. browser'[i].owner = browser[i].owner \/ Stage(i) = "new"
    BY <1>1
  <2>2. \A j \in Instances \ {i} :
          Stage(j)' = Stage(j) /\ browser'[j].owner = browser[j].owner
    BY <1>2
  <2>3. \/ Stage(i) = "new" /\ Stage(i)' = "over"
        \/ Stage(i) = "preparing" /\ Stage(i)' = "serving"
        \/ Stage(i) \in {"preparing", "serving"} /\ Stage(i)' = "leaving"
    BY <1>5
  <2>4. [Lock!Next]_(Lock!vars)
    BY <2>1, <2>2, <2>3, OneMoves
  <2> QED BY <1>3, <2>4 DEF LockStep
<1> QED BY <1>4, <1>5

LEMMA OneSteady ==
  ASSUME IInv, NEW i \in Instances, NEW d, browser' = [browser EXCEPT ![i] = d],
         Calm(browser[i], d), LocksStay
  PROVE Steady
  BY OneInstance DEF Steady, Calm

LEMMA NoneSteady ==
  ASSUME browser' = browser, LocksStay
  PROVE Steady
  BY DEF Steady, Calm

LEMMA ProfileLock ==
  ASSUME IInv, NEW p \in Profiles, NEW d, profile' = [profile EXCEPT ![p] = d],
         d.lock = profile[p].lock
  PROVE LocksStay
  BY OneProfile DEF LocksStay

LEMMA FieldLock ==
  ASSUME IInv, NEW p \in Profiles,
         NEW f \in {"start", "retirement", "lifecycle", "crashes", "visible", "failure"}, NEW v,
         profile' = [profile EXCEPT ![p] = [profile[p] EXCEPT ![f] = v]]
  PROVE LocksStay
<1> DEFINE d == [profile[p] EXCEPT ![f] = v]
<1>1. d.lock = profile[p].lock
  BY Types DEF ProfileRecord
<1>2. profile' = [profile EXCEPT ![p] = d]
  OBVIOUS
<1> HIDE DEF d
<1> QED BY <1>1, <1>2, ProfileLock

LEMMA NotedCalm ==
  ASSUME NEW b \in BrowserRecord
  PROVE Calm(b, NoteActivity(b))
  BY DEF NoteActivity, Calm, BrowserRecord

LEMMA BegunCalm ==
  ASSUME NEW b \in BrowserRecord
  PROVE Calm(b, CleanupBegun(b))
  BY CleanupBegins DEF Calm

LEMMA AskSteady ==
  ASSUME IInv, NEW i \in Instances, browser[i].phase = "held", AskToStop(i)
  PROVE Steady
<1> DEFINE p == browser[i].owner
           d == [browser[i] EXCEPT !.asked = TRUE, !.timer = FALSE]
<1>1. browser[i] \in BrowserRecord /\ p \in Profiles
  BY Types DEF InstanceOK
<1>2. browser' = [browser EXCEPT ![i] = d]
  BY DEF AskToStop
<1>3. Calm(browser[i], d)
  BY <1>1 DEF BrowserRecord, Calm
<1>4. profile' = [profile EXCEPT ![p] = [profile[p] EXCEPT !["lifecycle"] = "sleeping"]]
  BY DEF AskToStop
<1>5. LocksStay
  BY <1>1, <1>4, FieldLock
<1> HIDE DEF d
<1> QED BY <1>2, <1>3, <1>5, OneSteady

LEMMA StopSteady ==
  ASSUME IInv, NEW i \in Instances, browser[i].phase = "held", NEW by, StopHeld(i, by)
  PROVE Steady
  BY AskSteady DEF StopHeld

(* beginStart: a launch that has no profile yet gets one.                     *)
LEMMA StartLocks ==
  ASSUME IInv, LockOK, NEW c \in Callers, NEW p \in Profiles, BeginStart(c, p)
  PROVE LockStep
<1>1. PICK i \in Instances :
        /\ browser[i].phase = "unused"
        /\ browser' = [browser EXCEPT ![i].phase = "checking", ![i].owner = p]
        /\ profile' = [profile EXCEPT ![p].start = i, ![p].lifecycle = "waking"]
  BY DEF BeginStart, Unused
<1> DEFINE d == [browser[i] EXCEPT !.phase = "checking", !.owner = p]
           P == [profile[p] EXCEPT !.start = i, !.lifecycle = "waking"]
<1>2. /\ browser \in BrowserMap /\ browser[i] \in BrowserRecord /\ profile \in ProfileMap
      /\ profile[p] \in ProfileRecord
  BY Types
<1>3. /\ browser' = [browser EXCEPT ![i] = d] /\ d.phase = "checking"
  BY <1>1, <1>2 DEF BrowserRecord, BrowserMap
<1>4. profile' = [profile EXCEPT ![p] = P] /\ P.lock = profile[p].lock
  BY <1>1, <1>2 DEF ProfileMap, ProfileRecord
<1> HIDE DEF d, P
<1>5. LocksStay
  BY <1>4, ProfileLock
<1>6. browser'[i] = d
  BY <1>1, <1>3, OneInstance
<1>7. Stage(i) = "new" /\ Stage(i)' = "new"
  BY <1>1, <1>3, <1>6 DEF Stage
<1>8. ~Locking(browser[i])
  BY <1>1 DEF Locking
<1> QED BY <1>1, <1>3, <1>5, <1>7, <1>8, Advances

(* The steps of the calls: only beginStart is seen by the lock.               *)
LEMMA EnterLocks ==
  ASSUME IInv, LockOK, NEW c \in Callers, Enter(c)
  PROVE LockStep
<1> DEFINE p == call[c].goal
<1>1. p \in Profiles
  BY Types DEF Enter, CanEnter, CallOK
<1>2. CASE UNCHANGED <<browser, profile>>
  BY <1>2, LocksSame, NoneSteady, SteadyLocks
<1>3. CASE BeginStart(c, p)
  BY <1>1, <1>3, StartLocks
<1>4. CASE UNCHANGED browser /\ profile' = [profile EXCEPT ![p].failure = FALSE]
  <2>1. profile' = [profile EXCEPT ![p] = [profile[p] EXCEPT !["failure"] = FALSE]]
    BY <1>4
  <2>2. LocksStay
    BY <1>1, <2>1, FieldLock
  <2> QED BY <1>4, <2>2, NoneSteady, SteadyLocks
<1> QED BY <1>2, <1>3, <1>4 DEF Enter

LEMMA ReserveLocks ==
  ASSUME IInv, LockOK, NEW c \in Callers, Reserve(c)
  PROVE LockStep
<1> DEFINE p == call[c].goal
<1>1. p \in Profiles
  BY Types DEF Reserve, CanReserve, CallOK
<1>2. CASE UNCHANGED <<browser, profile>>
  BY <1>2, LocksSame, NoneSteady, SteadyLocks
<1>3. CASE BeginStart(c, p)
  BY <1>1, <1>3, StartLocks
<1> QED BY <1>2, <1>3 DEF Reserve

LEMMA ChooseLocks ==
  ASSUME IInv, LockOK, NEW c \in Callers, Choose(c)
  PROVE LockStep
<1>1. CASE UNCHANGED <<browser, profile>>
  BY <1>1, LocksSame, NoneSteady, SteadyLocks
<1>2. CASE /\ ~\E i \in candidates : Rejected(i)
           /\ \E i \in Evictable : StopHeld(i, c)
  <2>1. PICK i \in Evictable : StopHeld(i, c)
    BY <1>2
  <2>2. i \in Instances /\ browser[i].phase = "held"
    BY <1>2, <2>1 DEF Choose, CanChoose, StartSettled, Evictable, IInv, Others
  <2> QED BY <2>1, <2>2, StopSteady, SteadyLocks
<1> QED BY <1>1, <1>2 DEF Choose

LEMMA EvictedLocks ==
  ASSUME IInv, LockOK, NEW c \in Callers, Evicted(c)
  PROVE LockStep
<1>1. call[c].goal \in Profiles
  BY Types DEF Evicted, CallOK
<1>2. CASE UNCHANGED <<browser, profile>>
  BY <1>2, LocksSame, NoneSteady, SteadyLocks
<1>3. CASE BeginStart(c, call[c].goal)
  BY <1>1, <1>3, StartLocks
<1> QED BY <1>2, <1>3 DEF Evicted

LEMMA UseLocks ==
  ASSUME IInv, LockOK, NEW c \in Callers, Use(c)
  PROVE LockStep
<1> DEFINE i == call[c].inst
           b == browser[i]
           p == call[c].goal
<1>1. i \in Instances /\ p \in Profiles /\ b \in BrowserRecord
  BY Types DEF Use, CanUse, CallOK
<1> HIDE DEF i, p
<1>2. CASE UNCHANGED <<browser, profile>>
  BY <1>2, LocksSame, NoneSteady, SteadyLocks
<1>3. CASE /\ browser' = [browser EXCEPT ![i] = NoteActivity([b EXCEPT !.leases = b.leases + 1])]
           /\ UNCHANGED profile
  <2> DEFINE d == NoteActivity([b EXCEPT !.leases = b.leases + 1])
  <2>1. Calm(b, d)
    BY <1>1 DEF NoteActivity, Calm, BrowserRecord
  <2>2. browser' = [browser EXCEPT ![i] = d]
    BY <1>3
  <2> HIDE DEF d
  <2> QED BY <1>1, <1>3, <2>1, <2>2, LocksSame, OneSteady, SteadyLocks
<1>4. CASE /\ browser' = [browser EXCEPT ![i] =
                NoteActivity([b EXCEPT !.panels = b.panels \cup {c}])]
           /\ profile' = [profile EXCEPT ![p].visible = @ \cup {c}]
  <2> DEFINE d == NoteActivity([b EXCEPT !.panels = b.panels \cup {c}])
             v == profile[p].visible \cup {c}
  <2>1. Calm(b, d)
    BY <1>1 DEF NoteActivity, Calm, BrowserRecord
  <2>2. browser' = [browser EXCEPT ![i] = d]
    BY <1>4
  <2>3. profile' = [profile EXCEPT ![p] = [profile[p] EXCEPT !["visible"] = v]]
    BY <1>4
  <2> HIDE DEF d, v
  <2>4. LocksStay
    BY <1>1, <2>3, FieldLock
  <2> QED BY <1>1, <2>1, <2>2, <2>4, OneSteady, SteadyLocks
<1> QED BY <1>2, <1>3, <1>4 DEF Use, i, p

LEMMA UserStopLocks ==
  ASSUME IInv, LockOK, NEW c \in Calls, Unreachable(c) \/ Quarantine(c)
  PROVE LockStep
<1>1. call[c].pc = "using" /\ StopHeld(call[c].inst, c) /\ c \in Callers
  BY DEF Unreachable, Quarantine, Callers
<1>2. Held(browser, call[c].inst)
  BY <1>1, Types DEF CallOK
<1> QED BY <1>1, <1>2, StopSteady, SteadyLocks DEF Held

LEMMA EndLocks ==
  ASSUME IInv, LockOK, NEW c \in Callers, End(c)
  PROVE LockStep
<1> DEFINE o == call[c].original
           i == call[c].inst
           p == call[c].goal
           freed == IF o = None THEN browser ELSE [browser EXCEPT ![o].leases = @ - 1]
<1>1. /\ browser' = IF i = None THEN freed ELSE [freed EXCEPT ![i] = NoteActivity(@)]
      /\ call[c].pc = "ending"
  BY DEF End, CanEnd
<1>2. /\ p \in Profiles /\ i \in Instances \cup {None} /\ o \in Instances \cup {None}
      /\ browser \in BrowserMap /\ \A j \in Instances : browser[j] \in BrowserRecord
  BY <1>1, Types DEF CallOK, Held
<1> HIDE DEF i, o, p
<1>3. DOMAIN freed = Instances /\ \A j \in Instances : Calm(browser[j], freed[j])
  <2>1. CASE o = None
    BY <1>2, <2>1 DEF Calm, BrowserMap
  <2>2. CASE o # None
    <3> DEFINE d == [browser[o] EXCEPT !.leases = browser[o].leases - 1]
    <3>1. Calm(browser[o], d)
      BY <1>2, <2>2 DEF Calm, BrowserRecord
    <3>2. freed = [browser EXCEPT ![o] = d]
      BY <2>2
    <3> HIDE DEF d, freed
    <3> QED BY <1>2, <2>2, <3>1, <3>2 DEF BrowserMap, Calm
  <2> QED BY <2>1, <2>2
<1> HIDE DEF freed
<1>4. \A j \in Instances : Calm(freed[j], browser'[j])
  <2>1. CASE i = None
    BY <1>1, <2>1 DEF Calm
  <2>2. CASE i # None
    <3> DEFINE d == NoteActivity(freed[i])
    <3>1. browser' = [freed EXCEPT ![i] = d]
      BY <1>1, <2>2
    <3>2. Calm(freed[i], d)
      BY DEF NoteActivity, Calm
    <3> HIDE DEF d
    <3> QED BY <1>2, <1>3, <2>2, <3>1, <3>2 DEF Calm
  <2> QED BY <2>1, <2>2
<1>5. \A j \in Instances : Calm(browser[j], browser'[j])
  BY <1>3, <1>4 DEF Calm
<1>6. LocksStay
  <2>1. \/ profile' = profile
        \/ profile' = [profile EXCEPT ![p] = [profile[p] EXCEPT !["lifecycle"] = "repair-required"]]
        \/ profile' = [profile EXCEPT ![p] = [profile[p] EXCEPT !["lifecycle"] = "sleeping"]]
        \/ profile' = [profile EXCEPT ![p] = [profile[p] EXCEPT !["failure"] = TRUE]]
    BY DEF End, p
  <2> QED BY <1>2, <2>1, FieldLock, LocksSame
<1> QED BY <1>5, <1>6, SteadyLocks DEF Steady

LEMMA UnpinLocks ==
  ASSUME IInv, LockOK, NEW c \in Panels, Unpin(c)
  PROVE LockStep
<1> DEFINE p == call[c].goal
           v == profile[p].visible \ {c}
<1>1. /\ profile' = [profile EXCEPT ![p] = [profile[p] EXCEPT !["visible"] = v]]
      /\ UNCHANGED browser /\ call[c].pc # "idle"
  BY DEF Unpin
<1>2. p \in Profiles
  BY <1>1, Types DEF CallOK, Callers, Calls
<1> HIDE DEF p, v
<1>3. LocksStay
  BY <1>1, <1>2, FieldLock
<1> QED BY <1>1, <1>3, NoneSteady, SteadyLocks

LEMMA UnpinnedLocks ==
  ASSUME IInv, LockOK, NEW c \in Panels, Unpinned(c)
  PROVE LockStep
<1> DEFINE i == call[c].unpin
           d == NoteActivity([browser[i] EXCEPT !.panels = browser[i].panels \ {c}])
<1>1. /\ i \in Instances /\ UNCHANGED profile
      /\ browser' = browser \/ browser' = [browser EXCEPT ![i] = d]
  BY DEF Unpinned, CanUnpin
<1> HIDE DEF i
<1>2. Calm(browser[i], d)
  BY <1>1, Types DEF NoteActivity, Calm, BrowserRecord
<1> HIDE DEF d
<1> QED BY <1>1, <1>2, LocksSame, NoneSteady, OneSteady, SteadyLocks

LEMMA AbandonedLocks ==
  ASSUME IInv, LockOK, NEW c \in Callers, Abandoned(c)
  PROVE LockStep
<1> DEFINE p == call[c].goal
<1>1. p \in Profiles
  BY Types DEF Abandoned, CallOK
<1>2. /\ UNCHANGED browser
      /\ \/ profile' = profile
         \/ profile' = [profile EXCEPT ![p] = [profile[p] EXCEPT !["start"] = None]]
  BY DEF Abandoned
<1> HIDE DEF p
<1>3. LocksStay
  BY <1>1, <1>2, FieldLock, LocksSame
<1> QED BY <1>2, <1>3, NoneSteady, SteadyLocks

-----------------------------------------------------------------------------
(* The steps of a launch.                                                     *)

LEMMA FailLocks ==
  ASSUME IInv, LockOK, NEW i \in Instances,
         browser[i].phase \in {"checking", "locking", "aborting"},
         NEW ph \in {"failed", "repair"}, FailedStart(i, ph),
         browser[i].phase = "aborting" => ph = "failed"
  PROVE LockStep
<1> DEFINE p == browser[i].owner
           d == [browser[i] EXCEPT !.phase = ph]
           P == [profile[p] EXCEPT !.start = None,
                                   !.lifecycle = IF ph = "repair" THEN "repair-required"
                                                 ELSE "sleeping"]
<1>1. /\ browser[i] \in BrowserRecord /\ p \in Profiles /\ profile[p] \in ProfileRecord
      /\ browser \in BrowserMap /\ profile \in ProfileMap
  BY Types DEF InstanceOK
<1>2. browser' = [browser EXCEPT ![i] = d]
  BY DEF FailedStart
<1>3. d.phase = ph /\ d.owner = browser[i].owner
  BY <1>1 DEF BrowserRecord
<1>4. LocksStay
  <2>1. P.lock = profile[p].lock
    BY <1>1 DEF ProfileRecord
  <2>2. profile' = [profile EXCEPT ![p] = P]
    BY <1>1 DEF FailedStart, ProfileMap, ProfileRecord
  <2> HIDE DEF P
  <2> QED BY <1>1, <2>1, <2>2, ProfileLock
<1>5. /\ profile'[p].lock = profile[p].lock
      /\ browser[i].phase # "aborting" => profile[p].lock # i
  BY <1>1, <1>4 DEF LocksStay, LockOK, Locking
<1> HIDE DEF d
<1>6. browser'[i] = d
  BY <1>1, <1>2 DEF BrowserMap
<1>7. \/ Stage(i) = "new" /\ Stage(i)' = "over"
      \/ Stage(i)' = Stage(i)
  BY <1>3, <1>5, <1>6 DEF Stage
<1>8. Locking(browser[i]) => Locking(d)
  BY <1>3 DEF Locking
<1> QED BY <1>2, <1>3, <1>4, <1>7, <1>8, Advances

(* The lock is taken: nobody has it, and the launch has no browser yet.         *)
LEMMA TakeLocks ==
  ASSUME IInv, LockOK, NEW i \in Instances, NEW p \in Profiles, browser[i].owner = p,
         browser[i].phase = "locking", profile[p].lock = None,
         browser' = [browser EXCEPT ![i].phase = "spawning"],
         profile' = [profile EXCEPT ![p].lock = i]
  PROVE LockStep
<1> DEFINE d == [browser[i] EXCEPT !.phase = "spawning"]
           P == [profile[p] EXCEPT !.lock = i]
<1>1. browser[i] \in BrowserRecord /\ profile[p] \in ProfileRecord /\ i # None
  BY Types, DisjointAssumption DEF Callers
<1>2. d.phase = "spawning" /\ d.owner = p /\ P.lock = i
  BY <1>1 DEF BrowserRecord, ProfileRecord
<1>3. browser' = [browser EXCEPT ![i] = d] /\ profile' = [profile EXCEPT ![p] = P]
  OBVIOUS
<1> HIDE DEF d, P
<1>4. /\ \A j \in Instances : browser'[j] = IF j = i THEN d ELSE browser[j]
      /\ \A q \in Profiles : profile'[q] = IF q = p THEN P ELSE profile[q]
  BY <1>3, Types DEF BrowserMap, ProfileMap
<1>5. \A q \in Profiles : profile'[q].lock = IF q = p THEN i ELSE profile[q].lock
  BY <1>2, <1>4
<1>6. \A j \in Instances \ {i} : Stage(j)' = Stage(j) /\ browser'[j] = browser[j]
  <2>1. \A q \in Profiles : \A j \in Instances \ {i} :
          profile'[q].lock = j <=> profile[q].lock = j
    BY <1>5, DisjointAssumption DEF Callers
  <2> QED BY <1>3, <2>1, OthersStage
<1>7. Stage(i) = "new" /\ Stage(i)' = "preparing"
  BY <1>2, <1>4 DEF Stage
<1>8. LockOK'
  <2> SUFFICES ASSUME NEW q \in Profiles, profile'[q].lock \in Instances
               PROVE /\ browser'[profile'[q].lock].owner = q
                     /\ Locking(browser'[profile'[q].lock])
    BY DEF LockOK
  <2>1. CASE q = p
    BY <1>2, <1>4, <1>5, <2>1 DEF Locking
  <2>2. CASE q # p
    <3>1. /\ profile'[q].lock = profile[q].lock /\ profile[q].lock \in Instances
          /\ browser[profile[q].lock].owner = q /\ Locking(browser[profile[q].lock])
      BY <1>5, <2>2 DEF LockOK
    <3>2. profile[q].lock # i
      BY <3>1 DEF Locking
    <3> QED BY <1>4, <3>1, <3>2
  <2> QED BY <2>1, <2>2
<1>9. Lock!Take(i, p)
  <2>1. Holder' = [Holder EXCEPT ![p] = i] /\ Holder[p] = None
    BY <1>5 DEF Holder
  <2>2. Stages' = [Stages EXCEPT ![i] = "preparing"] /\ Stages[i] = "new"
    BY <1>6, <1>7 DEF Stages
  <2>3. Data' = [Data EXCEPT ![i] = p]
    <3>1. \A j \in Instances :
            (IF Stage(j)' \in {"new", "over"} THEN None ELSE browser'[j].owner)
            = IF j = i THEN p
              ELSE IF Stage(j) \in {"new", "over"} THEN None ELSE browser[j].owner
      BY <1>2, <1>4, <1>6, <1>7
    <3> QED BY <3>1 DEF Data
  <2> QED BY <2>1, <2>2, <2>3 DEF Holder, Stages, Data, Lock!Take, Lock!Moves
<1> QED BY <1>8, <1>9 DEF LockStep, Lock!Next

(* The lock is given back: its launch has a dead browser, or was aborted.       *)
LEMMA GiveBackLocks ==
  ASSUME IInv, LockOK, NEW i \in Instances, NEW p \in Profiles, browser[i].owner = p,
         browser[i].phase = "aborting" \/ (browser[i].phase = "held" /\ ~browser[i].alive),
         profile[p].lock = i, NEW d, browser' = [browser EXCEPT ![i] = d],
         d.phase = browser[i].phase, d.owner = p, d.alive = browser[i].alive,
         profile' = [profile EXCEPT ![p].lock = None]
  PROVE LockStep
<1> DEFINE P == [profile[p] EXCEPT !.lock = None]
<1>1. profile[p] \in ProfileRecord /\ i # None
  BY Types, DisjointAssumption DEF Callers
<1>2. P.lock = None
  BY <1>1 DEF ProfileRecord
<1>3. profile' = [profile EXCEPT ![p] = P]
  OBVIOUS
<1> HIDE DEF P
<1>4. /\ \A j \in Instances : browser'[j] = IF j = i THEN d ELSE browser[j]
      /\ \A q \in Profiles : profile'[q] = IF q = p THEN P ELSE profile[q]
  BY <1>3, Types DEF BrowserMap, ProfileMap
<1>5. \A q \in Profiles : profile'[q].lock = IF q = p THEN None ELSE profile[q].lock
  BY <1>2, <1>4
<1>6. \A j \in Instances \ {i} : Stage(j)' = Stage(j) /\ browser'[j] = browser[j]
  <2>1. \A q \in Profiles : \A j \in Instances \ {i} :
          profile'[q].lock = j <=> profile[q].lock = j
    BY <1>5, DisjointAssumption DEF Callers
  <2> QED BY <2>1, OthersStage
<1>7. Stage(i) = "leaving" /\ Stage(i)' = "over"
  <2>1. profile'[p].lock # i /\ browser'[i] = d
    BY <1>1, <1>4, <1>5
  <2> QED BY <2>1 DEF Stage
<1>8. LockOK'
  <2>1. ASSUME NEW j \in Instances, Locking(browser[j])
        PROVE /\ browser'[j].owner = browser[j].owner
              /\ Locking(browser'[j]) \/ profile'[browser[j].owner].lock # j
    BY <1>1, <1>4, <1>5, <2>1
  <2> QED BY <1>5, <2>1, LockKept
<1>9. Lock!GiveBack(i)
  <2>1. Data[i] = p
    BY <1>7 DEF Data
  <2>2. Holder' = [Holder EXCEPT ![Data[i]] = None] /\ Holder[Data[i]] = i
    BY <1>5, <2>1 DEF Holder
  <2>3. Stages' = [Stages EXCEPT ![i] = "over"] /\ Stages[i] = "leaving"
    BY <1>6, <1>7 DEF Stages
  <2>4. Data' = [Data EXCEPT ![i] = None]
    <3>1. \A j \in Instances :
            (IF Stage(j)' \in {"new", "over"} THEN None ELSE browser'[j].owner)
            = IF j = i THEN None
              ELSE IF Stage(j) \in {"new", "over"} THEN None ELSE browser[j].owner
      BY <1>6, <1>7
    <3> QED BY <3>1 DEF Data
  <2> QED BY <2>2, <2>3, <2>4 DEF Holder, Stages, Data, Lock!GiveBack, Lock!Moves
<1> QED BY <1>8, <1>9 DEF LockStep, Lock!Next

(* Browsers end.  Of those that serve a profile at most one does: the lock's      *)
(* holder.                                                                   *)
LEMMA EndsLocks ==
  ASSUME IInv, LockOK, UNCHANGED profile, NEW p \in Profiles, browser' \in BrowserMap,
         \A j \in Instances : BrowserEnds(browser[j], browser'[j]),
         \A j \in Instances : browser[j].alive /\ ~browser'[j].alive =>
           browser[j].phase = "aborting" \/ j \in Serving(p)
  PROVE LockStep
<1> DEFINE Moves(j) == /\ browser[j].phase \in {"starting", "held"}
                       /\ browser[j].alive /\ ~browser'[j].alive
<1>1. LocksStay
  BY LocksSame
<1>2. \A j \in Instances : browser[j].alive \in BOOLEAN /\ browser'[j].alive \in BOOLEAN
  BY Types DEF BrowserMap, BrowserRecord
<1>3. \A j \in Instances : /\ ~Moves(j) => Stage(j)' = Stage(j)
                           /\ browser'[j].owner = browser[j].owner
  BY <1>2 DEF Stage, BrowserEnds
<1>4. LockOK'
  BY <1>1, LockKept DEF LocksStay, BrowserEnds, Locking
<1>5. \A j \in Instances : Moves(j) =>
        /\ profile[browser[j].owner].lock = j
        /\ browser[j].owner = p
  BY Types DEF InstanceOK, BrowserRecord, Serving
<1>6. ASSUME NEW i \in Instances, Moves(i) PROVE [Lock!Next]_(Lock!vars)
  <2>1. \A j \in Instances \ {i} :
          Stage(j)' = Stage(j) /\ browser'[j].owner = browser[j].owner
    BY <1>3, <1>5, <1>6
  <2>2. Stage(i) = "serving" /\ Stage(i)' = "leaving"
    BY <1>5, <1>6 DEF Stage, BrowserEnds
  <2> QED BY <1>1, <1>3, <2>1, <2>2, OneMoves
<1>7. CASE \A i \in Instances : ~Moves(i)
  BY <1>1, <1>3, <1>4, <1>7, NothingMoves DEF LockStep
<1> HIDE DEF Moves
<1> QED BY <1>4, <1>6, <1>7 DEF LockStep

LEMMA ProcessEndLocks ==
  ASSUME IInv, LockOK, NEW i \in Instances, AbortedProcessEnds(i)
  PROVE LockStep
<1> DEFINE p == browser[i].owner
<1>1. /\ browser[i].phase = "aborting" /\ UNCHANGED profile
      /\ \A j \in Instances : browser[j] \in BrowserRecord
  BY Types DEF AbortedProcessEnds
<1>2. p \in Profiles
  BY <1>1, Types DEF InstanceOK
<1>3. PICK others \in {{}, Serving(p)} : browser' = [j \in Instances |->
         CASE j = i -> [browser[j] EXCEPT !.alive = FALSE, !.ended = TRUE]
           [] j # i /\ j \in others -> [browser[j] EXCEPT !.alive = FALSE]
           [] OTHER -> browser[j]]
  BY DEF AbortedProcessEnds
<1> HIDE DEF p
<1>4. ASSUME NEW j \in Instances
      PROVE /\ browser'[j] \in BrowserRecord /\ BrowserEnds(browser[j], browser'[j])
            /\ j = i \/ j \in Serving(p) \/ browser'[j] = browser[j]
  <2>1. browser[j] \in BrowserRecord
    BY <1>1
  <2>2. CASE j = i
    <3>1. browser'[j] = [browser[j] EXCEPT !.alive = FALSE, !.ended = TRUE]
      BY <1>3, <2>2
    <3> QED BY <1>1, <2>1, <2>2, <3>1 DEF BrowserRecord, BrowserEnds
  <2>3. CASE j # i /\ j \in others
    <3>1. browser'[j] = [browser[j] EXCEPT !.alive = FALSE]
      BY <1>3, <2>3
    <3>2. j \in Serving(p)
      BY <1>3, <2>3
    <3> QED BY <2>1, <3>1, <3>2 DEF BrowserRecord, BrowserEnds
  <2>4. CASE j # i /\ j \notin others
    <3>1. browser'[j] = browser[j]
      BY <1>3, <2>4
    <3> QED BY <2>1, <3>1 DEF BrowserEnds
  <2> QED BY <2>2, <2>3, <2>4
<1>5. browser' \in BrowserMap
  <2>1. browser' = [j \in Instances |-> browser'[j]]
    BY <1>3
  <2> QED BY <1>4, <2>1 DEF BrowserMap
<1>6. \A j \in Instances : browser[j].alive /\ ~browser'[j].alive =>
        browser[j].phase = "aborting" \/ j \in Serving(p)
  BY <1>1, <1>4
<1> QED BY <1>1, <1>2, <1>4, <1>5, <1>6, EndsLocks

LEMMA LaunchLocks ==
  ASSUME IInv, LockOK, NEW i \in Instances, Launch(i) \/ AbortLaunch(i)
  PROVE LockStep
<1> DEFINE p == browser[i].owner
           b == browser[i]
<1>1. /\ InstanceOK(i, b, profile) /\ b \in BrowserRecord
      /\ browser \in BrowserMap /\ profile \in ProfileMap
  BY Types
<1>2. b.phase # "unused" => p \in Profiles
  BY <1>1 DEF InstanceOK
<1>3. CASE CheckCrashes(i)
  <2>1. b.phase = "checking" /\ ~b.alive
    BY <1>1, <1>3 DEF CheckCrashes, InstanceOK
  <2>2. CASE \E ph \in {"failed", "repair"} : FailedStart(i, ph)
    BY <2>1, <2>2, FailLocks
  <2>3. CASE browser' = [browser EXCEPT ![i].phase = "locking"] /\ UNCHANGED profile
    <3> DEFINE d == [b EXCEPT !.phase = "locking"]
    <3>1. d.phase = "locking" /\ d.owner = b.owner
      BY <1>1 DEF BrowserRecord
    <3>2. browser' = [browser EXCEPT ![i] = d]
      BY <2>3
    <3> HIDE DEF d
    <3>3. browser'[i] = d
      BY <1>1, <3>2 DEF BrowserMap
    <3>4. Stage(i) = "new" /\ Stage(i)' = "new"
      BY <2>1, <3>1, <3>3 DEF Stage
    <3>5. ~Locking(browser[i])
      BY <2>1 DEF Locking
    <3>6. LocksStay
      BY <2>3, LocksSame
    <3> QED BY <3>1, <3>2, <3>4, <3>5, <3>6, Advances
  <2> QED BY <1>3, <2>2, <2>3 DEF CheckCrashes
<1>4. CASE AcquireLock(i)
  <2>1. b.phase = "locking" /\ ~b.alive /\ p \in Profiles
    BY <1>1, <1>2, <1>4 DEF AcquireLock, InstanceOK
  <2>2. CASE FailedStart(i, "failed")
    BY <2>1, <2>2, FailLocks
  <2>3. CASE /\ profile[p].lock = None
             /\ browser' = [browser EXCEPT ![i].phase = "spawning"]
             /\ profile' = [profile EXCEPT ![p].lock = i]
    BY <2>1, <2>3, TakeLocks
  <2> QED BY <1>4, <2>2, <2>3 DEF AcquireLock
<1>5. CASE Spawn(i)
  <2> DEFINE d == [b EXCEPT !.phase = "starting", !.alive = TRUE]
  <2>1. /\ b.phase = "spawning" /\ UNCHANGED profile
        /\ browser' = [browser EXCEPT ![i].phase = "starting", ![i].alive = TRUE]
    BY <1>5 DEF Spawn
  <2>2. browser' = [browser EXCEPT ![i] = d]
    BY <1>1, <2>1 DEF BrowserMap, BrowserRecord
  <2>3. d.phase = "starting" /\ d.alive /\ d.owner = b.owner
    BY <1>1 DEF BrowserRecord
  <2> HIDE DEF d
  <2>4. browser'[i] = d
    BY <1>1, <2>2 DEF BrowserMap
  <2>5. Stage(i) = "preparing" /\ Stage(i)' = "serving"
    BY <2>1, <2>3, <2>4 DEF Stage
  <2>6. Locking(d) /\ LocksStay
    BY <2>1, <2>3, LocksSame DEF Locking
  <2> QED BY <2>2, <2>3, <2>5, <2>6, Advances
<1>6. CASE Publish(i)
  <2> DEFINE e == [b EXCEPT !.phase = "held", !.panels = profile[p].visible]
             d == NoteActivity(e)
  <2>1. /\ b.phase = "starting" /\ b.alive /\ browser' = [browser EXCEPT ![i] = d]
        /\ profile' = [profile EXCEPT ![p] = [profile[p] EXCEPT !["lifecycle"] = "running"]]
    BY <1>6 DEF Publish
  <2>2. /\ e.phase = "held" /\ e.alive /\ e.owner = b.owner /\ e.cleanup = b.cleanup
    BY <1>1, <2>1 DEF BrowserRecord
  <2>3. b.cleanup = "none"
    BY <1>1, <2>1 DEF InstanceOK, BrowserRecord
  <2>4. /\ d.phase = "held" /\ d.alive /\ d.owner = b.owner
        /\ d.cleanup \in {"none", "running"}
    <3>1. Calm(e, d)
      BY <1>1 DEF NoteActivity, Calm, BrowserRecord
    <3> HIDE DEF d, e
    <3> QED BY <2>2, <2>3, <3>1 DEF Calm
  <2> HIDE DEF d, e
  <2>5. browser'[i] = d
    BY <1>1, <2>1 DEF BrowserMap
  <2>6. Stage(i) = "serving" /\ Stage(i)' = "serving"
    BY <2>1, <2>4, <2>5 DEF Stage
  <2>7. Locking(d) /\ LocksStay
    BY <1>2, <2>1, <2>4, FieldLock DEF Locking
  <2> QED BY <2>1, <2>4, <2>6, <2>7, Advances
<1>7. CASE AbortLaunch(i)
  <2> DEFINE d == [b EXCEPT !.phase = "aborting"]
  <2>1. /\ b.phase \in {"spawning", "starting"} /\ UNCHANGED profile
        /\ browser' = [browser EXCEPT ![i] = d]
    BY <1>7 DEF AbortLaunch
  <2>2. d.phase = "aborting" /\ d.owner = b.owner
    BY <1>1 DEF BrowserRecord
  <2> HIDE DEF d
  <2>3. profile[p].lock = i /\ profile'[p].lock = i
    BY <1>1, <2>1 DEF InstanceOK
  <2>4. browser'[i] = d
    BY <1>1, <2>1 DEF BrowserMap
  <2>5. Stage(i) \in {"preparing", "serving", "leaving"} /\ Stage(i)' = "leaving"
    BY <2>1, <2>2, <2>3, <2>4 DEF Stage
  <2>6. Locking(d) /\ LocksStay
    BY <2>1, <2>2, LocksSame DEF Locking
  <2> QED BY <2>1, <2>2, <2>5, <2>6, Advances
<1>8. CASE AbortedProcessEnds(i)
  BY <1>8, ProcessEndLocks
<1>9. CASE AbortedLockReleased(i)
  <2>1. /\ b.phase = "aborting" /\ profile[p].lock = i
        /\ profile' = profile \/ profile' = [profile EXCEPT ![p].lock = None]
    BY <1>1, <1>9 DEF AbortedLockReleased, InstanceOK
  <2>2. PICK x \in {"done", "failed"} : browser' = [browser EXCEPT ![i].cleanup = x]
    BY <1>9 DEF AbortedLockReleased
  <2> DEFINE d == [b EXCEPT !.cleanup = x]
  <2>3. browser' = [browser EXCEPT ![i] = d]
    BY <2>2
  <2>4. d.phase = b.phase /\ d.owner = p /\ d.alive = b.alive
    BY <1>1 DEF BrowserRecord
  <2> HIDE DEF d
  <2>5. CASE profile' = profile
    <3>1. Stage(i)' = Stage(i)
      BY <1>1, <2>3, <2>4, <2>5, OneInstance, StageStays
    <3>2. Locking(d) /\ LocksStay
      BY <2>1, <2>4, <2>5, LocksSame DEF Locking
    <3> QED BY <2>3, <2>4, <3>1, <3>2, Advances
  <2>6. CASE profile' = [profile EXCEPT ![p].lock = None]
    BY <1>2, <2>1, <2>3, <2>4, <2>6, GiveBackLocks
  <2> QED BY <2>1, <2>5, <2>6
<1>10. CASE Aborted(i)
  BY <1>10, FailLocks DEF Aborted
<1> QED BY <1>3, <1>4, <1>5, <1>6, <1>7, <1>8, <1>9, <1>10 DEF Launch

LEMMA DieLocks ==
  ASSUME IInv, LockOK, NEW i \in Instances, Die(i)
  PROVE LockStep
<1> DEFINE b == browser[i]
<1>1. /\ InstanceOK(i, b, profile) /\ b \in BrowserRecord /\ browser \in BrowserMap
  BY Types
<1>2. /\ b.phase \in {"starting", "held"} /\ b.alive /\ UNCHANGED profile
      /\ \E limit \in BOOLEAN :
           browser' = [browser EXCEPT ![i].alive = FALSE, ![i].asked = @ \/ limit]
  BY DEF Die
<1>3. PICK limit \in BOOLEAN :
        browser' = [browser EXCEPT ![i].alive = FALSE, ![i].asked = @ \/ limit]
  BY <1>2
<1> DEFINE k == b.asked \/ limit
           d == [b EXCEPT !.alive = FALSE, !.asked = k]
<1>4. browser' = [browser EXCEPT ![i] = d]
  BY <1>1, <1>3 DEF BrowserMap, BrowserRecord
<1> HIDE DEF k
<1>5. d.phase = b.phase /\ d.owner = b.owner /\ ~d.alive /\ d.cleanup = b.cleanup
  BY <1>1 DEF BrowserRecord
<1> HIDE DEF d
<1>6. b.cleanup = "none"
  BY <1>1, <1>2 DEF InstanceOK, BrowserRecord
<1>7. profile[b.owner].lock = i /\ profile'[b.owner].lock = i
  BY <1>1, <1>2, <1>6 DEF InstanceOK
<1>8. browser'[i] = d
  BY <1>1, <1>4 DEF BrowserMap
<1>9. Stage(i) = "serving" /\ Stage(i)' = "leaving"
  BY <1>2, <1>5, <1>7, <1>8 DEF Stage
<1>10. Locking(d) /\ LocksStay
  BY <1>2, <1>5, <1>6, LocksSame DEF Locking
<1> QED BY <1>4, <1>5, <1>9, <1>10, Advances

LEMMA NoticeExitLocks ==
  ASSUME IInv, LockOK, NEW i \in Instances, NoticeExit(i)
  PROVE LockStep
<1> DEFINE b == browser[i]
           p == b.owner
           P == [profile[p] EXCEPT !.start = None, !.retirement = i]
<1>1. /\ b \in BrowserRecord /\ browser \in BrowserMap /\ p \in Profiles
      /\ profile \in ProfileMap /\ profile[p] \in ProfileRecord
  BY Types DEF NoticeExit, InstanceOK
<1>2. profile' = [profile EXCEPT ![p] = P] /\ P.lock = profile[p].lock
  BY <1>1 DEF NoticeExit, ProfileMap, ProfileRecord
<1>3. LocksStay
  <2> HIDE DEF P
  <2> QED BY <1>1, <1>2, ProfileLock
<1>4. CASE browser' = [browser EXCEPT ![i] =
                         CleanupBegun([b EXCEPT !.timer = FALSE, !.retiring = "cleaning"])]
  <2> DEFINE e == [b EXCEPT !.timer = FALSE, !.retiring = "cleaning"]
             d == CleanupBegun(e)
  <2>1. e \in BrowserRecord /\ Calm(b, e)
    BY <1>1 DEF BrowserRecord, Calm
  <2> HIDE DEF e
  <2>2. Calm(b, d)
    BY <2>1, BegunCalm DEF Calm
  <2>3. browser' = [browser EXCEPT ![i] = d]
    BY <1>4 DEF e
  <2> HIDE DEF d
  <2> QED BY <1>3, <2>2, <2>3, OneSteady, SteadyLocks
<1>5. CASE browser' = [browser EXCEPT ![i].timer = FALSE, ![i].retiring = "recording"]
  <2> DEFINE d == [b EXCEPT !.timer = FALSE, !.retiring = "recording"]
  <2>1. browser' = [browser EXCEPT ![i] = d] /\ Calm(b, d)
    BY <1>1, <1>5 DEF BrowserMap, BrowserRecord, Calm
  <2> HIDE DEF d
  <2> QED BY <1>3, <2>1, OneSteady, SteadyLocks
<1> QED BY <1>4, <1>5 DEF NoticeExit

LEMMA RecordCrashLocks ==
  ASSUME IInv, LockOK, NEW i \in Instances, RecordCrash(i)
  PROVE LockStep
<1> DEFINE b == browser[i]
           p == b.owner
<1>1. /\ b \in BrowserRecord /\ browser \in BrowserMap /\ p \in Profiles
      /\ profile \in ProfileMap /\ profile[p] \in ProfileRecord
  BY Types DEF RecordCrash, InstanceOK
<1>2. CASE /\ browser' = [browser EXCEPT ![i] = CleanupBegun([b EXCEPT !.retiring = "cleaning"])]
           /\ profile' = [profile EXCEPT ![p].crashes = @ + 1]
  <2> DEFINE e == [b EXCEPT !.retiring = "cleaning"]
             d == CleanupBegun(e)
             v == profile[p].crashes + 1
  <2>1. e \in BrowserRecord /\ Calm(b, e)
    BY <1>1 DEF BrowserRecord, Calm
  <2> HIDE DEF e
  <2>2. Calm(b, d)
    BY <2>1, BegunCalm DEF Calm
  <2>3. browser' = [browser EXCEPT ![i] = d]
    BY <1>2 DEF e
  <2> HIDE DEF d
  <2>4. profile' = [profile EXCEPT ![p] = [profile[p] EXCEPT !["crashes"] = v]]
    BY <1>2
  <2> HIDE DEF v
  <2>5. LocksStay
    BY <1>1, <2>4, FieldLock
  <2> QED BY <2>2, <2>3, <2>5, OneSteady, SteadyLocks
<1>3. CASE /\ browser' = [browser EXCEPT ![i].retiring = "done"]
           /\ profile' = [profile EXCEPT ![p].failure = TRUE,
                                         ![p].retirement = IF @ = i THEN None ELSE @]
  <2> DEFINE d == [b EXCEPT !.retiring = "done"]
             m == IF profile[p].retirement = i THEN None ELSE profile[p].retirement
             P == [profile[p] EXCEPT !.failure = TRUE, !.retirement = m]
  <2>1. browser' = [browser EXCEPT ![i] = d] /\ Calm(b, d)
    BY <1>1, <1>3 DEF BrowserRecord, Calm
  <2>2. profile' = [profile EXCEPT ![p] = P]
    BY <1>1, <1>3 DEF ProfileMap, ProfileRecord
  <2> HIDE DEF d, m
  <2>3. P.lock = profile[p].lock
    BY <1>1 DEF ProfileRecord
  <2> HIDE DEF P
  <2>4. LocksStay
    BY <1>1, <2>2, <2>3, ProfileLock
  <2> QED BY <2>1, <2>4, OneSteady, SteadyLocks
<1> QED BY <1>2, <1>3 DEF RecordCrash

(* The cleanup that runs has the lock of its own launch to give back.           *)
LEMMA CleanupLocks ==
  ASSUME IInv, LockOK, NEW i \in Instances, Cleanup(i)
  PROVE LockStep
<1> DEFINE b == browser[i]
           p == b.owner
<1>1. InstanceOK(i, b, profile) /\ b \in BrowserRecord
  BY Types
<1>2. /\ b.cleanup = "running" /\ b.phase = "held" /\ ~b.alive /\ p \in Profiles
      /\ profile[p].lock = i
  BY <1>1 DEF Cleanup, InstanceOK
<1>3. profile' = profile \/ profile' = [profile EXCEPT ![p].lock = None]
  BY <1>2 DEF Cleanup
<1>4. PICK x \in {"done", "failed"} : browser' = [browser EXCEPT ![i].cleanup = x]
  BY DEF Cleanup
<1> DEFINE d == [b EXCEPT !.cleanup = x]
<1>5. browser' = [browser EXCEPT ![i] = d]
  BY <1>4
<1>6. d.phase = b.phase /\ d.owner = p /\ d.alive = b.alive
  BY <1>1 DEF BrowserRecord
<1> HIDE DEF d
<1>7. CASE profile' = profile
  <2>1. Stage(i)' = Stage(i)
    BY <1>5, <1>6, <1>7, OneInstance, StageStays
  <2>2. Locking(d) /\ LocksStay
    BY <1>2, <1>6, <1>7, LocksSame DEF Locking
  <2> QED BY <1>5, <1>6, <2>1, <2>2, Advances
<1>8. CASE profile' = [profile EXCEPT ![p].lock = None]
  BY <1>2, <1>5, <1>6, <1>8, GiveBackLocks
<1> QED BY <1>3, <1>7, <1>8

LEMMA RetirementLocks ==
  ASSUME IInv, LockOK, NEW i \in Instances, FinishRetirement(i)
  PROVE LockStep
<1> DEFINE b == browser[i]
           p == b.owner
           d == [b EXCEPT !.retiring = "done"]
           l == IF b.cleanup = "done" THEN "sleeping" ELSE profile[p].lifecycle
           f == profile[p].failure \/ b.cleanup = "failed"
           m == IF profile[p].retirement = i THEN None ELSE profile[p].retirement
           P == [profile[p] EXCEPT !.lifecycle = l, !.failure = f, !.retirement = m]
<1>1. /\ b \in BrowserRecord /\ p \in Profiles
      /\ profile \in ProfileMap /\ profile[p] \in ProfileRecord
  BY Types DEF FinishRetirement, CanFinishRetirement, InstanceOK
<1>2. browser' = [browser EXCEPT ![i] = d] /\ Calm(b, d)
  BY <1>1 DEF FinishRetirement, BrowserRecord, Calm
<1>3. profile' = [profile EXCEPT ![p] = P]
  BY <1>1 DEF FinishRetirement, ProfileMap, ProfileRecord
<1> HIDE DEF d, l, f, m
<1>4. P.lock = profile[p].lock
  BY <1>1 DEF ProfileRecord
<1> HIDE DEF P
<1>5. LocksStay
  BY <1>1, <1>3, <1>4, ProfileLock
<1> QED BY <1>2, <1>5, OneSteady, SteadyLocks

-----------------------------------------------------------------------------
(* Stops, timers and maintenance.                                             *)

LEMMA CloseLocks ==
  ASSUME IInv, LockOK, NEW s \in stops, CloseBrowser(s)
  PROVE LockStep
<1> DEFINE p == browser[s.inst].owner
           K == Serving(p) \cup {s.inst}
<1>1. /\ UNCHANGED profile /\ s.stage = "closing" /\ s.inst \in Instances
      /\ \A j \in Instances : browser[j] \in BrowserRecord
      /\ browser' = [j \in Instances |-> IF j \in K THEN [browser[j] EXCEPT !.alive = FALSE]
                                         ELSE browser[j]]
  BY Types DEF CloseBrowser
<1>2. browser[s.inst].phase = "held" /\ p \in Profiles
  BY <1>1, Types
<1>3. \A j \in K : browser[j].alive => j \in Serving(p)
  BY <1>1, <1>2 DEF Serving
<1> HIDE DEF K, p
<1>4. ASSUME NEW j \in Instances
      PROVE /\ browser'[j] \in BrowserRecord /\ BrowserEnds(browser[j], browser'[j])
            /\ j \in K \/ browser'[j] = browser[j]
  <2>1. browser[j] \in BrowserRecord
    BY <1>1
  <2>2. CASE j \in K
    <3>1. browser'[j] = [browser[j] EXCEPT !.alive = FALSE]
      BY <1>1, <2>2
    <3> QED BY <2>1, <2>2, <3>1 DEF BrowserRecord, BrowserEnds
  <2>3. CASE j \notin K
    <3>1. browser'[j] = browser[j]
      BY <1>1, <2>3
    <3> QED BY <2>1, <3>1 DEF BrowserEnds
  <2> QED BY <2>2, <2>3
<1>5. browser' \in BrowserMap
  <2>1. browser' = [j \in Instances |-> browser'[j]]
    BY <1>1
  <2> QED BY <1>4, <2>1 DEF BrowserMap
<1>6. \A j \in Instances : browser[j].alive /\ ~browser'[j].alive => j \in Serving(p)
  BY <1>3, <1>4
<1> QED BY <1>1, <1>2, <1>4, <1>5, <1>6, EndsLocks

LEMMA SettleLocks ==
  ASSUME IInv, LockOK, NEW s \in stops, StopSettles(s)
  PROVE LockStep
<1> DEFINE d == CleanupBegun(browser[s.inst])
<1>1. s.inst \in Instances /\ browser[s.inst] \in BrowserRecord
  BY Types
<1>2. browser' = [browser EXCEPT ![s.inst] = d] /\ UNCHANGED profile
  BY DEF StopSettles
<1>3. Calm(browser[s.inst], d)
  BY <1>1, BegunCalm
<1> HIDE DEF d
<1> QED BY <1>1, <1>2, <1>3, LocksSame, OneSteady, SteadyLocks

LEMMA FinishStopLocks ==
  ASSUME IInv, LockOK, NEW s \in stops, FinishStop(s)
  PROVE LockStep
<1> DEFINE p == browser[s.inst].owner
           ok == s.ok /\ browser[s.inst].cleanup = "done"
           f == profile[p].failure \/ (s.by = "timer" /\ ~ok)
           P == [profile[p] EXCEPT !.start = None, !.failure = f]
<1>1. p \in Profiles /\ profile \in ProfileMap /\ profile[p] \in ProfileRecord
  BY Types DEF FinishStop, CanFinishStop
<1>2. profile' = [profile EXCEPT ![p] = P] /\ UNCHANGED browser
  BY <1>1 DEF FinishStop, ProfileMap, ProfileRecord
<1> HIDE DEF f
<1>3. P.lock = profile[p].lock
  BY <1>1 DEF ProfileRecord
<1> HIDE DEF P
<1>4. LocksStay
  BY <1>1, <1>2, <1>3, ProfileLock
<1> QED BY <1>2, <1>4, NoneSteady, SteadyLocks

LEMMA StopRequestLocks ==
  ASSUME IInv, LockOK,
         (\E i \in Instances : IdleTimer(i)) \/ (\E s \in stops : BeginStop(s))
  PROVE LockStep
<1>1. ASSUME NEW i \in Instances, IdleTimer(i) PROVE LockStep
  <2>1. browser[i] \in BrowserRecord /\ browser[i].phase = "held"
    BY <1>1, Types DEF IdleTimer, InstanceOK
  <2>2. CASE browser' = [browser EXCEPT ![i].timer = FALSE] /\ UNCHANGED profile
    <3> DEFINE d == [browser[i] EXCEPT !.timer = FALSE]
    <3>1. browser' = [browser EXCEPT ![i] = d] /\ Calm(browser[i], d)
      BY <2>1, <2>2 DEF BrowserRecord, Calm
    <3> HIDE DEF d
    <3> QED BY <2>2, <3>1, LocksSame, OneSteady, SteadyLocks
  <2>3. CASE StopHeld(i, "timer")
    BY <2>1, <2>3, StopSteady, SteadyLocks
  <2> QED BY <1>1, <2>2, <2>3 DEF IdleTimer
<1>2. ASSUME NEW s \in stops, BeginStop(s) PROVE LockStep
  <2>1. CASE UNCHANGED <<browser, profile>>
    BY <2>1, LocksSame, NoneSteady, SteadyLocks
  <2>2. CASE ~Rejected(s.inst) /\ AskToStop(s.inst)
    <3>1. s.inst \in Instances /\ browser[s.inst].phase = "held"
      BY <1>2, <2>2, Types DEF BeginStop, CanBeginStop, StartSettled
    <3> QED BY <2>2, <3>1, AskSteady, SteadyLocks
  <2> QED BY <1>2, <2>1, <2>2 DEF BeginStop
<1> QED BY <1>1, <1>2

(* Maintenance takes the lock when nobody has it, and gives it back.            *)
LEMMA MaintenanceLocks ==
  ASSUME IInv, LockOK, NEW p \in Profiles, UNCHANGED browser, NEW v,
         \/ profile[p].lock = None /\ v = "maintenance"
         \/ profile[p].lock = "maintenance" /\ v = None,
         profile' = [profile EXCEPT ![p].lock = v]
  PROVE LockStep
<1> DEFINE P == [profile[p] EXCEPT !.lock = v]
<1>1. profile \in ProfileMap /\ profile[p] \in ProfileRecord
  BY Types
<1>2. profile' = [profile EXCEPT ![p] = P] /\ P.lock = v
  BY <1>1 DEF ProfileRecord
<1> HIDE DEF P
<1>3. \A q \in Profiles : profile'[q].lock = IF q = p THEN v ELSE profile[q].lock
  BY <1>1, <1>2 DEF ProfileMap
<1>4. \A j \in Instances : j # None /\ j # "maintenance"
  BY DisjointAssumption DEF Callers
<1>5. \A j \in Instances : Stage(j)' = Stage(j)
  BY <1>3, <1>4, StageStays
<1>6. LockOK'
  <2>1. \A q \in Profiles : profile'[q].lock \in {profile[q].lock, None, "maintenance"}
    BY <1>3
  <2> QED BY <2>1, LockKept
<1>7. Holder' = [Holder EXCEPT ![p] = v] /\ Holder[p] = profile[p].lock
  BY <1>3 DEF Holder
<1>8. Stages' = Stages /\ Data' = Data
  BY <1>5 DEF Stages, Data
<1>9. Lock!Maintain(p) \/ Lock!Maintained(p)
  BY <1>7, <1>8 DEF Holder, Stages, Data, Lock!Maintain, Lock!Maintained
<1> QED BY <1>6, <1>9 DEF LockStep, Lock!Next

LEMMA ProfileLocks ==
  ASSUME IInv, LockOK, NEW p \in Profiles,
         CrashWindowPasses(p) \/ BeginMaintenance(p) \/ EndMaintenance(p)
  PROVE LockStep
<1>1. CASE CrashWindowPasses(p)
  <2>1. UNCHANGED browser
        /\ profile' = [profile EXCEPT ![p] = [profile[p] EXCEPT !["crashes"] = 0]]
    BY <1>1 DEF CrashWindowPasses
  <2>2. LocksStay
    BY <2>1, FieldLock
  <2> QED BY <2>1, <2>2, NoneSteady, SteadyLocks
<1>2. CASE BeginMaintenance(p)
  BY <1>2, MaintenanceLocks DEF BeginMaintenance
<1>3. CASE EndMaintenance(p)
  BY <1>3, MaintenanceLocks DEF EndMaintenance
<1> QED BY <1>1, <1>2, <1>3

LEMMA DisposeLocks ==
  ASSUME IInv, LockOK, Dispose
  PROVE LockStep
<1>1. CASE UNCHANGED <<browser, profile>>
  BY <1>1, LocksSame, NoneSteady, SteadyLocks
<1>2. ASSUME NEW H,
             browser' = [i \in Instances |-> IF i \in H
                 THEN [browser[i] EXCEPT !.asked = TRUE, !.timer = FALSE] ELSE browser[i]],
             profile' = [p \in Profiles |-> IF \E i \in H : browser[i].owner = p
                 THEN [profile[p] EXCEPT !.lifecycle = "sleeping"] ELSE profile[p]]
      PROVE LockStep
  <2>1. ASSUME NEW i \in Instances PROVE Calm(browser[i], browser'[i])
    <3> DEFINE d == [browser[i] EXCEPT !.asked = TRUE, !.timer = FALSE]
    <3>1. Calm(browser[i], d)
      BY Types DEF BrowserRecord, Calm
    <3>2. browser'[i] = d \/ browser'[i] = browser[i]
      BY <1>2
    <3> HIDE DEF d
    <3> QED BY <3>1, <3>2 DEF Calm
  <2>2. ASSUME NEW p \in Profiles PROVE profile'[p].lock = profile[p].lock
    <3> DEFINE d == [profile[p] EXCEPT !.lifecycle = "sleeping"]
    <3>1. d.lock = profile[p].lock
      BY Types DEF ProfileRecord
    <3>2. profile'[p] = d \/ profile'[p] = profile[p]
      BY <1>2
    <3> HIDE DEF d
    <3> QED BY <3>1, <3>2
  <2> QED BY <2>1, <2>2, SteadyLocks DEF Steady, LocksStay
<1> QED BY <1>1, <1>2 DEF Dispose

LEMMA QuietLocks ==
  ASSUME IInv, LockOK, UNCHANGED <<browser, profile>>
  PROVE LockStep
  BY LocksSame, NoneSteady, SteadyLocks

-----------------------------------------------------------------------------
(* The refinement.                                                            *)

LEMMA LockInit == Init => LockOK /\ Lock!Init
<1> SUFFICES ASSUME Init PROVE LockOK /\ Lock!Init
  OBVIOUS
<1>1. /\ \A i \in Instances : browser[i].phase = "unused"
      /\ \A p \in Profiles : profile[p].lock = None
  BY DEF Init
<1>2. LockOK
  BY <1>1, DisjointAssumption DEF LockOK, Callers
<1>3. \A i \in Instances : Stage(i) = "new"
  BY <1>1 DEF Stage
<1> QED BY <1>1, <1>2, <1>3 DEF Lock!Init

LEMMA LockSteps == IInv /\ LockOK /\ [Next]_vars => LockStep
<1> SUFFICES ASSUME IInv, LockOK, [Next]_vars PROVE LockStep
  OBVIOUS
<1>1. CASE Continuation
  <2>1. ASSUME NEW c \in Callers,
               \/ Enter(c) \/ Reserve(c) \/ Choose(c) \/ Evicted(c) \/ Use(c) \/ End(c)
        PROVE LockStep
    BY <2>1, EnterLocks, ReserveLocks, ChooseLocks, EvictedLocks, UseLocks, EndLocks
  <2>2. ASSUME NEW c \in Callers, Abandoned(c) \/ Quarantined(c) PROVE LockStep
    BY <2>2, AbandonedLocks, QuietLocks DEF Quarantined
  <2>3. ASSUME NEW i \in Instances, Restart(i) \/ FinishRetirement(i) PROVE LockStep
    BY <2>3, QuietLocks, RetirementLocks DEF Restart
  <2>4. ASSUME NEW s \in stops, BeginStop(s) \/ FinishStop(s) PROVE LockStep
    BY <2>4, StopRequestLocks, FinishStopLocks
  <2>5. ASSUME NEW c \in Panels, Unpinned(c) PROVE LockStep
    BY <2>5, UnpinnedLocks
  <2> QED BY <1>1, <2>1, <2>2, <2>3, <2>4, <2>5, DisposeLocks DEF Continuation
<1>2. CASE Completion
  <2>1. ASSUME NEW i \in Instances,
               \/ Launch(i) \/ NoticeExit(i) \/ RecordCrash(i) \/ Cleanup(i)
               \/ AbortLaunch(i)
        PROVE LockStep
    BY <2>1, LaunchLocks, NoticeExitLocks, RecordCrashLocks, CleanupLocks
  <2>2. ASSUME NEW s \in stops, CloseBrowser(s) \/ StopSettles(s) PROVE LockStep
    BY <2>2, CloseLocks, SettleLocks
  <2>3. ASSUME NEW c \in Calls, Finish(c) \/ Unreachable(c) PROVE LockStep
    BY <2>3, QuietLocks, UserStopLocks DEF Finish
  <2> QED BY <1>2, <2>1, <2>2, <2>3 DEF Completion
<1>3. CASE Request
  <2>1. ASSUME NEW c \in Calls, NEW p \in Profiles, Arrive(c, p) PROVE LockStep
    BY <2>1, QuietLocks DEF Arrive
  <2>2. ASSUME NEW c \in Calls, Quarantine(c) PROVE LockStep
    BY <2>2, UserStopLocks
  <2>3. ASSUME NEW c \in Panels, Unpin(c) PROVE LockStep
    BY <2>3, UnpinLocks
  <2>4. ASSUME NEW i \in Instances, Die(i) \/ IdleTimer(i) PROVE LockStep
    BY <2>4, DieLocks, StopRequestLocks
  <2>5. ASSUME NEW p \in Profiles,
               \/ OwnerStop(p) \/ CrashWindowPasses(p)
               \/ BeginMaintenance(p) \/ EndMaintenance(p)
        PROVE LockStep
    BY <2>5, QuietLocks, ProfileLocks DEF OwnerStop
  <2>6. CASE HostDisconnected \/ HostReconnected \/ BeginDispose
    BY <2>6, QuietLocks DEF HostDisconnected, HostReconnected, BeginDispose
  <2> QED BY <1>3, <2>1, <2>2, <2>3, <2>4, <2>5, <2>6 DEF Request
<1>4. CASE UNCHANGED vars
  BY <1>4, QuietLocks DEF vars
<1> QED BY <1>1, <1>2, <1>3, <1>4 DEF Next

(* The runtime keeps the launch lock's promise: a launch takes the lock of its   *)
(* profile once, before it has a browser, and gives it back once, after the      *)
(* browser is on its way out, whatever became of the Map of starts meanwhile.    *)
THEOREM LockImplemented == Spec => ImplementsLaunchLock
<1>1. IInv /\ LockOK /\ [Next]_vars => LockOK' /\ [Lock!Next]_(Lock!vars)
  BY LockSteps DEF LockStep
<1> QED BY <1>1, LockInit, Invariant, PTL DEF Spec, ImplementsLaunchLock, Lock!Spec
=============================================================================
