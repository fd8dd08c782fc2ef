-------------------------- MODULE SafeLoginProofs --------------------------
(***************************************************************************)
(* Proofs about SafeLogin for all sets of sessions, exits and panels and    *)
(* all lease lengths: type correctness, no session without the timer that   *)
(* ends it, no early expiry, and what holds while transitions do not        *)
(* overlap.                                                                 *)
(*                                                                         *)
(* Why the invariant has its parts: an expiry is on time because the timer  *)
(* of the active session is the one for its current expiry (Timed), and it  *)
(* is not ignored because the session's effects are still retained          *)
(* (Retained).  Both may fail only while an exit that ends the session is   *)
(* returning.  Serial says what the transition and the session are in each  *)
(* stage of an enter or an exit if there is one at a time.                  *)
(***************************************************************************)
EXTENDS SafeLogin, TLAPS

LeaseBounded == \A s \in Sessions : entry[s].left <= entry[s].total

SessionEntered == session # None => entry[session].pc = "entered"

Timed ==
  session # None /\ ~disposed =>
    \/ entry[session].timers = {entry[session].left}
    \/ entry[session].timers = {} /\ Returning

Retained == session # None /\ ~disposed => session \in held \/ Returning

OneExit == \A e, d \in Exits : exit[e].pc # "idle" /\ exit[d].pc # "idle" => e = d

InEnter(s) == entry[s].pc \in {"interrupting", "relaunching"}
EnterAlone ==
  \A s \in Sessions : InEnter(s) =>
    /\ transition = "entering" /\ stored = "entering" /\ session = None
    /\ \A e \in Exits : exit[e].pc = "idle"
    /\ \A r \in Sessions : InEnter(r) => r = s

ExitOfSession ==
  \A e \in Exits :
    /\ exit[e].pc = "consuming" => session # None /\ exit[e].session = session
    /\ exit[e].pc = "returning" =>
         session # None /\ transition = "exiting" /\ stored = "exiting" /\ held = {}

ModeOfSession ==
  /\ session # None <=> mode = "safe-login"
  /\ held \subseteq {session}

OneAtATime == OneExit /\ EnterAlone /\ ExitOfSession /\ ModeOfSession
Serial == ~overlapped /\ ~disposed => OneAtATime

IInv == TypeOK /\ LeaseBounded /\ SessionEntered /\ Timed /\ Retained /\ Serial

LEMMA FreeExitIsIdle == Free # {} => FreeExit \in Exits /\ exit[FreeExit].pc = "idle"
  BY DEF Free, FreeExit

LEMMA UnusedChoice == Unused # {} =>
  /\ (CHOOSE u \in Unused : TRUE) \in Sessions
  /\ entry[CHOOSE u \in Unused : TRUE].pc = "unused"
  BY DEF Unused

LEMMA NoEntryType == NoEntry \in EntryRecord /\ NoExit \in ExitRecord
  BY LeaseAssumption DEF NoEntry, EntryRecord, NoExit, ExitRecord

LEMMA InitIInv == Init => IInv
<1> SUFFICES ASSUME Init PROVE IInv
  OBVIOUS
<1>1. TypeOK
  <2>1. entry \in [Sessions -> EntryRecord] /\ exit \in [Exits -> ExitRecord]
    BY NoEntryType DEF Init
  <2>2. restarts \in 0..MaxRestarts
    BY LeaseAssumption DEF Init
  <2>3. intent \in Intents /\ stored \in Intents
    BY DEF Init, Intents
  <2> QED
    BY <2>1, <2>2, <2>3 DEF Init, TypeOK
<1> USE DEF Init, NoEntry, NoExit
<1>2. LeaseBounded /\ SessionEntered /\ Timed /\ Retained
  BY DEF LeaseBounded, SessionEntered, Timed, Retained
<1>3. Serial
  BY DEF Serial, OneAtATime, OneExit, EnterAlone, InEnter, ExitOfSession, ModeOfSession
<1> QED
  BY <1>1, <1>2, <1>3 DEF IInv

-----------------------------------------------------------------------------
(* Type correctness *)

\* Dropping the session and clearing its timers keep the entries well typed.
LEMMA DroppedType ==
  ASSUME TypeOK, NEW en \in [Sessions -> EntryRecord]
  PROVE  Dropped(en) \in [Sessions -> EntryRecord]
<1>1. CASE session = None
  BY <1>1 DEF Dropped
<1>2. CASE session # None
  <2>1. session \in Sessions /\ en[session] \in EntryRecord
    BY <1>2 DEF TypeOK
  <2>2. en[session].timers \in SUBSET (0..MaxTotal)
    BY <2>1 DEF EntryRecord
  <2>3. [NoEntry EXCEPT !.pc = "over", !.timers = en[session].timers] \in EntryRecord
    BY <2>2, NoEntryType DEF EntryRecord
  <2> QED
    BY <1>2, <2>1, <2>3 DEF Dropped
<1> QED
  BY <1>1, <1>2

LEMMA ClearedType ==
  ASSUME TypeOK, NEW en \in [Sessions -> EntryRecord]
  PROVE  TimersCleared(en) \in [Sessions -> EntryRecord]
<1>1. CASE session = None
  BY <1>1 DEF TimersCleared
<1>2. CASE session # None
  <2>1. session \in Sessions /\ en[session] \in EntryRecord
    BY <1>2 DEF TypeOK
  <2>2. [en[session] EXCEPT !.timers = {}] \in EntryRecord
    BY <2>1 DEF EntryRecord
  <2> QED
    BY <1>2, <2>1, <2>2 DEF TimersCleared
<1> QED
  BY <1>1, <1>2

LEMMA TypeStep == TypeOK /\ LeaseBounded /\ [Next]_vars => TypeOK'
<1> SUFFICES ASSUME TypeOK, LeaseBounded, [Next]_vars PROVE TypeOK'
  OBVIOUS
<1> USE DEF TypeOK
<1>1. ASSUME NEW s \in Sessions, AgentsInterrupted(s) PROVE TypeOK'
  <2>1. [entry[s] EXCEPT !.pc = "relaunching"] \in EntryRecord
    BY DEF EntryRecord
  <2> QED
    BY <1>1, <2>1 DEF AgentsInterrupted
<1>2. ASSUME NEW s \in Sessions, EnterFails(s) PROVE TypeOK'
  <2>1. [NoEntry EXCEPT !.pc = "over"] \in EntryRecord
    BY NoEntryType DEF EntryRecord
  <2> QED
    BY <1>2, <2>1 DEF EnterFails, SetIntent, Intents
<1>3. ASSUME NEW s \in Sessions, Entered(s) PROVE TypeOK'
  <2>1. Dropped(entry) \in [Sessions -> EntryRecord]
    BY DroppedType
  <2>2. {entry[s].left} \in SUBSET (0..MaxTotal)
    BY DEF EntryRecord
  <2>3. [Dropped(entry)[s] EXCEPT !.pc = "entered", !.joined = TRUE,
                                  !.timers = {entry[s].left}] \in EntryRecord
    BY <2>1, <2>2 DEF EntryRecord
  <2>4. entry' = [Dropped(entry) EXCEPT ![s] =
          [Dropped(entry)[s] EXCEPT !.pc = "entered", !.joined = TRUE,
                                    !.timers = {entry[s].left}]]
    BY <1>3, <2>1 DEF Entered, EntryRecord
  <2>5. entry' \in [Sessions -> EntryRecord]
    BY <2>1, <2>3, <2>4
  <2> QED
    BY <1>3, <2>5 DEF Entered, SetIntent, Intents
<1>4. ASSUME NEW s \in Sessions, Done(s) PROVE TypeOK'
  <2>1. FreeExit \in Exits
    BY <1>4, FreeExitIsIdle DEF Done
  <2>2. [pc |-> "consuming", session |-> s, expired |-> FALSE] \in ExitRecord
    BY DEF ExitRecord
  <2> QED
    BY <1>4, <2>1, <2>2 DEF Done
<1>5. ASSUME NEW s \in Sessions, ExpiryTimer(s) PROVE TypeOK'
  <2>1. [entry[s] EXCEPT !.timers = @ \ {0}] \in EntryRecord
    BY DEF EntryRecord
  <2>2. [entry[s] EXCEPT !.timers = {}] \in EntryRecord
    BY DEF EntryRecord
  <2>3. entry' \in [Sessions -> EntryRecord]
    BY <1>5, <2>1, <2>2 DEF ExpiryTimer
  <2>4. [pc |-> "returning", session |-> s, expired |-> TRUE] \in ExitRecord
    BY DEF ExitRecord
  <2>5. exit' \in [Exits -> ExitRecord]
    BY <1>5, <2>4, FreeExitIsIdle DEF ExpiryTimer
  <2> QED
    BY <1>5, <2>3, <2>5 DEF ExpiryTimer, ExitSession, SetIntent, Intents
<1>6. ASSUME NEW s \in Sessions, NEW n \in 1..MaxExtension, Extend(s, n) PROVE TypeOK'
  <2>1. entry[s] \in EntryRecord /\ entry[s].left <= entry[s].total
    BY DEF LeaseBounded
  <2>2. /\ entry[s].left \in Nat /\ entry[s].total \in Nat /\ n \in Nat
        /\ entry[s].total + n <= MaxTotal
    BY <1>6, <2>1, LeaseAssumption DEF Extend, EntryRecord
  <2>3. /\ entry[s].left + n \in 0..MaxTotal /\ entry[s].total + n \in 0..MaxTotal
    BY <2>1, <2>2, LeaseAssumption
  <2>4. {entry[s].left + n} \in SUBSET (0..MaxTotal)
    BY <2>3
  <2>5. [entry[s] EXCEPT !.left = @ + n, !.total = @ + n,
                         !.timers = {entry[s].left + n}] \in EntryRecord
    BY <2>1, <2>3, <2>4 DEF EntryRecord
  <2>6. entry' = [entry EXCEPT ![s] =
          [entry[s] EXCEPT !.left = @ + n, !.total = @ + n,
                           !.timers = {entry[s].left + n}]]
    BY <1>6 DEF Extend, EntryRecord
  <2>7. entry' \in [Sessions -> EntryRecord]
    BY <2>5, <2>6
  <2> QED
    BY <1>6, <2>7 DEF Extend
<1>7. ASSUME NEW b \in Panels, Enter(b) PROVE TypeOK'
  <2> DEFINE s == CHOOSE u \in Unused : TRUE
  <2>1. s \in Sessions
    BY <1>7, UnusedChoice DEF Enter
  <2>2. [NoEntry EXCEPT !.pc = "interrupting", !.panel = b, !.left = Lease,
                        !.total = Lease] \in EntryRecord
    <3>1. Lease \in 0..MaxTotal
      BY LeaseAssumption
    <3> QED
      BY <3>1, NoEntryType DEF EntryRecord
  <2>3. entry' = [entry EXCEPT ![s] =
          [NoEntry EXCEPT !.pc = "interrupting", !.panel = b, !.left = Lease,
                          !.total = Lease]]
    BY <1>7 DEF Enter
  <2>4. entry' \in [Sessions -> EntryRecord]
    BY <2>1, <2>2, <2>3
  <2> QED
    BY <1>7, <2>4 DEF Enter, SetIntent, Intents
<1>8. ASSUME NEW b \in Panels, JoinPanel(b) PROVE TypeOK'
  <2>1. session \in Sessions
    BY <1>8 DEF JoinPanel
  <2>2. [entry[session] EXCEPT !.joined = TRUE] \in EntryRecord
    BY <2>1 DEF EntryRecord
  <2> QED
    BY <1>8, <2>1, <2>2 DEF JoinPanel
<1>9. ASSUME NEW b \in Panels, PanelClosed(b) PROVE TypeOK'
  <2>1. session \in Sessions /\ FreeExit \in Exits
    BY <1>9, FreeExitIsIdle DEF PanelClosed
  <2>2. [entry[session] EXCEPT !.joined = FALSE] \in EntryRecord
    BY <2>1 DEF EntryRecord
  <2>3. [entry EXCEPT ![session].joined = FALSE] \in [Sessions -> EntryRecord]
    BY <2>1, <2>2
  <2>4. entry' \in [Sessions -> EntryRecord]
    BY <1>9, <2>3, ClearedType DEF PanelClosed
  <2>5. [pc |-> "returning", session |-> session, expired |-> FALSE] \in ExitRecord
    BY <2>1 DEF ExitRecord
  <2> QED
    BY <1>9, <2>1, <2>4, <2>5 DEF PanelClosed, ExitSession, SetIntent, Intents
<1>10. ASSUME NEW e \in Exits, Consumed(e) PROVE TypeOK'
  <2>1. entry' \in [Sessions -> EntryRecord]
    BY <1>10, ClearedType DEF Consumed
  <2>2. [exit[e] EXCEPT !.pc = "returning"] \in ExitRecord
    BY DEF ExitRecord
  <2> QED
    BY <1>10, <2>1, <2>2 DEF Consumed, ExitSession, SetIntent, Intents
<1>11. ASSUME NEW e \in Exits, Exited(e) PROVE TypeOK'
  <2>1. entry' \in [Sessions -> EntryRecord]
    BY <1>11, DroppedType DEF Exited
  <2> QED
    BY <1>11, <2>1, NoEntryType DEF Exited, SetIntent, Intents
<1>12. CASE Restart
  <2>1. [NoEntry EXCEPT !.pc = "over"] \in EntryRecord /\ NoEntry \in EntryRecord
    BY NoEntryType DEF EntryRecord
  <2>2. entry' \in [Sessions -> EntryRecord]
    BY <1>12, <2>1 DEF Restart
  <2>3. restarts' \in 0..MaxRestarts
    BY <1>12, LeaseAssumption DEF Restart
  <2> QED
    BY <1>12, <2>2, <2>3, NoEntryType DEF Restart
<1>13. CASE Reconcile
  <2>1. entry' \in [Sessions -> EntryRecord]
    BY <1>13, DroppedType, ClearedType DEF Reconcile
  <2> QED
    BY <1>13, <2>1 DEF Reconcile, SetIntent, Intents
<1>17. CASE Reconciled
  BY <1>17 DEF Reconciled
<1>14. CASE Dispose
  <2>1. entry' \in [Sessions -> EntryRecord]
    BY <1>14, ClearedType DEF Dispose
  <2> QED
    BY <1>14, <2>1 DEF Dispose
<1>15. CASE Tick
  <2> DEFINE Ticked(s) ==
        [entry[s] EXCEPT !.left = IF @ = 0 THEN 0 ELSE @ - 1,
                         !.timers = {IF t = 0 THEN 0 ELSE t - 1 : t \in @}]
  <2>1. ASSUME NEW s \in Sessions PROVE Ticked(s) \in EntryRecord
    <3>1. (IF entry[s].left = 0 THEN 0 ELSE entry[s].left - 1) \in 0..MaxTotal
      BY LeaseAssumption DEF EntryRecord
    <3>2. {IF t = 0 THEN 0 ELSE t - 1 : t \in entry[s].timers} \in SUBSET (0..MaxTotal)
      BY LeaseAssumption DEF EntryRecord
    <3> QED
      BY <3>1, <3>2 DEF EntryRecord
  <2>2. entry' \in [Sessions -> EntryRecord]
    BY <1>15, <2>1 DEF Tick
  <2> QED
    BY <1>15, <2>2 DEF Tick
<1>16. CASE UNCHANGED vars
  BY <1>16 DEF vars
<1> QED
  BY <1>1, <1>2, <1>3, <1>4, <1>5, <1>6, <1>7, <1>8, <1>9, <1>10, <1>11, <1>12,
     <1>13, <1>14, <1>15, <1>16, <1>17 DEF Next

-----------------------------------------------------------------------------
(* The timers and effects of the active session *)

LEMMA DroppedAt ==
  ASSUME TypeOK, NEW en \in [Sessions -> EntryRecord], NEW r \in Sessions
  PROVE  /\ r # session => Dropped(en)[r] = en[r]
         /\ r = session => /\ Dropped(en)[r].pc = "over"
                           /\ Dropped(en)[r].left = 0 /\ Dropped(en)[r].total = 0
  BY NoneAssumption DEF TypeOK, Dropped, NoEntry

LEMMA ClearedAt ==
  ASSUME TypeOK, NEW en \in [Sessions -> EntryRecord], NEW r \in Sessions
  PROVE  /\ r # session => TimersCleared(en)[r] = en[r]
         /\ r = session => /\ TimersCleared(en)[r].timers = {}
                           /\ TimersCleared(en)[r].pc = en[r].pc
                           /\ TimersCleared(en)[r].left = en[r].left
                           /\ TimersCleared(en)[r].total = en[r].total
  BY NoneAssumption DEF TypeOK, TimersCleared, EntryRecord

SessionInv == LeaseBounded /\ SessionEntered /\ Timed /\ Retained

LEMMA SessionStep ==
  TypeOK /\ SessionInv /\ [Next]_vars => SessionInv'
<1> SUFFICES ASSUME TypeOK, SessionInv, [Next]_vars PROVE SessionInv'
  OBVIOUS
<1>0. /\ entry \in [Sessions -> EntryRecord]
      /\ session \in Sessions \cup {None} /\ None \notin Sessions
      /\ \A r \in Sessions : entry[r].left \in Nat /\ entry[r].total \in Nat
  BY NoneAssumption, LeaseAssumption DEF TypeOK, EntryRecord
<1>1. ASSUME NEW s \in Sessions, AgentsInterrupted(s) PROVE SessionInv'
  BY <1>0, <1>1 DEF AgentsInterrupted, SessionInv, LeaseBounded, SessionEntered,
     Timed, Retained, Returning, EntryRecord
<1>2. ASSUME NEW s \in Sessions, EnterFails(s) PROVE SessionInv'
  <2>1. s # session
    BY <1>0, <1>2 DEF EnterFails, SessionInv, SessionEntered
  <2>2. entry'[s].left = 0 /\ entry'[s].total = 0
    BY <1>0, <1>2 DEF EnterFails, NoEntry
  <2> QED
    BY <1>0, <1>2, <2>1, <2>2 DEF EnterFails, SessionInv, LeaseBounded,
       SessionEntered, Timed, Retained, Returning
<1>3. ASSUME NEW s \in Sessions, Entered(s) PROVE SessionInv'
  <2>1. s # session
    BY <1>0, <1>3 DEF Entered, SessionInv, SessionEntered
  <2>2. /\ entry'[s].timers = {entry[s].left} /\ entry'[s].pc = "entered"
        /\ entry'[s].left = entry[s].left /\ entry'[s].total = entry[s].total
    BY <1>0, <1>3, <2>1, DroppedAt, DroppedType DEF Entered, EntryRecord
  <2>3. ASSUME NEW r \in Sessions, r # s
        PROVE  entry'[r] = Dropped(entry)[r]
    BY <1>0, <1>3, <2>3, DroppedType DEF Entered
  <2>4. LeaseBounded'
    BY <1>0, <2>2, <2>3, DroppedAt DEF SessionInv, LeaseBounded
  <2> QED
    BY <1>3, <2>2, <2>4 DEF Entered, SessionInv, SessionEntered, Timed, Retained
<1>4. ASSUME NEW s \in Sessions, Done(s) PROVE SessionInv'
  <2>1. Returning => Returning'
    BY <1>4, FreeExitIsIdle DEF Done, Returning, TypeOK
  <2> QED
    BY <1>4, <2>1 DEF Done, SessionInv, LeaseBounded, SessionEntered, Timed, Retained
<1>5. ASSUME NEW s \in Sessions, ExpiryTimer(s) PROVE SessionInv'
  <2>1. \A r \in Sessions : /\ entry'[r].left = entry[r].left
                            /\ entry'[r].total = entry[r].total
                            /\ entry'[r].pc = entry[r].pc
                            /\ r # s => entry'[r] = entry[r]
    BY <1>0, <1>5 DEF ExpiryTimer, EntryRecord
  <2>2. CASE disposed \/ session # s \/ s \notin held
    <3>1. UNCHANGED <<exit, held, session, disposed>>
      BY <1>5, <2>2 DEF ExpiryTimer
    <3>2. CASE session = s /\ ~disposed
      <4>1. Returning
        BY <1>0, <2>2, <3>2 DEF SessionInv, Retained
      <4>2. entry[s].timers = {entry[s].left} /\ 0 \in entry[s].timers
        BY <1>0, <1>5, <3>2 DEF SessionInv, Timed, ExpiryTimer
      <4>3. entry'[s].timers = {}
        BY <1>0, <1>5, <2>2, <4>2 DEF ExpiryTimer, EntryRecord
      <4> QED
        BY <2>1, <3>1, <3>2, <4>1, <4>3 DEF SessionInv, LeaseBounded, SessionEntered,
           Timed, Retained, Returning
    <3>3. CASE session # s \/ disposed
      BY <1>0, <2>1, <3>1, <3>3 DEF SessionInv, LeaseBounded, SessionEntered, Timed,
         Retained, Returning
    <3> QED
      BY <3>2, <3>3
  <2>3. CASE ~(disposed \/ session # s \/ s \notin held)
    <3>1. entry'[s].timers = {} /\ session' = s
      BY <1>0, <1>5, <2>3 DEF ExpiryTimer, EntryRecord
    <3>2. Returning'
      BY <1>5, <2>3, FreeExitIsIdle DEF ExpiryTimer, Returning, TypeOK
    <3> QED
      BY <1>0, <2>1, <2>3, <3>1, <3>2 DEF SessionInv, LeaseBounded, SessionEntered,
         Timed, Retained
  <2> QED
    BY <2>2, <2>3
<1>6. ASSUME NEW s \in Sessions, NEW n \in 1..MaxExtension, Extend(s, n)
      PROVE  SessionInv'
  <2>1. /\ entry'[s].left = entry[s].left + n /\ entry'[s].total = entry[s].total + n
        /\ entry'[s].timers = {entry[s].left + n} /\ entry'[s].pc = entry[s].pc
        /\ \A r \in Sessions \ {s} : entry'[r] = entry[r]
    BY <1>0, <1>6 DEF Extend, EntryRecord
  <2>2. LeaseBounded'
    BY <1>0, <2>1, LeaseAssumption DEF SessionInv, LeaseBounded
  <2> QED
    BY <1>0, <1>6, <2>1, <2>2 DEF Extend, SessionInv, SessionEntered, Timed, Retained,
       Returning
<1>7. ASSUME NEW b \in Panels, Enter(b) PROVE SessionInv'
  <2> DEFINE s == CHOOSE u \in Unused : TRUE
  <2>1. s \in Sessions /\ entry[s].pc = "unused"
    BY <1>7, UnusedChoice DEF Enter
  <2>2. s # session
    BY <1>0, <2>1 DEF SessionInv, SessionEntered
  <2>3. /\ entry'[s].left = Lease /\ entry'[s].total = Lease
        /\ \A r \in Sessions \ {s} : entry'[r] = entry[r]
    BY <1>0, <1>7, <2>1 DEF Enter, NoEntry
  <2> HIDE DEF s
  <2>4. LeaseBounded'
    <3>1. entry'[s].left <= entry'[s].total
      BY <2>3, LeaseAssumption
    <3> QED
      BY <1>0, <2>3, <3>1 DEF SessionInv, LeaseBounded
  <2> QED
    BY <1>0, <1>7, <2>2, <2>3, <2>4 DEF Enter, SessionInv, SessionEntered, Timed,
       Retained, Returning
<1>8. ASSUME NEW b \in Panels, JoinPanel(b) PROVE SessionInv'
  BY <1>0, <1>8 DEF JoinPanel, SessionInv, LeaseBounded, SessionEntered, Timed,
     Retained, Returning, EntryRecord
<1>9. ASSUME NEW b \in Panels, PanelClosed(b) PROVE SessionInv'
  <2> DEFINE left == [entry EXCEPT ![session].joined = FALSE]
  <2>1. left \in [Sessions -> EntryRecord]
    BY <1>0, <1>9 DEF PanelClosed, EntryRecord
  <2>2. \A r \in Sessions : /\ left[r].left = entry[r].left
                            /\ left[r].total = entry[r].total
                            /\ left[r].pc = entry[r].pc
    BY <1>0, <1>9 DEF PanelClosed, EntryRecord
  <2>3. entry' = TimersCleared(left)
    BY <1>9 DEF PanelClosed
  <2> HIDE DEF left
  <2>4. /\ \A r \in Sessions : /\ entry'[r].left = entry[r].left
                               /\ entry'[r].total = entry[r].total
                               /\ entry'[r].pc = entry[r].pc
        /\ session # None => entry'[session].timers = {}
    BY <1>0, <2>1, <2>2, <2>3, ClearedAt
  <2>5. Returning'
    BY <1>9, FreeExitIsIdle DEF PanelClosed, Returning, TypeOK
  <2> QED
    BY <1>0, <1>9, <2>4, <2>5 DEF PanelClosed, SessionInv, LeaseBounded,
       SessionEntered, Timed, Retained
<1>10. ASSUME NEW e \in Exits, Consumed(e) PROVE SessionInv'
  <2>1. /\ \A r \in Sessions : /\ entry'[r].left = entry[r].left
                               /\ entry'[r].total = entry[r].total
                               /\ entry'[r].pc = entry[r].pc
        /\ session # None => entry'[session].timers = {}
    BY <1>0, <1>10, ClearedAt DEF Consumed
  <2>2. Returning'
    BY <1>10 DEF Consumed, Returning, TypeOK, ExitRecord
  <2> QED
    BY <1>0, <1>10, <2>1, <2>2 DEF Consumed, SessionInv, LeaseBounded, SessionEntered,
       Timed, Retained
<1>11. ASSUME NEW e \in Exits, Exited(e) PROVE SessionInv'
  <2>1. LeaseBounded'
    BY <1>0, <1>11, DroppedAt DEF Exited, SessionInv, LeaseBounded
  <2> QED
    BY <1>11, <2>1 DEF Exited, SessionInv, SessionEntered, Timed, Retained
<1>12. CASE Restart
  <2>1. \A r \in Sessions : entry'[r].left = 0 /\ entry'[r].total = 0
    BY <1>12 DEF Restart, NoEntry
  <2> QED
    BY <1>12, <2>1 DEF Restart, SessionInv, LeaseBounded, SessionEntered, Timed, Retained
<1>17. CASE Reconciled
  BY <1>17 DEF Reconciled, SessionInv, LeaseBounded, SessionEntered, Timed, Retained,
     Returning
<1>18. CASE Reconcile /\ disposed
  BY <1>18 DEF Reconcile, SessionInv, LeaseBounded, SessionEntered, Timed, Retained
<1>13. CASE Reconcile /\ ~disposed
  <2> DEFINE cleared == TimersCleared(entry)
  <2>1. cleared \in [Sessions -> EntryRecord]
    BY <1>0, ClearedType
  <2>2. \A r \in Sessions : /\ cleared[r].left = entry[r].left
                            /\ cleared[r].total = entry[r].total
    BY <1>0, ClearedAt
  <2>3. entry' = Dropped(cleared)
    BY <1>13 DEF Reconcile
  <2> HIDE DEF cleared
  <2>4. LeaseBounded'
    BY <1>0, <2>1, <2>2, <2>3, DroppedAt DEF SessionInv, LeaseBounded
  <2> QED
    BY <1>13, <2>4 DEF Reconcile, SessionInv, SessionEntered, Timed, Retained
<1>14. CASE Dispose
  <2>1. \A r \in Sessions : /\ entry'[r].left = entry[r].left
                            /\ entry'[r].total = entry[r].total
                            /\ entry'[r].pc = entry[r].pc
    BY <1>0, <1>14, ClearedAt DEF Dispose
  <2> QED
    BY <1>0, <1>14, <2>1 DEF Dispose, SessionInv, LeaseBounded, SessionEntered, Timed,
       Retained
<1>15. CASE Tick
  <2>1. \A r \in Sessions :
          /\ entry'[r].pc = entry[r].pc /\ entry'[r].total = entry[r].total
          /\ entry'[r].left = IF entry[r].left = 0 THEN 0 ELSE entry[r].left - 1
          /\ entry'[r].timers = {IF t = 0 THEN 0 ELSE t - 1 : t \in entry[r].timers}
    BY <1>0, <1>15 DEF Tick, EntryRecord
  <2>2. LeaseBounded'
    BY <1>0, <2>1 DEF SessionInv, LeaseBounded
  <2>3. Timed'
    <3> SUFFICES ASSUME session # None, ~disposed
                 PROVE  \/ entry'[session].timers = {entry'[session].left}
                        \/ entry'[session].timers = {} /\ Returning
      BY <1>15 DEF Tick, Timed, Returning
    <3>1. session \in Sessions
      BY <1>0
    <3>2. CASE entry[session].timers = {entry[session].left}
      BY <2>1, <3>1, <3>2
    <3>3. CASE entry[session].timers = {} /\ Returning
      BY <2>1, <3>1, <3>3
    <3> QED
      BY <3>2, <3>3 DEF SessionInv, Timed
  <2> QED
    BY <1>0, <1>15, <2>1, <2>2, <2>3 DEF Tick, SessionInv, SessionEntered, Retained,
       Returning
<1>16. CASE UNCHANGED vars
  BY <1>16 DEF vars, SessionInv, LeaseBounded, SessionEntered, Timed, Retained, Returning
<1> QED
  BY <1>1, <1>2, <1>3, <1>4, <1>5, <1>6, <1>7, <1>8, <1>9, <1>10, <1>11, <1>12,
     <1>13, <1>14, <1>15, <1>16, <1>17, <1>18 DEF Next

-----------------------------------------------------------------------------
(* One enter or exit at a time *)

\* An exit that begins while none is under way is the only one.
LEMMA OnlyExit ==
  ASSUME TypeOK, ~Overlaps(FreeExit), Free # {}, NEW x,
         exit' = [exit EXCEPT ![FreeExit] = x]
  PROVE  /\ OneExit'
         /\ \A d \in Exits : d # FreeExit => exit[d].pc = "idle" /\ exit'[d].pc = "idle"
         /\ exit'[FreeExit] = x /\ FreeExit \in Exits
         /\ \A d \in Exits : exit[d].pc = "idle"
  BY FreeExitIsIdle DEF TypeOK, Overlaps, OneExit

\* Steps that begin an exit of the active session.
LEMMA ExitBegins ==
  ASSUME TypeOK, OneAtATime, Free # {}, session # None, ~Overlaps(FreeExit),
         NEW x, x.pc = "returning", exit' = [exit EXCEPT ![FreeExit] = x],
         \A r \in Sessions : entry'[r].pc = entry[r].pc,
         ExitSession(FreeExit, session), UNCHANGED <<mode, session>>
  PROVE  OneAtATime'
<1>1. /\ OneExit' /\ exit'[FreeExit] = x /\ FreeExit \in Exits
      /\ \A d \in Exits : d # FreeExit => exit'[d].pc = "idle"
  BY OnlyExit
<1>2. held' = {} /\ transition' = "exiting" /\ stored' = "exiting"
  BY DEF ExitSession, SetIntent, OneAtATime, ModeOfSession
<1>3. \A r \in Sessions : ~InEnter(r)
  BY DEF OneAtATime, EnterAlone
<1>4. EnterAlone'
  BY <1>3 DEF EnterAlone, InEnter
<1>5. ExitOfSession'
  BY <1>1, <1>2 DEF ExitOfSession
<1>6. ModeOfSession'
  BY <1>2 DEF OneAtATime, ModeOfSession
<1> QED
  BY <1>1, <1>4, <1>5, <1>6 DEF OneAtATime

LEMMA SerialStep ==
  TypeOK /\ SessionInv /\ Serial /\ [Next]_vars => Serial'
<1> SUFFICES ASSUME TypeOK, SessionInv, Serial, [Next]_vars, ~overlapped', ~disposed'
             PROVE  OneAtATime'
  BY DEF Serial
<1>0. /\ entry \in [Sessions -> EntryRecord] /\ exit \in [Exits -> ExitRecord]
      /\ session \in Sessions \cup {None} /\ None \notin Sessions /\ held \subseteq Sessions
      /\ session # None => entry[session].pc = "entered"
  BY NoneAssumption DEF TypeOK, SessionInv, SessionEntered
<1>r. CASE Restart
  BY <1>r DEF Restart, NoEntry, NoExit, OneAtATime, OneExit, EnterAlone, InEnter,
     ExitOfSession, ModeOfSession
<1> SUFFICES ASSUME ~Restart, OneAtATime PROVE OneAtATime'
  <2>1. ~Restart => ~overlapped /\ ~disposed
    BY DEF Next, vars, AgentsInterrupted, EnterFails, Entered, Done, ExpiryTimer, Extend,
       Enter, JoinPanel, PanelClosed, Consumed, Exited, Reconcile, Reconciled, Dispose, Tick,
       ExitSession
  <2> QED
    BY <1>r, <2>1 DEF Serial
<1>1. ASSUME NEW s \in Sessions, AgentsInterrupted(s) PROVE OneAtATime'
  <2>1. \A r \in Sessions : InEnter(r)' <=> InEnter(r)
    BY <1>0, <1>1 DEF AgentsInterrupted, InEnter, EntryRecord
  <2> QED
    BY <1>1, <2>1 DEF AgentsInterrupted, OneAtATime, OneExit, EnterAlone, ExitOfSession,
       ModeOfSession
<1>2. ASSUME NEW s \in Sessions, EnterFails(s) PROVE OneAtATime'
  <2>1. InEnter(s) /\ session = None /\ \A e \in Exits : exit[e].pc = "idle"
    BY <1>2 DEF EnterFails, InEnter, OneAtATime, EnterAlone
  <2>2. \A r \in Sessions : ~InEnter(r)'
    BY <1>0, <1>2, <2>1 DEF EnterFails, InEnter, NoEntry, OneAtATime, EnterAlone
  <2> QED
    BY <1>2, <2>1, <2>2 DEF EnterFails, SetIntent, OneAtATime, OneExit, EnterAlone,
       ExitOfSession, ModeOfSession
<1>3. ASSUME NEW s \in Sessions, Entered(s) PROVE OneAtATime'
  <2>1. InEnter(s) /\ session = None /\ \A e \in Exits : exit[e].pc = "idle"
    BY <1>3 DEF Entered, InEnter, OneAtATime, EnterAlone
  <2>2. \A r \in Sessions : ~InEnter(r)'
    BY <1>0, <1>3, <2>1 DEF Entered, Dropped, InEnter, EntryRecord, OneAtATime, EnterAlone
  <2>3. held' = {s}
    BY <1>0, <1>3, <2>1 DEF Entered, OneAtATime, ModeOfSession
  <2> QED
    BY <1>0, <1>3, <2>1, <2>2, <2>3 DEF Entered, SetIntent, OneAtATime, OneExit,
       EnterAlone, ExitOfSession, ModeOfSession
<1>4. ASSUME NEW s \in Sessions, Done(s) PROVE OneAtATime'
  <2> DEFINE x == [pc |-> "consuming", session |-> s, expired |-> FALSE]
  <2>1. /\ OneExit' /\ exit'[FreeExit] = x /\ FreeExit \in Exits
        /\ \A d \in Exits : d # FreeExit => exit'[d].pc = "idle"
    BY <1>4, OnlyExit DEF Done
  <2>2. \A r \in Sessions : ~InEnter(r)
    BY <1>0, <1>4 DEF Done, OneAtATime, EnterAlone
  <2>3. ExitOfSession'
    BY <1>0, <1>4, <2>1 DEF Done, ExitOfSession
  <2> QED
    BY <1>4, <2>1, <2>2, <2>3 DEF Done, OneAtATime, EnterAlone, InEnter, ModeOfSession
<1>5. ASSUME NEW s \in Sessions, ExpiryTimer(s) PROVE OneAtATime'
  <2>1. \A r \in Sessions : entry'[r].pc = entry[r].pc
    BY <1>0, <1>5 DEF ExpiryTimer, EntryRecord
  <2>2. CASE disposed \/ session # s \/ s \notin held
    BY <1>5, <2>1, <2>2 DEF ExpiryTimer, OneAtATime, OneExit, EnterAlone, InEnter,
       ExitOfSession, ModeOfSession
  <2>3. CASE ~(disposed \/ session # s \/ s \notin held)
    <3> DEFINE x == [pc |-> "returning", session |-> s, expired |-> TRUE]
    <3>1. /\ Free # {} /\ exit' = [exit EXCEPT ![FreeExit] = x]
          /\ ExitSession(FreeExit, session) /\ UNCHANGED <<mode, session>>
          /\ session # None
      BY <1>0, <1>5, <2>3 DEF ExpiryTimer
    <3>2. ~Overlaps(FreeExit) /\ x.pc = "returning"
      BY <3>1 DEF ExitSession
    <3> HIDE DEF x
    <3> QED
      BY <2>1, <3>1, <3>2, ExitBegins
  <2> QED
    BY <2>2, <2>3
<1>6. ASSUME NEW s \in Sessions, NEW n \in 1..MaxExtension, Extend(s, n)
      PROVE  OneAtATime'
  <2>1. \A r \in Sessions : entry'[r].pc = entry[r].pc
    BY <1>0, <1>6 DEF Extend, EntryRecord
  <2> QED
    BY <1>6, <2>1 DEF Extend, OneAtATime, OneExit, EnterAlone, InEnter, ExitOfSession,
       ModeOfSession
<1>7. ASSUME NEW b \in Panels, Enter(b) PROVE OneAtATime'
  <2> DEFINE s == CHOOSE u \in Unused : TRUE
  <2>1. s \in Sessions
    BY <1>7, UnusedChoice DEF Enter
  <2>2. session = None /\ \A e \in Exits : exit[e].pc = "idle"
    BY <1>0, <1>7 DEF Enter, OneAtATime, ModeOfSession, ExitOfSession, ExitRecord
  <2>3. \A r \in Sessions \ {s} : entry'[r] = entry[r]
    BY <1>0, <1>7, <2>1 DEF Enter
  <2>4. \A r \in Sessions : ~InEnter(r)
    BY <1>7 DEF Enter, OneAtATime, EnterAlone
  <2> HIDE DEF s
  <2>5. EnterAlone'
    <3>1. /\ transition' = "entering" /\ stored' = "entering"
          /\ UNCHANGED <<session, exit>>
      BY <1>7 DEF Enter, SetIntent
    <3>2. \A r \in Sessions : InEnter(r)' => r = s
      BY <2>3, <2>4 DEF InEnter
    <3> QED
      BY <2>2, <3>1, <3>2 DEF EnterAlone
  <2> QED
    BY <1>7, <2>2, <2>5 DEF Enter, SetIntent, OneAtATime, OneExit, ExitOfSession,
       ModeOfSession
<1>8. ASSUME NEW b \in Panels, JoinPanel(b) PROVE OneAtATime'
  <2>1. \A r \in Sessions : entry'[r].pc = entry[r].pc
    BY <1>0, <1>8 DEF JoinPanel, EntryRecord
  <2> QED
    BY <1>8, <2>1 DEF JoinPanel, OneAtATime, OneExit, EnterAlone, InEnter, ExitOfSession,
       ModeOfSession
<1>9. ASSUME NEW b \in Panels, PanelClosed(b) PROVE OneAtATime'
  <2> DEFINE left == [entry EXCEPT ![session].joined = FALSE]
             x == [pc |-> "returning", session |-> session, expired |-> FALSE]
  <2>1. left \in [Sessions -> EntryRecord] /\ \A r \in Sessions : left[r].pc = entry[r].pc
    BY <1>0, <1>9 DEF PanelClosed, EntryRecord
  <2>2. entry' = TimersCleared(left)
    BY <1>9 DEF PanelClosed
  <2> HIDE DEF left
  <2>3. \A r \in Sessions : entry'[r].pc = entry[r].pc
    BY <2>1, <2>2, ClearedAt
  <2>4. /\ Free # {} /\ exit' = [exit EXCEPT ![FreeExit] = x]
        /\ ExitSession(FreeExit, session) /\ UNCHANGED <<mode, session>>
        /\ session # None /\ ~Overlaps(FreeExit) /\ x.pc = "returning"
    BY <1>9 DEF PanelClosed, ExitSession
  <2> HIDE DEF x
  <2> QED
    BY <2>3, <2>4, ExitBegins
<1>10. ASSUME NEW e \in Exits, Consumed(e) PROVE OneAtATime'
  <2>1. \A r \in Sessions : entry'[r].pc = entry[r].pc
    BY <1>0, <1>10, ClearedAt DEF Consumed
  <2>2. session # None /\ exit[e].session = session /\ \A r \in Sessions : ~InEnter(r)
    BY <1>10 DEF Consumed, OneAtATime, ExitOfSession, EnterAlone
  <2>3. /\ held' = {} /\ transition' = "exiting" /\ stored' = "exiting"
        /\ UNCHANGED <<mode, session>>
    BY <1>10, <2>2 DEF Consumed, ExitSession, SetIntent, OneAtATime, ModeOfSession
  <2>4. /\ exit'[e].pc = "returning"
        /\ \A d \in Exits : d # e => exit'[d] = exit[d] /\ exit[d].pc = "idle"
    BY <1>0, <1>10 DEF Consumed, ExitRecord, OneAtATime, OneExit
  <2> QED
    BY <2>1, <2>2, <2>3, <2>4 DEF OneAtATime, OneExit, EnterAlone, InEnter,
       ExitOfSession, ModeOfSession
<1>11. ASSUME NEW e \in Exits, Exited(e) PROVE OneAtATime'
  <2>1. held = {} /\ \A r \in Sessions : ~InEnter(r)
    BY <1>11 DEF Exited, OneAtATime, ExitOfSession, EnterAlone
  <2>2. \A r \in Sessions : ~InEnter(r)'
    BY <1>0, <1>11, <2>1, DroppedAt DEF Exited, InEnter
  <2>3. \A d \in Exits : exit'[d].pc = "idle"
    BY <1>0, <1>11 DEF Exited, NoExit, OneAtATime, OneExit
  <2> QED
    BY <1>11, <2>1, <2>2, <2>3 DEF Exited, SetIntent, OneAtATime, OneExit, EnterAlone,
       ExitOfSession, ModeOfSession
<1>13. CASE Reconcile
  <2>1. /\ session' = None /\ mode' = "automation" /\ UNCHANGED exit
        /\ held' = held \ {session} /\ entry' = Dropped(TimersCleared(entry))
        /\ ~InTransition
    BY <1>13 DEF Reconcile
  <2>2. \A e \in Exits : exit'[e].pc = "idle"
    BY <2>1 DEF InTransition
  <2>3. ASSUME NEW r \in Sessions PROVE ~InEnter(r)'
    <3>1. ~InEnter(r)
      BY <2>1 DEF InTransition, Relaunching, InEnter
    <3> QED
      BY <1>0, <2>1, <3>1, ClearedAt, ClearedType, DroppedAt DEF InEnter
  <2>4. held' = {}
    BY <2>1 DEF OneAtATime, ModeOfSession
  <2> QED
    BY <2>1, <2>2, <2>3, <2>4 DEF OneAtATime, OneExit, EnterAlone, ExitOfSession,
       ModeOfSession
<1>17. CASE Reconciled
  BY <1>17 DEF Reconciled, OneAtATime, OneExit, EnterAlone, InEnter, ExitOfSession,
     ModeOfSession
<1>14. CASE Dispose
  BY <1>14 DEF Dispose
<1>15. CASE Tick
  <2>1. \A r \in Sessions : entry'[r].pc = entry[r].pc
    BY <1>0, <1>15 DEF Tick, EntryRecord
  <2> QED
    BY <1>15, <2>1 DEF Tick, OneAtATime, OneExit, EnterAlone, InEnter, ExitOfSession,
       ModeOfSession
<1>16. CASE UNCHANGED vars
  BY <1>16 DEF vars, OneAtATime, OneExit, EnterAlone, InEnter, ExitOfSession,
     ModeOfSession
<1> QED
  BY <1>1, <1>2, <1>3, <1>4, <1>5, <1>6, <1>7, <1>8, <1>9, <1>10, <1>11, <1>13,
     <1>14, <1>15, <1>16, <1>17 DEF Next

-----------------------------------------------------------------------------
(* Theorems *)

\* The invariant is inductive: it holds at first and every step preserves it.
THEOREM Invariance == Spec => []IInv
<1>1. IInv /\ [Next]_vars => IInv'
  BY TypeStep, SessionStep, SerialStep DEF IInv, SessionInv
<1> QED
  BY InitIInv, <1>1, PTL DEF Spec

\* Types are kept; for leases this bounds what is left of one, and the whole of
\* it with all its extensions, by MaxTotal.
THEOREM TypeCorrect == Spec => []TypeOK
  BY Invariance, PTL DEF IInv

\* A live session always has the timer that ends it, or is being ended.
THEOREM SessionsAreTimed == Spec => []LiveSessionsAreTimed
<1>1. IInv => LiveSessionsAreTimed
  BY DEF IInv, Timed, Returning, LiveSessionsAreTimed
<1> QED
  BY Invariance, <1>1, PTL

\* While transitions do not overlap, whoever may see the pixels is alone with the
\* profile, and a session that is over, ended by an exit or dropped by a
\* reconcile, has left nothing behind.
THEOREM SoundWhenSerial == Spec => []SoundUnlessTransitionsOverlap
<1>1. IInv => SoundUnlessTransitionsOverlap
  <2> SUFFICES ASSUME IInv, ~overlapped, ~disposed
               PROVE  /\ (session # None <=> mode = "safe-login")
                      /\ (session = None => held = {})
    BY DEF SoundUnlessTransitionsOverlap
  <2>1. ModeOfSession
    BY DEF IInv, Serial, OneAtATime
  <2> QED
    BY <2>1, NoneAssumption DEF ModeOfSession, IInv, TypeOK
<1> QED
  BY Invariance, <1>1, PTL

\* While transitions do not overlap, an enter or an exit that a crash interrupts
\* is found in the durable store (a reconcile's own return is not).
THEOREM InterruptedTransitionsAreFound == Spec => []TransitionsAreOnRecord
<1>1. IInv => TransitionsAreOnRecord
  BY DEF IInv, Serial, OneAtATime, EnterAlone, InEnter, ExitOfSession, Relaunching,
     Returning, TransitionsAreOnRecord
<1> QED
  BY Invariance, <1>1, PTL

\* An exit recorded as expired never begins before the end of the lease, however
\* often the lease was extended.
THEOREM ExpiryOnTime == Spec => ExpiryIsNeverEarly
<1> DEFINE OnTime(e) ==
      exit[e].pc = "idle" /\ exit'[e].pc = "returning" /\ exit'[e].expired
      => entry[exit'[e].session].left = 0
<1>1. IInv /\ [Next]_vars => [\A e \in Exits : OnTime(e)]_vars
  <2> SUFFICES ASSUME IInv, Next, NEW e \in Exits, exit[e].pc = "idle",
                      exit'[e].pc = "returning", exit'[e].expired
               PROVE  entry[exit'[e].session].left = 0
    BY DEF vars
  <2>0. exit \in [Exits -> ExitRecord]
    BY DEF IInv, TypeOK
  <2>1. PICK s \in Sessions : ExpiryTimer(s) /\ exit' # exit
    <3>1. ASSUME NEW s \in Sessions, Done(s) PROVE FALSE
      BY <2>0, <3>1, FreeExitIsIdle DEF Done
    <3>2. ASSUME NEW b \in Panels, PanelClosed(b) PROVE FALSE
      BY <2>0, <3>2, FreeExitIsIdle DEF PanelClosed
    <3>3. ASSUME NEW d \in Exits, Consumed(d) \/ Exited(d) PROVE FALSE
      BY <2>0, <3>3 DEF Consumed, Exited, NoExit
    <3>4. ~Restart
      BY DEF Restart, NoExit
    <3> QED
      BY <3>1, <3>2, <3>3, <3>4 DEF Next, AgentsInterrupted, EnterFails, Entered, Extend,
         Enter, JoinPanel, Reconcile, Reconciled, Dispose, Tick
  <2>2. /\ session = s /\ ~disposed /\ 0 \in entry[s].timers
        /\ exit' = [exit EXCEPT ![FreeExit] =
                      [pc |-> "returning", session |-> s, expired |-> TRUE]]
    BY <2>1 DEF ExpiryTimer
  <2>3. exit'[e].session = s
    BY <2>0, <2>2
  <2>4. entry[s].left = 0
    BY <2>2, NoneAssumption DEF IInv, Timed
  <2> QED
    BY <2>3, <2>4
<1> QED
  BY Invariance, <1>1, PTL DEF ExpiryIsNeverEarly, Spec
=============================================================================
