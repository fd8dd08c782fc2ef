-------------------------- MODULE ControlLeaseProofs --------------------------
(***************************************************************************)
(* Theorems about ControlLease, for any calls, profiles, hosts and lanes.   *)
(*                                                                         *)
(* Mutual exclusion is not inductive by itself: that a granted call is the  *)
(* only one rests on `active` naming it, which rests on entries of `active` *)
(* never being stale, and after dispose on nothing being granted any more.  *)
(***************************************************************************)
EXTENDS ControlLease, TLAPS

\* A lease that is out is registered, unless dispose ended it.
LeaseIsRegistered ==
  \A c \in Calls :
    status[c] = "granted" =>
      active[key[c]] = c \/ (disposed /\ c \in freed /\ c \in aborted)

\* An entry of `active` names a lease that is out, in its own lane.
EntriesAreLive ==
  \A k \in Keys :
    active[k] # None =>
      status[active[k]] = "granted" /\ key[active[k]] = k /\ active[k] \notin freed

\* `released` is only set on a lease that was granted.
FreedWereGranted == \A c \in freed : status[c] \in {"granted", "released"}

\* Agents queue, owners park.
WaitsByKind ==
  \A c \in Calls : /\ status[c] = "queued" => ~Owner(c)
                   /\ status[c] \in {"parked", "woken"} => Owner(c)

DisposedIsQuiet ==
  disposed => /\ \A k \in Keys : active[k] = None
              /\ \A c \in Calls : status[c] \notin {"queued", "parked"}

IInv ==
  /\ TypeOK
  /\ OneDriverPerLane
  /\ NobodyWaitsForAFreeLane
  /\ LeaseIsRegistered
  /\ EntriesAreLive
  /\ FreedWereGranted
  /\ WaitsByKind
  /\ DisposedIsQuiet

LEMMA InitIInv == Init => IInv
<1> SUFFICES ASSUME Init PROVE IInv
  OBVIOUS
<1>1. TypeOK
  BY DEF Init, TypeOK, Status
<1>2. NobodyWaitsForAFreeLane
  BY DEF Init, NobodyWaitsForAFreeLane, Parked
<1>3. EntriesAreLive /\ FreedWereGranted /\ DisposedIsQuiet
  BY DEF Init, EntriesAreLive, FreedWereGranted, DisposedIsQuiet
<1>4. OneDriverPerLane /\ LeaseIsRegistered /\ WaitsByKind
  BY DEF Init, OneDriverPerLane, LeaseIsRegistered, WaitsByKind
<1> QED
  BY <1>1, <1>2, <1>3, <1>4 DEF IInv

-----------------------------------------------------------------------------
(* Type correctness *)

LEMMA HoldersAreCalls ==
  ASSUME TypeOK, NEW K \in SUBSET Keys
  PROVE  Holders(K) \subseteq Calls
  BY DEF TypeOK, Holders

LEMMA TypeOKStep == TypeOK /\ [Next]_vars => TypeOK'
<1> SUFFICES ASSUME TypeOK, [Next]_vars PROVE TypeOK'
  OBVIOUS
<1>1. ASSUME NEW c \in Calls, CallStep(c) PROVE TypeOK'
  <2> USE <1>1 DEF TypeOK, Status
  <2>1. CASE Refuse(c) BY <2>1 DEF Refuse
  <2>2. CASE Acquire(c) BY <2>2 DEF Acquire
  <2>3. CASE Wait(c) BY <2>3 DEF Wait
  <2>4. CASE WaitExpires(c) BY <2>4 DEF WaitExpires
  <2>5. CASE Cancel(c) BY <2>5 DEF Cancel
  <2>6. CASE Resume(c) BY <2>6 DEF Resume
  <2>7. CASE LeaseExpires(c) BY <2>7 DEF LeaseExpires
  <2>8. CASE ReleaseFreed(c) BY <2>8 DEF ReleaseFreed
  <2>9. CASE ReleaseAgent(c) BY <2>9 DEF ReleaseAgent, Earliest
  <2>10. CASE ReleaseOwner(c) BY <2>10 DEF ReleaseOwner
  <2> QED
    BY <2>1, <2>2, <2>3, <2>4, <2>5, <2>6, <2>7, <2>8, <2>9, <2>10
    DEF CallStep, Release
<1>2. ASSUME NEW K \in SUBSET Keys, RevokeLanes(K) PROVE TypeOK'
  BY <1>2, HoldersAreCalls DEF TypeOK, Status, RevokeLanes
<1>3. CASE Dispose
  BY <1>3, HoldersAreCalls DEF TypeOK, Status, Dispose
<1>4. CASE UNCHANGED vars
  BY <1>4 DEF TypeOK, vars
<1> QED
  BY <1>1, <1>2, <1>3, <1>4
  DEF Next, Revoke, RevokeAgents, RevokeHost, RevokeAll, LanesOf, AgentLanesOf,
      LanesOfHost

\* Every reachable state is well typed.
THEOREM TypeCorrect == Spec => []TypeOK
<1>1. Init => TypeOK
  BY InitIInv DEF IInv
<1> QED
  BY <1>1, TypeOKStep, PTL DEF Spec

-----------------------------------------------------------------------------
(* The inductive invariant *)

LEMMA CallStepIInv ==
  ASSUME IInv, TypeOK', NEW c \in Calls, CallStep(c)
  PROVE  IInv'
<1> USE DEF IInv, TypeOK, Owner, Parked, Woken, Earliest
<1> DEFINE Rest == /\ OneDriverPerLane /\ NobodyWaitsForAFreeLane
                   /\ LeaseIsRegistered /\ EntriesAreLive
                   /\ FreedWereGranted /\ WaitsByKind /\ DisposedIsQuiet
<1> SUFFICES Rest'
  OBVIOUS
<1> USE NoneAssumption
    DEF OneDriverPerLane, NobodyWaitsForAFreeLane, LeaseIsRegistered,
        EntriesAreLive, FreedWereGranted, WaitsByKind, DisposedIsQuiet
<1>1. CASE Refuse(c) BY <1>1 DEF Refuse
<1>2. CASE Acquire(c)
  <2>1. OneDriverPerLane' BY <1>2 DEF Acquire, Available
  <2>2. NobodyWaitsForAFreeLane' BY <1>2 DEF Acquire, Available
  <2>3. LeaseIsRegistered' BY <1>2 DEF Acquire, Available
  <2>4. EntriesAreLive' BY <1>2 DEF Acquire, Available
  <2>5. WaitsByKind' BY <1>2 DEF Acquire, Available
  <2>6. DisposedIsQuiet' BY <1>2 DEF Acquire, Available
  <2>7. FreedWereGranted' BY <1>2 DEF Acquire, Available
  <2> QED BY <2>1, <2>2, <2>3, <2>4, <2>5, <2>6, <2>7
<1>3. CASE Wait(c) BY <1>3 DEF Wait, Available
<1>4. CASE WaitExpires(c) BY <1>4 DEF WaitExpires
<1>5. CASE Cancel(c) BY <1>5 DEF Cancel
<1>6. CASE Resume(c)
  <2>1. OneDriverPerLane' BY <1>6 DEF Resume
  <2>2. NobodyWaitsForAFreeLane' BY <1>6 DEF Resume
  <2>3. LeaseIsRegistered' BY <1>6 DEF Resume
  <2>4. EntriesAreLive' BY <1>6 DEF Resume
  <2>5. WaitsByKind' BY <1>6 DEF Resume
  <2>6. DisposedIsQuiet' BY <1>6 DEF Resume
  <2>7. FreedWereGranted' BY <1>6 DEF Resume
  <2> QED BY <2>1, <2>2, <2>3, <2>4, <2>5, <2>6, <2>7
<1>7. CASE LeaseExpires(c) BY <1>7 DEF LeaseExpires
<1>8. CASE ReleaseFreed(c) BY <1>8 DEF ReleaseFreed
<1>9. CASE ReleaseAgent(c)
  <2>1. OneDriverPerLane' BY <1>9 DEF ReleaseAgent
  <2>2. NobodyWaitsForAFreeLane' BY <1>9 DEF ReleaseAgent
  <2>3. LeaseIsRegistered' BY <1>9 DEF ReleaseAgent
  <2>4. EntriesAreLive' BY <1>9 DEF ReleaseAgent
  <2>5. WaitsByKind' BY <1>9 DEF ReleaseAgent
  <2>6. DisposedIsQuiet' BY <1>9 DEF ReleaseAgent
  <2>7. FreedWereGranted' BY <1>9 DEF ReleaseAgent
  <2> QED BY <2>1, <2>2, <2>3, <2>4, <2>5, <2>6, <2>7
<1>10. CASE ReleaseOwner(c) BY <1>10 DEF ReleaseOwner
<1> QED
  BY <1>1, <1>2, <1>3, <1>4, <1>5, <1>6, <1>7, <1>8, <1>9, <1>10
  DEF CallStep, Release

LEMMA RevokeIInv ==
  ASSUME IInv, TypeOK', NEW K \in SUBSET Keys, RevokeLanes(K)
  PROVE  IInv'
  BY NoneAssumption
  DEF IInv, TypeOK, Owner, Parked, OneDriverPerLane, NobodyWaitsForAFreeLane,
      LeaseIsRegistered, EntriesAreLive, FreedWereGranted, WaitsByKind, DisposedIsQuiet, RevokeLanes

LEMMA DisposeIInv ==
  ASSUME IInv, TypeOK', Dispose
  PROVE  IInv'
  BY NoneAssumption
  DEF IInv, TypeOK, Owner, Parked, OneDriverPerLane, NobodyWaitsForAFreeLane,
      LeaseIsRegistered, EntriesAreLive, FreedWereGranted, WaitsByKind, DisposedIsQuiet, Dispose, Holders

LEMMA IInvStep == IInv /\ [Next]_vars => IInv'
<1> SUFFICES ASSUME IInv, [Next]_vars PROVE IInv'
  OBVIOUS
<1>1. TypeOK'
  BY TypeOKStep DEF IInv
<1>2. CASE UNCHANGED vars
  BY <1>2, <1>1
  DEF vars, IInv, OneDriverPerLane, NobodyWaitsForAFreeLane, LeaseIsRegistered,
      EntriesAreLive, FreedWereGranted, WaitsByKind, DisposedIsQuiet, Parked, Owner
<1> QED
  BY <1>1, <1>2, CallStepIInv, RevokeIInv, DisposeIInv
  DEF Next, Revoke, RevokeAgents, RevokeHost, RevokeAll, LanesOf, AgentLanesOf,
      LanesOfHost

THEOREM Invariance == Spec => []IInv
  BY InitIInv, IInvStep, PTL DEF Spec

\* Two calls never drive the same lane at once.
THEOREM MutualExclusion == Spec => []OneDriverPerLane
<1>1. IInv => OneDriverPerLane
  BY DEF IInv
<1> QED
  BY <1>1, Invariance, PTL

\* Nobody waits for a lane that nobody would hand over.
THEOREM NoForgottenWaiter == Spec => []NobodyWaitsForAFreeLane
<1>1. IInv => NobodyWaitsForAFreeLane
  BY DEF IInv
<1> QED
  BY <1>1, Invariance, PTL

\* A lease that is out can be revoked, or has been.
THEOREM LeasesCanBeRevoked == Spec => []EveryLeaseCanBeRevoked
<1>1. IInv => EveryLeaseCanBeRevoked
  BY DEF IInv, LeaseIsRegistered, EveryLeaseCanBeRevoked
<1> QED
  BY <1>1, Invariance, PTL

-----------------------------------------------------------------------------
(* Order *)

\* Tickets are given out in order and once, and only an owner that parks again
\* has one that is not the ticket of its arrival.
TicketsInOrder ==
  /\ \A c \in Calls : /\ arrived[c] <= ticket[c] /\ ticket[c] < nextTicket
                      /\ status[c] = "queued" => ticket[c] = arrived[c]
  /\ \A c, d \in Calls : Waiting(c) /\ Waiting(d) /\ c # d => ticket[c] # ticket[d]

LEMMA TicketsStep == IInv /\ TicketsInOrder /\ [Next]_vars => TicketsInOrder'
<1> SUFFICES ASSUME IInv, TicketsInOrder, [Next]_vars PROVE TicketsInOrder'
  OBVIOUS
<1> USE DEF TicketsInOrder, IInv, TypeOK, Waiting
<1>1. ASSUME NEW e \in Calls, CallStep(e) PROVE TicketsInOrder'
  <2> USE <1>1
  <2>1. CASE Acquire(e) BY <2>1 DEF Acquire
  <2>2. CASE Resume(e) BY <2>2 DEF Resume
  <2>3. CASE ReleaseAgent(e) BY <2>3 DEF ReleaseAgent
  <2>4. CASE Refuse(e) BY <2>4 DEF Refuse
  <2>5. CASE Wait(e) BY <2>5 DEF Wait
  <2>6. CASE WaitExpires(e) BY <2>6 DEF WaitExpires
  <2>7. CASE Cancel(e) BY <2>7 DEF Cancel
  <2>8. CASE LeaseExpires(e) BY <2>8 DEF LeaseExpires
  <2>9. CASE ReleaseFreed(e) BY <2>9 DEF ReleaseFreed
  <2>10. CASE ReleaseOwner(e) BY <2>10 DEF ReleaseOwner, Parked
  <2> QED
    BY <2>1, <2>2, <2>3, <2>4, <2>5, <2>6, <2>7, <2>8, <2>9, <2>10
    DEF CallStep, Release
<1>2. ASSUME NEW K \in SUBSET Keys, RevokeLanes(K) PROVE TicketsInOrder'
  BY <1>2 DEF RevokeLanes
<1>3. CASE Dispose
  BY <1>3 DEF Dispose
<1>4. CASE UNCHANGED vars
  BY <1>4 DEF vars
<1> QED
  BY <1>1, <1>2, <1>3, <1>4
  DEF Next, Revoke, RevokeAgents, RevokeHost, RevokeAll, LanesOf, AgentLanesOf,
      LanesOfHost

LEMMA TicketsInvariant == Spec => [](IInv /\ TicketsInOrder)
<1>1. Init => TicketsInOrder
  BY DEF Init, TicketsInOrder, Waiting
<1> QED
  BY <1>1, InitIInv, IInvStep, TicketsStep, PTL DEF Spec

\* Steps that revoke or dispose grant nothing, and every granting step is an
\* Acquire of a free lane, a Resume in turn, or a hand-over in turn.  A call
\* that waits on in the lane is a queued agent, which a free lane excludes, or
\* a woken owner.
LEMMA GrantStep ==
  ASSUME IInv, [Next]_vars, NEW c \in Calls, NEW d \in Calls,
         GrantedInStep(c), key[c] = key[d], Waiting(d), Waiting(d)'
  PROVE  \/ Owner(c) /\ status[c] = "idle" /\ status[d] = "woken"
         \/ /\ status[c] = "queued" /\ status[d] = "queued"
            /\ ticket[c] <= ticket[d]
         \/ /\ status[c] = "woken" /\ status[d] = "woken"
            /\ Owner(c) /\ ticket[c] <= ticket[d]
<1> USE NoneAssumption
    DEF IInv, TypeOK, Owner, GrantedInStep, NobodyWaitsForAFreeLane, WaitsByKind,
        Waiting, Parked
<1> DEFINE Goal == \/ Owner(c) /\ status[c] = "idle" /\ status[d] = "woken"
                   \/ /\ status[c] = "queued" /\ status[d] = "queued"
                      /\ ticket[c] <= ticket[d]
                   \/ /\ status[c] = "woken" /\ status[d] = "woken"
                      /\ Owner(c) /\ ticket[c] <= ticket[d]
<1>1. ASSUME NEW e \in Calls, CallStep(e) PROVE Goal
  <2> USE <1>1
  <2>1. CASE Acquire(e) BY <2>1 DEF Acquire, Available
  <2>2. CASE Resume(e) BY <2>2 DEF Resume, Earliest, Woken
  <2>3. CASE ReleaseAgent(e) BY <2>3 DEF ReleaseAgent, Earliest
  <2>4. CASE Refuse(e) BY <2>4 DEF Refuse
  <2>5. CASE Wait(e) BY <2>5 DEF Wait
  <2>6. CASE WaitExpires(e) BY <2>6 DEF WaitExpires
  <2>7. CASE Cancel(e) BY <2>7 DEF Cancel
  <2>8. CASE LeaseExpires(e) BY <2>8 DEF LeaseExpires
  <2>9. CASE ReleaseFreed(e) BY <2>9 DEF ReleaseFreed
  <2>10. CASE ReleaseOwner(e) BY <2>10 DEF ReleaseOwner, Parked
  <2> QED
    BY <2>1, <2>2, <2>3, <2>4, <2>5, <2>6, <2>7, <2>8, <2>9, <2>10
    DEF CallStep, Release
<1>2. ASSUME NEW K \in SUBSET Keys, RevokeLanes(K) PROVE FALSE
  BY <1>2 DEF RevokeLanes
<1>3. CASE Dispose
  BY <1>3 DEF Dispose
<1>4. CASE UNCHANGED vars
  BY <1>4 DEF vars
<1> QED
  BY <1>1, <1>2, <1>3, <1>4
  DEF Next, Revoke, RevokeAgents, RevokeHost, RevokeAll, LanesOf, AgentLanesOf,
      LanesOfHost

\* The same in terms of arrivals: equal tickets and arrivals but for an owner
\* that has parked again, which others that park count as behind themselves.
LEMMA OvertakeStep ==
  ASSUME IInv, TicketsInOrder, [Next]_vars, NEW c \in Calls, NEW d \in Calls,
         GrantedInStep(c), key[c] = key[d], Waiting(d), Waiting(d)'
  PROVE  (Waiting(c) /\ arrived[c] <= arrived[d]) \/ PassedOver(c, d)
<1>1. \/ Owner(c) /\ status[c] = "idle" /\ status[d] = "woken"
      \/ /\ status[c] = "queued" /\ status[d] = "queued"
         /\ ticket[c] <= ticket[d]
      \/ /\ status[c] = "woken" /\ status[d] = "woken"
         /\ Owner(c) /\ ticket[c] <= ticket[d]
  BY GrantStep
<1>2. /\ ticket[c] \in Nat /\ ticket[d] \in Nat
      /\ arrived[c] \in Nat /\ arrived[d] \in Nat
  BY DEF IInv, TypeOK
<1>3. /\ arrived[c] <= ticket[c]
      /\ status[c] = "queued" => ticket[c] = arrived[c]
      /\ status[d] = "queued" => ticket[d] = arrived[d]
  BY DEF TicketsInOrder
<1>4. CASE ticket[d] = arrived[d]
  BY <1>1, <1>2, <1>3, <1>4 DEF Waiting, PassedOver
<1>5. CASE ticket[d] # arrived[d] /\ ticket[c] < ticket[d]
  BY <1>1, <1>3, <1>5 DEF Waiting, PassedOver
<1>6. c # d
  BY DEF GrantedInStep, Waiting
<1>7. Waiting(c) => ticket[c] # ticket[d]
  BY <1>6 DEF TicketsInOrder
<1> QED
  BY <1>1, <1>2, <1>4, <1>5, <1>7 DEF Waiting, PassedOver

\* Whoever gets a lane arrived before everyone who stays behind in it, but for
\* a new owner call that takes the lane before a woken one resumes, and for
\* what waits behind the owners it has passed over.
THEOREM GrantsInOrder == Spec => OnlyNewcomersOvertake
<1> DEFINE InOrder ==
      \A c, d \in Calls :
        /\ GrantedInStep(c) /\ key[c] = key[d]
        /\ Waiting(d) /\ Waiting(d)'
        => (Waiting(c) /\ arrived[c] <= arrived[d]) \/ PassedOver(c, d)
<1>1. IInv /\ TicketsInOrder /\ [Next]_vars => [InOrder]_vars
  BY OvertakeStep
<1>2. [][InOrder]_vars => OnlyNewcomersOvertake
  BY PTL DEF OnlyNewcomersOvertake
<1> QED
  BY <1>1, <1>2, TicketsInvariant, PTL DEF Spec

-----------------------------------------------------------------------------
(* The manager implements the promise of LaneControl *)

LEMMA PhaseDef ==
  ASSUME TypeOK, NEW c \in Calls
  PROVE  /\ status[c] = "granted" <=> Phase(c) = "holding"
         /\ status[c] = "released" <=> Phase(c) = "done"
         /\ Waiting(c) <=> Phase(c) = "waiting"
         /\ status[c] = "idle" <=> Phase(c) = "idle"
         /\ status[c] = "refused" <=> Phase(c) = "refused"
  BY DEF TypeOK, Status, Phase, Waiting

LEMMA PromiseInit == Init => Promise!Init
<1> SUFFICES ASSUME Init PROVE Promise!Init
  OBVIOUS
<1>1. [c \in Calls |-> Phase(c)] = [c \in Calls |-> "idle"]
  BY DEF Init, Phase, Waiting
<1> QED
  BY <1>1 DEF Init, Promise!Init

\* What a caller sees of one step: a legal move, and its place in the queue.
LEMMA PromiseMoves ==
  ASSUME IInv, Next, IInv', NEW c \in Calls
  PROVE  /\ Phase(c)' # Phase(c) => <<Phase(c), Phase(c)'>> \in Promise!Moves
         /\ Phase(c) # "idle" /\ ~Owner(c) => ticket'[c] = ticket[c]
         /\ disposed /\ Phase(c)' = "holding" => Phase(c) = "holding"
         /\ key' = key
         /\ disposed => disposed'
<1> USE NoneAssumption
    DEF IInv, TypeOK, Status, Owner, Parked, Woken, Earliest, WaitsByKind,
        NobodyWaitsForAFreeLane, DisposedIsQuiet
<1> DEFINE Change(x, y) == status[c] = x /\ status'[c] = y
<1>1. /\ \/ status'[c] = status[c]
         \/ Change("idle", "granted") \/ Change("idle", "queued")
         \/ Change("idle", "parked") \/ Change("idle", "refused")
         \/ Change("queued", "granted") \/ Change("queued", "refused")
         \/ Change("parked", "woken") \/ Change("parked", "refused")
         \/ Change("woken", "parked") \/ Change("woken", "granted")
         \/ Change("woken", "refused") \/ Change("granted", "released")
      /\ status[c] # "idle" /\ ~Owner(c) => ticket'[c] = ticket[c]
      /\ disposed /\ status'[c] = "granted" => status[c] = "granted"
      /\ key' = key
      /\ disposed => disposed'
  <2>1. ASSUME NEW e \in Calls, CallStep(e) PROVE <1>1
    <3> USE <2>1
    <3>1. CASE Refuse(e) BY <3>1 DEF Refuse
    <3>2. CASE Acquire(e) BY <3>2 DEF Acquire, Available
    <3>3. CASE Wait(e) BY <3>3 DEF Wait, Available
    <3>4. CASE WaitExpires(e) BY <3>4 DEF WaitExpires
    <3>5. CASE Cancel(e) BY <3>5 DEF Cancel
    <3>6. CASE Resume(e) BY <3>6 DEF Resume
    <3>7. CASE LeaseExpires(e) BY <3>7 DEF LeaseExpires
    <3>8. CASE ReleaseFreed(e) BY <3>8 DEF ReleaseFreed
    <3>9. CASE ReleaseAgent(e) BY <3>9 DEF ReleaseAgent
    <3>10. CASE ReleaseOwner(e) BY <3>10 DEF ReleaseOwner
    <3> QED
      BY <3>1, <3>2, <3>3, <3>4, <3>5, <3>6, <3>7, <3>8, <3>9, <3>10
      DEF CallStep, Release
  <2>2. ASSUME NEW K \in SUBSET Keys, RevokeLanes(K) PROVE <1>1
    BY <2>2 DEF RevokeLanes
  <2>3. CASE Dispose
    BY <2>3 DEF Dispose
  <2> QED
    BY <2>1, <2>2, <2>3
    DEF Next, Revoke, RevokeAgents, RevokeHost, RevokeAll, LanesOf,
        AgentLanesOf, LanesOfHost
<1> QED
  BY <1>1 DEF Phase, Waiting, Promise!Moves

LEMMA PromiseStep ==
  ASSUME IInv, [Next]_vars, IInv'
  PROVE  [Promise!Next]_(Promise!vars)
<1>1. CASE UNCHANGED vars
  <2>1. [c \in Calls |-> Phase(c)]' = [c \in Calls |-> Phase(c)]
    BY <1>1 DEF vars, Phase, Waiting
  <2> QED
    BY <1>1, <2>1 DEF vars, Promise!vars
<1>2. CASE Next
  <2> DEFINE phase == [c \in Calls |-> Phase(c)]
             Ordered == {k \in Keys : k[2] # OwnerLane}
  <2> USE <1>2
  <2>0. \A c \in Calls : phase[c] = Phase(c) /\ phase'[c] = Phase(c)'
    OBVIOUS
  <2>1. \A c \in Calls : phase'[c] # phase[c] => <<phase[c], phase'[c]>> \in Promise!Moves
    BY <2>0, PromiseMoves
  <2>2. \A c \in Calls : phase[c] # "idle" /\ key[c] \in Ordered => ticket'[c] = ticket[c]
    BY <2>0, PromiseMoves DEF Owner
  <2>3. Promise!Exclusive'
    <3>1. \A c \in Calls : Phase(c)' = "holding" <=> status'[c] = "granted"
      BY DEF IInv, TypeOK, Status, Phase, Waiting
    <3> QED
      BY <3>1 DEF IInv, OneDriverPerLane, Promise!Exclusive, Promise!InLane
  <2>4. ASSUME NEW c \in Calls, NEW d \in Calls,
               phase[c] # "holding", phase'[c] = "holding", key[c] = key[d],
               key[c] \in Ordered, phase[d] = "waiting", phase'[d] = "waiting"
        PROVE  phase[c] = "waiting" /\ ticket[c] <= ticket[d]
    <3>1. GrantedInStep(c) /\ ~Owner(c)
      BY <2>4 DEF GrantedInStep, Owner, Phase, Waiting, IInv, TypeOK, Status
    <3>2. status[d] = "queued" /\ status'[d] = "queued"
      BY <2>4, PromiseMoves
      DEF Owner, Phase, Waiting, IInv, TypeOK, Status, WaitsByKind
    <3>3. status[c] # "idle" /\ ticket[c] <= ticket[d]
      BY <3>1, <3>2, <2>4, GrantStep DEF Waiting
    <3>4. <<phase[c], phase'[c]>> \in Promise!Moves
      BY <2>4, <2>1
    <3>5. phase[c] # "idle"
      BY <3>3 DEF Phase, IInv, TypeOK, Status, Waiting
    <3> QED
      BY <3>3, <3>4, <3>5, <2>4 DEF Promise!Moves
  <2>5. disposed => \A c \in Calls : phase'[c] = "holding" => phase[c] = "holding"
    BY <2>0, PromiseMoves
  <2>6. (disposed => disposed') /\ key' = key
    <3>1. CASE Calls # {} BY <3>1, PromiseMoves
    <3>2. CASE Calls = {}
      BY <3>2 DEF Next, Revoke, RevokeAgents, RevokeHost, RevokeAll, RevokeLanes, Dispose
    <3> QED BY <3>1, <3>2
  <2> HIDE DEF phase
  <2>7. Promise!Next
    BY <2>1, <2>2, <2>3, <2>4, <2>5, <2>6
    DEF phase, Promise!Next, Promise!Granted, Promise!InLane
  <2> QED
    BY <2>7
<1> QED
  BY <1>1, <1>2

\* Every behaviour of the manager is one that LaneControl allows.
THEOREM Implementation == Spec => ImplementsLaneControl
  BY PromiseInit, PromiseStep, Invariance, PTL
  DEF Spec, ImplementsLaneControl, Promise!Spec
=============================================================================
