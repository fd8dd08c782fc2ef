----------------------------- MODULE ControlLease -----------------------------
(***************************************************************************)
(* The Control Lease manager of src/src/browser/control-lease.ts: who may   *)
(* drive a Browser Profile, lane by lane.  Each profile has one lane for    *)
(* the owner and one for each agent session.  A call that finds its lane    *)
(* taken waits: an agent in the queue of its lane, with a 30 second timer,  *)
(* an owner on the `done` promise of the lease that holds the lane.         *)
(*                                                                         *)
(* A step is one synchronous run of the manager: an API call, a timer, an   *)
(* abort listener, or the loop of acquireOwner resuming after its await.    *)
(* A release wakes all owners parked on the lease; between that and their   *)
(* resumption another call may find the lane free and take it, and then the *)
(* woken owners park again.  All callers pass a signal, so woken owners     *)
(* resume at the same promise depth, in the order they parked.  Time is not *)
(* counted: a timer that is armed may fire at any moment.                   *)
(***************************************************************************)
EXTENDS Naturals

CONSTANTS
  Calls,       \* calls of acquireAgent and acquireOwner, each made at most once
  Hosts,
  Profiles,
  AgentLanes,  \* names of the agent sessions of a profile
  OwnerLane,   \* the owner's lane name, no agent session's name
  HostOf,      \* the host of each profile
  None         \* no lease

ASSUME OwnerLaneAssumption == OwnerLane \notin AgentLanes
ASSUME HostOfAssumption == HostOf \in [Profiles -> Hosts]
ASSUME NoneAssumption == None \notin Calls

\* laneKey: a lane of a profile.
Keys == Profiles \X (AgentLanes \cup {OwnerLane})

Status == {"idle",      \* not called yet
           "queued",    \* an agent in `waiting`
           "parked",    \* an owner awaiting the `done` of the active lease
           "woken",     \* an owner whose `done` resolved, before it resumes
           "granted",   \* holds the lease and has not called release
           "released",  \* called release
           "refused"}   \* rejected

VARIABLES
  key,        \* the lane each call asks for
  status,
  ticket,     \* when a call began its wait: the order of `waiting` (a Set,
              \* iterated in insertion order) and of done's reactions
  arrived,    \* history: the ticket of its first wait, when the call was made
  nextTicket,
  active,     \* the Map `active`: the call whose lease is registered per lane
  waiting,    \* the Map `waiting`
  aborted,    \* leases whose AbortController has been aborted
  freed,      \* leases with `released` set
  cancelled,  \* calls whose own AbortSignal is aborted
  disposed

vars == <<key, status, ticket, arrived, nextTicket, active, waiting, aborted,
          freed, cancelled, disposed>>

Owner(c) == key[c][2] = OwnerLane
\* The owner calls parked on the lease of lane k.
Parked(k) == {c \in Calls : status[c] = "parked" /\ key[c] = k}
Woken(k) == {c \in Calls : status[c] = "woken" /\ key[c] = k}
\* MUTANT of Earliest: the hand-over ignores the order of arrival.
AnyOf(S) == S
Earliest(S) == {c \in S : \A d \in S : ticket[c] <= ticket[d]}
LanesOf(p) == {k \in Keys : k[1] = p}
AgentLanesOf(p) == {k \in LanesOf(p) : k[2] # OwnerLane}
LanesOfHost(h) == {k \in Keys : HostOf[k[1]] = h}

TypeOK ==
  /\ key \in [Calls -> Keys]
  /\ status \in [Calls -> Status]
  /\ ticket \in [Calls -> Nat]
  /\ arrived \in [Calls -> Nat]
  /\ nextTicket \in Nat
  /\ active \in [Keys -> Calls \cup {None}]
  /\ waiting \in [Keys -> SUBSET Calls]
  /\ aborted \subseteq Calls
  /\ freed \subseteq Calls
  /\ cancelled \subseteq Calls
  /\ disposed \in BOOLEAN

Init ==
  /\ key \in [Calls -> Keys]
  /\ status = [c \in Calls |-> "idle"]
  /\ ticket = [c \in Calls |-> 0]
  /\ arrived = [c \in Calls |-> 0]
  /\ nextTicket = 1
  /\ active = [k \in Keys |-> None]
  /\ waiting = [k \in Keys |-> {}]
  /\ aborted = {}
  /\ freed = {}
  /\ cancelled = {}
  /\ disposed = FALSE

-----------------------------------------------------------------------------
(* acquireAgent and acquireOwner *)

Refuse(c) ==
  /\ status[c] = "idle"
  /\ disposed \/ c \in cancelled
  /\ status' = [status EXCEPT ![c] = "refused"]
  /\ UNCHANGED <<key, ticket, arrived, nextTicket, active, waiting, aborted, freed,
                 cancelled, disposed>>

Available(c) == status[c] = "idle" /\ ~disposed /\ c \notin cancelled

\* The lane is free: createActiveLease.
Acquire(c) ==
  /\ Available(c)
  /\ active[key[c]] = None
  /\ status' = [status EXCEPT ![c] = "granted"]
  /\ active' = [active EXCEPT ![key[c]] = c]
  /\ UNCHANGED <<key, ticket, arrived, nextTicket, waiting, aborted, freed, cancelled,
                 disposed>>

\* The lane is taken: enqueueAgent, or waitForLease for the owner.
Wait(c) ==
  /\ Available(c)
  /\ active[key[c]] # None
  /\ IF Owner(c)
     THEN /\ status' = [status EXCEPT ![c] = "parked"]
          /\ waiting' = waiting
     ELSE /\ status' = [status EXCEPT ![c] = "queued"]
          /\ waiting' = [waiting EXCEPT ![key[c]] = @ \cup {c}]
  /\ ticket' = [ticket EXCEPT ![c] = nextTicket]
  /\ arrived' = [arrived EXCEPT ![c] = nextTicket]
  /\ nextTicket' = nextTicket + 1
  /\ UNCHANGED <<key, active, aborted, freed, cancelled, disposed>>

\* The 30 second wait of a queued agent ends: removePending and reject.
WaitExpires(c) ==
  /\ status[c] = "queued"
  /\ status' = [status EXCEPT ![c] = "refused"]
  /\ waiting' = [waiting EXCEPT ![key[c]] = @ \ {c}]
  /\ UNCHANGED <<key, ticket, arrived, nextTicket, active, aborted, freed, cancelled,
                 disposed>>

\* The caller aborts its own signal.  A waiting call is rejected by its abort
\* listener; a woken owner notices when it resumes; a granted lease does not
\* listen to it.
Cancel(c) ==
  /\ c \notin cancelled
  /\ cancelled' = cancelled \cup {c}
  /\ status' = IF status[c] \in {"queued", "parked"}
               THEN [status EXCEPT ![c] = "refused"]
               ELSE status
  /\ waiting' = [waiting EXCEPT ![key[c]] = @ \ {c}]
  /\ UNCHANGED <<key, ticket, arrived, nextTicket, active, aborted, freed, disposed>>

\* MUTANTS of Resume: a woken owner does not look at the lane again, or does not look
\* whether the manager was disposed while it waited.
ResumeOnce(c) ==
  /\ c \in Earliest(Woken(key[c]))
  /\ status' = [status EXCEPT ![c] = IF disposed \/ c \in cancelled
                                     THEN "refused" ELSE "granted"]
  /\ active' = [active EXCEPT ![key[c]] = IF status'[c] = "granted" THEN c ELSE @]
  /\ UNCHANGED <<key, ticket, arrived, nextTicket, waiting, aborted, freed, cancelled,
                 disposed>>
ResumeDisposed(c) ==
  /\ c \in Earliest(Woken(key[c]))
  /\ active[key[c]] = None
  /\ status' = [status EXCEPT ![c] = "granted"]
  /\ active' = [active EXCEPT ![key[c]] = c]
  /\ UNCHANGED <<key, ticket, arrived, nextTicket, waiting, aborted, freed, cancelled,
                 disposed>>

\* The loop of acquireOwner after its await: the call takes the free lane,
\* parks on whoever took it meanwhile, or throws.
Resume(c) ==
  /\ c \in Earliest(Woken(key[c]))
  /\ \/ /\ disposed \/ c \in cancelled
        /\ status' = [status EXCEPT ![c] = "refused"]
        /\ UNCHANGED <<ticket, nextTicket, active>>
     \/ /\ ~disposed /\ c \notin cancelled
        /\ active[key[c]] = None
        /\ status' = [status EXCEPT ![c] = "granted"]
        /\ active' = [active EXCEPT ![key[c]] = c]
        /\ UNCHANGED <<ticket, nextTicket>>
     \/ /\ ~disposed /\ c \notin cancelled
        /\ active[key[c]] # None
        /\ status' = [status EXCEPT ![c] = "parked"]
        /\ ticket' = [ticket EXCEPT ![c] = nextTicket]
        /\ nextTicket' = nextTicket + 1
        /\ UNCHANGED active
  /\ UNCHANGED <<key, arrived, waiting, aborted, freed, cancelled, disposed>>

-----------------------------------------------------------------------------
(* The lease: expiry, release, and the hand-over to whoever waits *)

\* The expiry timer of an agent lease aborts the holder; the lane stays taken
\* until the holder calls release.
LeaseExpires(c) ==
  /\ status[c] = "granted"
  /\ c \notin freed \cup aborted
  /\ ~Owner(c)
  /\ aborted' = aborted \cup {c}
  /\ UNCHANGED <<key, status, ticket, arrived, nextTicket, active, waiting, freed,
                 cancelled, disposed>>

\* releaseLease returns at once: dispose has released this lease already.
ReleaseFreed(c) ==
  /\ status[c] = "granted"
  /\ c \in freed
  /\ status' = [status EXCEPT ![c] = "released"]
  /\ UNCHANGED <<key, ticket, arrived, nextTicket, active, waiting, aborted, freed,
                 cancelled, disposed>>

\* MUTANT of ReleaseAgent: the lane is handed to nobody.
ReleaseToNobody(c) ==
  /\ status[c] = "granted" /\ c \notin freed /\ ~Owner(c)
  /\ status' = [status EXCEPT ![c] = "released"]
  /\ active' = [active EXCEPT ![key[c]] = None]
  /\ freed' = freed \cup {c}
  /\ UNCHANGED <<key, ticket, arrived, nextTicket, waiting, aborted, cancelled, disposed>>

\* An agent lease leaves the Map: grantNext hands the lane to the oldest entry
\* of its queue, if there is one.
ReleaseAgent(c) ==
  /\ status[c] = "granted" /\ c \notin freed /\ ~Owner(c)
  /\ \/ /\ waiting[key[c]] = {}
        /\ status' = [status EXCEPT ![c] = "released"]
        /\ active' = [active EXCEPT ![key[c]] = None]
        /\ UNCHANGED waiting
     \/ \E next \in Earliest(waiting[key[c]]) :
          /\ status' = [status EXCEPT ![c] = "released", ![next] = "granted"]
          /\ active' = [active EXCEPT ![key[c]] = next]
          /\ waiting' = [waiting EXCEPT ![key[c]] = @ \ {next}]
  /\ freed' = freed \cup {c}
  /\ UNCHANGED <<key, ticket, arrived, nextTicket, aborted, cancelled, disposed>>

\* MUTANT of ReleaseOwner: `done` is never resolved.
ReleaseUnresolved(c) ==
  /\ status[c] = "granted" /\ c \notin freed /\ Owner(c)
  /\ status' = [status EXCEPT ![c] = "released"]
  /\ active' = [active EXCEPT ![key[c]] = None]
  /\ freed' = freed \cup {c}
  /\ UNCHANGED <<key, ticket, arrived, nextTicket, waiting, aborted, cancelled, disposed>>

\* An owner lease leaves the Map and its `done` wakes everyone parked on it.
ReleaseOwner(c) ==
  /\ status[c] = "granted" /\ c \notin freed /\ Owner(c)
  /\ status' = [d \in Calls |-> IF d = c THEN "released"
                                ELSE IF d \in Parked(key[c]) THEN "woken"
                                ELSE status[d]]
  /\ active' = [active EXCEPT ![key[c]] = None]
  /\ freed' = freed \cup {c}
  /\ UNCHANGED <<key, ticket, arrived, nextTicket, waiting, aborted, cancelled,
                 disposed>>

Release(c) == ReleaseFreed(c) \/ ReleaseAgent(c) \/ ReleaseOwner(c)

-----------------------------------------------------------------------------
(* revoke, revokeAgents, revokeHost, revokeAll, dispose *)

\* MUTANT of Holders: the lanes nobody holds are not left out.
HoldersOrNone(K) == {active[k] : k \in K}

Holders(K) == {active[k] : k \in K} \ {None}

\* revokeKey for every lane in K: queued agents are rejected and the holder is
\* aborted.  The lane stays taken, and parked owners stay parked.
RevokeLanes(K) ==
  /\ status' = [c \in Calls |-> IF status[c] = "queued" /\ key[c] \in K
                                THEN "refused" ELSE status[c]]
  /\ waiting' = [k \in Keys |-> IF k \in K THEN {} ELSE waiting[k]]
  /\ aborted' = aborted \cup Holders(K)
  /\ UNCHANGED <<key, ticket, arrived, nextTicket, active, freed, cancelled, disposed>>

Revoke(p) == RevokeLanes(LanesOf(p))
RevokeAgents(p) == RevokeLanes(AgentLanesOf(p))
RevokeHost(h) == RevokeLanes(LanesOfHost(h))
RevokeAll == RevokeLanes(Keys)

\* MUTANT of Dispose: leases are released but their holders are not told.
DisposeSilently ==
  /\ ~disposed
  /\ disposed' = TRUE
  /\ status' = [c \in Calls |-> CASE status[c] = "queued" -> "refused"
                                  [] status[c] = "parked" -> "woken"
                                  [] OTHER -> status[c]]
  /\ waiting' = [k \in Keys |-> {}]
  /\ freed' = freed \cup Holders(Keys)
  /\ active' = [k \in Keys |-> None]
  /\ UNCHANGED <<key, ticket, arrived, nextTicket, aborted, cancelled>>

\* Every waiting agent is rejected and every lease aborted and released; the
\* parked owners are woken and will find the manager disposed.
Dispose ==
  /\ ~disposed
  /\ disposed' = TRUE
  /\ status' = [c \in Calls |-> CASE status[c] = "queued" -> "refused"
                                  [] status[c] = "parked" -> "woken"
                                  [] OTHER -> status[c]]
  /\ waiting' = [k \in Keys |-> {}]
  /\ aborted' = aborted \cup Holders(Keys)
  /\ freed' = freed \cup Holders(Keys)
  /\ active' = [k \in Keys |-> None]
  /\ UNCHANGED <<key, ticket, arrived, nextTicket, cancelled>>

CallStep(c) ==
  \/ Refuse(c) \/ Acquire(c) \/ Wait(c) \/ WaitExpires(c) \/ Cancel(c)
  \/ Resume(c) \/ LeaseExpires(c) \/ Release(c)

Next ==
  \/ \E c \in Calls : CallStep(c)
  \/ \E p \in Profiles : Revoke(p) \/ RevokeAgents(p)
  \/ \E h \in Hosts : RevokeHost(h)
  \/ RevokeAll
  \/ Dispose

Spec == Init /\ [][Next]_vars

\* A wait timer that is armed fires, a resolved promise resumes its awaiter,
\* and a holder lets go: every caller in host.ts releases in a `finally` after
\* an operation with a deadline.
Fairness ==
  \A c \in Calls : /\ WF_vars(WaitExpires(c))
                  /\ WF_vars(Resume(c))
                  /\ WF_vars(Release(c))
FairSpec == Spec /\ Fairness

-----------------------------------------------------------------------------
(* Properties *)

\* Two calls never drive the same lane at once, not even after one of them has
\* been revoked or has expired and has not noticed yet.
OneDriverPerLane ==
  \A c, d \in Calls :
    status[c] = "granted" /\ status[d] = "granted" /\ key[c] = key[d] => c = d

\* Nobody is forgotten: `waiting` holds exactly the unsettled agents of each
\* lane, and neither an agent nor an owner waits for a lane that nobody holds,
\* where no release would ever wake it.
NobodyWaitsForAFreeLane ==
  \A k \in Keys :
    /\ waiting[k] = {c \in Calls : status[c] = "queued" /\ key[c] = k}
    /\ waiting[k] # {} \/ Parked(k) # {} => active[k] # None

\* Every lease that is out can still be stopped: it is the one its lane's entry
\* in `active` names, where revoke finds it, or it was aborted already.
EveryLeaseCanBeRevoked ==
  \A c \in Calls :
    status[c] = "granted" => active[key[c]] = c \/ c \in aborted

\* "Work inside one lane still runs in arrival order" (control-lease.ts:31):
\* whoever gets a lane arrived before everyone who stays behind in it.  The
\* lane of the owner has one exception.  A call made between a release and the
\* resumption of a woken owner finds the lane free and takes it; the owner it
\* passes over parks again, and is then behind whoever parked meanwhile.
Waiting(c) == status[c] \in {"queued", "parked", "woken"}
GrantedInStep(c) == status[c] # "granted" /\ status'[c] = "granted"
PassedOver(c, d) ==
  /\ Owner(c)
  /\ \/ status[c] = "idle" /\ status[d] = "woken"
     \/ ticket[d] # arrived[d] /\ Waiting(c) /\ ticket[c] < ticket[d]
OnlyNewcomersOvertake ==
  [][\A c, d \in Calls :
       /\ GrantedInStep(c) /\ key[c] = key[d]
       /\ Waiting(d) /\ Waiting(d)'
       => (Waiting(c) /\ arrived[c] <= arrived[d]) \/ PassedOver(c, d)]_vars

\* Every call that waits is settled.
EveryWaitEnds == \A c \in Calls : Waiting(c) ~> ~Waiting(c)

\* "Stop every lane on a profile: profile stop, Safe Login, revoked access"
\* (control-lease.ts:308): a call that waits when its profile is revoked is not
\* left waiting for a later hand-over.
RevokeEndsWaiting ==
  [][\A p \in Profiles : Revoke(p) =>
       \A c \in Calls : key[c][1] = p => status'[c] \notin {"queued", "parked"}]_vars

\* The manager implements the promise of LaneControl.
Phase(c) ==
  CASE status[c] = "granted" -> "holding"
    [] status[c] = "released" -> "done"
    [] Waiting(c) -> "waiting"
    [] OTHER -> status[c]

Promise == INSTANCE LaneControl WITH
  Lanes <- Keys,
  Ordered <- {k \in Keys : k[2] # OwnerLane},
  phase <- [c \in Calls |-> Phase(c)],
  lane <- key,
  since <- ticket,
  closed <- disposed

ImplementsLaneControl == Promise!Spec
=============================================================================
