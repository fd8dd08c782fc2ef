--------------------------- MODULE BrowserInstances ---------------------------
(***************************************************************************)
(* The Browser Instance runtime of src/src/browser/browser-runtime.ts: at   *)
(* most one browser per profile, woken by the calls that need it, put to    *)
(* sleep when idle or to make room, restarted when it crashes.              *)
(*                                                                         *)
(* The runtime is one JavaScript process.  A step is either an event (a     *)
(* call arrives, a timer fires, a file operation or a browser process       *)
(* finishes) or the continuation of a promise that has settled.  Node runs  *)
(* all continuations before the next event, so events wait until nothing is *)
(* Ready; the order of continuations among themselves is left open.         *)
(*                                                                         *)
(* Time is not counted: an armed timer may fire, and a slow operation may   *)
(* finish, at any moment.  One worker's life is modelled; taking over       *)
(* browsers after a worker restart is not.                                  *)
(***************************************************************************)
EXTENDS Naturals, Sequences, FiniteSets

CONSTANTS
  Profiles,
  Instances,        \* launches: one per beginStart, so this also bounds them
  Scripts,          \* calls of execute
  Pages,            \* calls of navigate, history, openPage and focusPage
  Panels,           \* panels; each makes one call of pinPanel and of unpinPanel
  AwakeLimit,
  CrashLimit,
  MaxDisturbances,  \* bound on crashes, failures and stops from outside
  None

Calls == Scripts \cup Pages \cup Panels
\* An instance stands for the restart that follows its crash, too.
Callers == Calls \cup Instances

ASSUME DisjointAssumption ==
  /\ Scripts \cap Pages = {} /\ Scripts \cap Panels = {} /\ Pages \cap Panels = {}
  /\ Calls \cap Instances = {}
  /\ None \notin Callers \cup Profiles \cup {"done"}
  /\ Callers \cap {"maintenance", "timer", "owner", "dispose", "done"} = {}
ASSUME LimitAssumption ==
  /\ AwakeLimit \in Nat \ {0} /\ CrashLimit \in Nat \ {0} /\ MaxDisturbances \in Nat
ASSUME ScriptsAssumption == IsFiniteSet(Scripts)

\* checking: reading the crash history; locking: publishing the lock file;
\* spawning, starting: the process is not, is running but is not published;
\* aborting: cleanupFailedLaunch; failed, repair: the start was rejected.
Phases == {"unused", "checking", "locking", "spawning", "starting", "held",
           "aborting", "failed", "repair"}
Stoppers == Callers \cup {"timer", "owner", "dispose"}

VARIABLES
  browser,      \* per instance: the process and its HeldBrowserInstance
  profile,      \* per profile: its entries in the runtime's Maps and on disk
  call,         \* per caller: where it is inside the runtime
  chain,        \* capacityChanges: reservations in the order they were made
  candidates,   \* the instances makeAwakeCapacity awaits for the first of them
  stops,        \* runs of stopHeld that have not been consumed
  offline,      \* the host is in disconnectedHosts
  disposing,    \* how far dispose has come
  leaving,      \* the instances dispose waits for
  disturbances  \* disturbances so far

vars == <<browser, profile, call, chain, candidates, stops, offline,
          disposing, leaving, disturbances>>

BrowserRecord ==
  [phase: Phases,
   owner: Profiles \cup {None},
   alive: BOOLEAN,                    \* the browser process exists
   asked: BOOLEAN,                    \* stopRequested
   panels: SUBSET Panels,             \* panelIds
   leases: Nat,                       \* activeLeases
   timer: BOOLEAN,                    \* idleTimer is armed
   cleanup: {"none", "running", "done", "failed"},
   ended: BOOLEAN,                    \* cleanupFailedLaunch has stopped it
   retiring: {"none", "recording", "cleaning", "done"}]

ProfileRecord ==
  [start: Instances \cup {None},      \* starts
   lock: Instances \cup {None, "maintenance"},
   retirement: Instances \cup {None}, \* retirements
   lifecycle: {"sleeping", "waking", "running", "repair-required"},
   crashes: Nat,                      \* crash history within the window
   visible: SUBSET Panels,            \* visiblePanelPins
   failure: BOOLEAN]                  \* cleanupFailures

CallRecord ==
  [pc: {"idle", "restart", "entering", "reserved", "choosing", "evicting",
        "awaiting", "using", "abandoning", "quarantining", "ending", "done"},
   goal: Profiles \cup {None},
   inst: Instances \cup {None},       \* the instance awaited or in use
   original: Instances \cup {None},   \* the instance a script leases
   awaits: Instances \cup {None},     \* the retirement awaited
   unpin: Instances \cup {None, "done"}, \* the start unpinPanel awaits
   retried: BOOLEAN,
   error: {"none", "offline", "repair", "other"}]

StopRecord ==
  [inst: Instances, by: Stoppers,
   stage: {"waiting", "closing", "ending", "cleaning", "done"}, ok: BOOLEAN]

TypeOK ==
  /\ browser \in [Instances -> BrowserRecord]
  /\ profile \in [Profiles -> ProfileRecord]
  /\ call \in [Callers -> CallRecord]
  /\ chain \in Seq(Callers)
  /\ candidates \subseteq Instances
  /\ stops \subseteq StopRecord
  /\ offline \in BOOLEAN
  /\ disposing \in {"no", "chain", "starts", "stopping", "retiring", "done"}
  /\ leaving \subseteq Instances
  /\ disturbances \in 0..MaxDisturbances

Init ==
  /\ browser = [i \in Instances |->
       [phase |-> "unused", owner |-> None, alive |-> FALSE, asked |-> FALSE,
        panels |-> {}, leases |-> 0, timer |-> FALSE, cleanup |-> "none",
        ended |-> FALSE, retiring |-> "none"]]
  /\ profile = [p \in Profiles |->
       [start |-> None, lock |-> None, retirement |-> None,
        lifecycle |-> "sleeping", crashes |-> 0, visible |-> {},
        failure |-> FALSE]]
  /\ call = [c \in Callers |->
       [pc |-> "idle", goal |-> None, inst |-> None, original |-> None,
        awaits |-> None, unpin |-> None, retried |-> FALSE, error |-> "none"]]
  /\ chain = << >>
  /\ candidates = {}
  /\ stops = {}
  /\ offline = FALSE
  /\ disposing = "no"
  /\ leaving = {}
  /\ disturbances = 0

-----------------------------------------------------------------------------
(* Helpers *)

StartsSize == Cardinality({p \in Profiles : profile[p].start # None})
IsPinned(i) == browser[i].panels # {} \/ browser[i].leases > 0
Rejected(i) == browser[i].phase \in {"failed", "repair"}
StartSettled(i) == browser[i].phase = "held" \/ Rejected(i)
\* The browsers that answer in the profile's directory.
Serving(p) ==
  {i \in Instances : browser[i].owner = p /\ browser[i].alive
                     /\ browser[i].phase \in {"starting", "held"}}
CleanupSettled(i) == browser[i].cleanup \in {"done", "failed"}
\* cleanupHeld: the first caller starts it, the others share its promise.
CleanupBegun(b) ==
  IF b.cleanup = "none" THEN [b EXCEPT !.cleanup = "running"] ELSE b
\* noteActivity on the instance b: its idle timer is armed unless it is pinned.
NoteActivity(b) == [b EXCEPT !.timer = b.panels = {} /\ b.leases = 0]

StopDone(c) == \E s \in stops : s.by = c /\ s.stage = "done"
StopOf(c) == CHOOSE s \in stops : s.by = c /\ s.stage = "done"

\* The call record of c once it calls heldInstance for profile p: a disposed
\* or disconnected runtime throws, otherwise it awaits the retirement, if any.
Entry(c, p) ==
  IF disposing # "no" \/ offline
  THEN [call[c] EXCEPT !.pc = "ending", !.goal = p, !.inst = call[c].original,
                       !.error = IF disposing # "no" THEN "other" ELSE "offline"]
  ELSE [call[c] EXCEPT !.pc = "entering", !.goal = p,
                       !.awaits = profile[p].retirement]
\* The call record of c once it awaits the start of i.
Awaiting(c, i) == [call[c] EXCEPT !.pc = "awaiting", !.inst = i, !.awaits = None]
\* The call record of c once it has settled.
Settled(c) ==
  [call[c] EXCEPT !.pc = "done", !.inst = None, !.original = None, !.awaits = None,
                  !.retried = FALSE, !.error = "none"]
\* The call record of c once heldInstance has thrown.
Thrown(c, e) ==
  [call[c] EXCEPT !.pc = "ending", !.inst = call[c].original, !.error = e]

\* MUTANT of StopHeld: the lock is given back while the process is being stopped.
StopHeldTogether(i, by) ==
  /\ browser' = [browser EXCEPT ![i] = CleanupBegun(
                   [@ EXCEPT !.asked = TRUE, !.timer = FALSE])]
  /\ profile' = [profile EXCEPT ![browser[i].owner].lifecycle = "sleeping"]
  /\ stops' = stops \cup {[inst |-> i, by |-> by, stage |-> "closing", ok |-> TRUE]}

\* stopHeld up to its first await, called by `by` for instance i.
AskToStop(i) ==
  /\ browser' = [browser EXCEPT ![i].asked = TRUE, ![i].timer = FALSE]
  /\ profile' = [profile EXCEPT ![browser[i].owner].lifecycle = "sleeping"]
StopHeld(i, by) ==
  /\ AskToStop(i)
  /\ stops' = stops \cup {[inst |-> i, by |-> by, stage |-> "closing", ok |-> TRUE]}

\* beginStart: a new instance is launched for profile p and registered.
Unused == {i \in Instances : browser[i].phase = "unused"}
BeginStart(c, p) ==
  LET i == CHOOSE j \in Unused : TRUE IN
  /\ Unused # {}
  /\ browser' = [browser EXCEPT ![i].phase = "checking", ![i].owner = p]
  /\ profile' = [profile EXCEPT ![p].start = i, ![p].lifecycle = "waking"]
  /\ call' = [call EXCEPT ![c] = Awaiting(c, i)]

-----------------------------------------------------------------------------
(* When a continuation is due *)

CanEnter(c) ==
  /\ call[c].pc = "entering"
  /\ call[c].awaits # None => browser[call[c].awaits].retiring = "done"
CanReserve(c) == call[c].pc = "reserved" /\ Head(chain) = c
CanChoose(c) ==
  /\ call[c].pc = "choosing"
  /\ \/ \E i \in candidates : Rejected(i)
     \/ \A i \in candidates : StartSettled(i)
CanResume(c) ==
  call[c].pc \in {"evicting", "abandoning", "quarantining"} /\ StopDone(c)
\* unpinPanel, which awaits a start itself, resumes before pinPanel, which awaits
\* heldInstance for it.
CanUse(c) ==
  call[c].pc = "awaiting" /\ StartSettled(call[c].inst) /\ call[c].unpin # call[c].inst
CanUnpin(c) == call[c].unpin \in Instances /\ StartSettled(call[c].unpin)
CanEnd(c) == call[c].pc = "ending"
CanRestart(i) == call[i].pc = "restart" /\ browser[i].retiring = "done"
CanBeginStop(s) == s.stage = "waiting" /\ StartSettled(s.inst)
CanFinishStop(s) == s.stage = "cleaning" /\ CleanupSettled(s.inst)
CanFinishRetirement(i) == browser[i].retiring = "cleaning" /\ CleanupSettled(i)
DisposeFailed == \E s \in stops : s.by = "dispose" /\ s.stage = "done" /\ ~s.ok
DisposeStopped == \A s \in stops : s.by = "dispose" => s.stage = "done"
CanDispose ==
  \/ disposing = "chain" /\ chain = << >>
  \/ disposing = "starts" /\ \A i \in leaving : StartSettled(i)
  \/ disposing = "stopping" /\ (DisposeFailed \/ DisposeStopped)
  \/ disposing = "retiring" /\ \A i \in leaving : browser[i].retiring = "done"

Ready ==
  \/ \E c \in Callers : CanEnter(c) \/ CanReserve(c) \/ CanChoose(c)
                        \/ CanResume(c) \/ CanUse(c) \/ CanUnpin(c) \/ CanEnd(c)
  \/ \E i \in Instances : CanRestart(i) \/ CanFinishRetirement(i)
  \/ \E s \in stops : CanBeginStop(s) \/ CanFinishStop(s)
  \/ CanDispose

Disturb == disturbances < MaxDisturbances /\ disturbances' = disturbances + 1

-----------------------------------------------------------------------------
(* heldInstance: share the start of the profile, begin one, or wait for room *)

\* A call arrives and runs to its first await.
Arrive(c, p) ==
  /\ call[c].pc = "idle"
  /\ call' = [call EXCEPT ![c] = Entry(c, p)]
  /\ UNCHANGED <<browser, profile, chain, candidates, stops, offline, disposing,
                 leaving, disturbances>>

\* After the await: a stored cleanup failure is thrown once; an existing start
\* is shared; below the limit a start begins; else the call queues for room.
Enter(c) ==
  LET p == call[c].goal IN
  /\ CanEnter(c)
  /\ \/ /\ profile[p].failure
        /\ profile' = [profile EXCEPT ![p].failure = FALSE]
        /\ call' = [call EXCEPT ![c] = Thrown(c, "other")]
        /\ UNCHANGED <<browser, chain>>
     \/ /\ ~profile[p].failure /\ profile[p].start # None
        /\ call' = [call EXCEPT ![c] = Awaiting(c, profile[p].start)]
        /\ UNCHANGED <<browser, profile, chain>>
     \/ /\ ~profile[p].failure /\ profile[p].start = None
        /\ StartsSize < AwakeLimit
        /\ BeginStart(c, p)
        /\ UNCHANGED chain
     \/ /\ ~profile[p].failure /\ profile[p].start = None
        /\ StartsSize >= AwakeLimit
        /\ call' = [call EXCEPT ![c].pc = "reserved"]
        /\ chain' = Append(chain, c)
        /\ UNCHANGED <<browser, profile>>
  /\ UNCHANGED <<candidates, stops, offline, disposing, leaving, disturbances>>

\* The first reservation of serializedCapacityStart runs: makeAwakeCapacity
\* awaits every registered start unless there is room by now.
Reserve(c) ==
  LET p == call[c].goal IN
  /\ CanReserve(c)
  /\ \/ /\ profile[p].start # None
        /\ call' = [call EXCEPT ![c] = Awaiting(c, profile[p].start)]
        /\ chain' = Tail(chain)
        /\ UNCHANGED <<browser, profile, candidates>>
     \/ /\ profile[p].start = None /\ StartsSize < AwakeLimit
        /\ BeginStart(c, p)
        /\ chain' = Tail(chain)
        /\ UNCHANGED candidates
     \/ /\ profile[p].start = None /\ StartsSize >= AwakeLimit
        /\ candidates' = {profile[q].start : q \in Profiles} \ {None}
        /\ call' = [call EXCEPT ![c].pc = "choosing"]
        /\ UNCHANGED <<browser, profile, chain>>
  /\ UNCHANGED <<stops, offline, disposing, leaving, disturbances>>

\* MUTANT of Choose: a reservation that finds no room stays first in the chain.
ChooseKeepingChain(c) ==
  /\ CanChoose(c)
  /\ candidates' = {}
  /\ \/ /\ (\E i \in candidates : Rejected(i)) \/ (\A i \in candidates : IsPinned(i))
        /\ call' = [call EXCEPT ![c] = Thrown(c, "other")]
        /\ UNCHANGED <<browser, profile, stops>>
     \/ /\ ~\E i \in candidates : Rejected(i)
        /\ \E i \in candidates : ~IsPinned(i) /\ StopHeld(i, c)
        /\ call' = [call EXCEPT ![c].pc = "evicting"]
  /\ UNCHANGED <<chain, offline, disposing, leaving, disturbances>>

\* The starts have settled: the least recently used unpinned one is stopped
\* (any unpinned one here).  A rejected start rejects the reservation, and so
\* does a host whose instances are all pinned.
Evictable == {i \in candidates : ~IsPinned(i)}
Choose(c) ==
  /\ CanChoose(c)
  /\ candidates' = {}
  /\ \/ /\ (\E i \in candidates : Rejected(i)) \/ Evictable = {}
        /\ call' = [call EXCEPT ![c] = Thrown(c, "other")]
        /\ chain' = Tail(chain)
        /\ UNCHANGED <<browser, profile, stops>>
     \/ /\ ~\E i \in candidates : Rejected(i)
        /\ \E i \in Evictable : StopHeld(i, c)
        /\ call' = [call EXCEPT ![c].pc = "evicting"]
        /\ UNCHANGED chain
  /\ UNCHANGED <<offline, disposing, leaving, disturbances>>

\* MUTANT of Evicted: the stop of the evicted instance is not awaited.
EvictedAtOnce(c) ==
  /\ call[c].pc = "evicting"
  /\ BeginStart(c, call[c].goal)
  /\ chain' = Tail(chain)
  /\ UNCHANGED <<candidates, stops, offline, disposing, leaving, disturbances>>

\* The eviction is over: the reservation begins its start, without a look at
\* what happened to the Map since.
Evicted(c) ==
  /\ call[c].pc = "evicting" /\ StopDone(c)
  /\ IF StopOf(c).ok
     THEN BeginStart(c, call[c].goal)
     ELSE /\ call' = [call EXCEPT ![c] = Thrown(c, "other")]
          /\ UNCHANGED <<browser, profile>>
  /\ chain' = Tail(chain)
  /\ stops' = stops \ {StopOf(c)}
  /\ UNCHANGED <<candidates, offline, disposing, leaving, disturbances>>

-----------------------------------------------------------------------------
(* What the calls do with the instance they were given *)

\* MUTANT of Use: the retry takes a lease of its own.
UseLeasingAgain(c) ==
  LET i == call[c].inst IN
  /\ CanUse(c)
  /\ IF Rejected(i)
     THEN /\ call' = [call EXCEPT ![c] = Thrown(c, "other")]
          /\ UNCHANGED browser
     ELSE /\ browser' = [browser EXCEPT ![i] = NoteActivity([@ EXCEPT !.leases = @ + 1])]
          /\ call' = [call EXCEPT ![c].pc = "using", ![c].original = i]
  /\ UNCHANGED <<profile, chain, candidates, stops, offline, disposing, leaving,
                 disturbances>>

\* The start settled: a script takes a lease (its first attempt), a panel pins,
\* a restart is content, and a rejected start is thrown.
Use(c) ==
  LET i == call[c].inst
      b == browser[i] IN
  /\ CanUse(c)
  /\ IF Rejected(i)
     THEN /\ call' = [call EXCEPT ![c] =
                 Thrown(c, IF b.phase = "repair" THEN "repair" ELSE "other")]
          /\ UNCHANGED <<browser, profile>>
     ELSE \/ /\ c \in Scripts /\ ~call[c].retried
             /\ browser' = [browser EXCEPT ![i] =
                              NoteActivity([b EXCEPT !.leases = b.leases + 1])]
             /\ call' = [call EXCEPT ![c].pc = "using", ![c].original = i]
             /\ UNCHANGED profile
          \/ /\ c \in Pages \/ call[c].retried
             /\ call' = [call EXCEPT ![c].pc = "using"]
             /\ UNCHANGED <<browser, profile>>
          \/ /\ c \in Panels
             /\ browser' = [browser EXCEPT ![i] =
                              NoteActivity([b EXCEPT !.panels = b.panels \cup {c}])]
             /\ profile' = [profile EXCEPT ![call[c].goal].visible = @ \cup {c}]
             /\ call' = [call EXCEPT ![c] = Settled(c)]
          \/ /\ c \in Instances
             /\ call' = [call EXCEPT ![c] = Settled(c)]
             /\ UNCHANGED <<browser, profile>>
  /\ UNCHANGED <<chain, candidates, stops, offline, disposing, leaving,
                 disturbances>>

\* The work against the browser ends.  `held` is the replacement only if the
\* retried work succeeded; a page call that failed notes no activity.
Finish(c) ==
  /\ call[c].pc = "using"
  /\ \E i \in {call[c].inst, call[c].original} :
       call' = [call EXCEPT ![c].pc = "ending", ![c].inst = i]
  /\ UNCHANGED <<browser, profile, chain, candidates, stops, offline, disposing,
                 leaving, disturbances>>

\* executeAgainstLiveBrowser cannot reach the endpoint, which it takes for gone:
\* abandonUnreachableBrowser.
Unreachable(c) ==
  /\ call[c].pc = "using" /\ ~call[c].retried
  /\ IF browser[call[c].inst].alive THEN Disturb ELSE UNCHANGED disturbances
  /\ StopHeld(call[c].inst, c)
  /\ call' = [call EXCEPT ![c].pc = "abandoning"]
  /\ UNCHANGED <<chain, candidates, offline, disposing, leaving>>

\* The stop of the unreachable browser is over: heldInstance again.  If it failed,
\* the entry of the profile goes once more, whichever start it names.
Abandoned(c) ==
  /\ call[c].pc = "abandoning" /\ StopDone(c)
  /\ call' = [call EXCEPT ![c] = [Entry(c, call[c].goal) EXCEPT !.retried = TRUE]]
  /\ profile' = IF StopOf(c).ok THEN profile
                ELSE [profile EXCEPT ![call[c].goal].start = None]
  /\ stops' = stops \ {StopOf(c)}
  /\ UNCHANGED <<browser, chain, candidates, offline, disposing, leaving,
                 disturbances>>

\* Too many renderers, or a failed Origin Scope: the call stops the instance.
Quarantine(c) ==
  /\ call[c].pc = "using"
  /\ Disturb
  /\ StopHeld(call[c].inst, c)
  /\ call' = [call EXCEPT ![c].pc = "quarantining"]
  /\ UNCHANGED <<chain, candidates, offline, disposing, leaving>>

Quarantined(c) ==
  /\ call[c].pc = "quarantining" /\ StopDone(c)
  /\ call' = [call EXCEPT ![c] = Thrown(c, "other")]
  /\ stops' = stops \ {StopOf(c)}
  /\ UNCHANGED <<browser, profile, chain, candidates, offline, disposing, leaving,
                 disturbances>>

\* MUTANT of End: the lease is taken off the instance in use by now.
EndInUse(c) ==
  LET i == call[c].inst IN
  /\ CanEnd(c)
  /\ call' = [call EXCEPT ![c] = Settled(c)]
  /\ browser' = IF call[c].original = None THEN browser
                ELSE [browser EXCEPT ![i] = NoteActivity([@ EXCEPT !.leases = @ - 1])]
  /\ UNCHANGED <<profile, chain, candidates, stops, offline, disposing, leaving,
                 disturbances>>

\* The `finally` of execute, noteActivity of the page calls that succeeded, and
\* recordRestartFailure.
End(c) ==
  LET o == call[c].original
      i == call[c].inst
      p == call[c].goal IN
  /\ CanEnd(c)
  /\ call' = [call EXCEPT ![c] = Settled(c)]
  /\ browser' =
       LET freed == IF o = None THEN browser
                    ELSE [browser EXCEPT ![o].leases = @ - 1]
       IN IF i = None THEN freed ELSE [freed EXCEPT ![i] = NoteActivity(@)]
  /\ profile' =
       IF c \notin Instances THEN profile
       ELSE CASE call[c].error = "repair" ->
                   [profile EXCEPT ![p].lifecycle = "repair-required"]
              [] call[c].error = "offline" ->
                   [profile EXCEPT ![p].lifecycle = "sleeping"]
              [] OTHER -> [profile EXCEPT ![p].failure = TRUE]
  /\ UNCHANGED <<chain, candidates, stops, offline, disposing, leaving,
                 disturbances>>

\* unpinPanel, which need not wait for the pin to have come through, up to its
\* await of the profile's start.
Unpin(c) ==
  LET p == call[c].goal IN
  /\ call[c].pc # "idle" /\ call[c].unpin = None
  /\ profile' = [profile EXCEPT ![p].visible = @ \ {c}]
  /\ call' = [call EXCEPT ![c].unpin =
                IF profile[p].start = None THEN "done" ELSE profile[p].start]
  /\ UNCHANGED <<browser, chain, candidates, stops, offline, disposing, leaving,
                 disturbances>>

\* The start has settled; if it was rejected, so is the call.
Unpinned(c) ==
  LET i == call[c].unpin IN
  /\ CanUnpin(c)
  /\ browser' = IF Rejected(i) THEN browser
                ELSE [browser EXCEPT ![i] =
                       NoteActivity([browser[i] EXCEPT !.panels = browser[i].panels \ {c}])]
  /\ call' = [call EXCEPT ![c].unpin = "done"]
  /\ UNCHANGED <<profile, chain, candidates, stops, offline, disposing, leaving,
                 disturbances>>

-----------------------------------------------------------------------------
(* launchBrowserInstance *)

\* failedStart: the entry of the profile goes, whichever start it names.
FailedStart(i, ph) ==
  /\ browser' = [browser EXCEPT ![i].phase = ph]
  /\ profile' = [profile EXCEPT ![browser[i].owner].start = None,
                                ![browser[i].owner].lifecycle =
                                  IF ph = "repair" THEN "repair-required" ELSE "sleeping"]

LaunchUnchanged ==
  UNCHANGED <<call, chain, candidates, stops, offline, disposing, leaving>>

\* assertCrashPolicy and launchRequest.  The history may be corrupt or not
\* readable, and there may be no usable browser to launch.
CheckCrashes(i) ==
  /\ browser[i].phase = "checking"
  /\ \/ /\ profile[browser[i].owner].crashes >= CrashLimit
        /\ FailedStart(i, "repair")
        /\ UNCHANGED disturbances
     \/ /\ profile[browser[i].owner].crashes < CrashLimit
        /\ browser' = [browser EXCEPT ![i].phase = "locking"]
        /\ UNCHANGED <<profile, disturbances>>
     \/ /\ Disturb
        /\ \E ph \in {"failed", "repair"} : FailedStart(i, ph)
  /\ LaunchUnchanged

\* acquireProfileLock: the link fails while another holder's file is there, and
\* each of its file operations may fail.
AcquireLock(i) ==
  LET p == browser[i].owner IN
  /\ browser[i].phase = "locking"
  /\ \/ /\ profile[p].lock # None
        /\ FailedStart(i, "failed")
        /\ UNCHANGED disturbances
     \/ /\ profile[p].lock = None
        /\ browser' = [browser EXCEPT ![i].phase = "spawning"]
        /\ profile' = [profile EXCEPT ![p].lock = i]
        /\ UNCHANGED disturbances
     \/ /\ Disturb
        /\ FailedStart(i, "failed")
  /\ LaunchUnchanged

Spawn(i) ==
  /\ browser[i].phase = "spawning"
  /\ browser' = [browser EXCEPT ![i].phase = "starting", ![i].alive = TRUE]
  /\ LaunchUnchanged /\ UNCHANGED <<profile, disturbances>>

\* MUTANT of Publish: the panels that were visible before are forgotten.
PublishUnpinned(i) ==
  /\ browser[i].phase = "starting" /\ browser[i].alive
  /\ browser' = [browser EXCEPT ![i] = NoteActivity([@ EXCEPT !.phase = "held"])]
  /\ profile' = [profile EXCEPT ![browser[i].owner].lifecycle = "running"]
  /\ LaunchUnchanged /\ UNCHANGED disturbances

\* publishRunningBrowser, and beginStart once the launch succeeded: the visible
\* panels pin the new instance, and its exit is watched from here on.
Publish(i) ==
  LET p == browser[i].owner IN
  /\ browser[i].phase = "starting" /\ browser[i].alive
  /\ browser' = [browser EXCEPT ![i] = NoteActivity(
                   [@ EXCEPT !.phase = "held", !.panels = profile[p].visible])]
  /\ profile' = [profile EXCEPT ![p].lifecycle = "running"]
  /\ LaunchUnchanged /\ UNCHANGED disturbances

\* The launch fails after the lock was taken (always, if the process is gone):
\* cleanupFailedLaunch stops the process and gives the lock back, concurrently.
AbortLaunch(i) ==
  /\ browser[i].phase \in {"spawning", "starting"}
  /\ IF browser[i].phase = "starting" /\ ~browser[i].alive
     THEN UNCHANGED disturbances ELSE Disturb
  /\ browser' = [browser EXCEPT ![i].phase = "aborting"]
  /\ LaunchUnchanged /\ UNCHANGED profile

\* The launch boundary ends the process of a launch that fails inside it; a
\* process it has returned is stopped as stopHeld stops one (see CloseBrowser).
AbortedProcessEnds(i) ==
  /\ browser[i].phase = "aborting" /\ ~browser[i].ended
  /\ \E others \in {{}, Serving(browser[i].owner)} :
       browser' = [j \in Instances |->
         CASE j = i -> [browser[j] EXCEPT !.alive = FALSE, !.ended = TRUE]
           [] j # i /\ j \in others -> [browser[j] EXCEPT !.alive = FALSE]
           [] OTHER -> browser[j]]
  /\ LaunchUnchanged /\ UNCHANGED <<profile, disturbances>>

\* releaseProfileLock, which may fail and leave the lock.
AbortedLockReleased(i) ==
  LET p == browser[i].owner IN
  /\ browser[i].phase = "aborting" /\ browser[i].cleanup = "none"
  /\ \/ /\ browser' = [browser EXCEPT ![i].cleanup = "done"]
        /\ profile' = [profile EXCEPT ![p].lock = None]
        /\ UNCHANGED disturbances
     \/ /\ Disturb
        /\ browser' = [browser EXCEPT ![i].cleanup = "failed"]
        /\ UNCHANGED profile
  /\ LaunchUnchanged

Aborted(i) ==
  /\ browser[i].phase = "aborting" /\ browser[i].ended /\ CleanupSettled(i)
  /\ FailedStart(i, "failed")
  /\ LaunchUnchanged /\ UNCHANGED disturbances

Launch(i) ==
  \/ CheckCrashes(i) \/ AcquireLock(i) \/ Spawn(i) \/ Publish(i)
  \/ AbortedProcessEnds(i) \/ AbortedLockReleased(i) \/ Aborted(i)

-----------------------------------------------------------------------------
(* The end of an instance: crash, exit, retirement and restart *)

\* The process dies by itself, or the renderer monitor kills it for having too
\* many renderers; then its exit will count as asked for.
Die(i) ==
  /\ browser[i].phase \in {"starting", "held"} /\ browser[i].alive
  /\ Disturb
  /\ \E limit \in BOOLEAN :
       /\ limit => browser[i].phase = "held"
       /\ browser' = [browser EXCEPT ![i].alive = FALSE, ![i].asked = @ \/ limit]
  /\ UNCHANGED <<profile, call, chain, candidates, stops, offline, disposing,
                 leaving>>

\* `exited` settles some time after the process is gone: the entry of the
\* profile goes, and unless the exit was asked for, a restart is under way.
NoticeExit(i) ==
  LET p == browser[i].owner IN
  /\ browser[i].phase = "held" /\ ~browser[i].alive /\ browser[i].retiring = "none"
  /\ profile' = [profile EXCEPT ![p].start = None, ![p].retirement = i]
  /\ IF browser[i].asked
     THEN /\ browser' = [browser EXCEPT ![i] = CleanupBegun(
                           [@ EXCEPT !.timer = FALSE, !.retiring = "cleaning"])]
          /\ UNCHANGED call
     ELSE /\ browser' = [browser EXCEPT ![i].timer = FALSE, ![i].retiring = "recording"]
          /\ call' = [call EXCEPT ![i].pc = "restart"]
  /\ UNCHANGED <<chain, candidates, stops, offline, disposing, leaving,
                 disturbances>>

\* recordBrowserCrash; when it fails, the retirement ends without cleanupHeld.
RecordCrash(i) ==
  LET p == browser[i].owner IN
  /\ browser[i].retiring = "recording"
  /\ \/ /\ browser' = [browser EXCEPT ![i] = CleanupBegun([@ EXCEPT !.retiring = "cleaning"])]
        /\ profile' = [profile EXCEPT ![p].crashes = @ + 1]
        /\ UNCHANGED disturbances
     \/ /\ Disturb
        /\ browser' = [browser EXCEPT ![i].retiring = "done"]
        /\ profile' = [profile EXCEPT
                         ![p].failure = TRUE,
                         ![p].retirement = IF @ = i THEN None ELSE @]
  /\ UNCHANGED <<call, chain, candidates, stops, offline, disposing, leaving>>

\* The file operations of cleanupHeld: the manifest and the lock are removed, or
\* one of them fails; if that is the lock, it stays.
Cleanup(i) ==
  LET p == browser[i].owner
      released == [profile EXCEPT ![p].lock = IF @ = i THEN None ELSE @] IN
  /\ browser[i].cleanup = "running"
  /\ \/ /\ browser' = [browser EXCEPT ![i].cleanup = "done"]
        /\ profile' = released
        /\ UNCHANGED disturbances
     \/ /\ Disturb
        /\ browser' = [browser EXCEPT ![i].cleanup = "failed"]
        /\ profile' \in {profile, released}
  /\ UNCHANGED <<call, chain, candidates, stops, offline, disposing, leaving>>

FinishRetirement(i) ==
  LET p == browser[i].owner IN
  /\ CanFinishRetirement(i)
  /\ browser' = [browser EXCEPT ![i].retiring = "done"]
  /\ profile' = [profile EXCEPT
                   ![p].lifecycle = IF browser[i].cleanup = "done" THEN "sleeping" ELSE @,
                   ![p].failure = @ \/ browser[i].cleanup = "failed",
                   ![p].retirement = IF @ = i THEN None ELSE @]
  /\ UNCHANGED <<call, chain, candidates, stops, offline, disposing, leaving,
                 disturbances>>

\* restartExitedBrowser after its retirement
Restart(i) ==
  /\ CanRestart(i)
  /\ call' = [call EXCEPT ![i] = IF disposing # "no" THEN [@ EXCEPT !.pc = "done"]
                                 ELSE Entry(i, browser[i].owner)]
  /\ UNCHANGED <<browser, profile, chain, candidates, stops, offline, disposing,
                 leaving, disturbances>>

CrashWindowPasses(p) ==
  /\ profile[p].crashes > 0
  /\ Disturb
  /\ profile' = [profile EXCEPT ![p].crashes = 0]
  /\ UNCHANGED <<browser, call, chain, candidates, stops, offline, disposing, leaving>>

-----------------------------------------------------------------------------
(* stopHeld after its first await *)

\* stopBrowserProcess, once the helpers are stopped, closes the browser that
\* serves the profile by now: it finds it through the DevTools port in the
\* profile's directory.  Then it ends the instance's own process.
CloseBrowser(s) ==
  LET p == browser[s.inst].owner IN
  /\ s.stage = "closing"
  /\ browser' = [i \in Instances |-> IF i \in Serving(p) \cup {s.inst}
                                     THEN [browser[i] EXCEPT !.alive = FALSE]
                                     ELSE browser[i]]
  /\ stops' = (stops \ {s}) \cup {[s EXCEPT !.stage = "ending"]}
  /\ UNCHANGED <<profile, call, chain, candidates, offline, disposing, leaving,
                 disturbances>>

\* process.stop() settles; it rejects if a helper could not be stopped.
StopSettles(s) ==
  /\ s.stage = "ending"
  /\ \/ stops' = (stops \ {s}) \cup {[s EXCEPT !.stage = "cleaning"]}
        /\ UNCHANGED disturbances
     \/ /\ Disturb
        /\ stops' = (stops \ {s}) \cup {[s EXCEPT !.stage = "cleaning", !.ok = FALSE]}
  /\ browser' = [browser EXCEPT ![s.inst] = CleanupBegun(@)]
  /\ UNCHANGED <<profile, call, chain, candidates, offline, disposing, leaving>>

\* After cleanupHeld the entry of the profile goes, whichever start it names.
\* A stop by the idle timer reports its failure, the owner's to its caller.
FinishStop(s) ==
  LET p == browser[s.inst].owner
      ok == s.ok /\ browser[s.inst].cleanup = "done" IN
  /\ CanFinishStop(s)
  /\ profile' = [profile EXCEPT ![p].start = None,
                                ![p].failure = @ \/ (s.by = "timer" /\ ~ok)]
  /\ stops' = (stops \ {s}) \cup
               (IF s.by \in {"timer", "owner"} THEN {}
                ELSE {[s EXCEPT !.stage = "done", !.ok = ok]})
  /\ UNCHANGED <<browser, call, chain, candidates, offline, disposing, leaving,
                 disturbances>>

-----------------------------------------------------------------------------
(* Timers, the owner and the host *)

\* The idle timer of an instance, which need not be the registered one.
IdleTimer(i) ==
  LET p == browser[i].owner IN
  /\ browser[i].timer
  /\ IF IsPinned(i) \/ profile[p].start = None
     THEN /\ browser' = [browser EXCEPT ![i].timer = FALSE]
          /\ UNCHANGED <<profile, stops>>
     ELSE StopHeld(i, "timer")
  /\ UNCHANGED <<call, chain, candidates, offline, disposing, leaving, disturbances>>

\* stop awaits the start of the profile, pending or not ...
OwnerStop(p) ==
  /\ profile[p].start # None
  /\ Disturb
  /\ stops' = stops \cup
       {[inst |-> profile[p].start, by |-> "owner", stage |-> "waiting", ok |-> TRUE]}
  /\ UNCHANGED <<browser, profile, call, chain, candidates, offline, disposing, leaving>>

\* ... and stops the instance, or is rejected with the start.
BeginStop(s) ==
  /\ CanBeginStop(s)
  /\ IF Rejected(s.inst)
     THEN /\ stops' = stops \ {s}
          /\ UNCHANGED <<browser, profile>>
     ELSE /\ stops' = (stops \ {s}) \cup {[s EXCEPT !.stage = "closing"]}
          /\ AskToStop(s.inst)
  /\ UNCHANGED <<call, chain, candidates, offline, disposing, leaving, disturbances>>

HostDisconnected ==
  /\ ~offline
  /\ Disturb
  /\ offline' = TRUE
  /\ UNCHANGED <<browser, profile, call, chain, candidates, stops, disposing, leaving>>

HostReconnected ==
  /\ offline
  /\ offline' = FALSE
  /\ UNCHANGED <<browser, profile, call, chain, candidates, stops, disposing, leaving,
                 disturbances>>

\* withoutBrowserInstance: maintenance of a profile under the launch lock.
BeginMaintenance(p) ==
  /\ profile[p].lock = None
  /\ Disturb
  /\ profile' = [profile EXCEPT ![p].lock = "maintenance"]
  /\ UNCHANGED <<browser, call, chain, candidates, stops, offline, disposing, leaving>>

EndMaintenance(p) ==
  /\ profile[p].lock = "maintenance"
  /\ profile' = [profile EXCEPT ![p].lock = None]
  /\ UNCHANGED <<browser, call, chain, candidates, stops, offline, disposing, leaving,
                 disturbances>>

BeginDispose ==
  /\ disposing = "no"
  /\ Disturb
  /\ disposing' = "chain"
  /\ UNCHANGED <<browser, profile, call, chain, candidates, stops, offline, leaving>>

\* dispose waits for the reservations, then for the starts registered by then,
\* stops those that succeeded and waits for the stops (the first to fail ends
\* the wait), and then for the retirements under way.
Dispose ==
  /\ CanDispose
  /\ \/ /\ disposing = "chain"
        /\ disposing' = "starts"
        /\ leaving' = {profile[p].start : p \in Profiles} \ {None}
        /\ UNCHANGED <<browser, profile, stops>>
     \/ /\ disposing = "starts"
        /\ disposing' = "stopping"
        /\ LET held == {i \in leaving : browser[i].phase = "held"} IN
           /\ browser' = [i \in Instances |-> IF i \in held
                 THEN [browser[i] EXCEPT !.asked = TRUE, !.timer = FALSE]
                 ELSE browser[i]]
           /\ profile' = [p \in Profiles |-> IF \E i \in held : browser[i].owner = p
                 THEN [profile[p] EXCEPT !.lifecycle = "sleeping"] ELSE profile[p]]
           /\ stops' = stops \cup
                {[inst |-> i, by |-> "dispose", stage |-> "closing", ok |-> TRUE] : i \in held}
        /\ leaving' = {}
     \/ /\ disposing = "stopping"
        /\ IF DisposeFailed
           THEN disposing' = "done" /\ leaving' = {}
           ELSE /\ disposing' = "retiring"
                /\ leaving' = {profile[p].retirement : p \in Profiles} \ {None}
        /\ stops' = {s \in stops : s.by # "dispose" \/ s.stage # "done"}
        /\ UNCHANGED <<browser, profile>>
     \/ /\ disposing = "retiring"
        /\ disposing' = "done" /\ leaving' = {}
        /\ UNCHANGED <<browser, profile, stops>>
  /\ UNCHANGED <<call, chain, candidates, offline, disturbances>>

-----------------------------------------------------------------------------
(* The event loop *)

Continuation ==
  \/ \E c \in Callers :
       \/ Enter(c) \/ Reserve(c) \/ Choose(c) \/ Evicted(c) \/ Use(c)
       \/ Abandoned(c) \/ Quarantined(c) \/ End(c)
  \/ \E c \in Panels : Unpinned(c)
  \/ \E i \in Instances : Restart(i) \/ FinishRetirement(i)
  \/ \E s \in stops : BeginStop(s) \/ FinishStop(s)
  \/ Dispose

\* An operation that is under way completes.
Completion ==
  \/ \E i \in Instances : Launch(i) \/ NoticeExit(i) \/ RecordCrash(i) \/ Cleanup(i)
                         \/ AbortLaunch(i)
  \/ \E s \in stops : CloseBrowser(s) \/ StopSettles(s)
  \/ \E c \in Calls : Finish(c) \/ Unreachable(c)

Request ==
  \/ \E c \in Calls, p \in Profiles : Arrive(c, p)
  \/ \E c \in Calls : Quarantine(c)
  \/ \E c \in Panels : Unpin(c)
  \/ \E i \in Instances : Die(i) \/ IdleTimer(i)
  \/ \E p \in Profiles : OwnerStop(p) \/ CrashWindowPasses(p)
                        \/ BeginMaintenance(p) \/ EndMaintenance(p)
  \/ HostDisconnected \/ HostReconnected \/ BeginDispose

Next == Continuation \/ (~Ready /\ (Completion \/ Request))
Spec == Init /\ [][Next]_vars

\* Continuations run, operations complete, and nothing else is promised: file
\* operations settle, browsers end after SIGKILL, and the work of a call has a
\* deadline.
Fairness == WF_vars(Continuation) /\ WF_vars(~Ready /\ Completion)
FairSpec == Spec /\ Fairness

-----------------------------------------------------------------------------
(* Properties *)

\* A browser that serves a profile holds its launch lock, so at most one does,
\* whatever happened to the Map of starts: stale stops, late exits and restarts
\* that overtake each other never put two browsers on the same profile data.
ServingHoldsTheLock ==
  \A p \in Profiles : \A i \in Serving(p) : profile[p].lock = i

\* Every lease on an instance belongs to a script that has not ended, also when
\* the script moved to a replacement: no instance stays pinned for ever, and
\* none loses the lease of a running script.
LeasesBalanced ==
  \A i \in Instances :
    browser[i].leases = Cardinality({c \in Scripts : call[c].original = i})

\* A visible panel pins whichever instance serves its profile, also the one
\* started while the panel was already there or after a crash.  (A panel hidden
\* while its pin is under way may be left visible and not pinned, or pinned.)
PanelsStayPinned ==
  \A p \in Profiles :
    LET i == profile[p].start IN
    i # None /\ browser[i].phase = "held" =>
      {c \in profile[p].visible : call[c].unpin = None} \subseteq browser[i].panels

\* The bound on launches stops a call that would launch one now.
NeedsLaunch(c) ==
  LET p == call[c].goal IN
  \/ /\ CanEnter(c) \/ CanReserve(c)
     /\ profile[p].start = None /\ StartsSize < AwakeLimit
  \/ call[c].pc = "evicting" /\ StopDone(c) /\ StopOf(c).ok
OutOfLaunches == Unused = {} /\ \E c \in Callers : NeedsLaunch(c)

\* Every call of the runtime ends, and so does dispose: the chain of
\* reservations, the awaited starts, retirements and stops never wait for each
\* other.  Calls are finitely many, so one that does not end shows as a time from
\* which on some call is always pending.  (Unless the bound on launches stops it.)
NothingPending ==
  /\ \A c \in Callers : call[c].pc \in {"idle", "done"} /\ call[c].unpin \notin Instances
  /\ disposing \in {"no", "done"}
EveryCallEnds == []<>(NothingPending \/ OutOfLaunches)

\* "At most three Browser Instances run on a host" (README.md:62), but for one: a
\* reservation that evicts begins its start without counting again, and a call may
\* have begun another in the room its victim left.  The chain lets one reservation
\* at a time do so, so there are never two too many.
AtMostOneOver == StartsSize <= AwakeLimit + 1

\* "Active scripts and visible panels prevent retirement" (README.md:64): a
\* pinned browser goes down by its own crash or by a stop of itself only.
ActiveWorkPreventsRetirement ==
  [][\A i \in Instances :
       /\ browser[i].phase = "held" /\ IsPinned(i)
       /\ browser[i].alive /\ ~browser'[i].alive
       => Die(i) \/ \E s \in stops : s.inst = i]_vars

\* How far launch i has come with the lock of its profile.
Stage(i) ==
  LET b == browser[i] IN
  CASE b.phase \in {"unused", "checking", "locking"} -> "new"
    [] b.phase = "spawning" -> "preparing"
    [] b.phase \in {"starting", "held"} /\ b.alive -> "serving"
    [] OTHER -> IF profile[b.owner].lock = i THEN "leaving" ELSE "over"

Lock == INSTANCE LaunchLock WITH
  Launches <- Instances,
  Nobody <- None,
  holder <- [p \in Profiles |-> profile[p].lock],
  stage <- [i \in Instances |-> Stage(i)],
  data <- [i \in Instances |-> IF Stage(i) \in {"new", "over"} THEN None
                                ELSE browser[i].owner]

\* A launch has the lock of its profile from before its browser starts until it
\* is on its way out, once and without a gap, whatever happened to the Map of
\* starts: stale stops, late exits and restarts that overtake each other never
\* put two serving browsers, or one and maintenance, on the same profile data.
ImplementsLaunchLock == Lock!Spec
=============================================================================
