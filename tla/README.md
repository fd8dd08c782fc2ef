# TLA+ models of the Workspace Browser plugin

A bb plugin gives threads, agents and the owner of a workspace host one shared
Chromium browser per *Browser Profile*. A server part routes tools, the CLI and
the panel; a worker on each host owns profiles, browser processes and leases.
These modules model the parts of both whose correctness depends on the order of
events. Paths below are relative to `src/src/` unless they start
with `src/`.

## Inventory

| Component | State | Operations | Talks to | Hard behaviour | What makes it correct |
|---|---|---|---|---|---|
| Control leases, `browser/control-lease.ts` | `active`, `waiting`, each lease's abort signal and `done` promise | acquireAgent, acquireOwner, release, revoke (profile, agents, host, all), dispose | called by every handler in `host/host.ts` | waits that race timers, aborts, revokes and hand-overs; owners woken before they look at the lane again | one driver per lane, arrival order, nobody forgotten, every lease can be revoked |
| Browser Instance runtime, `browser/browser-runtime.ts` | starts, pins, retirements, failures, chain of reservations; lock, manifest and crash history on disk | execute, navigate, pinPanel, stop, idle sleep, eviction, crash restart, disconnect, dispose | process launcher, host handlers | every decision is followed by awaits during which starts, exits and stops of the same profile happen | one browser per profile's data, at most the limit awake, pinned browsers stay, every call ends |
| Process launcher, `browser/browser-process.ts` | child processes, helpers, renderer monitor | launch, recover, stop, close | runtime | stopping an instance reaches the browser through the profile directory | a stop ends its own browser |
| Safe Login policy, `browser/safe-login.ts` | mode, transition, session, timers, retained effects, durable intent | enter, extend, done, panelClosed, joinPanel, expiry, reconcile, dispose | asked by host handlers whether agents are allowed | calls that overlap at the awaited effects; expiry against extension; worker restart | a session ends, on time, nothing outlives it, interrupted transitions are found |
| Host handlers, `host/host.ts` | lease manager, runtimes, panel sessions, connection generations | browserScript, navigation, tab actions, stop and sleep of profiles, host connection | all of the above, called by the server | checks made before waits; revokes during work | no script runs on a profile it was denied |
| Activity, `activity/` | outbox file on the host, records in the server's database | enqueue, claim, acknowledge, reconcile, sync, clear | host and server | lost answers, restarts, records cleared while in flight | each event recorded once, none lost |
| Panels, `panel/` | capabilities, connections, gateways, control, streams | issue, redeem, rotate, disconnect, reclaim, take control | server, host, browser | reconnects against timers, remounts against old gateways | capabilities work once, one panel controls |
| Tab strip and agent proxies, `browser/browser-tabs.ts`, `browser/session-cdp-proxy.ts` | ordered tabs, generation, evicted pages; tabs of a session | sync, open, close, activate, reset | runtime, host handlers | inventories read before a reset and applied after it | the cap bounds real pages, stale tabs fail closed |
| Access, `access/` | grants and requests in the database | request, approve, expire, revoke | server | retries, revocation during a call | access only under a live grant |
| Transfers and downloads, `host/transfer-staging.ts`, `host/host-downloads.ts` | staged files, quotas | stage, claim, expire | host handlers | crashes between file and record | bounded, no orphan |
| Profile storage and recovery, `host/profile-storage.ts`, `host/profile-recovery.ts` | profile records and directories | create, archive, restore, delete, recover | runtime's launch lock, cleanup | crashes between steps, running browsers | no data lost or used after deletion |
| Origin Scope, scripts, secrets, input, screencast, `browser/` | per call | guard, parse, fill | Chromium | protocol translation | mostly data, not control |
| Administration and diagnostics, agent tools, server routing, contracts, user interface | little or none of their own | | | | not candidates for a model |

`PROJECT.json` lists every component with its files and status, and under
`hazards` what is hard to test in this code, each with the properties that would
catch it or the reason why none does yet.

The parts interact as follows. A tool call of an agent is authorized by the server
against grants and requests, tracked, and sent to the host. A handler of `host.ts`
checks Safe Login and the profile, takes a lease of its lane, runs the work on the
runtime, which wakes or evicts a browser, reconciles the tab strip, and releases
the lease in a `finally`. Stopping a profile, a disconnect and a shutdown revoke
leases and stop instances without waiting for the handlers. Panels talk to their
session through the host's handlers and through a transport of their own, whose
socket redeems a capability. Activity events are written to the outbox on the host
and pulled by the server. The owner's lifecycle operations (archive, reset, delete)
first withdraw what agents may do on the server, then change files on the host.

## Plan

Done, in this order: control leases with their abstract promise, Browser Instances
with the launch lock, Safe Login, activity, panels, access, profile storage with its
recovery, each with its proofs.

Left, in this order:

1. The tab strip, and ControlLease, BrowserInstances and SafeLogin as the handlers of
   `host.ts` compose them, with the strip's generations.
2. Transfers and downloads: staged files and their records across crashes.
3. The browser that an earlier worker left running.

## Modules

`ControlLease` models the whole manager. A lane is a pair of a profile and a lane
name (`laneKey`). `status` says where a call is: `queued` is an entry of
`waiting`, `parked` an owner that awaits `done`, `woken` an owner whose `done`
has resolved but which has not resumed. A step is one synchronous run of the
code: an API call, a timer, an abort listener, or the loop of `acquireOwner` after
its await. `ticket` is the order of arrival, which the code keeps in the insertion
order of a `Set` and of promise reactions. The default of the lane name and the
texts are left out, and so is `state`, which only reports. A call is made once and
has its own signal, as in `host.ts`.

`LaneControl` is what callers may rely on: the moves a call may make, one holder
per lane, arrival order in agent lanes, no grant after shutdown. `ControlLease`
implements it under the mapping at its end.

`BrowserInstances` models one worker's life of the runtime. An instance is one
launch (`beginStart`); `browser[i]` holds its process and its
`HeldBrowserInstance`, `profile[p]` the entries of the profile in the runtime's
Maps and its lock and crash history on disk, `call[c]` the place of a call between
its awaits, `stops` the runs of `stopHeld`. A restart after a crash is a caller,
too, and has the name of the instance that crashed. Node runs every promise
continuation before the next event, so `Completion` and `Request` wait until
nothing is `Ready`; the order of continuations among themselves is left open. The
profile's lock is taken and given back by the file operations of the code, in
separate steps. `CloseBrowser` is what `stopBrowserProcess` of
`browser/browser-process.ts` does: it closes whichever browser answers in the
profile's directory. What a script does to its pages, times, manifests and trace
stages are abstracted; `lastActivityAt` is, too, so the eviction may pick any
unpinned instance instead of the least recently used one.

`LaunchLock` is what the launch lock of a profile promises: a launch takes it once, before
it has a browser, keeps it for as long as the browser may serve, and gives it back once;
maintenance takes it only from nobody. `BrowserInstances` implements it under the mapping
at its end: the holder is the lock on disk, the stage of a launch is read from its phase
and its process (and, once both are gone, from whether the lock is still its own), and the
data it may use are its profile's until it gives the lock back. The Maps, chains, calls and
stops of the runtime, by which starts and stops could overtake each other, are not in it.

`SafeLogin` models one profile; the states of profiles are independent. `entry[s]`
is a call of `enter` and the `ActiveSession` it creates, `exit[e]` a run of
`runExit`, `held` the keys of `relaunchBySession`. Time is counted in ticks as what
is left of a lease and of each timer. `overlapped` is a history variable: an exit
was asked for while another was under way. A lease that ran out while its timer is
still due counts as having nothing left, however late the timer is.
`enter` and the exits are not called by `host.ts` yet, which only asks
`assertAgentAllowed`; the policy is modelled as its own interface promises.

`Activity` models the way of an event to its record. `outbox` is the file on the host,
`record` and `tombs` two tables of the server's database, `counted` the cached size of
a stream, `sync[s]` the call that one run of `syncActivityBatch` awaits. A call to the
host has its effect and then an answer, and may fail before either, so that a failure
leaves the server not knowing whether it happened. Each operation of the outbox is one
step: it replaces the file by a rename under a queue. An event that both sides describe
(a script) is one id with two descriptions. Times of events are their order; a
retention cutoff passes over them. `accepted`, `seen` and `gone` are histories.

`Panels` is a composition: the shared session of a profile (`session`, whose operations
are functions of it, as in `panel-session.ts`), the transports with the capability and
gateway of each (`transport`), and the handlers of `host.ts` that await stops (`calls`,
`idlers`). `Expire` is what every operation of the session begins with; `Now` is the
session an operation sees. A call of the session is one step, an await of the handler
ends one. Windows and the timer count down in ticks. Frames, viewports, dialogs and
tabs are left out, and so are agents' leases, which only delay the end of an idle
session. What the store keeps of a redeemed capability is left out: nothing reads it.

`Access` models one project and one profile on the server. `grants` and `requests` hold
what is stored and still matters by id, `scripts[s]` where an agent's call is between
its question, its turn in the queue, its authorization and the host's answer, `owner`
the owner's call, `held` the lifecycle operation that holds the queue while it awaits
the host. Where the code compares an epoch or a generation with the one it has seen, a
call holds whether that has changed since. Destinations are a site and a raw localhost
origin, which "the whole web" does not cover; elevations are reduced to a grant that
lapses. The order of the queue is not modelled: it is a lock.

`ProfileStorage` models the directories and journals on the disk of one host. `op` holds
the mutation lock and executes one journal after the other, `rec` holds the recovery
lock and promotes a copy by two renames; they run beside each other, as in the code. A
step is one file operation. A removal tears a directory before it is gone. Any file step
may fail and the worker may die between any two; disk stays, memory goes. `owned` and
`successorOf` are histories.

Each `MC…` module instantiates one of these for TLC. Operators marked MUTANT are
faulty variants of the definition that follows them; they are used only to confirm
that a property can fail.

## Runs

| Run | Instance | Shows |
|---|---|---|
| `ControlLease` | 3 calls, 2 profiles on 2 hosts, an owner and an agent lane each | all safety, order, liveness and refinement properties of the leases |
| `RevokeEndsWaiting` | same, one profile | fails: see Findings |
| `BrowserInstances` | 2 profiles, 3 launches, 1 script, 1 panel, limit 1, 1 disturbance | leases, pins, the choice of what to retire, and that the launch lock keeps its promise (`LaunchLock`) |
| `BrowserCallsEnd` | 2 launches, the panel on a fixed profile | no call and no dispose waits for ever |
| `AwakeLimit` | plus a page call | fails: see Findings |
| `ActiveWork` | 2 launches, a page call, no disturbance | fails: see Findings |
| `SafeLogin` | 3 sessions, 2 exits at a time, 2 panels, leases of 2 ticks up to 4, 1 restart | timing, order and record of sessions |
| `EffectsReleased` | 2 sessions, 2 exits, 1 panel | fails: see Findings |
| `Activity` | a script and an event of the host or the owner, 2 syncs, streams, batches, clears and failures limited to 1 | nothing accepted is lost, nothing cleared comes back, streams stay short, the outbox empties |
| `Panels` | 2 panels, one of which opens 2 transports, windows of 1 tick, 1 release, 1 idle check | one controller, timed windows, control kept for whom it is kept, late panels watch |
| `Access` | 1 script that comes again and again, 2 grants, 1 request, the owner grants the whole web | whatever runs is covered or told to stop, approvals are backed, deleted projects and inactive profiles run nothing, temporary runs end |
| `ProfileStorage` | the Default Profile and one with a backup, 1 fault | a restore keeps a copy, cleanup spares sign-ins, a reset has its successor |

**Bounds.** Three calls in a lane are a holder and two waiters, which is what
order, overtaking and a stale hand-over need; the fourth would repeat the third.
Two lanes of two profiles let every revoke reach some lanes and miss others.
`MCControlLease` looks at one assignment of lanes out of each class of equivalent
ones instead of using symmetry sets, which TLC does not support with liveness.
For the instances, a limit of 1 makes any two profiles compete, and three launches
are an instance, its replacement and a rival. `CrashLimit` is 2 instead of 3.
`MaxDisturbances` bounds what comes from outside: crashes, failed file operations,
failed helpers, stops by the owner, quarantines, maintenance, disconnects, a
shutdown. One is enough for each of them to meet every interleaving of the normal
operations; two together are not explored. Calls without a lease (`Pages`) only
occur in the two runs that fail, since a third kind of call makes the state space
too large for the others. In `SafeLogin` three sessions and two exits let an exit
of the first meet the second and the third; `Lease`, `MaxExtension` and `MaxTotal`
are large enough for an extension before, at and after the old expiry, and for one
that would exceed the total.

In `Activity` every limit is 1 because then each is reached at once: a second record
overflows the stream, a second item needs a second batch, a second known id is one too
many for a call. Two syncs are what it takes for one to carry an answer that the other
has made stale. In `Panels` two panels and two transports of one of them are a remount
next to a rival; `MaxVisible`, `MaxReleases` and `MaxIdlers` bound what only repeats.
Transports are a symmetry set, since no property of the run is a liveness property. In
`Access` one authorization creates at most one grant and one request, and a second grant
lets another remain when one is revoked; several scripts at once are left to the proofs,
which hold for any number. In `ProfileStorage` two profiles are a profile and its
successor, and also one that is deleted while the other is restored; one fault meets
every step. The same run with the Default Profile backed up instead also passes.

Deadlock is not checked: every one of these systems may come to rest, when all
calls have been made and settled or the worker is shut down.

**Fairness.** `ControlLease`: a timer that is armed fires, a resolved promise
resumes its awaiter, and a holder releases, since every caller in `host.ts` does so
in a `finally` after an operation with a deadline. `BrowserInstances`:
continuations run, and operations under way complete; arrivals, timers and
disturbances are promised nothing. `EveryCallEnds` also stops asking when
`Unused` is empty, for the model then has no launch left that the code would begin.
`Activity`: a sync that has begun goes on, since a call to the host is answered or
fails at its deadline, and an entry that waits for its next attempt becomes due;
`EventsArrive` asks that syncs are requested again and again, which is the server's
interval. `Access`: a lifecycle operation ends, since its call to the host has a
deadline; a call whose signal is aborted ends; and the timer of a temporary run has its
turn in the queue. The last is strong fairness, because the queue is first come first
served and the model's lock is not: in between it may be free for others again and
again. `SafeLogin`: time passes, due timers fire, and effects that return the profile to
automation settle; that an owner ends or extends a session is not assumed, so
`SessionsEnd` rests on the lease alone.

## Findings

Four statements of the repository do not hold of the code; each is a run that
fails, and the trace is short.

- `RevokeEndsWaiting`: "Stop every lane on a profile" (`control-lease.ts:308`,
  also `src/CONTEXT.md`, Control Lease). `revoke` does not reach owner calls that
  wait: they are granted when the aborted holder releases.
- `AtMostLimitAwake`: "At most three Browser Instances run on a host"
  (`src/README.md:62`). A reservation that evicted an instance begins its start
  without counting again. The evicted browser's exit frees the room before the
  eviction returns, and a new call takes it. It never adds up: one too many is the most
  there can be (`LimitOverrunByOne`, proved).
- `ActiveWorkPreventsRetirement`: "Active scripts and visible panels prevent
  retirement" (`src/README.md:64`). A late stop of an old instance of the same
  profile closes the browser that has replaced it.
- `EffectsAreReleased`: "this is 0 whenever no live Safe Login session holds the
  profile" (`safe-login.ts:909-912`). Two exits of one session can overlap; the
  second to return drops the next session and leaves its effects retained.

## Proofs

The theorems hold for every value of the constants: any sets of calls, profiles, lanes,
sessions, panels, transports, scripts, grants, requests and syncs, finite or not (events
and the scripts of `BrowserInstances` are finitely many), any length of a lease or window
and any limit. The only assumptions
are those named in the modules: the owner's lane is no agent's, a lease is at least one
tick and at most the total, bounds and limits are numbers, ids of different kinds and
`None` are different, deletions are the host's, the Default Profile is a profile, the
runtime's own stops are nobody's call, scripts are finitely many because their leases
are counted.

`ControlLeaseProofs`. Mutual exclusion is not inductive alone. `IInv` adds that a
lease that is out is registered in `active` or was ended by dispose
(`LeaseIsRegistered`), that an entry of `active` is never stale
(`EntriesAreLive`), that only agents queue and only owners park (`WaitsByKind`),
and that nothing waits or is registered after dispose (`DisposedIsQuiet`). Then
`OneDriverPerLane` follows because two leases of one lane would be named by the
same entry, and acquiring requires an empty entry; after dispose nothing is
granted. `GrantsInOrder` and `Implementation` are step properties under `IInv`;
the latter shows that initial states map to initial states of `LaneControl` and
every step to a step or a stutter.

`BrowserInstancesProofs`. `ServingHoldsTheLock` is not inductive alone, because a
cleanup that runs late gives the lock back. The invariant adds that a cleanup or a
retirement only begins once the process of its instance is gone, and that the lock is
held from the launch to the end of the cleanup (`InstanceOK`). This must survive calls
and stops that remember an instance across their awaits: what they remember is an
instance that was published (`CallOK`, `StopOK`), a published instance stays published
and a dead one stays dead (`Stays`), and a lock changes only between its holder and
nobody, or between nobody and maintenance. The chain lists exactly the calls that wait
for room, each once, and only the first of them chooses or evicts (`ChainOK`).
`LeasesBalanced` needs that a script leases an instance only on its first attempt.
`RetirementSparesPinned` is a step property: a stop by a timer or for room begins in
the step that looked at the pins, and every other stop is by somebody else.

The refinement (`LockImplemented`) adds that whoever has a profile's lock is a launch for
this profile that is past the lock file and not yet cleaned up (`LockOK`). Most steps leave
the lock, and the phase, owner and life of every launch, alone (`SteadyLocks`), or move one launch on
(`OneMoves`, `Advances`), and have one lemma each. The step that is not of this kind is a
stop, which closes every browser that answers in the profile's directory: of these at most one is
alive and serving, since each of them would hold the one lock (`CloseLocks`). That a browser that
serves holds its profile's lock (`LockHeldWhileServing`) follows from the same invariant.

`BrowserPinsProofs`. A panel pins the instance it finds registered, perhaps after awaiting
its start. The registered instance of a profile is one of its own launches and is not
cleaned up unless the stop that did so is a continuation away from unregistering it
(`StartsOK`). A call awaits a start of its own profile; should another start be registered
before the call goes on, at most one of the two is published (`AwaitsOK`), because an
instance is published only while nothing is `Ready`, and only by the holder of the lock.

`LimitOverrunByOne` bounds the overrun of the second finding. A start begins without
counting only after an eviction, only the first of the chain evicts, and a call has one
stop of its own (`OwnStops`). While the limit is overrun the victim is still registered
(`RoomInv`): nobody else may begin a start then, and the first entry to go ends the overrun.
So there is room again when the stop is done. `AtMostOneOver` is not a property of a run: it
is obvious of two profiles, and three, with enough calls to break a faulty variant, are too
many states for a run here. The invariant was model-checked on two profiles, and on three by
simulation, before it was proved.

`SafeLoginProofs`. An expiry is on time because the timer of the active session is
the one for its current expiry (`Timed`), and it is not ignored because the effects
of that session are still retained (`Retained`); both may fail only while an exit
is returning. `LeaseBounded` keeps extensions within `MaxTotal`. `Serial` says
what holds while exits do not overlap: at most one exit, an enter is alone, an exit
belongs to the session, and the mode follows the session. From these follow
`LiveSessionsAreTimed`, `ExpiryIsNeverEarly`, `SoundUnlessExitsOverlap` and
`TransitionsAreOnRecord`. The invariant was model-checked before it was proved.

`ActivityProofs`. `NothingIsLost` needs that what is about to be dropped from the outbox
has been recorded: the records, the tombstones and the ids on their way to the host name
only events that have been seen (`Dropped`). `ClearedStaysCleared` needs that an event
that was cleared while nothing under way carried it stays quiet, and that the server
remembers it in a tombstone for as long as the outbox has it (`Cleared`); and that
nothing is recorded, kept or carried that has not happened, so that no later step makes
it happen a second time (`Caused`). `StreamsStayShort` needs no induction over sets: the
oldest of the records kept has fewer than `RecordLimit` newer ones, which are all the
others (`NewestAreFew`); and an append prunes unless the cached count, an upper bound,
says that there is room (`AppendKeepsShort`).

`PanelsProofs`. The operations of the session are functions, so each has a lemma: it
keeps the session `Sound` (its type, roles that agree with the controller, a controller
that is connected) and `Timed`, and whoever is controller afterwards was so before or was
let in by the rules (`Follows`). `WindowsAreTimed` rests on arming at the earliest of the
windows, which exists because windows are numbers (`Smallest`), and on time passing for
windows and timer alike. The transports only matter for the types (`Around`, `Joining`):
a transport that a call still opens is some panel's.

`AccessProofs`. The argument is about ids. A step takes a grant or request away only if it
tells the scripts that run by it to stop, or if no script can run by it; a new id is one
that no script names (`Change`). So a script that was authorized before cannot come to
run by what was granted since. Lasting approvals and their grants go together one to one
(`Backed`); a script is authorized by a grant or by an approval that does not last
(`Terms`). `NothingRunsInactive` holds although a denied script may still come to a new
grant there: what runs was told to stop when the authority was withdrawn, and whoever is
authorized names something that is gone, which the inspection before its start finds
(`Inactive`). The invariant is their conjunction with the type and the run's invariants.

`ProfileStorageProofs`. At most one lifecycle journal exists, and it is the one the holder
of the lock works on (`OneJournal`). Where a restore is tells what its journal says, on
disk and in memory, and which directories exist (`Promoting`); for a profile nobody
deleted, the old copy is dropped only once the new one is whole and noted (`Owing`). This
gives `RestoreKeepsACopy`, with the exception stated in the property, see below. A
deletion for the storage limit was decided on files that are archived with no sign-in
saved, and files keep that mark only unchanged (`Known`). Until the successor of a reset
is there, the reset's journal or a restore will make it (`Replaced`), and a profile whose
deletion is planned is nobody's successor (`Deletions`).

All invariants were model-checked before they were proved.

Only model-checked: `EveryWaitEnds`, `EveryCallEnds`, `SessionsEnd`, `EventsArrive` and
`TemporaryRunsEnd`, because liveness under fairness is beyond the prover.

## What the properties leave out

Some properties say less than one would wish, because the code does less.

- `RestoreKeepsACopy` excepts a double fault. If the journal's second note fails, the
  undo follows the phase in memory and drops the old profile, while the journal on disk
  still says to bring it back; a crash then loses both (`profile-recovery.ts:1475`).
- `EventsArrive` excepts that the server knows more than `RecordLimit` ids of a host:
  the host rejects such a list (10,000 ids), and nothing is pulled any more.
- `ClearedStaysCleared` is about events that nothing under way carried when they were
  cleared: a batch that has been claimed may still bring its events.
- A delete that failed is carried out by the next operation without its reasons being
  looked at again (`profile-storage.ts:1351`).
- While a rollback directory of a restore exists, listings of profiles throw; and the
  host lists profiles before it reconciles journals (`host.ts:2253-2262`).
- A remounted panel can be marked disconnected by the close of its old socket, and
  redeeming does not mark it connected again (`panel-session.ts:449`).
- After a denial by the browser the server authorizes again without the snapshot of the
  profile's lifecycle (`browser-service.ts:1801`); the answer only tells the agent what a
  retry would find.

## Not modelled

Recovery of a browser left by an earlier worker, the Session CDP Proxies, the
calls that only use an awake browser (`activeTabId`, `listPages`, `closePages`),
and what their absence hides: `noteActivity` from a proxy. In `BrowserInstances`,
a browser being aborted by a failed launch is not among those that serve its
profile, since `cleanupFailedLaunch` gives the lock back while it stops the process.

`Panels` leaves out what frames, viewports, input, dialogs and the clipboard do, and the
gateway's validation and rate limits of messages. `Access` leaves out several projects
and profiles (their rows do not meet), subdomain scopes, project bindings and the
histories shown to the owner. `ProfileStorage` leaves out renames and the selection,
rebuildable data, and imports, all of which the host refuses. `Activity` leaves out
the migrations of the database.

Not reached by the plan: the tab strip, the composition of leases, instances and Safe
Login in the handlers, transfers and downloads. The tab strip needs the pages of Chromium
as well, which are not this code's. Origin Scope, input, screencast and secrets are
mostly text and protocol translation for one call. Presentation, contracts,
provisioning, routing, vendored code, scripts and tests have no state of their own that
several actors share, and have no model.
