------------------------------ MODULE Activity ------------------------------
(***************************************************************************)
(* Activity Records of one profile, src/src/activity/: events that happen   *)
(* on a host are kept in its durable outbox (activity-outbox.ts) until the  *)
(* server has recorded them in its database (activity-records.ts).  The     *)
(* server pulls them (activity-sync.ts); several syncs may be under way.     *)
(*                                                                         *)
(* An event of an agent script is recorded twice, by the host and by the    *)
(* server, under one id: "host" and "server" are the two descriptions; the  *)
(* server's may happen to be equal to the host's.  Events are numbered by   *)
(* occurredAt.  The outbox runs one operation at a time on a file that is   *)
(* replaced by a rename, so an operation is one step; so is a transaction.  *)
(* A call to the host has its effect, then its answer arrives; where the    *)
(* server uses the answer, these are two steps.  A call may fail before or   *)
(* after its effect.                                                        *)
(***************************************************************************)
EXTENDS Naturals, FiniteSets

CONSTANTS
  Scripts,      \* events of agent scripts
  HostEvents,   \* events that only the host describes
  OwnerEvents,  \* events that only the server describes
  Deletions,    \* those of them that report a deleted profile
  Syncs,        \* syncs that can be under way at a time
  RecordLimit,  \* ACTIVITY_RECORD_LIMIT; also the limit of ids in one call
  Batch,        \* ACTIVITY_OUTBOX_BATCH_LIMIT
  Unknown,      \* of a count that is not cached
  MaxClears,    \* bound: clears by the owner
  MaxFailures,  \* bound: failed calls and restarts together
  MaxCutoff     \* bound: how far time passes

Events == Scripts \cup HostEvents \cup OwnerEvents

ASSUME EventsAssumption ==
  /\ Events \subseteq Nat /\ IsFiniteSet(Events)
  /\ Scripts \cap (HostEvents \cup OwnerEvents) = {}
  /\ Deletions \subseteq HostEvents
ASSUME BoundsAssumption ==
  /\ RecordLimit \in Nat \ {0} /\ Batch \in Nat \ {0}
  /\ Unknown \notin Nat
  /\ MaxClears \in Nat /\ MaxFailures \in Nat /\ MaxCutoff \in Nat

VARIABLES
  outbox,    \* the host's outbox
  due,       \* those of it whose nextAttemptAt has come
  record,    \* browser_activity_records: what is recorded of each event
  tombs,     \* browser_activity_tombstones
  counted,   \* recordCounts: the cached size of the stream, or Unknown
  cutoff,    \* events up to this one are past their retention
  script,    \* per script: where its call is, on the host and on the server
  happened,  \* host and owner events that have happened
  sync,      \* per sync: the call it awaits
  clears, failures,
  accepted,  \* history: events the outbox has ever accepted
  seen,      \* history: events that have ever been recorded
  gone       \* history: events cleared while nothing under way could bring them back

storeVars == <<record, tombs, counted, cutoff>>
hostVars == <<outbox, due, happened, accepted>>
bounds == <<clears, failures>>
vars == <<outbox, due, record, tombs, counted, cutoff, script, happened, sync,
          clears, failures, accepted, seen, gone>>

\* reconcile, ackKnown, claim, inventory, ackBatch: the call is to have its
\* effect; known, claimed: the answer of ackKnown or claim is on its way.
SyncRecord ==
  [pc: {"idle", "reconcile", "ackKnown", "known", "claim", "claimed", "inventory", "ackBatch"},
   known: SUBSET Events,     \* acknowledgedEventIds
   batch: SUBSET Events]     \* the items the claim returned
ScriptRecord ==
  [host: {"unused", "running", "over"}, server: {"unused", "waiting", "settled", "lost"}]

TypeOK ==
  /\ outbox \subseteq Events /\ due \subseteq outbox
  /\ record \in [Events -> {"none", "host", "server"}]
  /\ tombs \subseteq Events
  /\ counted \in Nat \cup {Unknown}
  /\ cutoff \in 0..MaxCutoff
  /\ script \in [Scripts -> ScriptRecord]
  /\ happened \subseteq HostEvents \cup OwnerEvents
  /\ sync \in [Syncs -> SyncRecord]
  /\ clears \in 0..MaxClears /\ failures \in 0..MaxFailures
  /\ accepted \subseteq Events /\ seen \subseteq Events /\ gone \subseteq Events

NoSync == [pc |-> "idle", known |-> {}, batch |-> {}]

Init ==
  /\ outbox = {} /\ due = {}
  /\ record = [e \in Events |-> "none"]
  /\ tombs = {} /\ counted = Unknown /\ cutoff = 0
  /\ script = [e \in Scripts |-> [host |-> "unused", server |-> "unused"]]
  /\ happened = {}
  /\ sync = [s \in Syncs |-> NoSync]
  /\ clears = 0 /\ failures = 0
  /\ accepted = {} /\ seen = {} /\ gone = {}

-----------------------------------------------------------------------------
(* The record store *)

Recorded == {e \in Events : record[e] # "none"}
\* MUTANT of EventIds: without the tombstones.
EventIdsRecorded == Recorded
\* eventIds: what the server tells the host to drop.
EventIds == Recorded \cup tombs

Fresh(E) == {e \in E : e > cutoff}
Newest(E) == {e \in E : Cardinality({f \in E : f > e}) < RecordLimit}
Only(rec, E) == [e \in Events |-> IF e \in E THEN rec[e] ELSE "none"]
In(rec) == {e \in Events : rec[e] # "none"}

\* pruneActivityRows for every stream.
Pruned(rec) == Only(rec, Newest(Fresh(In(rec))))

\* MUTANT of Append: the cached count does not include the new record.
AppendMiscounting(e, d) ==
  LET before == IF counted = Unknown THEN Cardinality(Recorded) ELSE counted
      rec == IF record[e] = "none" THEN [record EXCEPT ![e] = d] ELSE record
      fresh == Fresh(In(rec))
  IN /\ record[e] \in {"none", d}
     /\ record' = Only(rec, IF before > RecordLimit THEN Newest(fresh) ELSE fresh)
     /\ counted' = IF before > RecordLimit THEN RecordLimit ELSE before
     /\ seen' = seen \cup {e}

\* append: the stream is counted once and pruned by the count.  An event that
\* is recorded with another description is refused, see Conflicts.
Append(e, d) ==
  LET before == IF counted = Unknown THEN Cardinality(Recorded) ELSE counted
      after == IF record[e] = "none" THEN before + 1 ELSE before
      rec == IF record[e] = "none" THEN [record EXCEPT ![e] = d] ELSE record
      fresh == Fresh(In(rec))
  IN /\ record[e] \in {"none", d}
     /\ record' = Only(rec, IF after > RecordLimit THEN Newest(fresh) ELSE fresh)
     /\ counted' = IF after > RecordLimit THEN RecordLimit ELSE after
     /\ seen' = seen \cup {e}
Conflicts(e, d) == record[e] \notin {"none", d}

\* ingest, for a batch without conflicts.
Ingest(E) ==
  /\ record' = Pruned([e \in Events |-> IF e \in E THEN "host" ELSE record[e]])
  /\ counted' = Unknown
  /\ seen' = seen \cup E

-----------------------------------------------------------------------------
(* The host: what happens there, and the operations of the outbox *)

\* enqueueEvent: an id that is there is ignored, a full outbox refuses.
Enqueue(e) ==
  IF e \in outbox \/ Cardinality(outbox) >= RecordLimit
  THEN UNCHANGED <<outbox, due, accepted>>
  ELSE /\ outbox' = outbox \cup {e}
       /\ due' = due \cup {e}
       /\ accepted' = accepted \cup {e}

ScriptStart(e) ==
  /\ script[e].server = "unused"
  /\ script' = [script EXCEPT ![e] = [host |-> "running", server |-> "waiting"]]
  /\ UNCHANGED <<storeVars, hostVars, sync, bounds, seen, gone>>

\* The script's finally on the host; its caller may be gone by then.
HostRecords(e) ==
  /\ script[e].host = "running"
  /\ script' = [script EXCEPT ![e].host = "over"]
  /\ Enqueue(e)
  /\ UNCHANGED <<storeVars, happened, sync, bounds, seen, gone>>

\* recordExpiredProfiles, recordStorageLimitCleanup, recordDownloadExport.
HostEvent(e) ==
  /\ e \in HostEvents \ happened
  /\ happened' = happened \cup {e}
  /\ Enqueue(e)
  /\ UNCHANGED <<storeVars, script, sync, bounds, seen, gone>>

\* MUTANT of BecomesDue: only an item that nobody has claimed is due.
BecomesDueOnce(e) ==
  /\ e \in outbox \ due
  /\ due' = due
  /\ UNCHANGED <<storeVars, outbox, happened, accepted, script, sync, bounds, seen, gone>>

\* The delay of the retry of a claimed item is over.
BecomesDue(e) ==
  /\ e \in outbox \ due
  /\ due' = due \cup {e}
  /\ UNCHANGED <<storeVars, outbox, happened, accepted, script, sync, bounds, seen, gone>>

\* MUTANT of Acknowledged: the schedule keeps the items.
AcknowledgedStillDue(E) ==
  /\ outbox' = outbox \ E
  /\ due' = due

\* removeAcknowledged.
Acknowledged(E) ==
  /\ outbox' = outbox \ E
  /\ due' = due \ E

\* The host serves the call that s awaits.
Awaits(s, c) == sync[s].pc = c
Goes(s, c) == [sync EXCEPT ![s].pc = c]
Over(s) == [sync EXCEPT ![s] = NoSync]

\* reconcileEvents: the answer is not used.  The call is rejected if it names
\* too many ids, see RejectReconcile.
HostReconcile(s) ==
  /\ Awaits(s, "reconcile")
  /\ Cardinality(sync[s].known) <= RecordLimit
  /\ Acknowledged(sync[s].known)
  /\ sync' = Goes(s, IF sync[s].known = {} THEN "claim" ELSE "ackKnown")
  /\ UNCHANGED <<storeVars, happened, accepted, script, bounds, seen, gone>>

HostAckKnown(s) ==
  /\ Awaits(s, "ackKnown")
  /\ Acknowledged(sync[s].known)
  /\ sync' = Goes(s, "known")
  /\ UNCHANGED <<storeVars, happened, accepted, script, bounds, seen, gone>>

\* MUTANT of HostClaim: claimed items are taken off the outbox.
HostClaimRemoving(s) ==
  /\ Awaits(s, "claim")
  /\ \E E \in SUBSET due :
       /\ Cardinality(E) <= Batch
       /\ E = due \/ Cardinality(E) = Batch
       /\ due' = due \ E
       /\ outbox' = outbox \ E
       /\ sync' = [sync EXCEPT ![s].pc = "claimed", ![s].batch = E]
  /\ UNCHANGED <<storeVars, happened, accepted, script, bounds, seen, gone>>

\* claimDueEvents: the items stay in the outbox and are due again later.
HostClaim(s) ==
  /\ Awaits(s, "claim")
  /\ \E E \in SUBSET due :
       /\ Cardinality(E) <= Batch
       /\ E = due \/ Cardinality(E) = Batch
       /\ due' = due \ E
       /\ sync' = [sync EXCEPT ![s].pc = "claimed", ![s].batch = E]
  /\ UNCHANGED <<storeVars, outbox, happened, accepted, script, bounds, seen, gone>>

\* The answer lets syncConnectedActivity go around its loop.
HostAckBatch(s) ==
  /\ Awaits(s, "ackBatch")
  /\ Acknowledged(sync[s].batch)
  /\ sync' = [sync EXCEPT ![s] = [pc |-> "reconcile", batch |-> {},
                                  known |-> sync[s].known \cup sync[s].batch]]
  /\ UNCHANGED <<storeVars, happened, accepted, script, bounds, seen, gone>>

-----------------------------------------------------------------------------
(* A sync on the server *)

SyncStart(s) ==
  /\ Awaits(s, "idle")
  /\ sync' = [sync EXCEPT ![s] = [pc |-> "reconcile", known |-> EventIds, batch |-> {}]]
  /\ UNCHANGED <<storeVars, hostVars, script, bounds, seen, gone>>

\* The contract's limit of acknowledgedEventIds; the error ends the sync.
RejectReconcile(s) ==
  /\ Awaits(s, "reconcile")
  /\ Cardinality(sync[s].known) > RecordLimit
  /\ sync' = Over(s)
  /\ UNCHANGED <<storeVars, hostVars, script, bounds, seen, gone>>

\* acknowledgeClearedEvents: the host has dropped them, the tombstones may go.
KnownAcknowledged(s) ==
  /\ Awaits(s, "known")
  /\ tombs' = tombs \ sync[s].known
  /\ sync' = Goes(s, "claim")
  /\ UNCHANGED <<record, counted, cutoff, hostVars, script, bounds, seen, gone>>

\* ingestHostActivityBatch: an event that conflicts rolls the batch back, and
\* its error ends the sync.
IngestBatch(s) ==
  IF \E e \in sync[s].batch : Conflicts(e, "host")
  THEN sync' = Over(s) /\ UNCHANGED <<record, counted, seen>>
  ELSE sync' = Goes(s, "ackBatch") /\ Ingest(sync[s].batch)

NothingClaimed(s) ==
  /\ Awaits(s, "claimed") /\ sync[s].batch = {}
  /\ sync' = Over(s)
  /\ UNCHANGED <<storeVars, hostVars, script, bounds, seen, gone>>

Claimed(s) ==
  /\ Awaits(s, "claimed") /\ sync[s].batch # {}
  /\ sync[s].batch \cap Deletions = {}
  /\ IngestBatch(s)
  /\ UNCHANGED <<tombs, cutoff, hostVars, script, bounds, gone>>

\* A deleted profile is looked up on the host before its record is made.
ClaimedDeletion(s) ==
  /\ Awaits(s, "claimed")
  /\ sync[s].batch \cap Deletions # {}
  /\ sync' = Goes(s, "inventory")
  /\ UNCHANGED <<storeVars, hostVars, script, bounds, seen, gone>>
InventoryRead(s) ==
  /\ Awaits(s, "inventory")
  /\ IngestBatch(s)
  /\ UNCHANGED <<tombs, cutoff, hostVars, script, bounds, gone>>

\* A call fails, before or after its effect: ActivitySyncTransportError.
SyncFails(s) ==
  /\ sync[s].pc # "idle" /\ failures < MaxFailures
  /\ failures' = failures + 1
  /\ sync' = Over(s)
  /\ UNCHANGED <<storeVars, hostVars, script, clears, seen, gone>>

-----------------------------------------------------------------------------
(* The server's own records *)

\* recordAgentActivity: the script's call has returned or failed.  A conflict
\* throws instead of giving the answer to the agent.
ScriptSettles(e, d) ==
  /\ script[e].server = "waiting"
  /\ IF Conflicts(e, d)
     THEN /\ script' = [script EXCEPT ![e].server = "lost"]
          /\ UNCHANGED <<record, counted, seen>>
     ELSE /\ script' = [script EXCEPT ![e].server = "settled"]
          /\ Append(e, d)
  /\ UNCHANGED <<tombs, cutoff, hostVars, sync, bounds, gone>>

\* recordActivity and the producers of grants and control.
OwnerEvent(e) ==
  /\ e \in OwnerEvents \ happened
  /\ happened' = happened \cup {e}
  /\ Append(e, "server")
  /\ UNCHANGED <<tombs, cutoff, outbox, due, accepted, script, sync, bounds, gone>>

\* exportActivityRecords.
Export(e) ==
  /\ e \in OwnerEvents \ happened
  /\ happened' = happened \cup {e}
  /\ record' = Pruned([record EXCEPT ![e] = "server"])
  /\ counted' = Unknown
  /\ seen' = seen \cup {e}
  /\ UNCHANGED <<tombs, cutoff, outbox, due, accepted, script, sync, bounds, gone>>

\* listActivityRecords, prune.
List ==
  /\ record' = Pruned(record)
  /\ counted' = Unknown
  /\ UNCHANGED <<tombs, cutoff, hostVars, script, sync, bounds, seen, gone>>

\* Nothing under way can bring e back once a tombstone is kept for it: its
\* script is over on both sides, and every sync will drop it before it claims.
Quiet(e) ==
  /\ e \in Scripts => script[e].host # "running" /\ script[e].server # "waiting"
  /\ \A s \in Syncs : sync[s].pc # "idle" =>
       /\ e \notin sync[s].batch
       /\ e \in outbox => Awaits(s, "reconcile") /\ e \in sync[s].known

\* clearActivityRecords.
Clear ==
  /\ clears < MaxClears
  /\ clears' = clears + 1
  /\ tombs' = tombs \cup Recorded
  /\ record' = [e \in Events |-> "none"]
  /\ counted' = 0
  /\ gone' = gone \cup {e \in Recorded : Quiet(e)}
  /\ UNCHANGED <<cutoff, hostVars, script, sync, failures, seen>>

Age ==
  /\ cutoff < MaxCutoff
  /\ cutoff' = cutoff + 1
  /\ UNCHANGED <<record, tombs, counted, hostVars, script, sync, bounds, seen, gone>>

\* The database stays; calls, syncs and the cached counts do not.
ServerRestart ==
  /\ failures < MaxFailures
  /\ failures' = failures + 1
  /\ sync' = [s \in Syncs |-> NoSync]
  /\ script' = [e \in Scripts |->
       IF script[e].server = "waiting" THEN [script[e] EXCEPT !.server = "lost"] ELSE script[e]]
  /\ counted' = Unknown
  /\ UNCHANGED <<record, tombs, cutoff, hostVars, clears, seen, gone>>

\* The outbox stays; running scripts end without recording anything, and every
\* call to the host fails.
HostRestart ==
  /\ failures < MaxFailures
  /\ failures' = failures + 1
  /\ sync' = [s \in Syncs |-> NoSync]
  /\ script' = [e \in Scripts |->
       IF script[e].host = "running" THEN [script[e] EXCEPT !.host = "over"] ELSE script[e]]
  /\ UNCHANGED <<storeVars, hostVars, clears, seen, gone>>

-----------------------------------------------------------------------------
SyncStep(s) ==
  \/ HostReconcile(s) \/ RejectReconcile(s)
  \/ HostAckKnown(s) \/ KnownAcknowledged(s)
  \/ HostClaim(s) \/ NothingClaimed(s) \/ Claimed(s) \/ ClaimedDeletion(s)
  \/ InventoryRead(s) \/ HostAckBatch(s)

Next ==
  \/ \E e \in Scripts : ScriptStart(e) \/ HostRecords(e)
  \/ \E e \in Scripts, d \in {"host", "server"} : ScriptSettles(e, d)
  \/ \E e \in HostEvents : HostEvent(e)
  \/ \E e \in OwnerEvents : OwnerEvent(e) \/ Export(e)
  \/ \E e \in Events : BecomesDue(e)
  \/ \E s \in Syncs : SyncStart(s) \/ SyncStep(s) \/ SyncFails(s)
  \/ List \/ Clear \/ Age \/ ServerRestart \/ HostRestart

Spec == Init /\ [][Next]_vars

\* Calls are answered and delays pass.  Nothing makes a sync begin.
Fairness ==
  /\ \A s \in Syncs : WF_vars(SyncStep(s))
  /\ \A e \in Events : WF_vars(BecomesDue(e))
FairSpec == Spec /\ Fairness

-----------------------------------------------------------------------------
(* Properties *)

\* An event that the outbox has accepted is in the outbox until the server has
\* recorded it, through lost answers, concurrent syncs and restarts
\* (acknowledgeEventsNow, reconcileEventsNow, syncActivityBatch).
NothingIsLost == accepted \subseteq outbox \cup seen

\* What the owner has cleared does not come back from the host's outbox, even if
\* acknowledgements were lost before or after (clearActivityRecords,
\* acknowledgeClearedEvents); for events that nothing under way still carries.
ClearedStaysCleared == gone \cap Recorded = {}

\* The cached count never hides an overflow: a stream is never longer than its
\* limit (appendActivityEvent, pruneActivityRows).
StreamsStayShort ==
  /\ Cardinality(Recorded) <= RecordLimit
  /\ counted # Unknown => counted >= Cardinality(Recorded)

\* As long as syncs go on being requested, the outbox is emptied again and
\* again, whatever failed before, unless the server knows more ids than one call
\* may name (syncConnectedActivity, activityRetryDelay).
EventsArrive ==
  []<><<\E s \in Syncs : SyncStart(s)>>_vars =>
    []<>(outbox = {} \/ Cardinality(EventIds) > RecordLimit)
=============================================================================
