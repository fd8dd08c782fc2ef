--------------------------- MODULE ActivityProofs ---------------------------
(***************************************************************************)
(* Proofs about Activity for every set of events and syncs, every limit and *)
(* any number of failures and restarts: type correctness, that no accepted  *)
(* event is lost, that what was cleared stays cleared, and that no stream    *)
(* outgrows its limit.                                                      *)
(*                                                                         *)
(* Nothing is lost because the server only ever tells the host to drop ids  *)
(* that it has recorded at some time (Dropped).  What is cleared stays      *)
(* cleared because at that moment nothing under way carries it, and as long *)
(* as it is in the outbox its tombstone is there, so that every sync to     *)
(* come names it before it claims anything (Cleared).                       *)
(***************************************************************************)
EXTENDS Activity, FiniteSetTheorems, WellFoundedInduction, TLAPS

(* What a sync lets the host drop, and what makes it known, was recorded.    *)
Dropped ==
  /\ Recorded \subseteq seen /\ tombs \subseteq seen
  /\ \A s \in Syncs : /\ sync[s].known \subseteq seen
                      /\ Awaits(s, "ackBatch") => sync[s].batch \subseteq seen

Started == happened \cup {e \in Scripts : script[e].server # "unused"}

(* Nothing is recorded, kept or carried that has not happened.               *)
Caused ==
  /\ seen \subseteq Started /\ outbox \subseteq Started
  /\ \A s \in Syncs : sync[s].batch \subseteq Started
  /\ \A e \in Scripts : script[e].host = "running" => script[e].server # "unused"

Cleared ==
  \A e \in gone : /\ e \in seen /\ e \notin Recorded /\ Quiet(e)
                  /\ e \in outbox => e \in tombs

-----------------------------------------------------------------------------
(* The record store keeps no more of what it is given than it was given.     *)
LEMMA PrunedKeeps ==
  ASSUME NEW rec \in [Events -> {"none", "host", "server"}]
  PROVE /\ Pruned(rec) \in [Events -> {"none", "host", "server"}]
        /\ \A e \in Events : Pruned(rec)[e] \in {"none", rec[e]}
  BY DEF Pruned, Only

(* append records the event it is given and may drop others.                 *)
LEMMA AppendTypes ==
  ASSUME TypeOK, NEW e \in Events, NEW d \in {"host", "server"}, Append(e, d)
  PROVE /\ record' \in [Events -> {"none", "host", "server"}]
        /\ counted' \in Nat /\ seen' = seen \cup {e}
        /\ Recorded' \subseteq Recorded \cup {e}
<1> DEFINE before == IF counted = Unknown THEN Cardinality(Recorded) ELSE counted
           after == IF record[e] = "none" THEN before + 1 ELSE before
           rec == IF record[e] = "none" THEN [record EXCEPT ![e] = d] ELSE record
           fresh == Fresh(In(rec))
<1>1. Cardinality(Recorded) \in Nat
  BY EventsAssumption, FS_CardinalityType, FS_Subset DEF Recorded
<1>2. before \in Nat /\ after \in Nat
  BY <1>1, BoundsAssumption DEF TypeOK
<1>3. rec \in [Events -> {"none", "host", "server"}]
  BY DEF TypeOK
<1>4. \A f \in Events : f # e => rec[f] = record[f]
  BY DEF TypeOK
<1>5. /\ record' = Only(rec, IF after > RecordLimit THEN Newest(fresh) ELSE fresh)
      /\ counted' = IF after > RecordLimit THEN RecordLimit ELSE after
      /\ seen' = seen \cup {e}
  BY DEF Append
<1> HIDE DEF before, after, rec, fresh
<1>6. /\ record' \in [Events -> {"none", "host", "server"}]
      /\ \A f \in Events : record'[f] \in {"none", rec[f]}
  BY <1>3, <1>5 DEF Only
<1>7. counted' \in Nat
  BY <1>2, <1>5, BoundsAssumption
<1>8. Recorded' \subseteq Recorded \cup {e}
  BY <1>4, <1>6 DEF Recorded
<1> QED BY <1>5, <1>6, <1>7, <1>8

(* ingest records the batch and may drop others.                             *)
LEMMA IngestTypes ==
  ASSUME TypeOK, NEW E \in SUBSET Events, Ingest(E)
  PROVE /\ record' \in [Events -> {"none", "host", "server"}]
        /\ counted' = Unknown /\ seen' = seen \cup E
        /\ Recorded' \subseteq Recorded \cup E
<1> DEFINE rec == [e \in Events |-> IF e \in E THEN "host" ELSE record[e]]
<1>1. rec \in [Events -> {"none", "host", "server"}]
  BY DEF TypeOK
<1>2. record' = Pruned(rec) /\ counted' = Unknown /\ seen' = seen \cup E
  BY DEF Ingest
<1>3. \A e \in Events : rec[e] = IF e \in E THEN "host" ELSE record[e]
  OBVIOUS
<1> HIDE DEF rec
<1>4. /\ record' \in [Events -> {"none", "host", "server"}]
      /\ \A e \in Events : record'[e] \in {"none", rec[e]}
  BY <1>1, <1>2, PrunedKeeps
<1> QED BY <1>2, <1>3, <1>4 DEF Recorded

(* What a step may record: the event of a call that returns, one that happens *)
(* on the server now, or one that a sync brings.                              *)
Arrives(e) ==
  \/ e \in Scripts /\ script[e].server = "waiting"
  \/ e \in happened' \ happened
  \/ \E s \in Syncs : sync[s].pc \in {"claimed", "inventory"} /\ e \in sync[s].batch

Record(E) ==
  /\ record' \in [Events -> {"none", "host", "server"}]
  /\ counted' \in Nat \cup {Unknown}
  /\ seen' = seen \cup E
  /\ Recorded' \subseteq Recorded \cup E

(* Every step records events that arrive with it, and no other.              *)
LEMMA Records ==
  ASSUME TypeOK, [Next]_vars
  PROVE \E E \in SUBSET Events : Record(E) /\ \A e \in E : Arrives(e)
<1>1. CASE UNCHANGED <<record, seen>> /\ counted' \in {counted, Unknown}
  <2>1. Record({})
    BY <1>1 DEF TypeOK, Record, Recorded
  <2> QED BY <2>1
<1>2. ASSUME NEW e \in Scripts, NEW d \in {"host", "server"}, ScriptSettles(e, d)
      PROVE \E E \in SUBSET Events : Record(E) /\ \A f \in E : Arrives(f)
  <2>1. e \in Events
    BY DEF Events
  <2>2. CASE Append(e, d)
    <3>1. Record({e})
      BY <2>1, <2>2, AppendTypes DEF Record
    <3>2. Arrives(e)
      BY <1>2 DEF ScriptSettles, Arrives
    <3> QED BY <2>1, <3>1, <3>2
  <2> QED BY <1>1, <1>2, <2>2 DEF ScriptSettles
<1>3. ASSUME NEW e \in OwnerEvents, OwnerEvent(e) \/ Export(e)
      PROVE \E E \in SUBSET Events : Record(E) /\ \A f \in E : Arrives(f)
  <2>1. e \in Events /\ Arrives(e)
    BY <1>3 DEF Events, Arrives, OwnerEvent, Export
  <2>2. ASSUME OwnerEvent(e) PROVE Record({e})
    BY <2>1, <2>2, AppendTypes DEF OwnerEvent, Record
  <2>3. ASSUME Export(e) PROVE Record({e})
    <3> DEFINE rec == [record EXCEPT ![e] = "server"]
    <3>1. rec \in [Events -> {"none", "host", "server"}]
      BY DEF TypeOK
    <3>2. \A f \in Events : f # e => rec[f] = record[f]
      BY DEF TypeOK
    <3>3. record' = Pruned(rec) /\ counted' = Unknown /\ seen' = seen \cup {e}
      BY <2>3 DEF Export
    <3> HIDE DEF rec
    <3>4. /\ record' \in [Events -> {"none", "host", "server"}]
          /\ \A f \in Events : record'[f] \in {"none", rec[f]}
      BY <3>1, <3>3, PrunedKeeps
    <3>5. Recorded' \subseteq Recorded \cup {e}
      BY <3>2, <3>4 DEF Recorded
    <3> QED BY <2>1, <3>3, <3>4, <3>5 DEF Record
  <2>4. Record({e})
    BY <1>3, <2>2, <2>3
  <2> QED BY <2>1, <2>4
<1>4. ASSUME NEW s \in Syncs, Claimed(s) \/ InventoryRead(s)
      PROVE \E E \in SUBSET Events : Record(E) /\ \A f \in E : Arrives(f)
  <2>1. IngestBatch(s) /\ sync[s].pc \in {"claimed", "inventory"}
    BY <1>4 DEF Claimed, InventoryRead, Awaits
  <2>2. sync[s].batch \in SUBSET Events
    BY DEF TypeOK, SyncRecord
  <2>3. CASE Ingest(sync[s].batch)
    <3>1. Record(sync[s].batch)
      BY <2>2, <2>3, IngestTypes DEF Record
    <3>2. \A f \in sync[s].batch : Arrives(f)
      BY <2>1 DEF Arrives
    <3> QED BY <2>2, <3>1, <3>2
  <2> QED BY <1>1, <2>1, <2>3 DEF IngestBatch
<1>5. CASE List \/ Clear
  <2>1. /\ record' \in [Events -> {"none", "host", "server"}]
        /\ \A e \in Events : record'[e] \in {"none", record[e]}
    BY <1>5, PrunedKeeps DEF List, Clear, TypeOK
  <2>2. seen' = seen /\ counted' \in Nat \cup {Unknown}
    BY <1>5 DEF List, Clear
  <2>3. Record({})
    BY <2>1, <2>2 DEF Record, Recorded
  <2> QED BY <2>3
<1> QED
  BY <1>1, <1>2, <1>3, <1>4, <1>5
  DEF Next, vars, storeVars, hostVars, bounds, ScriptStart, HostRecords, HostEvent,
      BecomesDue, SyncStart, SyncStep, SyncFails, HostReconcile, RejectReconcile,
      HostAckKnown, KnownAcknowledged, HostClaim, NothingClaimed, ClaimedDeletion,
      HostAckBatch, Age, ServerRestart, HostRestart

-----------------------------------------------------------------------------
(* The host's outbox.                                                        *)
LEMMA OutboxTypes ==
  ASSUME TypeOK, [Next]_vars
  PROVE /\ outbox' \subseteq Events /\ due' \subseteq outbox' /\ accepted' \subseteq Events
        /\ happened' \subseteq HostEvents \cup OwnerEvents
<1> USE DEF TypeOK
<1>1. CASE UNCHANGED <<outbox, due, accepted>> /\ happened' \subseteq HostEvents \cup OwnerEvents
  BY <1>1
<1>2. ASSUME NEW e \in Events, Enqueue(e), happened' \subseteq HostEvents \cup OwnerEvents
      PROVE /\ outbox' \subseteq Events /\ due' \subseteq outbox'
            /\ accepted' \subseteq Events /\ happened' \subseteq HostEvents \cup OwnerEvents
  BY <1>2 DEF Enqueue
<1>3. CASE \E s \in Syncs : HostReconcile(s) \/ HostAckKnown(s) \/ HostAckBatch(s)
                              \/ HostClaim(s)
  BY <1>3 DEF HostReconcile, HostAckKnown, HostAckBatch, HostClaim, Acknowledged
<1>4. CASE \E e \in Events : BecomesDue(e)
  BY <1>4 DEF BecomesDue
<1> QED
  BY <1>1, <1>2, <1>3, <1>4
  DEF Next, vars, storeVars, hostVars, bounds, ScriptStart, HostRecords, HostEvent,
      SyncStart, SyncStep, SyncFails, RejectReconcile, KnownAcknowledged, NothingClaimed,
      Claimed, ClaimedDeletion, InventoryRead, ScriptSettles, OwnerEvent, Export, List,
      Clear, Age, ServerRestart, HostRestart, Events

(* Every script is where its two calls are.                                  *)
LEMMA ScriptTypes ==
  ASSUME TypeOK, [Next]_vars PROVE script' \in [Scripts -> ScriptRecord]
<1>1. CASE UNCHANGED script
  BY <1>1 DEF TypeOK
<1>2. ASSUME NEW e \in Scripts, NEW r \in ScriptRecord, script' = [script EXCEPT ![e] = r]
      PROVE script' \in [Scripts -> ScriptRecord]
  BY <1>2 DEF TypeOK
<1>3. \A r \in ScriptRecord : /\ [r EXCEPT !.host = "over"] \in ScriptRecord
                              /\ [r EXCEPT !.server = "lost"] \in ScriptRecord
                              /\ [r EXCEPT !.server = "settled"] \in ScriptRecord
  BY DEF ScriptRecord
<1>4. ASSUME NEW e \in Scripts,
             ScriptStart(e) \/ HostRecords(e) \/ ScriptSettles(e, "host")
               \/ ScriptSettles(e, "server")
      PROVE script' \in [Scripts -> ScriptRecord]
  <2>1. script[e] \in ScriptRecord
    BY DEF TypeOK
  <2>2. [host |-> "running", server |-> "waiting"] \in ScriptRecord
    BY DEF ScriptRecord
  <2> QED
    BY <1>2, <1>3, <1>4, <2>1, <2>2 DEF ScriptStart, HostRecords, ScriptSettles, TypeOK
<1>5. CASE ServerRestart \/ HostRestart
  BY <1>3, <1>5 DEF ServerRestart, HostRestart, TypeOK
<1> QED
  BY <1>1, <1>4, <1>5
  DEF Next, vars, storeVars, hostVars, bounds, HostEvent, BecomesDue, SyncStart, SyncStep,
      SyncFails, HostReconcile, RejectReconcile, HostAckKnown, KnownAcknowledged, HostClaim,
      NothingClaimed, Claimed, ClaimedDeletion, InventoryRead, HostAckBatch, OwnerEvent,
      Export, List, Clear, Age

(* Every sync awaits one of its calls.                                       *)
LEMMA SyncTypes ==
  ASSUME TypeOK, [Next]_vars PROVE sync' \in [Syncs -> SyncRecord]
<1>0. \A s \in Syncs : sync[s] \in SyncRecord
  BY DEF TypeOK
<1>1. CASE UNCHANGED sync \/ sync' = [s \in Syncs |-> NoSync]
  BY <1>1 DEF TypeOK, NoSync, SyncRecord
<1>2. ASSUME NEW s \in Syncs, NEW r \in SyncRecord, sync' = [sync EXCEPT ![s] = r]
      PROVE sync' \in [Syncs -> SyncRecord]
  BY <1>2 DEF TypeOK
<1>3. ASSUME NEW s \in Syncs, NEW c \in {"reconcile", "ackKnown", "known", "claim",
                                         "claimed", "inventory", "ackBatch"},
             sync' = Goes(s, c)
      PROVE sync' \in [Syncs -> SyncRecord]
  <2>1. [sync[s] EXCEPT !.pc = c] \in SyncRecord
    BY <1>0 DEF SyncRecord
  <2> QED BY <1>2, <1>3, <2>1 DEF Goes, TypeOK
<1>4. ASSUME NEW s \in Syncs, sync' = Over(s)
      PROVE sync' \in [Syncs -> SyncRecord]
  <2>1. NoSync \in SyncRecord
    BY DEF NoSync, SyncRecord
  <2> QED BY <1>2, <1>4, <2>1 DEF Over
<1>5. ASSUME NEW s \in Syncs, HostClaim(s)
      PROVE sync' \in [Syncs -> SyncRecord]
  <2>1. PICK E \in SUBSET due : sync' = [sync EXCEPT ![s].pc = "claimed", ![s].batch = E]
    BY <1>5 DEF HostClaim
  <2>2. E \in SUBSET Events
    BY DEF TypeOK
  <2>3. [sync[s] EXCEPT !.pc = "claimed", !.batch = E] \in SyncRecord
    BY <1>0, <2>2 DEF SyncRecord
  <2> QED BY <2>1, <2>3 DEF TypeOK
<1>6. ASSUME NEW s \in Syncs, HostAckBatch(s)
      PROVE sync' \in [Syncs -> SyncRecord]
  BY <1>0, <1>6, <1>2 DEF HostAckBatch, SyncRecord
<1>7. ASSUME NEW s \in Syncs, SyncStart(s)
      PROVE sync' \in [Syncs -> SyncRecord]
  <2>1. EventIds \in SUBSET Events
    BY DEF EventIds, Recorded, TypeOK
  <2> QED BY <1>2, <1>7, <2>1 DEF SyncStart, SyncRecord
<1>8. ASSUME NEW s \in Syncs,
             SyncStep(s) \/ SyncFails(s), ~HostClaim(s), ~HostAckBatch(s)
      PROVE sync' \in [Syncs -> SyncRecord]
  BY <1>3, <1>4, <1>8
  DEF SyncStep, SyncFails, HostReconcile, RejectReconcile, HostAckKnown, KnownAcknowledged,
      NothingClaimed, Claimed, ClaimedDeletion, InventoryRead, IngestBatch
<1> QED
  BY <1>1, <1>5, <1>6, <1>7, <1>8
  DEF Next, vars, storeVars, hostVars, bounds, ScriptStart, HostRecords, HostEvent,
      BecomesDue, ScriptSettles, OwnerEvent, Export, List, Clear, Age, ServerRestart,
      HostRestart, SyncStep

(* Every step keeps the types.                                               *)
LEMMA TypeKept ==
  ASSUME TypeOK, [Next]_vars PROVE TypeOK'
<1>1. PICK E \in SUBSET Events : Record(E)
  BY Records
<1>2. /\ tombs' \subseteq Events /\ gone' \subseteq Events
      /\ cutoff' \in 0..MaxCutoff /\ clears' \in 0..MaxClears
      /\ failures' \in 0..MaxFailures
  <2>1. \/ UNCHANGED <<tombs, cutoff, clears, failures, gone>>
        \/ \E s \in Syncs : KnownAcknowledged(s) \/ SyncFails(s)
        \/ Clear \/ Age \/ ServerRestart \/ HostRestart
    BY DEF Next, vars, storeVars, hostVars, bounds, ScriptStart, HostRecords,
        HostEvent, BecomesDue, SyncStart, SyncStep, HostReconcile,
        RejectReconcile, HostAckKnown, HostClaim, NothingClaimed,
        Claimed, ClaimedDeletion, InventoryRead, HostAckBatch, ScriptSettles, OwnerEvent,
        Export, List
  <2>2. CASE UNCHANGED <<tombs, cutoff, clears, failures, gone>>
    BY <2>2 DEF TypeOK
  <2>3. CASE \E s \in Syncs : KnownAcknowledged(s) \/ SyncFails(s)
    BY <2>3, BoundsAssumption DEF TypeOK, KnownAcknowledged, SyncFails, storeVars, bounds
  <2>4. CASE Clear
    BY <2>4, BoundsAssumption DEF TypeOK, Clear, Recorded
  <2>5. CASE Age \/ ServerRestart \/ HostRestart
    BY <2>5, BoundsAssumption DEF TypeOK, Age, ServerRestart, HostRestart, storeVars, bounds
  <2> QED BY <2>1, <2>2, <2>3, <2>4, <2>5
<1> QED BY <1>1, <1>2, OutboxTypes, ScriptTypes, SyncTypes DEF Record, TypeOK

-----------------------------------------------------------------------------
(* How the parts of the state move, whatever the step.                       *)

(* Something enters the outbox only when it happens, and leaves it only on    *)
(* the word of a sync.                                                       *)
LEMMA OutboxMoves ==
  ASSUME TypeOK, [Next]_vars
  PROVE /\ \A e \in outbox' \ outbox :
             \/ e \in Scripts /\ script[e].host = "running"
             \/ e \in happened' \ happened
        /\ accepted' \subseteq accepted \cup outbox'
        /\ \A e \in outbox \ outbox' : \E s \in Syncs :
             \/ Awaits(s, "reconcile") /\ e \in sync[s].known
             \/ Awaits(s, "ackKnown") /\ e \in sync[s].known
             \/ Awaits(s, "ackBatch") /\ e \in sync[s].batch
<1>1. CASE UNCHANGED <<outbox, accepted>>
  BY <1>1
<1>2. CASE \E e \in Scripts : HostRecords(e)
  BY <1>2 DEF HostRecords, Enqueue
<1>3. CASE \E e \in HostEvents : HostEvent(e)
  BY <1>3 DEF HostEvent, Enqueue
<1>4. CASE \E s \in Syncs : HostReconcile(s) \/ HostAckKnown(s) \/ HostAckBatch(s)
  BY <1>4 DEF HostReconcile, HostAckKnown, HostAckBatch, Acknowledged
<1> QED
  BY <1>1, <1>2, <1>3, <1>4
  DEF Next, vars, storeVars, hostVars, bounds, ScriptStart, BecomesDue, HostClaim,
      SyncStart, SyncStep, SyncFails, RejectReconcile, KnownAcknowledged, NothingClaimed,
      Claimed, ClaimedDeletion, InventoryRead, ScriptSettles, OwnerEvent, Export, List,
      Clear, Age, ServerRestart, HostRestart

(* A script starts once, on both sides.                                      *)
LEMMA ScriptMoves ==
  ASSUME TypeOK, [Next]_vars
  PROVE /\ happened \subseteq happened'
        /\ \A e \in Scripts :
             /\ script[e].server # "unused" =>
                  /\ script'[e].server # "unused"
                  /\ script'[e].server = "waiting" => script[e].server = "waiting"
                  /\ script'[e].host = "running" => script[e].host = "running"
             /\ script'[e].host = "running" =>
                  script[e].host = "running" \/ script'[e].server # "unused"
<1>1. CASE UNCHANGED script
  <2>1. happened \subseteq happened'
    BY <1>1
    DEF Next, vars, storeVars, hostVars, bounds, ScriptStart, HostRecords, HostEvent,
        BecomesDue, SyncStart, SyncStep, SyncFails, HostReconcile, RejectReconcile,
        HostAckKnown, KnownAcknowledged, HostClaim, NothingClaimed, Claimed,
        ClaimedDeletion, InventoryRead, HostAckBatch, ScriptSettles, OwnerEvent, Export,
        List, Clear, Age, ServerRestart, HostRestart
  <2> QED BY <1>1, <2>1
<1>2. ASSUME NEW e \in Scripts,
             ScriptStart(e) \/ HostRecords(e) \/ ScriptSettles(e, "host")
               \/ ScriptSettles(e, "server")
      PROVE /\ UNCHANGED happened
            /\ \A f \in Scripts : f # e => script'[f] = script[f]
            /\ script[e].server # "unused" =>
                  /\ script'[e].server # "unused"
                  /\ script'[e].server = "waiting" => script[e].server = "waiting"
                  /\ script'[e].host = "running" => script[e].host = "running"
            /\ script'[e].host = "running" =>
                  script[e].host = "running" \/ script'[e].server # "unused"
  <2>1. script \in [Scripts -> ScriptRecord] /\ script[e] \in ScriptRecord
    BY DEF TypeOK
  <2>2. CASE ScriptStart(e)
    BY <2>1, <2>2 DEF ScriptStart, hostVars
  <2>3. CASE HostRecords(e)
    BY <2>1, <2>3 DEF HostRecords, ScriptRecord
  <2>4. CASE ScriptSettles(e, "host") \/ ScriptSettles(e, "server")
    BY <2>1, <2>4 DEF ScriptSettles, hostVars, ScriptRecord
  <2> QED BY <1>2, <2>2, <2>3, <2>4
<1>3. CASE ServerRestart \/ HostRestart
  <2>1. \A e \in Scripts : script[e] \in ScriptRecord
    BY DEF TypeOK
  <2>2. UNCHANGED happened
    BY <1>3 DEF ServerRestart, HostRestart, hostVars
  <2>3. \A e \in Scripts :
          /\ script'[e].server \in {script[e].server, "lost"}
          /\ script'[e].host \in {script[e].host, "over"}
          /\ script[e].server = "unused" => script'[e].server = "unused"
    BY <1>3, <2>1 DEF ServerRestart, HostRestart, ScriptRecord
  <2> QED BY <2>2, <2>3
<1> QED
  <2>1. CASE \E e \in Scripts : ScriptStart(e) \/ HostRecords(e)
                                  \/ ScriptSettles(e, "host") \/ ScriptSettles(e, "server")
    BY <1>2, <2>1
  <2> QED
    BY <1>1, <1>3, <2>1
    DEF Next, vars, storeVars, hostVars, bounds, HostEvent, BecomesDue, SyncStart,
        SyncStep, SyncFails, HostReconcile, RejectReconcile, HostAckKnown,
        KnownAcknowledged, HostClaim, NothingClaimed, Claimed, ClaimedDeletion,
        InventoryRead, HostAckBatch, OwnerEvent, Export, List, Clear, Age

(* A sync stays, ends, begins, or takes the next of its calls.               *)
SyncMove(s) ==
  \/ sync'[s] = sync[s] \/ sync'[s] = NoSync
  \/ sync'[s] = [pc |-> "reconcile", known |-> EventIds, batch |-> {}]
  \/ /\ sync[s].pc = "reconcile" /\ outbox' = outbox \ sync[s].known
     /\ sync'[s].pc \in {"ackKnown", "claim"}
     /\ sync'[s].known = sync[s].known /\ sync'[s].batch = sync[s].batch
  \/ /\ sync[s].pc \in {"ackKnown", "known", "claimed"}
     /\ sync'[s].pc \in {"known", "claim", "inventory"} /\ outbox' \subseteq outbox
     /\ sync'[s].known = sync[s].known /\ sync'[s].batch = sync[s].batch
  \/ /\ sync[s].pc = "claim" /\ sync'[s].pc = "claimed"
     /\ sync'[s].known = sync[s].known /\ sync'[s].batch \subseteq outbox
  \/ /\ sync[s].pc \in {"claimed", "inventory"} /\ sync'[s].pc = "ackBatch"
     /\ sync'[s].known = sync[s].known /\ sync'[s].batch = sync[s].batch
     /\ sync[s].batch \subseteq seen'
  \/ /\ sync[s].pc = "ackBatch" /\ sync'[s].pc = "reconcile"
     /\ sync'[s].known = sync[s].known \cup sync[s].batch /\ sync'[s].batch = {}

(* Every step moves a sync in one of these ways.                             *)
LEMMA SyncMoves ==
  ASSUME TypeOK, [Next]_vars, NEW s \in Syncs PROVE SyncMove(s)
<1>0. sync \in [Syncs -> SyncRecord] /\ sync[s] \in SyncRecord
  BY DEF TypeOK
<1>1. CASE UNCHANGED sync \/ sync' = [t \in Syncs |-> NoSync]
  BY <1>1 DEF SyncMove
<1>2. ASSUME NEW t \in Syncs, t # s,
             SyncStart(t) \/ SyncStep(t) \/ SyncFails(t)
      PROVE SyncMove(s)
  <2>1. sync'[s] = sync[s]
    BY <1>0, <1>2
    DEF SyncStart, SyncStep, SyncFails, HostReconcile, RejectReconcile, HostAckKnown,
        KnownAcknowledged, HostClaim, NothingClaimed, Claimed, ClaimedDeletion,
        InventoryRead, HostAckBatch, IngestBatch, Goes, Over
  <2> QED BY <2>1 DEF SyncMove
<1>3. CASE SyncStart(s) \/ SyncFails(s) \/ RejectReconcile(s) \/ NothingClaimed(s)
  BY <1>0, <1>3 DEF SyncStart, SyncFails, RejectReconcile, NothingClaimed, Over, SyncMove
<1>4. CASE HostReconcile(s)
  <2>1. /\ sync'[s].pc \in {"ackKnown", "claim"}
        /\ sync'[s].known = sync[s].known /\ sync'[s].batch = sync[s].batch
    BY <1>0, <1>4 DEF HostReconcile, Goes, SyncRecord
  <2> QED BY <1>4, <2>1 DEF HostReconcile, Acknowledged, Awaits, SyncMove
<1>5. CASE HostAckKnown(s) \/ KnownAcknowledged(s) \/ ClaimedDeletion(s)
  <2>1. /\ sync'[s].pc \in {"known", "claim", "inventory"}
        /\ sync'[s].known = sync[s].known /\ sync'[s].batch = sync[s].batch
    BY <1>0, <1>5 DEF HostAckKnown, KnownAcknowledged, ClaimedDeletion, Goes, SyncRecord
  <2>2. outbox' \subseteq outbox
    BY <1>5 DEF HostAckKnown, KnownAcknowledged, ClaimedDeletion, Acknowledged, hostVars
  <2> QED
    BY <1>5, <2>1, <2>2
    DEF HostAckKnown, KnownAcknowledged, ClaimedDeletion, Awaits, SyncMove
<1>6. CASE HostClaim(s)
  <2>1. PICK E \in SUBSET due : sync' = [sync EXCEPT ![s].pc = "claimed", ![s].batch = E]
    BY <1>6 DEF HostClaim
  <2>2. sync'[s].pc = "claimed" /\ sync'[s].known = sync[s].known /\ sync'[s].batch = E
    BY <1>0, <2>1 DEF SyncRecord
  <2>3. E \subseteq outbox
    BY DEF TypeOK
  <2> QED BY <1>6, <2>2, <2>3 DEF HostClaim, Awaits, SyncMove
<1>7. CASE Claimed(s) \/ InventoryRead(s)
  <2>1. IngestBatch(s) /\ sync[s].pc \in {"claimed", "inventory"}
    BY <1>7 DEF Claimed, InventoryRead, Awaits
  <2>2. CASE sync' = Over(s)
    BY <1>0, <2>2 DEF Over, SyncMove
  <2>3. CASE sync' = Goes(s, "ackBatch") /\ Ingest(sync[s].batch)
    <3>1. /\ sync'[s].pc = "ackBatch"
          /\ sync'[s].known = sync[s].known /\ sync'[s].batch = sync[s].batch
      BY <1>0, <2>3 DEF Goes, SyncRecord
    <3>2. sync[s].batch \subseteq seen'
      BY <2>3 DEF Ingest
    <3> QED BY <2>1, <3>1, <3>2 DEF SyncMove
  <2> QED BY <2>1, <2>2, <2>3 DEF IngestBatch
<1>8. CASE HostAckBatch(s)
  BY <1>0, <1>8 DEF HostAckBatch, Awaits, SyncMove
<1> QED
  BY <1>1, <1>2, <1>3, <1>4, <1>5, <1>6, <1>7, <1>8
  DEF Next, vars, storeVars, hostVars, bounds, ScriptStart, HostRecords, HostEvent,
      BecomesDue, ScriptSettles, OwnerEvent, Export, List, Clear, Age, ServerRestart,
      HostRestart, SyncStep

(* A tombstone goes only when a sync has made the host drop the event, and    *)
(* comes only with a clear.                                                  *)
LEMMA TombMoves ==
  ASSUME [Next]_vars
  PROVE \/ UNCHANGED <<tombs, gone>>
        \/ /\ UNCHANGED gone
           /\ \E s \in Syncs : sync[s].pc = "known" /\ tombs' = tombs \ sync[s].known
        \/ Clear
  BY DEF Next, vars, storeVars, hostVars, bounds, ScriptStart, HostRecords, HostEvent,
         BecomesDue, SyncStart, SyncStep, SyncFails, HostReconcile, RejectReconcile,
         HostAckKnown, KnownAcknowledged, HostClaim, NothingClaimed, Claimed,
         ClaimedDeletion, InventoryRead, HostAckBatch, ScriptSettles, OwnerEvent, Export,
         List, Age, ServerRestart, HostRestart, Awaits

-----------------------------------------------------------------------------
(* The invariants are kept.                                                  *)

(* The server names only what it has recorded.                               *)
LEMMA DroppedKept ==
  ASSUME TypeOK, Dropped, [Next]_vars PROVE Dropped'
<1>1. PICK E \in SUBSET Events : Record(E)
  BY Records
<1>2. seen \subseteq seen' /\ Recorded' \subseteq seen'
  BY <1>1 DEF Record, Dropped
<1>3. tombs' \subseteq seen'
  BY <1>2, TombMoves DEF Clear, Dropped
<1>4. ASSUME NEW s \in Syncs
      PROVE /\ sync'[s].known \subseteq seen'
            /\ sync'[s].pc = "ackBatch" => sync'[s].batch \subseteq seen'
  <2>1. EventIds \subseteq seen
    BY DEF EventIds, Dropped
  <2> QED BY <1>2, <2>1, SyncMoves DEF SyncMove, Dropped, NoSync, Awaits
<1> QED BY <1>2, <1>3, <1>4 DEF Dropped, Awaits

(* Only what happens is recorded, kept or carried.                           *)
LEMMA CausedKept ==
  ASSUME TypeOK, Caused, [Next]_vars PROVE Caused'
<1>1. Started \subseteq Started'
  BY ScriptMoves DEF Started
<1>2. seen' \subseteq Started'
  <2>1. PICK E \in SUBSET Events : Record(E) /\ \A e \in E : Arrives(e)
    BY Records
  <2>2. \A e \in E : e \in Started'
    BY <1>1, <2>1 DEF Arrives, Started, Caused
  <2> QED BY <1>1, <2>1, <2>2 DEF Record, Caused
<1>3. outbox' \subseteq Started'
  <2>1. \A e \in outbox' \ outbox : e \in Started'
    BY <1>1, OutboxMoves DEF Caused, Started
  <2> QED BY <1>1, <2>1 DEF Caused
<1>4. \A s \in Syncs : sync'[s].batch \subseteq Started'
  BY <1>1, SyncMoves DEF SyncMove, NoSync, Caused
<1>5. \A e \in Scripts : script'[e].host = "running" => script'[e].server # "unused"
  BY ScriptMoves DEF Caused
<1> QED BY <1>2, <1>3, <1>4, <1>5 DEF Caused

(* Nothing under way brings back what was cleared.                           *)
LEMMA ClearedKept ==
  ASSUME TypeOK, Dropped, Caused, Cleared, [Next]_vars PROVE Cleared'
<1>1. CASE Clear
  <2>1. UNCHANGED <<outbox, script, sync, seen>> /\ Recorded' = {}
    BY <1>1 DEF Clear, hostVars, Recorded
  <2>2. \A e : Quiet(e) => Quiet(e)'
    BY <2>1 DEF Quiet, Awaits
  <2>3. tombs' = tombs \cup Recorded /\ gone' = gone \cup {e \in Recorded : Quiet(e)}
    BY <1>1 DEF Clear
  <2> QED BY <2>1, <2>2, <2>3 DEF Cleared, Dropped
<1>2. ASSUME ~Clear, NEW e \in gone'
      PROVE /\ e \in seen' /\ e \notin Recorded' /\ Quiet(e)'
            /\ e \in outbox' => e \in tombs'
  <2>1. /\ e \in gone /\ e \in seen /\ e \notin Recorded /\ Quiet(e)
        /\ e \in outbox => e \in tombs
    BY <1>2, TombMoves DEF Cleared
  <2>2. e \notin happened => e \in Scripts /\ script[e].server # "unused"
    BY <2>1 DEF Caused, Started
  <2>3. e \notin happened' \ happened
    BY <2>2, OutboxTypes, EventsAssumption DEF Events
  <2>4. e \in Scripts => script[e].server # "unused"
    BY <2>2, EventsAssumption DEF TypeOK
  <2>5. ~Arrives(e)
    BY <2>1, <2>3 DEF Arrives, Quiet
  <2>6. e \in seen' /\ e \notin Recorded'
    BY <2>1, <2>5, Records DEF Record
  <2>7. e \in outbox' => e \in outbox
    BY <2>1, <2>3, OutboxMoves DEF Quiet
  <2>8. e \in Scripts => script'[e].host # "running" /\ script'[e].server # "waiting"
    BY <2>1, <2>4, ScriptMoves DEF Quiet
  <2>9. ASSUME NEW s \in Syncs, sync'[s].pc # "idle"
        PROVE /\ e \notin sync'[s].batch
              /\ e \in outbox' => sync'[s].pc = "reconcile" /\ e \in sync'[s].known
    <3>1. sync[s].pc # "idle" =>
            /\ e \notin sync[s].batch
            /\ e \in outbox => sync[s].pc = "reconcile" /\ e \in sync[s].known
      BY <2>1 DEF Quiet, Awaits
    <3>2. e \in outbox => e \in EventIds
      BY <2>1 DEF EventIds
    <3>3. SyncMove(s)
      BY SyncMoves
    <3> QED BY <2>7, <2>9, <3>1, <3>2, <3>3 DEF SyncMove, NoSync
  <2>10. Quiet(e)'
    BY <2>8, <2>9 DEF Quiet, Awaits
  <2>11. e \in outbox' => e \in tombs'
    <3>1. \A s \in Syncs : sync[s].pc = "known" => e \notin outbox
      BY <2>1 DEF Quiet, Awaits
    <3> QED BY <1>2, <2>1, <2>7, <3>1, TombMoves
  <2> QED BY <2>6, <2>10, <2>11
<1> QED BY <1>1, <1>2 DEF Cleared

(* An accepted event leaves the outbox for the record store.                 *)
LEMMA AcceptedKept ==
  ASSUME TypeOK, Dropped, NothingIsLost, [Next]_vars PROVE NothingIsLost'
<1>1. seen \subseteq seen'
  BY Records DEF Record
<1>2. \A e \in outbox \ outbox' : e \in seen
  BY OutboxMoves DEF Dropped
<1> QED BY <1>1, <1>2, OutboxMoves DEF NothingIsLost

(* How long a stream is: the newest records, and the count that is cached.   *)

(* The newest records of a finite set are at most RecordLimit: all of them   *)
(* but the oldest are newer than the oldest, which is one of the newest.     *)
LEMMA NewestAreFew ==
  ASSUME NEW E, E \subseteq Events
  PROVE Cardinality(Newest(E)) \in Nat /\ Cardinality(Newest(E)) <= RecordLimit
<1> DEFINE N == Newest(E)
<1>1. N \subseteq E /\ IsFiniteSet(E) /\ IsFiniteSet(N)
  BY EventsAssumption, FS_Subset DEF Newest
<1>2. Cardinality(N) \in Nat
  BY <1>1, FS_CardinalityType
<1>3. CASE N = {}
  BY <1>2, <1>3, FS_EmptySet, BoundsAssumption
<1>4. CASE N # {}
  <2>1. N \subseteq Nat
    BY <1>1, EventsAssumption
  <2>2. PICK m \in N : \A e \in N : ~(<<e, m>> \in OpToRel(<, Nat))
    BY <1>4, <2>1, NatLessThanWellFounded, WFMin
  <2>3. \A e \in N : ~(e < m)
    BY <2>1, <2>2 DEF OpToRel
  <2> DEFINE later == {f \in E : f > m}
  <2>4. Cardinality(later) < RecordLimit
    BY <2>2 DEF Newest
  <2>5. N \ {m} \subseteq later
    <3> HIDE DEF N
    <3>1. ASSUME NEW e \in N, e # m PROVE e > m
      <4>1. e \in Nat /\ m \in Nat /\ ~(e < m)
        BY <2>1, <2>2, <2>3
      <4> QED BY <3>1, <4>1
    <3> QED BY <1>1, <3>1
  <2>6. IsFiniteSet(later) /\ later \subseteq E
    BY <1>1, FS_Subset
  <2>7. Cardinality(later) \in Nat
    BY <2>6, FS_CardinalityType
  <2> HIDE DEF later
  <2>8. Cardinality(N \ {m}) <= Cardinality(later)
    BY <2>5, <2>6, FS_Subset
  <2>9. Cardinality(N \ {m}) = Cardinality(N) - 1
    BY <1>1, <2>2, FS_RemoveElement
  <2> HIDE DEF N
  <2>10. Cardinality(N) <= RecordLimit
    BY <1>2, <2>4, <2>7, <2>8, <2>9, BoundsAssumption
  <2> QED BY <1>2, <2>10 DEF N
<1> QED BY <1>3, <1>4

(* What Only keeps is what is there to keep.                                 *)
LEMMA OnlyKeeps ==
  ASSUME NEW rec \in [Events -> {"none", "host", "server"}], NEW E
  PROVE In(Only(rec, E)) = In(rec) \cap E
  BY DEF In, Only

LEMMA Counts ==
  ASSUME NEW E, E \subseteq Events, NEW F, F \subseteq E
  PROVE /\ IsFiniteSet(E) /\ Cardinality(E) \in Nat
        /\ IsFiniteSet(F) /\ Cardinality(F) \in Nat
        /\ Cardinality(F) <= Cardinality(E)
<1>1. IsFiniteSet(E) /\ IsFiniteSet(F)
  BY EventsAssumption, FS_Subset
<1> QED BY <1>1, FS_Subset, FS_CardinalityType

(* A stream that was pruned is short.                                        *)
LEMMA PrunedIsShort ==
  ASSUME NEW rec \in [Events -> {"none", "host", "server"}]
  PROVE Cardinality(In(Pruned(rec))) <= RecordLimit
<1>1. Newest(Fresh(In(rec))) \subseteq In(rec)
  BY DEF Newest, Fresh
<1>2. In(Pruned(rec)) = Newest(Fresh(In(rec)))
  BY <1>1, OnlyKeeps DEF Pruned
<1> QED BY <1>2, NewestAreFew DEF Fresh, In

(* append keeps a stream short that was short, and its count an upper bound. *)
LEMMA AppendKeepsShort ==
  ASSUME TypeOK, StreamsStayShort, NEW e \in Events, NEW d \in {"host", "server"},
         Append(e, d)
  PROVE StreamsStayShort'
<1> DEFINE before == IF counted = Unknown THEN Cardinality(Recorded) ELSE counted
           after == IF record[e] = "none" THEN before + 1 ELSE before
           rec == IF record[e] = "none" THEN [record EXCEPT ![e] = d] ELSE record
           fresh == Fresh(In(rec))
           kept == IF after > RecordLimit THEN Newest(fresh) ELSE fresh
<1>1. rec \in [Events -> {"none", "host", "server"}]
  BY DEF TypeOK
<1>2. In(rec) = Recorded \cup {e}
  BY DEF In, Recorded, TypeOK, Append
<1>3. record[e] = "none" <=> e \notin Recorded
  BY DEF Recorded
<1>4. record' = Only(rec, kept) /\ counted' = IF after > RecordLimit THEN RecordLimit ELSE after
  BY DEF Append
<1>5. Cardinality(Recorded) \in Nat /\ IsFiniteSet(Recorded)
  BY Counts DEF Recorded
<1>6. before \in Nat /\ before >= Cardinality(Recorded)
  BY <1>5 DEF TypeOK, StreamsStayShort
<1>7. Cardinality(In(rec)) = IF record[e] = "none" THEN Cardinality(Recorded) + 1
                             ELSE Cardinality(Recorded)
  BY <1>2, <1>3, <1>5, FS_AddElement
<1> HIDE DEF before, rec
<1>8. after \in Nat /\ Cardinality(In(rec)) <= after
  BY <1>5, <1>6, <1>7
<1> HIDE DEF after
<1>9. fresh \subseteq In(rec) /\ In(rec) \subseteq Events /\ kept \subseteq fresh
  BY DEF Fresh, In, Newest
<1>10. Recorded' = kept
  <2>1. In(Only(rec, kept)) = kept
    BY <1>1, <1>9, OnlyKeeps
  <2> QED BY <1>4, <2>1 DEF Recorded, In
<1>11. CASE after > RecordLimit
  <2>1. Cardinality(kept) <= RecordLimit
    BY <1>9, <1>11, NewestAreFew
  <2>2. counted' = RecordLimit
    BY <1>4, <1>11
  <2> HIDE DEF kept
  <2> QED BY <1>10, <2>1, <2>2, BoundsAssumption DEF StreamsStayShort
<1>12. CASE ~(after > RecordLimit)
  <2>1. Cardinality(kept) \in Nat /\ Cardinality(kept) <= Cardinality(In(rec))
    BY <1>9, Counts
  <2>2. counted' = after
    BY <1>4, <1>12
  <2>3. Cardinality(In(rec)) \in Nat
    BY <1>9, Counts
  <2> HIDE DEF kept
  <2>4. Cardinality(kept) <= after /\ after <= RecordLimit
    BY <1>8, <1>12, <2>1, <2>3, BoundsAssumption
  <2> QED BY <1>8, <1>10, <2>1, <2>2, <2>4, BoundsAssumption DEF StreamsStayShort
<1> QED BY <1>11, <1>12

(* Every step keeps the streams short: whoever records without counting     *)
(* prunes and forgets the count.                                            *)
LEMMA StreamsKept ==
  ASSUME TypeOK, StreamsStayShort, [Next]_vars PROVE StreamsStayShort'
<1>1. ASSUME NEW rec \in [Events -> {"none", "host", "server"}],
             record' = Pruned(rec), counted' = Unknown
      PROVE StreamsStayShort'
  <2>1. Recorded' = In(Pruned(rec))
    BY <1>1 DEF Recorded, In
  <2> QED BY <1>1, <2>1, PrunedIsShort DEF StreamsStayShort
<1>2. ASSUME UNCHANGED <<record, counted>> PROVE StreamsStayShort'
  BY <1>2 DEF StreamsStayShort, Recorded
<1>3. ASSUME NEW E, Ingest(E) PROVE StreamsStayShort'
  <2>1. [e \in Events |-> IF e \in E THEN "host" ELSE record[e]]
          \in [Events -> {"none", "host", "server"}]
    BY DEF TypeOK
  <2> QED BY <1>1, <1>3, <2>1 DEF Ingest
<1>4. ASSUME NEW s \in Syncs, IngestBatch(s) PROVE StreamsStayShort'
  BY <1>2, <1>3, <1>4 DEF IngestBatch
<1> USE DEF storeVars
<1>5. ASSUME NEW e \in Scripts, ScriptStart(e) \/ HostRecords(e)
      PROVE StreamsStayShort'
  BY <1>2, <1>5 DEF ScriptStart, HostRecords
<1>6. ASSUME NEW e \in Scripts, NEW d \in {"host", "server"}, ScriptSettles(e, d)
      PROVE StreamsStayShort'
  BY <1>2, <1>6, AppendKeepsShort DEF ScriptSettles, Events
<1>7. ASSUME NEW e \in HostEvents, HostEvent(e) PROVE StreamsStayShort'
  BY <1>2, <1>7 DEF HostEvent
<1>8. ASSUME NEW e \in OwnerEvents, OwnerEvent(e) PROVE StreamsStayShort'
  BY <1>8, AppendKeepsShort DEF OwnerEvent, Events
<1>9. ASSUME NEW e \in OwnerEvents, Export(e) PROVE StreamsStayShort'
  <2>1. [record EXCEPT ![e] = "server"] \in [Events -> {"none", "host", "server"}]
    BY DEF TypeOK
  <2> QED BY <1>1, <1>9, <2>1 DEF Export
<1>10. ASSUME NEW e \in Events, BecomesDue(e) PROVE StreamsStayShort'
  BY <1>2, <1>10 DEF BecomesDue
<1>11. ASSUME NEW s \in Syncs, SyncStart(s) \/ SyncFails(s) PROVE StreamsStayShort'
  BY <1>2, <1>11 DEF SyncStart, SyncFails
<1>12. ASSUME NEW s \in Syncs, SyncStep(s) PROVE StreamsStayShort'
  <2>1. CASE Claimed(s) \/ InventoryRead(s)
    BY <1>4, <2>1 DEF Claimed, InventoryRead
  <2>2. CASE ~(Claimed(s) \/ InventoryRead(s))
    BY <1>2, <1>12, <2>2 DEF SyncStep, HostReconcile, RejectReconcile, HostAckKnown,
       KnownAcknowledged, HostClaim, NothingClaimed, ClaimedDeletion, HostAckBatch
  <2> QED BY <2>1, <2>2
<1>13. CASE List
  BY <1>1, <1>13 DEF List, TypeOK
<1>14. CASE Clear
  <2>1. Recorded' = {} /\ counted' = 0
    BY <1>14 DEF Clear, Recorded
  <2> QED BY <2>1, FS_EmptySet, BoundsAssumption DEF StreamsStayShort
<1>15. CASE Age \/ HostRestart
  BY <1>2, <1>15 DEF Age, HostRestart
<1>16. CASE ServerRestart
  BY <1>16 DEF ServerRestart, StreamsStayShort, Recorded
<1>17. CASE UNCHANGED vars
  BY <1>2, <1>17 DEF vars
<1> QED BY <1>5, <1>6, <1>7, <1>8, <1>9, <1>10, <1>11, <1>12, <1>13, <1>14, <1>15,
           <1>16, <1>17 DEF Next

(* Nothing has happened yet.                                                 *)
LEMMA InitHolds ==
  Init => TypeOK /\ Dropped /\ Caused /\ Cleared /\ NothingIsLost
<1> SUFFICES ASSUME Init
             PROVE TypeOK /\ Dropped /\ Caused /\ Cleared /\ NothingIsLost
  OBVIOUS
<1> USE BoundsAssumption DEF Init
<1>1. NoSync \in SyncRecord /\ [host |-> "unused", server |-> "unused"] \in ScriptRecord
  BY DEF NoSync, SyncRecord, ScriptRecord
<1>2. TypeOK
  BY <1>1 DEF TypeOK
<1>3. Dropped
  BY DEF Dropped, Recorded, NoSync, Awaits
<1>4. Caused
  BY DEF Caused, Started, NoSync
<1>5. Cleared /\ NothingIsLost
  BY DEF Cleared, NothingIsLost
<1> QED BY <1>2, <1>3, <1>4, <1>5

(* Outbox, records, tombstones and syncs are what the code keeps in them, for *)
(* every set of events and any number of failures (activity-outbox.ts,       *)
(* activity-records.ts, activity-sync.ts).                                   *)
THEOREM TypeCorrect == Spec => []TypeOK
<1>1. Init => TypeOK
  BY InitHolds
<1>2. TypeOK /\ [Next]_vars => TypeOK'
  BY TypeKept
<1> QED BY <1>1, <1>2, PTL DEF Spec

(* An event the outbox has accepted is there until the server has recorded    *)
(* it, for any number of concurrent syncs, failures and restarts              *)
(* (acknowledgeEventsNow, reconcileEventsNow, syncActivityBatch).            *)
THEOREM EventsAreNotLost == Spec => []NothingIsLost
<1>1. Init => TypeOK /\ Dropped /\ NothingIsLost
  BY InitHolds
<1>2. TypeOK /\ Dropped /\ NothingIsLost /\ [Next]_vars =>
        (TypeOK /\ Dropped /\ NothingIsLost)'
  BY TypeKept, DroppedKept, AcceptedKept
<1> QED BY <1>1, <1>2, PTL DEF Spec

(* What was cleared while nothing under way carried it is never recorded      *)
(* again, for any number of concurrent syncs, failures and restarts           *)
(* (clearActivityRecords, acknowledgeClearedEvents).                         *)
THEOREM ClearedIsGone == Spec => []ClearedStaysCleared
<1> DEFINE Inv == TypeOK /\ Dropped /\ Caused /\ Cleared
<1>1. Init => Inv
  BY InitHolds
<1>2. Inv /\ [Next]_vars => Inv'
  BY TypeKept, DroppedKept, CausedKept, ClearedKept
<1>3. Inv => ClearedStaysCleared
  BY DEF Cleared, ClearedStaysCleared
<1> QED BY <1>1, <1>2, <1>3, PTL DEF Spec

(* A stream is never longer than its limit, and its cached count never less    *)
(* than its length, for every limit and any number of events, syncs and       *)
(* restarts (appendActivityEvent, pruneActivityRows).                         *)
THEOREM StreamsAreShort == Spec => []StreamsStayShort
<1>1. Init => StreamsStayShort
  <2> SUFFICES ASSUME Init PROVE StreamsStayShort
    OBVIOUS
  <2>1. Recorded = {} /\ counted = Unknown
    BY DEF Init, Recorded
  <2> QED BY <2>1, FS_EmptySet, BoundsAssumption DEF StreamsStayShort
<1>2. TypeOK /\ StreamsStayShort /\ [Next]_vars => StreamsStayShort'
  BY StreamsKept
<1> QED BY <1>1, <1>2, TypeCorrect, PTL DEF Spec
=============================================================================
