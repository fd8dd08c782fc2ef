-------------------------- MODULE ProfileStorageProofs --------------------------
(***************************************************************************)
(* Proofs about ProfileStorage for every set of profiles and any number of  *)
(* faults: type correctness, that a restore keeps a copy, that the storage  *)
(* limit spares saved sign-ins, and that a reset leaves a replacement.      *)
(*                                                                         *)
(* Why the invariant has its parts: the mutation lock and the reconciling   *)
(* of every operation leave at most one lifecycle journal on a host         *)
(* (OneJournal), so a profile that an operation works on is not one whose   *)
(* deletion is pending (Deletions).  Promoting says what the journal of a   *)
(* promotion and the rollback directory are at each step of a restore, its  *)
(* undoing and its recovery, whatever the lifecycle operations do to the    *)
(* profile in between.                                                      *)
(***************************************************************************)
EXTENDS ProfileStorage, TLAPS

Journaled == {p \in Profiles : journal[p].op # "none"}
Working == op.pc \in {"stop", "apply", "write", "rest", "unlink"}

OneJournal ==
  /\ \A p, q \in Journaled : p = q
  /\ op.pc = "reconcile" => Journaled = op.todo
  /\ op.pc \in {"decide", "next"} => Journaled = {}
  /\ op.pc = "next" => Own
  /\ Working => Journaled = {op.exec} /\ (Own \/ op.todo = {})

Deletions ==
  \A p \in Profiles : journal[p].op = "delete" =>
    p \notin owned /\ \A r \in Profiles : successorOf[r] # p

Promoted == restoring.profile
SetAside == rollback.files # "none"

Promoting ==
  /\ rec.kind # "none" => rec.target # None
  /\ rec.pc \in {"check", "prepare"} => Promoted = None
  /\ rec.stage # "start" /\ rec.pc # "prepare" => Promoted = rec.target
  /\ rec.pc \in {"prepare", "moveOld", "noteOld", "moveNew", "ownNew", "noteNew"} =>
       rec.stage = "promote"
  /\ rec.pc = "noteNew" => rec.phase = "newMoved"
  /\ rec.pc = "undo" => rec.stage = "undo"
  /\ Promoted = None => restoring.phase = "prepared"
  /\ rec.stage = "start" \/ rec.pc \in {"prepare", "moveOld"} =>
       rec.phase = "prepared"
  /\ rec.pc = "moveOld" => restoring.phase = "prepared" /\ ~SetAside
  /\ rec.pc = "noteOld" => restoring.phase = "prepared" /\ SetAside
  /\ rec.pc \in {"moveNew", "ownNew"} => restoring.phase = "oldMoved" /\ SetAside
  /\ rec.pc \in {"prepare", "moveOld", "noteOld", "moveNew"} =>
       staging.files = "whole"
  /\ rec.pc = "dropNew" => restoring.phase # "newMoved" /\ SetAside
  /\ rec.pc = "moveBack" => SetAside
  /\ rec.pc = "settle" => ~SetAside
  /\ rec.stage # "start" /\ restoring.phase = "newMoved" => rec.phase = "newMoved"

Owing ==
  Promoted \in owned =>
    /\ rec.pc \in {"ownNew", "noteNew"} => profile[Promoted].files = "whole"
    /\ rec.pc = "dropOld" => restoring.phase = "newMoved"
    /\ rec.stage # "start" /\ rec.phase = "newMoved" /\ rec.pc # "noteNew" =>
         restoring.phase = "newMoved"

Decided(d) == d.known => d.files = "whole" /\ d.state = "archived" /\ ~d.saved

(* The operations that write the manifest they have read.                    *)
Rewriting == {"archive", "restore", "reset"}

Known ==
  /\ \A p \in Profiles : Decided(profile[p]) /\ ~backup[p].known
  /\ Decided(rollback) /\ ~staging.known
  /\ op.plan.op \in Rewriting \/ (\E p \in Profiles : journal[p].op \in Rewriting) =>
       /\ ~rollback.known
       /\ \A p \in Profiles : ~profile[p].known

Replaced ==
  \A p \in Profiles : successorOf[p] # None =>
    \/ profile[successorOf[p]].files # "none"
    \/ /\ journal[p].op = "reset" /\ journal[p].successor = successorOf[p]
       /\ ~(op.pc = "unlink" /\ op.exec = p)
    \/ restoring.profile = successorOf[p]
       /\ rec.pc \notin {"ownNew", "noteNew", "dropOld", "settle"}

-----------------------------------------------------------------------------
(* Type correctness.                                                         *)

(* The directories, journals and records the code writes as a whole. *)
LEMMA DirTypes == /\ Fresh \in Files /\ Gone \in Files /\ Torn \in Files
                  /\ NoJournal \in Journals /\ NoOp \in Op /\ NoRec \in Rec
                  /\ NoPromotion \in Promotion
  BY ProfilesAssumption
  DEF Fresh, Gone, Torn, Files, NoJournal, Journals, NoOp, Op, NoRec, Rec,
      NoPromotion, Promotion

(* Changing one mark of a directory keeps it a directory. *)
LEMMA Marks ==
  ASSUME NEW d \in Files, NEW b \in BOOLEAN
  PROVE /\ [d EXCEPT !.saved = b] \in Files /\ [d EXCEPT !.known = b] \in Files
        /\ [d EXCEPT !.state = "archived"] \in Files
        /\ [d EXCEPT !.state = "active"] \in Files
        /\ Removed(d) \in Files
  BY DirTypes DEF Files, Removed

(* Writing a manifest changes what it says and nothing else of the directory. *)
LEMMA Written ==
  ASSUME TypeOK, NEW p \in Profiles, NEW st \in {"active", "archived"},
         WriteManifest(p, st)
  PROVE /\ profile' \in [Profiles -> Files]
        /\ \A x \in Profiles : /\ profile'[x].files = profile[x].files
                              /\ profile'[x].known = profile[x].known
        /\ \A x \in Profiles : x # p => profile'[x] = profile[x]
<1> DEFINE d == [profile[p] EXCEPT !.state = st, !.saved = op.saved]
<1>1. profile[p] \in Files /\ op.saved \in BOOLEAN
  BY DEF TypeOK, Op
<1>2. d \in Files /\ d.files = profile[p].files /\ d.known = profile[p].known
  BY <1>1 DEF Files
<1> HIDE DEF d
<1>3. profile' = profile \/ profile' = [profile EXCEPT ![p] = d]
  BY DEF WriteManifest, d
<1> QED BY <1>2, <1>3 DEF TypeOK

(* The moves of the operation that holds the mutation lock. *)
LEMMA OpMoves ==
  ASSUME NEW o \in Op, NEW p \in Profiles \cup {None}, NEW t \in SUBSET Profiles,
         NEW pc \in {"idle", "reconcile", "decide", "next", "stop", "apply", "write",
                     "rest", "unlink"}
  PROVE /\ [o EXCEPT !.pc = pc] \in Op
        /\ [o EXCEPT !.pc = pc, !.todo = t] \in Op
        /\ [o EXCEPT !.pc = pc, !.exec = p] \in Op
        /\ [o EXCEPT !.exec = p, !.todo = t, !.pc = pc] \in Op
        /\ \A b \in BOOLEAN : [o EXCEPT !.pc = pc, !.saved = b] \in Op
        /\ \A j \in Journals : [o EXCEPT !.pc = pc, !.todo = t, !.plan = j] \in Op
  BY DEF Op

(* The moves of the call that holds the recovery lock. *)
LEMMA RecMoves ==
  ASSUME NEW r \in Rec,
         NEW pc \in {"idle", "recover", "check", "prepare", "moveOld", "noteOld",
                     "moveNew", "ownNew", "noteNew", "undo", "dropOld", "dropNew",
                     "moveBack", "settle"},
         NEW s \in {"start", "promote", "undo"},
         NEW f \in {"prepared", "oldMoved", "newMoved"}
  PROVE /\ [r EXCEPT !.pc = pc] \in Rec /\ [r EXCEPT !.pc = pc, !.stage = s] \in Rec
        /\ [r EXCEPT !.pc = pc, !.phase = f] \in Rec
<1>1. [r EXCEPT !.pc = pc] \in Rec
  BY DEF Rec
<1>2. [r EXCEPT !.pc = pc, !.stage = s] \in Rec
  BY DEF Rec
<1>3. [r EXCEPT !.pc = pc, !.phase = f] \in Rec
  BY DEF Rec
<1> QED BY <1>1, <1>2, <1>3

(* A host with only its Default Profile is typed. *)
LEMMA InitTypeOK == Init => TypeOK
<1> SUFFICES ASSUME Init PROVE TypeOK
  OBVIOUS
<1> USE DirTypes, ProfilesAssumption DEF Init
<1>1. profile \in [Profiles -> Files] /\ backup \in [Profiles -> Files]
  OBVIOUS
<1>2. journal \in [Profiles -> Journals] /\ \A p \in Profiles : journal[p].op # "reset"
  BY DEF NoJournal
<1>3. rollback.files = "none" /\ (rec.kind = "none") = (rec.pc = "idle")
  BY DEF Gone, Fresh, NoRec
<1> QED BY <1>1, <1>2, <1>3 DEF TypeOK

(* Creating a profile, noting a sign-in and asking for a backup keep types. *)
LEMMA OwnerTypeOK ==
  ASSUME TypeOK, Owner PROVE TypeOK'
<1>1. ASSUME NEW p \in Profiles, Create(p) PROVE TypeOK'
  <2> DEFINE ensured == IF profile[Default].files = "none"
                        THEN [profile EXCEPT ![Default] = Fresh] ELSE profile
             makes == Readable(ensured) /\ ensured[p].files = "none"
             made == IF makes THEN [ensured EXCEPT ![p] = Fresh] ELSE ensured
  <2>1. ensured \in [Profiles -> Files]
    BY DirTypes, ProfilesAssumption DEF TypeOK
  <2>2. made \in [Profiles -> Files]
    BY <2>1, DirTypes
  <2>3. profile' = made /\ owned' \subseteq Profiles
    BY <1>1 DEF Create, TypeOK
  <2> HIDE DEF made
  <2> QED BY <1>1, <2>2, <2>3 DEF Create, TypeOK, copies
<1>2. ASSUME NEW p \in Profiles, RecordSignIn(p) PROVE TypeOK'
  <2>1. profile' \in [Profiles -> Files]
    BY <1>2, Marks DEF RecordSignIn, TypeOK
  <2> QED BY <1>2, <2>1 DEF RecordSignIn, TypeOK, copies
<1>3. ASSUME NEW p \in Profiles, NEW k \in {"backup", "restore"}, BeginRecovery(k, p)
      PROVE TypeOK'
  <2>1. rec' \in Rec /\ rec'.kind # "none" /\ rec'.pc # "idle"
    BY <1>3 DEF BeginRecovery, Rec, NoRec
  <2> QED BY <1>3, <2>1 DEF BeginRecovery, TypeOK, copies, Aside
<1> QED BY <1>1, <1>2, <1>3, ProfilesAssumption DEF Owner

(* Every operation of the store has a journal to write. *)
LEMMA PlanTypes ==
  ASSUME NEW k \in Kinds
  PROVE [NoJournal EXCEPT !.op = OpOf[k], !.limit = k = "limit"] \in Journals
<1>1. OpOf[k] \in {"archive", "restore", "reset", "delete"}
  BY DEF Kinds, OpOf
<1> QED BY <1>1, DirTypes DEF NoJournal, Journals

(* A lifecycle operation works on a profile only while it has its journal. *)
LEMMA LifecycleTypeOK ==
  ASSUME TypeOK, OneJournal, Lifecycle PROVE TypeOK'
<1> USE DEF store, copies, Quiet, OpEnds
<1>0. Working => op.exec \in Profiles /\ journal[op.exec] \in Journals
  BY DEF OneJournal, Journaled, TypeOK
<1>1. CASE Begin
  <2>1. op' \in Op
    BY <1>1, DirTypes, OpMoves DEF Begin, TypeOK
  <2> QED BY <1>1, <2>1 DEF Begin, TypeOK
<1>2. CASE Reconcile
  <2>1. op.todo \subseteq Profiles
    BY DEF TypeOK, Op
  <2>2. CASE \E p \in op.todo : Execute(p, journal[p].phase, op.todo \ {p})
    <3>1. PICK p \in op.todo : Execute(p, journal[p].phase, op.todo \ {p})
      BY <2>2
    <3>2. p \in Profiles \cup {None} /\ op.todo \ {p} \in SUBSET Profiles /\ op \in Op
      BY <2>1 DEF TypeOK
    <3>3. op' \in Op
      BY <3>1, <3>2, OpMoves DEF Execute
    <3> QED BY <1>2, <3>3 DEF Reconcile, TypeOK
  <2>3. CASE op' = [op EXCEPT !.pc = "decide"]
    <3>1. op' \in Op
      BY <2>3, DirTypes, OpMoves DEF TypeOK
    <3> QED BY <1>2, <3>1 DEF Reconcile, TypeOK
  <2> QED BY <1>2, <2>2, <2>3 DEF Reconcile
<1>3. CASE Decide
  <2>1. CASE OpEnds /\ UNCHANGED <<profile, measured>>
    BY <1>3, <2>1, DirTypes DEF Decide, TypeOK
  <2>2. CASE ~(OpEnds /\ UNCHANGED <<profile, measured>>)
    <3>1. PICK k \in Kinds, found \in SUBSET Profiles :
            /\ op' = [op EXCEPT !.pc = "next", !.todo = found,
                        !.plan = [NoJournal EXCEPT !.op = OpOf[k],
                                                   !.limit = k = "limit"]]
            /\ profile' = [p \in Profiles |->
                 [profile[p] EXCEPT !.known = k = "limit" /\ p \in found]]
            /\ measured' = IF k = "limit" THEN measured \ found ELSE measured
      BY <1>3, <2>2 DEF Decide
    <3>2. op' \in Op
      BY <3>1, PlanTypes, OpMoves DEF TypeOK
    <3>3. profile' \in [Profiles -> Files]
      BY <3>1, Marks DEF TypeOK
    <3> QED BY <1>3, <3>1, <3>2, <3>3 DEF Decide, TypeOK
  <2> QED BY <2>1, <2>2
<1>4. CASE Plan
  <2>1. CASE op.todo = {} /\ OpEnds /\ UNCHANGED <<journal, owned, successorOf>>
    BY <1>4, <2>1, DirTypes DEF Plan, TypeOK
  <2>2. CASE ~(op.todo = {} /\ OpEnds /\ UNCHANGED <<journal, owned, successorOf>>)
    <3>1. PICK p \in op.todo, q \in Profiles \cup {None} :
            /\ (op.plan.op = "reset") = (q # None)
            /\ journal' = [journal EXCEPT ![p] = [op.plan EXCEPT !.successor = q]]
            /\ IF op.plan.op = "delete"
               THEN /\ owned' = owned \ {p}
                    /\ successorOf' = [r \in Profiles |->
                         IF successorOf[r] = p THEN None ELSE successorOf[r]]
               ELSE UNCHANGED <<owned, successorOf>>
            /\ Execute(p, "planned", op.todo \ {p})
      BY <1>4, <2>2 DEF Plan
    <3>2. p \in Profiles /\ op.plan \in Journals /\ op.todo \subseteq Profiles
      BY DEF TypeOK, Op
    <3>3. /\ [op.plan EXCEPT !.successor = q] \in Journals
          /\ [op.plan EXCEPT !.successor = q].op = "reset" =>
               [op.plan EXCEPT !.successor = q].successor # None
      BY <3>1, <3>2 DEF Journals
    <3>4. /\ journal' \in [Profiles -> Journals]
          /\ \A r \in Profiles : journal'[r].op = "reset" => journal'[r].successor # None
      BY <3>1, <3>2, <3>3 DEF TypeOK
    <3>5. op' \in Op
      BY <3>1, <3>2, OpMoves DEF Execute, TypeOK
    <3>6. owned' \subseteq Profiles /\ successorOf' \in [Profiles -> Profiles \cup {None}]
      BY <3>1 DEF TypeOK
    <3> QED BY <1>4, <3>4, <3>5, <3>6 DEF Plan, TypeOK
  <2> QED BY <2>1, <2>2
<1>5. CASE Stop
  <2>1. [journal[op.exec] EXCEPT !.phase = "stopped"] \in Journals
    BY <1>0, <1>5 DEF Stop, Working, Journals
  <2>2. /\ journal' \in [Profiles -> Journals]
        /\ \A r \in Profiles : journal'[r].op = "reset" => journal'[r].successor # None
    BY <1>0, <1>5, <2>1 DEF Stop, Working, TypeOK, Journals
  <2>3. op' \in Op
    BY <1>5, OpMoves DEF Stop, TypeOK
  <2> QED BY <1>5, <2>2, <2>3 DEF Stop, TypeOK
<1>6. CASE Apply
  <2>0. op.exec \in Profiles /\ journal[op.exec] \in Journals /\ profile[op.exec] \in Files
    BY <1>0, <1>6 DEF Apply, Working, TypeOK
  <2>1. op' \in Op
    <3>1. profile[op.exec].saved \in BOOLEAN /\ op \in Op
      BY <2>0 DEF Files, TypeOK
    <3>2. \A pc \in {"write", "rest", "unlink"}, b \in BOOLEAN :
            [op EXCEPT !.pc = pc, !.saved = b] \in Op
      BY <3>1, OpMoves, ProfilesAssumption
    <3> QED
      BY <1>6, <3>1, <3>2
      DEF Apply, ApplyDelete, ReadManifest, ApplyArchive, ApplyRestore, ApplyReset,
          AfterArchive, Continue
  <2>2. profile' \in [Profiles -> Files]
    <3>1. CASE ApplyDelete(op.exec)
      BY <2>0, <3>1, DirTypes DEF ApplyDelete, TypeOK
    <3>2. CASE ReadManifest(op.exec) \/ ApplyArchive(op.exec) \/ ApplyRestore(op.exec)
      BY <2>0, <3>2, Written DEF ReadManifest, ApplyArchive, ApplyRestore, TypeOK
    <3>3. CASE ApplyReset(op.exec)
      <4>1. CASE WriteManifest(op.exec, "archived")
        BY <2>0, <4>1, Written
      <4>2. CASE \/ UNCHANGED profile
                 \/ profile' = [profile EXCEPT ![journal[op.exec].successor] = Fresh]
        BY <4>2, DirTypes DEF TypeOK
      <4> QED BY <3>3, <4>1, <4>2 DEF ApplyReset
    <3> QED BY <1>6, <3>1, <3>2, <3>3 DEF Apply
  <2>3. successorOf' \in [Profiles -> Profiles \cup {None}] /\ owned' \subseteq Profiles
    BY <1>6, <2>0
    DEF Apply, ApplyDelete, ReadManifest, ApplyArchive, ApplyRestore, ApplyReset,
        TypeOK, Journals
  <2>4. UNCHANGED journal
    BY <1>6
    DEF Apply, ApplyDelete, ReadManifest, ApplyArchive, ApplyRestore, ApplyReset
  <2> QED BY <1>6, <2>1, <2>2, <2>3, <2>4 DEF Apply, TypeOK
<1>7. CASE Unlink
  <2>1. op' \in Op
    BY <1>7, OpMoves DEF Unlink, TypeOK
  <2>2. profile' \in [Profiles -> Files]
    BY <1>0, <1>7, Marks DEF Unlink, Working, TypeOK
  <2>3. /\ journal' \in [Profiles -> Journals]
        /\ \A r \in Profiles : journal'[r].op = "reset" => journal'[r].successor # None
    BY <1>0, <1>7, DirTypes DEF Unlink, Working, TypeOK, NoJournal
  <2> QED BY <1>7, <2>1, <2>2, <2>3 DEF Unlink, TypeOK
<1>8. CASE OpFails
  <2>1. faults' \in 0..MaxFaults
    BY <1>8, ProfilesAssumption DEF OpFails, TypeOK
  <2> QED BY <1>8, <2>1, DirTypes DEF OpFails, TypeOK
<1>9. CASE Measure
  BY <1>9 DEF Measure, TypeOK
<1> QED BY <1>1, <1>2, <1>3, <1>4, <1>5, <1>6, <1>7, <1>8, <1>9 DEF Lifecycle

(* A step of the recovery that does not end it.                              *)
LEMMA Goes ==
  ASSUME TypeOK, rec.pc # "idle",
         NEW pc \in {"recover", "check", "prepare", "moveOld", "noteOld", "moveNew",
                     "ownNew", "noteNew", "undo", "dropOld", "dropNew", "moveBack",
                     "settle"},
         NEW s \in {"start", "promote", "undo"},
         NEW f \in {"prepared", "oldMoved", "newMoved"},
         \/ rec' = [rec EXCEPT !.pc = pc] \/ rec' = [rec EXCEPT !.pc = pc, !.stage = s]
         \/ rec' = [rec EXCEPT !.pc = pc, !.phase = f]
  PROVE rec' \in Rec /\ (rec'.kind = "none") = (rec'.pc = "idle")
<1>1. rec \in Rec /\ rec.kind # "none"
  BY DEF TypeOK
<1>2. rec' \in Rec
  <2>1. /\ [rec EXCEPT !.pc = pc] \in Rec
        /\ [rec EXCEPT !.pc = pc, !.stage = s] \in Rec
        /\ [rec EXCEPT !.pc = pc, !.phase = f] \in Rec
    BY <1>1, RecMoves
  <2> QED BY <2>1
<1>3. rec'.kind = rec.kind /\ rec'.pc = pc
  BY <1>1 DEF Rec
<1> QED BY <1>1, <1>2, <1>3

(* A recovery step acts on the profile its journal or its caller names. *)
LEMMA RecoveryTypeOK ==
  ASSUME TypeOK, Promoting, Recovery PROVE TypeOK'
<1> USE DEF copies, Aside, RecTo
<1>1. CASE Undo
  <2>1. rec' \in Rec
    BY <1>1, DirTypes, RecMoves DEF Undo, TypeOK
  <2>2. (rec'.kind = "none") = (rec'.pc = "idle")
    BY <1>1 DEF Undo, TypeOK, NoRec, Rec
  <2>3. staging' \in Files
    BY <1>1, DirTypes DEF Undo, TypeOK
  <2> QED BY <1>1, <2>1, <2>2, <2>3 DEF Undo, TypeOK
<1>2. CASE CleanStaging
  <2>1. rec' \in Rec /\ (rec'.kind = "none") = (rec'.pc = "idle")
    BY <1>2, Goes DEF CleanStaging
  <2> QED BY <1>2, <2>1, DirTypes DEF CleanStaging, TypeOK
<1>3. CASE DropOld
  <2>1. rec' \in Rec /\ (rec'.kind = "none") = (rec'.pc = "idle")
    BY <1>3, Goes DEF DropOld
  <2>2. rollback' \in Files /\ (rollback'.files # "none" => rollback.files # "none")
    BY <1>3, DirTypes, Marks DEF DropOld, TypeOK, Removed, Gone, Fresh, Files
  <2> QED BY <1>3, <2>1, <2>2 DEF DropOld, TypeOK
<1>4. CASE DropNew
  <2>1. rec' \in Rec /\ (rec'.kind = "none") = (rec'.pc = "idle")
    BY <1>4, Goes DEF DropNew
  <2>2. profile' \in [Profiles -> Files]
    BY <1>4, Marks DEF DropNew, TypeOK
  <2> QED BY <1>4, <2>1, <2>2 DEF DropNew, TypeOK
<1>5. CASE MoveBack
  <2>1. rec' \in Rec /\ (rec'.kind = "none") = (rec'.pc = "idle")
    BY <1>5, Goes DEF MoveBack
  <2>2. profile' \in [Profiles -> Files]
    BY <1>5 DEF MoveBack, TypeOK
  <2>3. rollback'.files = "none"
    BY <1>5 DEF MoveBack, Gone, Fresh
  <2> QED BY <1>5, <2>1, <2>2, <2>3, DirTypes DEF MoveBack, TypeOK
<1>6. CASE Settle
  <2>1. rec' \in Rec /\ (rec'.kind = "none") = (rec'.pc = "idle")
    <3>1. CASE RecTo("recover")
      BY <1>6, <3>1, Goes DEF Settle
    <3>2. CASE rec' = NoRec
      BY <3>2, DirTypes DEF NoRec
    <3> QED BY <1>6, <3>1, <3>2 DEF Settle
  <2> QED BY <1>6, <2>1, DirTypes DEF Settle, TypeOK, Promoting, SetAside
<1>7. CASE Backup
  <2>1. backup' \in [Profiles -> Files]
    BY <1>7, Marks DEF Backup, TypeOK, Here
  <2>2. rec' \in Rec /\ rec'.kind = "none" /\ rec'.pc = "idle"
    BY <1>7, DirTypes DEF Backup, NoRec
  <2> QED BY <1>7, <2>1, <2>2 DEF Backup, TypeOK
<1>8. CASE Stage
  <2>1. rec' \in Rec /\ rec'.kind = "restore" /\ rec'.pc = "prepare"
    <3>1. /\ rec.kind = "restore" /\ rec \in Rec
          /\ rec' = [rec EXCEPT !.pc = "prepare", !.stage = "promote"]
      BY <1>8 DEF Stage, TypeOK
    <3>2. [rec EXCEPT !.pc = "prepare", !.stage = "promote"] \in Rec
      BY <3>1, RecMoves
    <3> QED BY <3>1, <3>2 DEF Rec
  <2>2. rec.target \in Profiles
    BY <1>8 DEF Stage, TypeOK, Rec, Promoting
  <2> QED BY <1>8, <2>1, <2>2 DEF Stage, TypeOK
<1>9. CASE Prepare
  <2>1. rec' \in Rec /\ (rec'.kind = "none") = (rec'.pc = "idle")
    BY <1>9, Goes DEF Prepare
  <2>2. restoring' \in Promotion /\ restoring'.profile # None
    <3>1. rec.kind # "none" /\ rec.target \in Profiles \cup {None}
      BY <1>9 DEF Prepare, TypeOK, Rec
    <3> QED BY <1>9, <3>1 DEF Prepare, Promotion, Promoting
  <2> QED BY <1>9, <2>1, <2>2 DEF Prepare, TypeOK
<1>10. CASE MoveOld
  <2>1. rec' \in Rec /\ (rec'.kind = "none") = (rec'.pc = "idle")
    BY <1>10, Goes DEF MoveOld
  <2>2. rec.kind # "none" /\ rec.target \in Profiles
    BY <1>10 DEF MoveOld, TypeOK, Rec, Promoting
  <2>3. rec.stage = "promote" /\ restoring.profile = rec.target
    BY <1>10 DEF MoveOld, Promoting, Promoted
  <2>4. profile' \in [Profiles -> Files] /\ rollback' \in Files
    BY <1>10, <2>2, DirTypes DEF MoveOld, TypeOK
  <2> QED BY <1>10, <2>1, <2>2, <2>3, <2>4, ProfilesAssumption DEF MoveOld, TypeOK
<1>11. CASE NoteOld
  <2>1. rec' \in Rec /\ (rec'.kind = "none") = (rec'.pc = "idle")
    BY <1>11, Goes DEF NoteOld
  <2>2. restoring' \in Promotion /\ restoring'.profile = restoring.profile
    BY <1>11 DEF NoteOld, TypeOK, Promotion
  <2> QED BY <1>11, <2>1, <2>2 DEF NoteOld, TypeOK
<1>12. CASE MoveNew
  <2>1. rec' \in Rec /\ (rec'.kind = "none") = (rec'.pc = "idle")
    BY <1>12, Goes DEF MoveNew
  <2>2. profile' \in [Profiles -> Files]
    BY <1>12 DEF MoveNew, TypeOK
  <2> QED BY <1>12, <2>1, <2>2, DirTypes DEF MoveNew, TypeOK
<1>15. CASE OwnNew
  <2>1. rec' \in Rec /\ (rec'.kind = "none") = (rec'.pc = "idle")
    BY <1>15, Goes DEF OwnNew
  <2> QED BY <1>15, <2>1 DEF OwnNew, TypeOK
<1>13. CASE NoteNew
  <2>1. rec' \in Rec /\ (rec'.kind = "none") = (rec'.pc = "idle")
    BY <1>13, Goes DEF NoteNew
  <2>2. restoring' \in Promotion /\ restoring'.profile = restoring.profile
    BY <1>13 DEF NoteNew, TypeOK, Promotion
  <2> QED BY <1>13, <2>1, <2>2 DEF NoteNew, TypeOK
<1>14. CASE RecFails
  <2>1. rec' \in Rec
    BY <1>14, DirTypes, RecMoves DEF RecFails, TypeOK
  <2>2. (rec'.kind = "none") = (rec'.pc = "idle")
    BY <1>14 DEF RecFails, TypeOK, NoRec, Rec
  <2>3. staging' \in Files /\ owned' \subseteq Profiles
    BY <1>14, DirTypes DEF RecFails, TypeOK
  <2>4. faults' \in 0..MaxFaults
    BY <1>14, ProfilesAssumption DEF RecFails, TypeOK
  <2> QED BY <1>14, <2>1, <2>2, <2>3, <2>4 DEF RecFails, TypeOK
<1> QED
  BY <1>1, <1>2, <1>3, <1>4, <1>5, <1>6, <1>7, <1>8, <1>9, <1>10, <1>11, <1>12,
     <1>13, <1>14, <1>15 DEF Recovery

(* A crash forgets memory and leaves the disk. *)
LEMMA CrashTypeOK ==
  ASSUME TypeOK, Crash PROVE TypeOK'
<1>1. faults' \in 0..MaxFaults
  BY ProfilesAssumption DEF Crash, TypeOK
<1> QED BY <1>1, DirTypes DEF Crash, TypeOK, store, copies, NoRec

(* Which steps leave what alone.                                             *)
LEMMA Frames ==
  /\ Owner => UNCHANGED <<journal, op, copies, successorOf, faults>>
  /\ Lifecycle => UNCHANGED <<copies, backup, rec>>
  /\ Recovery => UNCHANGED <<journal, op, successorOf>>
<1>1. Owner => UNCHANGED <<journal, op, copies, successorOf, faults>>
  BY DEF Owner, Create, RecordSignIn, BeginRecovery, Aside, copies
<1>2. Lifecycle => UNCHANGED <<copies, backup, rec>>
  BY DEF Lifecycle, Begin, Reconcile, Decide, Plan, Stop, Apply, Unlink, OpFails,
         Measure, Quiet, copies
<1>3. Recovery => UNCHANGED <<journal, op, successorOf>>
  BY DEF Recovery, Undo, CleanStaging, DropOld, DropNew, MoveBack, Settle, Backup,
         Stage, Prepare, MoveOld, NoteOld, MoveNew, OwnNew, NoteNew, RecFails, Aside
<1> QED BY <1>1, <1>2, <1>3

(* Every lifecycle step leaves at most the journal it works on. *)
LEMMA LifecycleOneJournal ==
  ASSUME TypeOK, OneJournal, Lifecycle PROVE OneJournal'
<1> USE DEF Journaled, Working, Own, OpEnds, NoOp
<1>1. CASE Begin
  BY <1>1 DEF Begin, OneJournal, store
<1>2. CASE Reconcile
  <2>1. UNCHANGED journal
    BY <1>2 DEF Reconcile, store
  <2>2. CASE op' = [op EXCEPT !.pc = "decide"]
    <3>1. op'.pc = "decide" /\ op'.plan = op.plan
      BY <2>2 DEF TypeOK, Op
    <3>2. op.todo = {} /\ op.pc = "reconcile"
      BY <1>2, <2>2, <3>1 DEF Reconcile, Execute, TypeOK, Op
    <3> QED BY <2>1, <3>1, <3>2 DEF OneJournal
  <2>3. ASSUME NEW p \in op.todo, Execute(p, journal[p].phase, op.todo \ {p})
        PROVE OneJournal'
    <3>1. op'.pc \in {"stop", "apply"} /\ op'.exec = p /\ op'.todo = op.todo \ {p}
      BY <2>3 DEF Execute, TypeOK, Op
    <3>2. Journaled' = {p} /\ op'.todo = {}
      BY <1>2, <2>1, <3>1 DEF Reconcile, OneJournal
    <3> QED BY <2>1, <3>1, <3>2 DEF OneJournal
  <2> QED BY <1>2, <2>2, <2>3 DEF Reconcile
<1>3. CASE Decide
  <2>1. CASE op' = NoOp
    BY <1>3, <2>1 DEF Decide, OneJournal
  <2>2. ASSUME NEW k \in Kinds, NEW found \in SUBSET Profiles,
               op' = [op EXCEPT !.pc = "next", !.todo = found,
                        !.plan = [NoJournal EXCEPT !.op = OpOf[k],
                                                   !.limit = k = "limit"]]
        PROVE OneJournal'
    <3>1. op'.pc = "next" /\ op'.plan.op = OpOf[k] /\ OpOf[k] # "none"
      <4>1. OpOf[k] # "none"
        BY DEF Kinds, OpOf
      <4>2. [NoJournal EXCEPT !.op = OpOf[k], !.limit = k = "limit"].op = OpOf[k]
        BY DEF NoJournal
      <4> QED BY <2>2, <4>1, <4>2 DEF TypeOK, Op
    <3> QED BY <1>3, <3>1 DEF Decide, OneJournal
  <2> QED BY <1>3, <2>1, <2>2 DEF Decide
<1>4. CASE Plan
  <2>1. CASE op' = NoOp /\ UNCHANGED journal
    BY <1>4, <2>1 DEF Plan, OneJournal
  <2>2. ASSUME NEW p \in op.todo, NEW q \in Profiles \cup {None},
               journal' = [journal EXCEPT ![p] = [op.plan EXCEPT !.successor = q]],
               Execute(p, "planned", op.todo \ {p})
        PROVE OneJournal'
    <3>1. op'.pc = "stop" /\ op'.exec = p /\ op'.plan = op.plan
      BY <2>2 DEF Execute, TypeOK, Op
    <3>2. op.plan.op # "none" /\ Journaled = {} /\ p \in Profiles /\ op.plan \in Journals
      BY <1>4 DEF Plan, OneJournal, TypeOK, Op
    <3>3. Journaled' = {p}
      <4>1. [op.plan EXCEPT !.successor = q].op = op.plan.op
        BY <3>2 DEF Journals
      <4> QED BY <2>2, <3>2, <4>1 DEF TypeOK
    <3> QED BY <3>1, <3>2, <3>3 DEF OneJournal
  <2> QED BY <1>4, <2>1, <2>2 DEF Plan
<1>5. CASE Stop
  <2>1. op.exec \in Profiles /\ Journaled = {op.exec} /\ (Own \/ op.todo = {})
    BY <1>5 DEF Stop, OneJournal
  <2>2. Journaled' = Journaled
    BY <1>5, <2>1 DEF Stop, TypeOK, Journals
  <2>3. op'.pc = "apply" /\ op'.exec = op.exec /\ op'.plan = op.plan /\ op'.todo = op.todo
    BY <1>5 DEF Stop, TypeOK, Op
  <2> QED BY <2>1, <2>2, <2>3 DEF OneJournal
<1>6. CASE Apply
  <2>1. Journaled = {op.exec} /\ (Own \/ op.todo = {})
    BY <1>6 DEF Apply, OneJournal
  <2>2. UNCHANGED journal
    BY <1>6
    DEF Apply, ApplyDelete, ReadManifest, ApplyArchive, ApplyRestore, ApplyReset
  <2>3. op'.pc \in {"write", "rest", "unlink"} /\ op'.exec = op.exec /\ op'.plan = op.plan
          /\ op'.todo = op.todo
    BY <1>6
    DEF Apply, ApplyDelete, ReadManifest, ApplyArchive, ApplyRestore, ApplyReset,
        AfterArchive, Continue, TypeOK, Op
  <2> QED BY <2>1, <2>2, <2>3 DEF OneJournal
<1>7. CASE Unlink
  <2>1. Journaled = {op.exec} /\ (Own \/ op.todo = {})
    BY <1>7 DEF Unlink, OneJournal
  <2>2. Journaled' = {}
    BY <1>7, <2>1 DEF Unlink, TypeOK, NoJournal
  <2>3. /\ op'.pc = IF Own THEN "next" ELSE "reconcile"
        /\ op'.plan = op.plan /\ op'.todo = op.todo
    BY <1>7 DEF Unlink, TypeOK, Op
  <2> QED BY <2>1, <2>2, <2>3 DEF OneJournal
<1>8. CASE OpFails
  BY <1>8 DEF OpFails, OneJournal, store
<1>9. CASE Measure
  BY <1>9 DEF Measure, OneJournal, store
<1> QED BY <1>1, <1>2, <1>3, <1>4, <1>5, <1>6, <1>7, <1>8, <1>9 DEF Lifecycle

(* No other step writes or removes a lifecycle journal. *)
LEMMA OneJournalKept ==
  ASSUME TypeOK, OneJournal, [Next]_vars PROVE OneJournal'
<1>1. CASE Lifecycle
  BY <1>1, LifecycleOneJournal
<1>2. CASE Owner \/ Recovery \/ UNCHANGED vars
  <2>1. UNCHANGED <<journal, op>>
    BY <1>2, Frames DEF vars, store
  <2> QED BY <2>1 DEF OneJournal, Journaled, Working, Own
<1>3. CASE Crash
  BY <1>3 DEF Crash, store, OneJournal, Journaled, Working, Own, NoOp
<1> QED BY <1>1, <1>2, <1>3 DEF Next

(* Journal, rollback directory and the recovery's step stay in agreement. *)
LEMMA PromotingKept ==
  ASSUME TypeOK, Promoting, [Next]_vars PROVE Promoting'
<1> USE DEF Promoted, SetAside
<1>1. CASE Lifecycle \/ UNCHANGED vars
  BY <1>1, Frames DEF vars, copies, Promoting
<1>2. CASE Crash
  BY <1>2 DEF Crash, copies, NoRec, Promoting
<1>3. CASE Owner
  <2>1. CASE UNCHANGED rec
    BY <1>3, <2>1, Frames DEF copies, Promoting
  <2>2. ASSUME NEW p \in Profiles, NEW k \in {"backup", "restore"}, BeginRecovery(k, p)
        PROVE Promoting'
    <3>1. /\ rec'.pc = "recover" /\ rec'.stage = "start" /\ rec'.target # None
          /\ rec'.phase = "prepared"
      BY <2>2, ProfilesAssumption DEF BeginRecovery, NoRec
    <3>2. UNCHANGED <<restoring, rollback, staging>>
      BY <1>3, Frames DEF copies
    <3> QED BY <3>1, <3>2 DEF Promoting
  <2> QED BY <1>3, <2>1, <2>2, ProfilesAssumption DEF Owner, Create, RecordSignIn
<1>4. CASE Recovery
  <2> USE DEF RecTo, copies, Aside
  <2>0. rec \in Rec /\ restoring \in Promotion /\ (rec.pc # "idle" => rec.kind # "none")
    BY DEF TypeOK
  <2>1. CASE Undo
    <3>1. CASE rec' = NoRec
      BY <2>1, <3>1 DEF Undo, Promoting, NoRec
    <3>2. ASSUME NEW pc \in {"dropOld", "dropNew", "moveBack", "settle"},
                 rec' = [rec EXCEPT !.pc = pc]
          PROVE Promoting'
      <4>1. /\ rec'.pc = pc /\ rec'.stage = rec.stage /\ rec'.phase = rec.phase
            /\ rec'.kind = rec.kind /\ rec'.target = rec.target
        BY <2>0, <3>2 DEF Rec
      <4>2. UNCHANGED <<restoring, rollback>>
        BY <2>1 DEF Undo
      <4>3. /\ pc = "dropNew" => restoring.phase # "newMoved" /\ SetAside
            /\ pc = "moveBack" => SetAside
            /\ pc = "settle" => ~SetAside
        BY <2>1, <4>1 DEF Undo, KeepsNew, NoRec, Promoting
      <4> QED BY <2>1, <3>2, <4>1, <4>2, <4>3 DEF Undo, Promoting
    <3> QED BY <2>1, <3>1, <3>2 DEF Undo
  <2>2. CASE CleanStaging
    BY <2>0, <2>2 DEF CleanStaging, Promoting, Rec
  <2>3. CASE DropOld
    BY <2>0, <2>3 DEF DropOld, Promoting, Rec
  <2>4. CASE DropNew
    BY <2>0, <2>4 DEF DropNew, Promoting, Rec
  <2>5. CASE MoveBack
    BY <2>0, <2>5 DEF MoveBack, Promoting, Rec, Gone, Fresh
  <2>6. CASE Settle
    BY <2>0, <2>6 DEF Settle, Promoting, Rec, NoRec, NoPromotion
  <2>7. CASE Backup
    BY <2>0, <2>7 DEF Backup, Promoting, NoRec
  <2>8. CASE Stage
    BY <2>0, <2>8 DEF Stage, Promoting, Rec
  <2>9. CASE Prepare
    BY <2>0, <2>9 DEF Prepare, Promoting, Rec, TypeOK
  <2>10. CASE MoveOld
    BY <2>0, <2>10 DEF MoveOld, Promoting, Rec
  <2>11. CASE NoteOld
    <3>1. restoring'.profile = restoring.profile /\ restoring'.phase = "oldMoved"
      BY <2>0, <2>11 DEF NoteOld, Promotion
    <3>2. /\ rec'.pc = "moveNew" /\ rec'.stage = rec.stage /\ rec'.phase = rec.phase
          /\ rec'.kind = rec.kind /\ rec'.target = rec.target
      BY <2>0, <2>11 DEF NoteOld, Rec
    <3> QED BY <2>0, <2>11, <3>1, <3>2 DEF NoteOld, Promoting
  <2>12. CASE MoveNew
    BY <2>0, <2>12 DEF MoveNew, Promoting, Rec
  <2>15. CASE OwnNew
    BY <2>0, <2>15 DEF OwnNew, Promoting, Rec
  <2>13. CASE NoteNew
    <3>1. restoring'.profile = restoring.profile /\ restoring'.phase = "newMoved"
      BY <2>0, <2>13 DEF NoteNew, Promotion
    <3>2. /\ rec'.pc = "dropOld" /\ rec'.stage = rec.stage /\ rec'.phase = rec.phase
          /\ rec'.kind = rec.kind /\ rec'.target = rec.target
      BY <2>0, <2>13 DEF NoteNew, Rec
    <3> QED BY <2>0, <2>13, <3>1, <3>2 DEF NoteNew, Promoting
  <2>14. CASE RecFails
    BY <2>0, <2>14 DEF RecFails, Promoting, Rec, NoRec
  <2> QED
    BY <1>4, <2>1, <2>2, <2>3, <2>4, <2>5, <2>6, <2>7, <2>8, <2>9, <2>10, <2>11,
       <2>12, <2>13, <2>14, <2>15 DEF Recovery
<1> QED BY <1>1, <1>2, <1>3, <1>4 DEF Next

(* What a delete journal names is neither owned nor anyone's replacement. *)
LEMMA DeletionsKept ==
  ASSUME TypeOK, OneJournal, Deletions, [Next]_vars PROVE Deletions'
<1>1. CASE UNCHANGED <<journal, successorOf>> /\ owned' \subseteq owned
  BY <1>1 DEF Deletions
<1>2. CASE Owner
  <2>1. \A p \in Profiles : journal[p].op = "delete" /\ p \notin owned => p \notin owned'
    BY <1>2 DEF Owner, Create, RecordSignIn, BeginRecovery, Aside
  <2> QED BY <1>2, <2>1, Frames DEF Deletions
<1>3. CASE Plan
  <2>1. CASE UNCHANGED <<journal, owned, successorOf>>
    BY <2>1 DEF Deletions
  <2>2. ASSUME NEW p \in op.todo, NEW q \in Profiles \cup {None},
               journal' = [journal EXCEPT ![p] = [op.plan EXCEPT !.successor = q]],
               IF op.plan.op = "delete"
               THEN /\ owned' = owned \ {p}
                    /\ successorOf' = [r \in Profiles |->
                         IF successorOf[r] = p THEN None ELSE successorOf[r]]
               ELSE UNCHANGED <<owned, successorOf>>
        PROVE Deletions'
    <3>1. p \in Profiles /\ [op.plan EXCEPT !.successor = q].op = op.plan.op
      BY DEF TypeOK, Op, Journals
    <3>2. \A x \in Profiles : journal'[x].op = "delete" =>
            IF x = p THEN op.plan.op = "delete" ELSE journal[x].op = "delete"
      BY <2>2, <3>1 DEF TypeOK
    <3> QED BY <2>2, <3>1, <3>2, ProfilesAssumption DEF Deletions, TypeOK
  <2> QED BY <1>3, <2>1, <2>2 DEF Plan
<1>4. CASE Stop
  <2>1. \A x \in Profiles : journal'[x].op = journal[x].op
    BY <1>4 DEF Stop, TypeOK, Journals
  <2> QED BY <1>4, <2>1 DEF Stop, Deletions
<1>5. CASE Apply
  <2>0. op.exec \in Profiles /\ Journaled = {op.exec}
    BY <1>5 DEF Apply, OneJournal, Working, Journaled
  <2>1. CASE ApplyReset(op.exec)
    <3>1. \A x \in Profiles : journal'[x].op # "delete"
      BY <2>0, <2>1 DEF ApplyReset, Journaled
    <3> QED BY <3>1 DEF Deletions
  <2>2. CASE ~ApplyReset(op.exec)
    BY <1>5, <2>2
    DEF Apply, ApplyDelete, ReadManifest, ApplyArchive, ApplyRestore, Deletions
  <2> QED BY <2>1, <2>2
<1>6. CASE Unlink
  <2>1. \A x \in Profiles : journal'[x].op = "delete" => journal[x].op = "delete"
    BY <1>6 DEF Unlink, TypeOK, NoJournal
  <2> QED BY <1>6, <2>1 DEF Unlink, Deletions
<1>7. CASE Recovery
  <2>1. owned' \subseteq owned
    BY <1>7
    DEF Recovery, Undo, CleanStaging, DropOld, DropNew, MoveBack, Settle, Backup,
        Stage, Prepare, MoveOld, NoteOld, MoveNew, OwnNew, NoteNew, RecFails, Aside
  <2> QED BY <1>1, <1>7, <2>1, Frames
<1> QED
  BY <1>1, <1>2, <1>3, <1>4, <1>5, <1>6, <1>7
  DEF Next, Lifecycle, Begin, Reconcile, Decide, OpFails, Measure, Crash, store, vars

(* What is owned keeps its files through everything but the recovery.         *)
LEMMA OwnedStaysWhole ==
  ASSUME TypeOK, OneJournal, Deletions, Owner \/ Lifecycle, NEW p \in owned'
  PROVE /\ p \in owned /\ profile[p].files = "whole" => profile'[p].files = "whole"
        /\ p \notin owned => profile'[p].files = "whole" /\ restoring.profile # p
<1> USE DEF store, copies
<1>0. \A x \in Profiles : profile[x] \in Files
  BY DEF TypeOK
<1>1. ASSUME NEW x \in Profiles, Create(x)
      PROVE /\ p \in owned /\ profile[p].files = "whole" => profile'[p].files = "whole"
            /\ p \notin owned => profile'[p].files = "whole" /\ restoring.profile # p
  <2> DEFINE ensured == IF profile[Default].files = "none"
                        THEN [profile EXCEPT ![Default] = Fresh] ELSE profile
             makes == Readable(ensured) /\ ensured[x].files = "none"
             made == IF makes THEN [ensured EXCEPT ![x] = Fresh] ELSE ensured
  <2>1. \A y \in Profiles : ensured[y] = profile[y] \/ ensured[y] = Fresh
    BY DEF TypeOK
  <2>2. \A y \in Profiles : made[y] = profile[y] \/ made[y] = Fresh
    BY <2>1 DEF TypeOK
  <2>3. profile' = made
    BY <1>1 DEF Create
  <2>4. \A y \in Profiles : profile'[y] = profile[y] \/ profile'[y] = Fresh
    BY <2>2, <2>3
  <2>5. p \notin owned => p \in Profiles /\ profile'[p] # profile[p] /\ restoring.profile # p
    BY <1>1 DEF Create
  <2>6. p \in owned => p \in Profiles
    BY DEF TypeOK
  <2> QED BY <2>4, <2>5, <2>6 DEF Fresh
<1>2. ASSUME NEW x \in Profiles, RecordSignIn(x)
      PROVE p \in owned /\ profile'[p].files = profile[p].files
  BY <1>0, <1>2 DEF RecordSignIn, Files, TypeOK
<1>3. CASE Decide
  <2>1. owned' = owned
    BY <1>3 DEF Decide
  <2>2. CASE UNCHANGED profile
    BY <2>1, <2>2
  <2>3. ASSUME NEW k \in Kinds, NEW found \in SUBSET Profiles,
               profile' = [x \in Profiles |->
                 [profile[x] EXCEPT !.known = k = "limit" /\ x \in found]]
        PROVE profile'[p].files = profile[p].files
    <3>1. p \in Profiles /\ profile[p] \in Files
      BY <1>0, <2>1 DEF TypeOK
    <3>2. profile'[p] = [profile[p] EXCEPT !.known = k = "limit" /\ p \in found]
      BY <2>3, <3>1
    <3> QED BY <3>1, <3>2 DEF Files
  <2> QED BY <1>3, <2>1, <2>2, <2>3 DEF Decide
<1>4. CASE Apply
  <2>0. op.exec \in Profiles /\ Journaled = {op.exec} /\ profile[op.exec] \in Files
    BY <1>4 DEF Apply, OneJournal, Working, Journaled, TypeOK
  <2>1. CASE ApplyDelete(op.exec)
    BY <2>0, <2>1 DEF ApplyDelete, Deletions, TypeOK
  <2>2. CASE ReadManifest(op.exec) \/ ApplyArchive(op.exec) \/ ApplyRestore(op.exec)
    BY <2>0, <2>2, Written DEF ReadManifest, ApplyArchive, ApplyRestore, TypeOK
  <2>3. CASE ApplyReset(op.exec)
    <3>1. CASE op.pc = "write"
      BY <2>0, <2>3, <3>1, Written DEF ApplyReset, TypeOK
    <3>2. CASE op.pc # "write"
      <4>1. journal[op.exec].successor \in Profiles
        BY <2>0, <2>3, <3>2 DEF ApplyReset, TypeOK, Journals
      <4> QED BY <2>3, <3>2, <4>1 DEF ApplyReset, WriteManifest, TypeOK, Here, Fresh
    <3> QED BY <3>1, <3>2
  <2> QED BY <1>4, <2>1, <2>2, <2>3 DEF Apply
<1>5. CASE Unlink
  BY <1>0, <1>5 DEF Unlink, TypeOK, Files
<1>6. CASE Plan
  BY <1>6 DEF Plan
<1>7. CASE UNCHANGED <<profile, owned>>
  BY <1>7
<1> QED
  BY <1>1, <1>2, <1>3, <1>4, <1>5, <1>6, <1>7
  DEF Owner, Lifecycle, BeginRecovery, Aside, Begin, Reconcile, Stop, OpFails, Measure

(* The old copy of an owned profile is dropped only once the new one is noted. *)
LEMMA OwingKept ==
  ASSUME TypeOK, OneJournal, Deletions, Promoting, Owing, [Next]_vars
  PROVE Owing'
<1> USE DEF Promoted, SetAside
<1>0. None \notin owned
  BY ProfilesAssumption DEF TypeOK
<1>1. CASE UNCHANGED vars \/ Crash
  BY <1>1 DEF vars, store, copies, Crash, NoRec, Owing
<1>2. CASE Owner \/ Lifecycle
  <2>1. UNCHANGED <<restoring, rollback, staging>>
    BY <1>2, Frames DEF copies
  <2>2. CASE UNCHANGED rec
    BY <1>2, <2>1, <2>2, OwnedStaysWhole DEF Owing
  <2>3. ASSUME NEW q \in Profiles, NEW k \in {"backup", "restore"}, BeginRecovery(k, q)
        PROVE Owing'
    BY <2>3 DEF BeginRecovery, NoRec, Owing
  <2> QED BY <1>2, <2>2, <2>3, Frames DEF Owner, Create, RecordSignIn
<1>3. CASE Recovery
  <2> USE DEF RecTo, copies, Aside
  <2>0. rec \in Rec /\ restoring \in Promotion
    BY DEF TypeOK
  <2>1. CASE Undo
    <3>1. CASE rec' = NoRec
      BY <2>1, <3>1 DEF Undo, NoRec, Owing
    <3>2. ASSUME NEW pc \in {"dropOld", "dropNew", "moveBack", "settle"},
                 rec' = [rec EXCEPT !.pc = pc], Promoted \in owned
          PROVE Owing'
      <4>1. rec'.pc = pc /\ rec'.stage = rec.stage /\ rec'.phase = rec.phase
        BY <2>0, <3>2 DEF Rec
      <4>2. rec.stage # "start" /\ rec.phase = "newMoved" => restoring.phase = "newMoved"
        BY <2>1, <3>2 DEF Undo, Owing
      <4>3. pc = "dropOld" => restoring.phase = "newMoved"
        BY <2>1, <4>1, <4>2 DEF Undo, KeepsNew, NoRec, Promoting
      <4> QED BY <2>1, <4>1, <4>2, <4>3 DEF Undo, Owing
    <3>3. UNCHANGED <<restoring, owned>>
      BY <2>1 DEF Undo
    <3> QED BY <2>1, <3>1, <3>2, <3>3 DEF Undo, Owing
  <2>2. CASE CleanStaging \/ Settle
    BY <1>0, <2>2 DEF CleanStaging, Settle, NoPromotion, Owing
  <2>3. CASE DropOld \/ DropNew \/ MoveBack
    BY <2>0, <2>3 DEF DropOld, DropNew, MoveBack, Owing, Rec
  <2>4. CASE Backup \/ Stage
    BY <1>0, <2>4 DEF Backup, Stage, Promoting, Owing
  <2>5. CASE Prepare
    BY <2>0, <2>5 DEF Prepare, Promoting, Owing, Rec
  <2>6. CASE MoveOld
    BY <2>0, <2>6 DEF MoveOld, Owing, Rec
  <2>7. CASE NoteOld
    <3>1. rec'.pc = "moveNew" /\ rec'.stage = rec.stage /\ rec'.phase = rec.phase
      BY <2>0, <2>7 DEF NoteOld, Rec
    <3>2. restoring'.profile = restoring.profile /\ UNCHANGED owned
      BY <2>0, <2>7 DEF NoteOld, Promotion
    <3> QED BY <2>7, <3>1, <3>2 DEF NoteOld, Promoting, Owing
  <2>11. CASE OwnNew
    <3>1. rec'.pc = "noteNew" /\ UNCHANGED <<restoring, owned, profile>>
      BY <2>0, <2>11 DEF OwnNew, Rec
    <3>2. rec.pc = "ownNew"
      BY <2>11 DEF OwnNew
    <3> QED BY <3>1, <3>2 DEF Owing
  <2>8. CASE MoveNew
    <3>1. rec'.pc = "ownNew" /\ rec'.phase = rec.phase /\ UNCHANGED <<restoring, owned>>
      BY <2>0, <2>8 DEF MoveNew, Rec
    <3>2. Promoted \in owned => profile'[Promoted].files = "whole"
      BY <2>8 DEF MoveNew, Promoting, TypeOK
    <3>3. rec.pc = "moveNew" /\ rec.stage = "promote"
      BY <2>8 DEF MoveNew, Promoting
    <3> QED BY <3>1, <3>2, <3>3 DEF Owing
  <2>9. CASE NoteNew
    <3>1. rec'.pc = "dropOld" /\ restoring'.phase = "newMoved"
      BY <2>0, <2>9 DEF NoteNew, Rec, Promotion
    <3> QED BY <3>1 DEF Owing
  <2>10. CASE RecFails
    <3>1. CASE rec.pc = "noteNew"
      <4>1. Promoted \notin owned'
        BY <2>10, <3>1 DEF RecFails, Promoting
      <4> QED BY <2>10, <4>1 DEF RecFails, Owing
    <3>2. CASE rec.pc # "noteNew"
      BY <2>0, <2>10, <3>2 DEF RecFails, Owing, Rec, NoRec
    <3> QED BY <3>1, <3>2
  <2> QED
    BY <1>3, <2>1, <2>2, <2>3, <2>4, <2>5, <2>6, <2>7, <2>8, <2>9, <2>10, <2>11
    DEF Recovery
<1> QED BY <1>1, <1>2, <1>3 DEF Next

(* No step leaves an owned profile without a whole directory to keep. *)
LEMMA CopyKept ==
  ASSUME TypeOK, OneJournal, Deletions, Promoting, Owing, RestoreKeepsACopy,
         [Next]_vars
  PROVE RestoreKeepsACopy'
<1> USE DEF Promoted, SetAside
<1>1. CASE UNCHANGED vars \/ Crash
  BY <1>1 DEF vars, store, copies, Crash, RestoreKeepsACopy, Kept
<1>2. CASE Owner \/ Lifecycle
  <2>1. UNCHANGED <<restoring, rollback, staging>>
    BY <1>2, Frames DEF copies
  <2>2. ASSUME NEW p \in owned' PROVE Kept(p)'.files = "whole"
    <3>1. /\ p \in owned /\ profile[p].files = "whole" => profile'[p].files = "whole"
          /\ p \notin owned => profile'[p].files = "whole" /\ restoring.profile # p
      BY <1>2, OwnedStaysWhole
    <3> QED BY <2>1, <3>1 DEF RestoreKeepsACopy, Kept
  <2> QED BY <2>2 DEF RestoreKeepsACopy
<1>3. CASE Recovery
  <2> USE DEF copies, Aside
  <2>0. owned' \subseteq owned /\ owned \subseteq Profiles
    BY <1>3
    DEF Recovery, Undo, CleanStaging, DropOld, DropNew, MoveBack, Settle, Backup,
        Stage, Prepare, MoveOld, NoteOld, MoveNew, OwnNew, NoteNew, RecFails, TypeOK
  <2> SUFFICES ASSUME NEW p \in owned' PROVE Kept(p)'.files = "whole"
    BY DEF RestoreKeepsACopy
  <2>1. p \in owned /\ p \in Profiles /\ Kept(p).files = "whole"
    BY <2>0 DEF RestoreKeepsACopy
  <2>2. CASE Undo \/ CleanStaging \/ Backup \/ Stage \/ OwnNew \/ RecFails
    BY <2>1, <2>2 DEF Undo, CleanStaging, Backup, Stage, OwnNew, RecFails, Kept
  <2>3. CASE DropOld
    BY <2>1, <2>3 DEF DropOld, Owing, Kept
  <2>4. CASE DropNew
    BY <2>1, <2>4 DEF DropNew, Promoting, Kept, TypeOK
  <2>5. CASE MoveBack
    BY <2>1, <2>5 DEF MoveBack, Promoting, Kept, TypeOK, Gone, Fresh
  <2>6. CASE Settle
    BY <2>1, <2>6 DEF Settle, Promoting, Kept
  <2>7. CASE Prepare
    BY <2>1, <2>7 DEF Prepare, Promoting, TypeOK, Kept
  <2>8. CASE MoveOld
    BY <2>1, <2>8 DEF MoveOld, Promoting, TypeOK, Kept
  <2>9. CASE NoteOld
    <3>1. restoring'.profile = restoring.profile /\ restoring'.phase = "oldMoved"
      BY <2>9 DEF NoteOld, TypeOK, Promotion
    <3> QED BY <2>1, <2>9, <3>1 DEF NoteOld, Promoting, Kept
  <2>10. CASE MoveNew
    BY <2>1, <2>10 DEF MoveNew, Promoting, TypeOK, Kept
  <2>11. CASE NoteNew
    <3>1. restoring'.profile = restoring.profile /\ restoring'.phase = "newMoved"
      BY <2>11 DEF NoteNew, TypeOK, Promotion
    <3>2. UNCHANGED <<profile, rollback>> /\ rec.pc = "noteNew"
      BY <2>11 DEF NoteNew
    <3>3. p = Promoted => profile[p].files = "whole"
      BY <2>1, <3>2 DEF Owing
    <3> QED BY <2>1, <3>1, <3>2, <3>3 DEF Kept
  <2> QED
    BY <1>3, <2>2, <2>3, <2>4, <2>5, <2>6, <2>7, <2>8, <2>9, <2>10, <2>11 DEF Recovery
<1> QED BY <1>1, <1>2, <1>3 DEF Next

(* Types are kept, given what is known of journals and promotions. *)
LEMMA TypeKept ==
  ASSUME TypeOK, OneJournal, Promoting, [Next]_vars PROVE TypeOK'
<1>1. CASE UNCHANGED vars
  BY <1>1 DEF vars, store, copies, TypeOK
<1> QED BY <1>1, OwnerTypeOK, LifecycleTypeOK, RecoveryTypeOK, CrashTypeOK DEF Next

(* The parts of the invariant on a host that starts. *)
LEMMA InitHolds ==
  Init => OneJournal /\ Deletions /\ Promoting /\ Owing /\ RestoreKeepsACopy
<1> SUFFICES ASSUME Init
             PROVE OneJournal /\ Deletions /\ Promoting /\ Owing /\ RestoreKeepsACopy
  OBVIOUS
<1> USE ProfilesAssumption DEF Init, NoJournal, NoOp, NoRec, NoPromotion, Gone, Fresh
<1>1. OneJournal
  BY DEF OneJournal, Journaled, Working
<1>2. Deletions
  BY DEF Deletions
<1>3. Promoting
  BY DEF Promoting, Promoted, SetAside
<1>4. Owing
  BY DEF Owing, Promoted
<1>5. RestoreKeepsACopy
  BY DEF RestoreKeepsACopy, Kept
<1> QED BY <1>1, <1>2, <1>3, <1>4, <1>5

(* Directories, journals, promotions and both lock holders are what the code
   writes, after any interleaving, failure and crash (profile-storage.ts,
   profile-recovery.ts). *)
THEOREM TypeCorrect == Spec => []TypeOK
<1>1. Init => TypeOK /\ OneJournal /\ Promoting
  BY InitTypeOK, InitHolds
<1>2. TypeOK /\ OneJournal /\ Promoting /\ [Next]_vars =>
        (TypeOK /\ OneJournal /\ Promoting)'
  BY TypeKept, OneJournalKept, PromotingKept
<1> QED BY <1>1, <1>2, PTL DEF Spec

(* For every set of profiles and any number of faults, a restore, its undoing
   and its recovery leave an owned profile a whole directory
   (promoteRestoredProfile, recoverPromotionJournal). *)
THEOREM RestoresKeepACopy == Spec => []RestoreKeepsACopy
<1> DEFINE Inv == /\ TypeOK /\ OneJournal /\ Promoting
                  /\ Deletions /\ Owing /\ RestoreKeepsACopy
<1>1. Init => Inv
  BY InitTypeOK, InitHolds
<1>2. Inv /\ [Next]_vars => Inv'
  BY TypeKept, OneJournalKept, PromotingKept, DeletionsKept, OwingKept, CopyKept
<1>3. Inv => RestoreKeepsACopy
  OBVIOUS
<1> QED BY <1>1, <1>2, <1>3, PTL DEF Spec

(* What the storage limit decided on stays archived and without a sign-in. *)
LEMMA KnownKept ==
  ASSUME TypeOK, OneJournal, Promoting, Known, [Next]_vars PROVE Known'
<1> USE DEF copies, store, Decided
<1>0. /\ \A p \in Profiles : profile[p] \in Files /\ backup[p] \in Files
      /\ rollback \in Files /\ staging \in Files
  BY DEF TypeOK
<1>1. CASE UNCHANGED vars
  BY <1>1 DEF vars, Known
<1>2. CASE Crash
  BY <1>2 DEF Crash, Known, NoOp, NoJournal, Rewriting
<1>3. CASE Owner
  <2>1. UNCHANGED <<journal, op, rollback, staging, backup>>
    BY <1>3, Frames DEF Owner, Create, RecordSignIn, BeginRecovery
  <2>2. \A p \in Profiles : Decided(profile[p])' /\ (profile'[p].known => profile[p].known)
    <3>1. ASSUME NEW x \in Profiles, Create(x)
          PROVE \A p \in Profiles : profile'[p] = profile[p] \/ profile'[p] = Fresh
      <4> DEFINE ensured == IF profile[Default].files = "none"
                            THEN [profile EXCEPT ![Default] = Fresh] ELSE profile
                 makes == Readable(ensured) /\ ensured[x].files = "none"
                 made == IF makes THEN [ensured EXCEPT ![x] = Fresh] ELSE ensured
      <4>1. \A y \in Profiles : ensured[y] = profile[y] \/ ensured[y] = Fresh
        BY DEF TypeOK
      <4>2. \A y \in Profiles : made[y] = profile[y] \/ made[y] = Fresh
        BY <4>1 DEF TypeOK
      <4>3. profile' = made
        BY <3>1 DEF Create
      <4> QED BY <4>2, <4>3
    <3>2. ASSUME NEW x \in Profiles, RecordSignIn(x), NEW p \in Profiles
          PROVE Decided(profile[p])' /\ (profile'[p].known => profile[p].known)
      <4>1. CASE p # x
        BY <3>2, <4>1 DEF RecordSignIn, TypeOK, Known
      <4>2. CASE p = x
        <5>1. profile'[p] = [profile[p] EXCEPT !.saved = TRUE]
          BY <3>2, <4>2 DEF RecordSignIn, TypeOK
        <5>2. profile'[p].known = profile[p].known /\ profile[p].state = "active"
          BY <1>0, <3>2, <4>2, <5>1 DEF RecordSignIn, Active, Files
        <5> QED BY <5>2 DEF Known
      <4> QED BY <4>1, <4>2
    <3>3. CASE UNCHANGED profile
      BY <3>3 DEF Known
    <3> QED BY <1>3, <3>1, <3>2, <3>3 DEF Owner, BeginRecovery, Known, Fresh
  <2> QED BY <2>1, <2>2 DEF Known
<1>4. CASE Lifecycle
  <2>0. UNCHANGED <<rollback, staging, backup>>
    BY <1>4, Frames
  <2>1. CASE UNCHANGED <<profile, journal>> /\ (op'.plan.op \in Rewriting => op.plan.op \in Rewriting)
    BY <2>0, <2>1 DEF Known
  <2>2. CASE Reconcile
    <3>1. op'.plan = op.plan
      BY <2>2 DEF Reconcile, Execute, TypeOK, Op
    <3> QED BY <2>1, <2>2, <3>1 DEF Reconcile
  <2>3. CASE Decide
    <3>1. CASE OpEnds /\ UNCHANGED profile
      BY <2>1, <2>3, <3>1 DEF Decide, OpEnds, NoOp, NoJournal, Rewriting
    <3>2. ASSUME NEW k \in Kinds, NEW found \in SUBSET Profiles,
                 Readable(profile), \A p \in found : Eligible(k, p),
                 op' = [op EXCEPT !.pc = "next", !.todo = found,
                          !.plan = [NoJournal EXCEPT !.op = OpOf[k],
                                                     !.limit = k = "limit"]],
                 profile' = [p \in Profiles |->
                   [profile[p] EXCEPT !.known = k = "limit" /\ p \in found]]
          PROVE Known'
      <4>1. ~rollback.known
        BY <3>2 DEF Readable, Known
      <4>2. \A p \in Profiles :
              /\ profile'[p].known = (k = "limit" /\ p \in found)
              /\ profile'[p].files = profile[p].files
              /\ profile'[p].state = profile[p].state
              /\ profile'[p].saved = profile[p].saved
        BY <1>0, <3>2 DEF Files
      <4>3. \A p \in Profiles : Decided(profile[p])'
        BY <3>2, <4>2 DEF Eligible, StillExpendable, Expendable, Archived, Here
      <4>4. op'.plan.op = OpOf[k]
        <5>1. [NoJournal EXCEPT !.op = OpOf[k], !.limit = k = "limit"].op = OpOf[k]
          BY DEF NoJournal
        <5> QED BY <3>2, <5>1 DEF TypeOK, Op
      <4>5. k = "limit" => OpOf[k] \notin Rewriting
        BY DEF OpOf, Rewriting
      <4>6. \A p \in Profiles : journal'[p].op \notin Rewriting
        BY <2>3 DEF Decide, OneJournal, Journaled, Rewriting
      <4> QED BY <2>0, <4>1, <4>2, <4>3, <4>4, <4>5, <4>6 DEF Known
    <3> QED BY <2>3, <3>1, <3>2 DEF Decide
  <2>4. CASE Plan
    <3>1. UNCHANGED profile
      BY <2>4 DEF Plan
    <3>2. CASE OpEnds /\ UNCHANGED journal
      BY <2>1, <3>1, <3>2 DEF OpEnds, NoOp, NoJournal, Rewriting
    <3>3. ASSUME NEW p \in op.todo, NEW q \in Profiles \cup {None},
                 journal' = [journal EXCEPT ![p] = [op.plan EXCEPT !.successor = q]],
                 Execute(p, "planned", op.todo \ {p})
          PROVE Known'
      <4>1. [op.plan EXCEPT !.successor = q].op = op.plan.op /\ p \in Profiles
        BY DEF TypeOK, Op, Journals
      <4>2. op'.plan = op.plan
        BY <3>3 DEF Execute, TypeOK, Op
      <4>3. \A x \in Profiles : journal'[x].op \in Rewriting =>
              op.plan.op \in Rewriting \/ journal[x].op \in Rewriting
        BY <3>3, <4>1 DEF TypeOK
      <4> QED BY <2>0, <3>1, <4>2, <4>3 DEF Known
    <3> QED BY <2>4, <3>2, <3>3 DEF Plan
  <2>5. CASE Stop
    <3>1. \A x \in Profiles : journal'[x].op = journal[x].op
      BY <2>5 DEF Stop, TypeOK, Journals
    <3>2. op'.plan = op.plan /\ UNCHANGED profile
      BY <2>5 DEF Stop, TypeOK, Op
    <3> QED BY <2>0, <3>1, <3>2 DEF Known
  <2>6. CASE Apply
    <3>0. op.exec \in Profiles /\ profile[op.exec] \in Files
      BY <1>0, <2>6 DEF Apply, OneJournal, Working, Journaled
    <3>1. UNCHANGED journal /\ op'.plan = op.plan
      BY <2>6
      DEF Apply, ApplyDelete, ReadManifest, ApplyArchive, ApplyRestore, ApplyReset,
          AfterArchive, Continue, TypeOK, Op
    <3>2. \A x \in Profiles : Decided(profile[x])' /\ (profile'[x].known => profile[x].known)
      <4>1. CASE ApplyDelete(op.exec)
        BY <3>0, <4>1 DEF ApplyDelete, TypeOK, Known, Torn, Gone, Fresh
      <4>2. CASE UNCHANGED profile
        BY <4>2 DEF Known
      <4>3. ASSUME NEW st \in {"active", "archived"}, WriteManifest(op.exec, st),
                   journal[op.exec].op \in Rewriting
            PROVE \A x \in Profiles : ~profile'[x].known
        <5>1. \A x \in Profiles : ~profile[x].known
          BY <3>0, <4>3 DEF Known
        <5>2. \A x \in Profiles : profile'[x].known = profile[x].known
          BY <3>0, <4>3, Written
        <5> QED BY <5>1, <5>2
      <4>5. CASE profile' = [profile EXCEPT ![journal[op.exec].successor] = Fresh]
        BY <4>5 DEF TypeOK, Known, Fresh
      <4> QED
        <5>1. CASE ReadManifest(op.exec)
          BY <4>2, <5>1 DEF ReadManifest
        <5>2. CASE ApplyArchive(op.exec) \/ ApplyRestore(op.exec)
          BY <4>3, <5>2 DEF ApplyArchive, ApplyRestore, Rewriting
        <5>3. CASE ApplyReset(op.exec)
          BY <4>2, <4>3, <4>5, <5>3 DEF ApplyReset, Rewriting
        <5> QED BY <2>6, <4>1, <5>1, <5>2, <5>3 DEF Apply
    <3> QED BY <2>0, <3>1, <3>2 DEF Known
  <2>7. CASE Unlink
    <3>0. op.exec \in Profiles
      BY <2>7 DEF Unlink, OneJournal, Working, Journaled
    <3>1. op'.plan = op.plan
      BY <2>7 DEF Unlink, TypeOK, Op
    <3>2. \A x \in Profiles : journal'[x].op \in Rewriting => journal[x].op \in Rewriting
      BY <2>7 DEF Unlink, TypeOK, NoJournal, Rewriting
    <3>3. \A x \in Profiles : Decided(profile[x])' /\ (profile'[x].known => profile[x].known)
      BY <1>0, <2>7, <3>0 DEF Unlink, TypeOK, Known, Files
    <3> QED BY <2>0, <3>1, <3>2, <3>3 DEF Known
  <2>8. CASE Begin
    <3>1. op'.plan = NoOp.plan
      BY <2>8 DEF Begin, NoOp
    <3> QED BY <2>1, <2>8, <3>1 DEF Begin, NoOp, NoJournal, Rewriting
  <2>9. CASE OpFails \/ Measure
    BY <2>1, <2>9 DEF OpFails, OpEnds, Measure, NoOp, NoJournal, Rewriting
  <2> QED BY <1>4, <2>2, <2>3, <2>4, <2>5, <2>6, <2>7, <2>8, <2>9 DEF Lifecycle
<1>5. CASE Recovery
  <2> USE DEF Aside, Known
  <2>0. UNCHANGED <<journal, op>>
    BY <1>5, Frames
  <2>1. CASE \/ Undo \/ CleanStaging \/ Settle \/ Prepare \/ NoteOld \/ OwnNew
           \/ NoteNew \/ RecFails
    BY <2>0, <2>1
    DEF Undo, CleanStaging, Settle, Prepare, NoteOld, OwnNew, NoteNew, RecFails, Gone,
        Fresh
  <2>2. CASE DropOld
    BY <2>0, <2>2 DEF DropOld, Removed, Torn, Gone, Fresh
  <2>3. CASE DropNew
    <3>1. \A p \in Profiles : profile'[p] = profile[p] \/ ~profile'[p].known
      BY <2>3 DEF DropNew, Removed, Torn, Gone, Fresh, TypeOK
    <3> QED BY <2>0, <2>3, <3>1 DEF DropNew
  <2>4. CASE MoveBack
    <3>1. \A p \in Profiles : profile'[p] = profile[p] \/ profile'[p] = rollback
      BY <2>4 DEF MoveBack, TypeOK
    <3> QED BY <2>0, <2>4, <3>1 DEF MoveBack, Gone, Fresh
  <2>5. CASE Backup
    <3>1. \A p \in Profiles : ~backup'[p].known
      BY <1>0, <2>5 DEF Backup, TypeOK, Files
    <3> QED BY <2>0, <2>5, <3>1 DEF Backup
  <2>6. CASE Stage
    <3>1. rec.target \in Profiles
      BY <2>6 DEF Stage, TypeOK, Rec, Promoting
    <3> QED BY <2>0, <2>6, <3>1 DEF Stage
  <2>7. CASE MoveOld
    <3>1. rec.target \in Profiles
      BY <2>7 DEF MoveOld, TypeOK, Rec, Promoting
    <3>2. \A p \in Profiles : profile'[p] = profile[p] \/ ~profile'[p].known
      BY <2>7 DEF MoveOld, TypeOK, Gone, Fresh
    <3> QED BY <2>0, <2>7, <3>1, <3>2 DEF MoveOld
  <2>8. CASE MoveNew
    <3>1. \A p \in Profiles : profile'[p] = profile[p] \/ ~profile'[p].known
      BY <2>8 DEF MoveNew, TypeOK
    <3> QED BY <2>0, <2>8, <3>1 DEF MoveNew, Gone, Fresh
  <2> QED BY <1>5, <2>1, <2>2, <2>3, <2>4, <2>5, <2>6, <2>7, <2>8 DEF Recovery
<1> QED BY <1>1, <1>2, <1>3, <1>4, <1>5 DEF Next

(* No step takes a reset's replacement away without a journal to make it. *)
LEMMA ReplacedKept ==
  ASSUME TypeOK, OneJournal, Deletions, Promoting, Replaced, [Next]_vars
  PROVE Replaced'
<1> USE DEF copies, store
<1>0. /\ \A p \in Profiles : profile[p] \in Files /\ journal[p] \in Journals
      /\ \A p \in Profiles : successorOf[p] # None => successorOf[p] \in Profiles
      /\ None \notin Profiles
  BY ProfilesAssumption DEF TypeOK
<1>1. CASE UNCHANGED vars \/ Crash
  BY <1>1 DEF vars, Crash, NoOp, NoRec, Replaced
<1>2. CASE Owner
  <2>1. UNCHANGED <<journal, op, restoring, successorOf>>
    BY <1>2, Frames
  <2>2. rec' = rec \/ rec'.pc = "recover"
    BY <1>2 DEF Owner, Create, RecordSignIn, BeginRecovery, NoRec
  <2>3. \A p \in Profiles : profile[p].files # "none" => profile'[p].files # "none"
    <3>1. ASSUME NEW x \in Profiles, Create(x)
          PROVE \A p \in Profiles : profile'[p] = profile[p] \/ profile'[p] = Fresh
      <4> DEFINE ensured == IF profile[Default].files = "none"
                            THEN [profile EXCEPT ![Default] = Fresh] ELSE profile
                 makes == Readable(ensured) /\ ensured[x].files = "none"
                 made == IF makes THEN [ensured EXCEPT ![x] = Fresh] ELSE ensured
      <4>1. \A y \in Profiles : ensured[y] = profile[y] \/ ensured[y] = Fresh
        BY DEF TypeOK
      <4>2. \A y \in Profiles : made[y] = profile[y] \/ made[y] = Fresh
        BY <4>1 DEF TypeOK
      <4>3. profile' = made
        BY <3>1 DEF Create
      <4> QED BY <4>2, <4>3
    <3>2. ASSUME NEW x \in Profiles, RecordSignIn(x), NEW p \in Profiles
          PROVE profile'[p].files = profile[p].files
      BY <1>0, <3>2 DEF RecordSignIn, TypeOK, Files
    <3> QED BY <1>2, <3>1, <3>2 DEF Owner, BeginRecovery, Fresh
  <2> QED BY <1>0, <2>1, <2>2, <2>3 DEF Replaced
<1>3. CASE Lifecycle
  <2>0. UNCHANGED <<restoring, rec>>
    BY <1>3, Frames
  <2>1. CASE /\ \A p \in Profiles : profile[p].files # "none" => profile'[p].files # "none"
             /\ UNCHANGED <<journal, successorOf>> /\ op'.pc # "unlink"
    BY <1>0, <2>0, <2>1 DEF Replaced
  <2>2. CASE Begin \/ Reconcile
    <3>1. op'.pc # "unlink"
      BY <2>2 DEF Begin, Reconcile, Execute, NoOp, TypeOK, Op
    <3> QED BY <2>1, <2>2, <3>1 DEF Begin, Reconcile
  <2>3. CASE Decide
    <3>1. CASE OpEnds /\ UNCHANGED profile
      BY <2>1, <2>3, <3>1 DEF Decide, OpEnds, NoOp
    <3>2. ASSUME NEW k \in Kinds, NEW found \in SUBSET Profiles,
                 op' = [op EXCEPT !.pc = "next", !.todo = found,
                          !.plan = [NoJournal EXCEPT !.op = OpOf[k],
                                                     !.limit = k = "limit"]],
                 profile' = [x \in Profiles |->
                   [profile[x] EXCEPT !.known = k = "limit" /\ x \in found]]
          PROVE Replaced'
      <4>1. op'.pc = "next"
        BY <3>2 DEF TypeOK, Op
      <4>2. \A p \in Profiles : profile'[p].files = profile[p].files
        BY <1>0, <3>2 DEF Files
      <4> QED BY <2>1, <2>3, <4>1, <4>2 DEF Decide
    <3> QED BY <2>3, <3>1, <3>2 DEF Decide
  <2>4. CASE Plan
    <3>1. Journaled = {} /\ UNCHANGED profile
      BY <2>4 DEF Plan, OneJournal
    <3>2. \A p \in Profiles : successorOf'[p] # None => successorOf'[p] = successorOf[p]
      BY <2>4 DEF Plan, TypeOK
    <3> QED BY <1>0, <2>0, <3>1, <3>2 DEF Replaced, Journaled
  <2>5. CASE Stop
    <3>1. /\ \A p \in Profiles : /\ journal'[p].op = journal[p].op
                                 /\ journal'[p].successor = journal[p].successor
          /\ op'.pc = "apply"
      BY <1>0, <2>5 DEF Stop, TypeOK, Journals, Op
    <3> QED BY <2>0, <2>5, <3>1 DEF Stop, Replaced
  <2>6. CASE Apply
    <3>0. op.exec \in Profiles /\ Journaled = {op.exec} /\ profile[op.exec] \in Files
      BY <1>0, <2>6 DEF Apply, OneJournal, Working, Journaled
    <3>1. CASE ApplyDelete(op.exec)
      <4>1. \A p \in Profiles : successorOf[p] # op.exec /\ journal[p].op # "reset"
        BY <3>0, <3>1 DEF ApplyDelete, Deletions, Journaled
      <4>2. /\ \A p \in Profiles : p # op.exec => profile'[p] = profile[p]
            /\ UNCHANGED successorOf
        BY <3>1 DEF ApplyDelete, TypeOK
      <4> QED BY <1>0, <2>0, <4>1, <4>2 DEF Replaced
    <3>4. CASE ReadManifest(op.exec)
      <4>1. op'.pc = "write" \/ journal[op.exec].op = "restore"
        BY <3>4 DEF ReadManifest, TypeOK, Op
      <4>2. UNCHANGED <<profile, journal, successorOf>>
        BY <3>4 DEF ReadManifest
      <4>3. \A p \in Profiles : journal[p].op = "reset" => p = op.exec
        BY <3>0 DEF Journaled
      <4> QED BY <1>0, <2>0, <4>1, <4>2, <4>3 DEF Replaced
    <3>2. CASE ApplyArchive(op.exec) \/ ApplyRestore(op.exec)
      <4>1. \A p \in Profiles : journal[p].op # "reset"
        BY <3>0, <3>2 DEF ApplyArchive, ApplyRestore, Journaled
      <4>2. \A p \in Profiles : profile'[p].files = profile[p].files
        BY <3>0, <3>2, Written DEF ApplyArchive, ApplyRestore
      <4>3. UNCHANGED <<journal, successorOf>>
        BY <3>2 DEF ApplyArchive, ApplyRestore
      <4> QED BY <1>0, <2>0, <4>1, <4>2, <4>3 DEF Replaced
    <3>3. CASE ApplyReset(op.exec)
      <4> DEFINE q == journal[op.exec].successor
      <4>0. q \in Profiles
        BY <1>0, <3>0, <3>3 DEF ApplyReset, TypeOK, Journals
      <4>1. CASE op.pc = "write"
        <5>1. op'.pc = "rest"
          BY <3>3, <4>1 DEF ApplyReset, AfterArchive, Continue, TypeOK, Op
        <5>2. \A p \in Profiles : profile'[p].files = profile[p].files
          BY <3>0, <3>3, <4>1, Written DEF ApplyReset
        <5>3. /\ \A p \in Profiles : successorOf'[p] =
                   IF p = op.exec THEN q ELSE successorOf[p]
              /\ UNCHANGED journal /\ journal[op.exec].op = "reset"
          BY <3>3, <4>1 DEF ApplyReset, TypeOK
        <5> QED BY <1>0, <2>0, <3>0, <4>0, <5>1, <5>2, <5>3 DEF Replaced
      <4>2. CASE op.pc = "rest"
        <5>1. /\ \A p \in Profiles : profile[p].files # "none" => profile'[p].files # "none"
              /\ profile'[q].files # "none"
          BY <3>3, <4>0, <4>2 DEF ApplyReset, WriteManifest, TypeOK, Here, Fresh
        <5>2. UNCHANGED <<journal, successorOf>>
          BY <3>3, <4>2 DEF ApplyReset, WriteManifest
        <5>3. \A p \in Profiles : journal[p].op = "reset" => p = op.exec
          BY <3>0 DEF Journaled
        <5> QED BY <1>0, <2>0, <4>0, <5>1, <5>2, <5>3 DEF Replaced
      <4> QED BY <3>3, <4>1, <4>2 DEF ApplyReset, WriteManifest
    <3> QED BY <2>6, <3>1, <3>2, <3>3, <3>4 DEF Apply
  <2>7. CASE Unlink
    <3>0. op.exec \in Profiles /\ Journaled = {op.exec}
      BY <2>7 DEF Unlink, OneJournal, Working, Journaled
    <3>1. \A p \in Profiles : profile'[p].files = profile[p].files
      BY <1>0, <2>7, <3>0 DEF Unlink, TypeOK, Files
    <3>2. \A p \in Profiles : journal[p].op = "reset" => p = op.exec
      BY <3>0 DEF Journaled
    <3> QED BY <1>0, <2>0, <2>7, <3>1, <3>2 DEF Unlink, Replaced
  <2>8. CASE OpFails
    BY <2>1, <2>8 DEF OpFails, OpEnds, NoOp
  <2>9. CASE Measure
    BY <2>0, <2>9 DEF Measure, Replaced
  <2> QED
    BY <1>3, <2>2, <2>3, <2>4, <2>5, <2>6, <2>7, <2>8, <2>9 DEF Lifecycle
<1>4. CASE Recovery
  <2> USE DEF Aside, RecTo, Promoted, SetAside
  <2>0. UNCHANGED <<journal, op, successorOf>> /\ rec \in Rec
    BY <1>4, Frames DEF TypeOK
  <2>1. CASE Undo
    <3>1. rec'.pc = "settle" \/ rec'.pc = "dropOld" =>
            profile[restoring.profile].files # "none"
      BY <2>0, <2>1 DEF Undo, NoRec, Rec
    <3>2. rec'.pc \in {"settle", "dropOld", "dropNew", "moveBack", "idle"}
      BY <2>0, <2>1 DEF Undo, NoRec, KeepsNew, Rec
    <3> QED BY <2>0, <2>1, <3>1, <3>2 DEF Undo, Replaced
  <2>2. CASE CleanStaging \/ Backup \/ Stage
    <3>1. rec'.pc \in {"check", "idle", "prepare"}
      <4>1. CASE CleanStaging \/ Backup
        BY <2>0, <4>1 DEF CleanStaging, Backup, NoRec, Rec
      <4>2. CASE Stage
        BY <2>0, <4>2 DEF Stage, Rec
      <4> QED BY <2>2, <4>1, <4>2
    <3>2. UNCHANGED <<profile, restoring>>
      BY <2>2 DEF CleanStaging, Backup, Stage
    <3> QED BY <2>0, <3>1, <3>2 DEF Replaced
  <2>3. CASE DropOld
    BY <2>0, <2>3 DEF DropOld, Replaced
  <2>4. CASE DropNew
    <3>1. /\ rec'.pc \in {"moveBack", "dropNew"} /\ UNCHANGED restoring
          /\ \A p \in Profiles : p # restoring.profile => profile'[p] = profile[p]
      BY <2>0, <2>4 DEF DropNew, Rec, TypeOK
    <3> QED BY <1>0, <2>0, <3>1 DEF Replaced
  <2>5. CASE MoveBack
    <3>1. \A p \in Profiles :
            IF p = restoring.profile THEN profile'[p].files # "none"
            ELSE profile'[p] = profile[p]
      BY <2>5 DEF MoveBack, Promoting, TypeOK
    <3> QED BY <1>0, <2>0, <2>5, <3>1 DEF MoveBack, Replaced
  <2>6. CASE Settle
    BY <2>0, <2>6 DEF Settle, Replaced
  <2>7. CASE Prepare
    <3>1. Promoted = None /\ rec'.pc = "moveOld"
      BY <2>0, <2>7 DEF Prepare, Promoting, Rec
    <3> QED BY <1>0, <2>0, <2>7, <3>1 DEF Prepare, Replaced
  <2>8. CASE MoveOld
    <3>1. /\ rec'.pc = "noteOld" /\ restoring.profile = rec.target /\ UNCHANGED restoring
          /\ \A p \in Profiles : p # rec.target => profile'[p] = profile[p]
      BY <2>0, <2>8 DEF MoveOld, Promoting, Rec, TypeOK
    <3> QED BY <1>0, <2>0, <3>1 DEF Replaced
  <2>9. CASE NoteOld
    <3>1. rec'.pc = "moveNew" /\ restoring'.profile = restoring.profile
      BY <2>0, <2>9 DEF NoteOld, Rec, TypeOK, Promotion
    <3> QED BY <2>0, <2>9, <3>1 DEF NoteOld, Replaced
  <2>10. CASE MoveNew
    <3>1. restoring.profile = rec.target /\ UNCHANGED restoring
      BY <2>10 DEF MoveNew, Promoting
    <3>2. \A p \in Profiles : IF p = rec.target THEN profile'[p].files # "none"
                              ELSE profile'[p] = profile[p]
      BY <2>10 DEF MoveNew, Promoting, TypeOK
    <3> QED BY <1>0, <2>0, <3>1, <3>2 DEF Replaced
  <2>13. CASE OwnNew
    <3>1. rec.pc = "ownNew" /\ UNCHANGED <<profile, restoring>>
      BY <2>13 DEF OwnNew
    <3> QED BY <2>0, <3>1 DEF Replaced
  <2>11. CASE NoteNew
    BY <2>0, <2>11 DEF NoteNew, Replaced
  <2>12. CASE RecFails
    <3>1. rec'.pc \in {"undo", "idle"}
      BY <2>0, <2>12 DEF RecFails, NoRec, Rec
    <3> QED BY <2>0, <2>12, <3>1 DEF RecFails, Replaced
  <2> QED
    BY <1>4, <2>1, <2>2, <2>3, <2>4, <2>5, <2>6, <2>7, <2>8, <2>9, <2>10, <2>11,
       <2>12, <2>13 DEF Recovery
<1> QED BY <1>1, <1>2, <1>3, <1>4 DEF Next

(* Nothing is decided on and nothing replaced on a host that starts. *)
LEMMA InitKnown == Init => Known /\ Replaced
<1> SUFFICES ASSUME Init PROVE Known /\ Replaced
  OBVIOUS
<1> USE DEF Init
<1>1. ~Fresh.known /\ ~Gone.known
  BY DEF Fresh, Gone
<1>2. \A p \in Profiles : ~profile[p].known /\ ~backup[p].known
  BY <1>1
<1>3. Known
  BY <1>1, <1>2 DEF Known, Decided
<1>4. Replaced
  BY DEF Replaced
<1> QED BY <1>3, <1>4

(* A pending deletion for the storage limit, while the files it was decided on
   are in place, stands over an archived profile with no saved sign-in
   (enforceStorageLimit).  Files a restore puts there since are not meant: the
   code deletes them, as SavedNeverDeleted is refuted to show. *)
THEOREM CleanupSparesSaved == Spec => []CleanupSparesSignIns
<1> DEFINE Inv == TypeOK /\ OneJournal /\ Promoting /\ Known
<1>1. Init => Inv
  BY InitTypeOK, InitHolds, InitKnown
<1>2. Inv /\ [Next]_vars => Inv'
  BY TypeKept, OneJournalKept, PromotingKept, KnownKept
<1>3. Inv => CleanupSparesSignIns
  BY DEF Known, Decided, CleanupSparesSignIns, Archived, Here
<1> QED BY <1>1, <1>2, <1>3, PTL DEF Spec

(* The replacement of a reset profile exists or will be made
   (resetBrowserState, resetReplacementProfile). *)
THEOREM ResetsLeaveSuccessors == Spec => []SuccessorsExist
<1> DEFINE Inv == TypeOK /\ OneJournal /\ Promoting /\ Deletions /\ Replaced
<1>1. Init => Inv
  BY InitTypeOK, InitHolds, InitKnown
<1>2. Inv /\ [Next]_vars => Inv'
  BY TypeKept, OneJournalKept, PromotingKept, DeletionsKept, ReplacedKept
<1>3. Inv => SuccessorsExist
  BY DEF Replaced, SuccessorsExist
<1> QED BY <1>1, <1>2, <1>3, PTL DEF Spec
=================================================================================
