---------------------------- MODULE ProfileStorage ----------------------------
(***************************************************************************)
(* Browser Profiles on one host's disk: host/profile-storage.ts and         *)
(* host/profile-recovery.ts.                                                *)
(*                                                                         *)
(* A lifecycle operation (archive, restore from the archive, reset, delete) *)
(* takes the mutation lock, carries out the journals an interrupted         *)
(* operation left, lists the profiles, writes a journal of its own, stops   *)
(* the browser, changes the files and removes the journal.  A restore of a  *)
(* backup holds another lock, the recovery lock, and promotes the copy it   *)
(* staged with two renames and a journal of its own; it runs beside the     *)
(* lifecycle operations.  Every file step may fail, and the worker may die  *)
(* after any of them: what is on disk stays, what is in memory is lost.     *)
(*                                                                         *)
(* Left out: names, settings and the browser's data, rebuildable data,      *)
(* downloads and the runtime manifest (no property looks at them); imports, *)
(* which the host always refuses (unverifiedDevBrowserProfileIsStopped).    *)
(***************************************************************************)
EXTENDS Naturals, FiniteSets

CONSTANTS Profiles,    \* profile ids
          BackedUp,    \* bound: those the owner makes backups of
          Default,     \* the id every host has, made again when it is missing
          None,
          MaxFaults    \* bound: how many file steps fail and workers die

ASSUME ProfilesAssumption == /\ Default \in Profiles /\ None \notin Profiles
                             /\ BackedUp \subseteq Profiles
                             /\ MaxFaults \in Nat

VARIABLES profile,     \* the profile directories
          journal,     \* the lifecycle journals, one file per profile
          restoring,   \* the journal of a promotion
          rollback,    \* the profile directory it moved aside
          staging,     \* the copy of a backup it is about to move in
          backup,      \* the archive the owner made of each profile
          op,          \* the holder of the mutation lock
          rec,         \* the holder of the recovery lock
          measured,    \* enforceStorageLimit's list of archived profiles
          faults,
          owned,       \* history: profiles made and not to be deleted
          successorOf  \* history: what replaced a reset profile

store == <<profile, journal, owned, successorOf>>
copies == <<restoring, rollback, staging>>
vars == <<store, copies, backup, op, rec, measured, faults>>

(***************************************************************************)
(* A directory is missing, whole, or torn by a removal that was cut short   *)
(* (its manifest can then not be read).  "known" says that a deletion for   *)
(* the storage limit was decided on these very files.                       *)
(***************************************************************************)
Files == [files : {"none", "whole", "torn"}, state : {"active", "archived"},
          saved : BOOLEAN, known : BOOLEAN]
Fresh == [files |-> "whole", state |-> "active", saved |-> FALSE,
          known |-> FALSE]
Gone == [Fresh EXCEPT !.files = "none"]
Torn == [Fresh EXCEPT !.files = "torn"]

Journals == [op : {"none", "archive", "restore", "reset", "delete"},
             phase : {"planned", "stopped"},
             successor : Profiles \cup {None}, limit : BOOLEAN]
NoJournal == [op |-> "none", phase |-> "planned", successor |-> None,
              limit |-> FALSE]

(* The operations of the store, and what each writes in its journal.        *)
OpOf == [archive |-> "archive", archiveUnsaved |-> "archive",
         restore |-> "restore", reset |-> "reset", delete |-> "delete",
         unused |-> "delete", limit |-> "delete", expire |-> "delete"]
Kinds == DOMAIN OpOf

(* "saved" is what the manifest an operation has read says of sign-ins.      *)
Op == [pc : {"idle", "reconcile", "decide", "next", "stop", "apply", "write",
             "rest", "unlink"},
       plan : Journals, exec : Profiles \cup {None}, todo : SUBSET Profiles,
       saved : BOOLEAN]
NoOp == [pc |-> "idle", plan |-> NoJournal, exec |-> None, todo |-> {},
         saved |-> FALSE]

Rec == [kind : {"none", "backup", "restore"}, target : Profiles \cup {None},
        stage : {"start", "promote", "undo"},
        pc : {"idle", "recover", "check", "prepare", "moveOld", "noteOld",
              "moveNew", "ownNew", "noteNew", "undo", "dropOld", "dropNew",
              "moveBack", "settle"},
        phase : {"prepared", "oldMoved", "newMoved"}]
NoRec == [kind |-> "none", target |-> None, stage |-> "start", pc |-> "idle",
          phase |-> "prepared"]

Promotion == [profile : Profiles \cup {None},
              phase : {"prepared", "oldMoved", "newMoved"}]
NoPromotion == [profile |-> None, phase |-> "prepared"]

TypeOK ==
  /\ profile \in [Profiles -> Files]
  /\ journal \in [Profiles -> Journals]
  /\ restoring \in Promotion
  /\ rollback \in Files /\ staging \in Files
  /\ backup \in [Profiles -> Files]
  /\ op \in Op /\ rec \in Rec
  /\ measured \subseteq Profiles /\ owned \subseteq Profiles
  /\ faults \in 0..MaxFaults
  /\ successorOf \in [Profiles -> Profiles \cup {None}]
  /\ (rec.kind = "none") = (rec.pc = "idle")
  /\ rollback.files # "none" => restoring.profile # None
  /\ \A p \in Profiles : journal[p].op = "reset" => journal[p].successor # None

Init == /\ profile = [p \in Profiles |-> IF p = Default THEN Fresh ELSE Gone]
        /\ journal = [p \in Profiles |-> NoJournal]
        /\ restoring = NoPromotion /\ rollback = Gone /\ staging = Gone
        /\ backup = [p \in Profiles |-> Gone]
        /\ op = NoOp /\ rec = NoRec
        /\ measured = {} /\ faults = 0
        /\ owned = {Default} /\ successorOf = [p \in Profiles |-> None]

-----------------------------------------------------------------------------
(* The inventory.                                                           *)

(* A listing refuses a directory whose manifest it cannot read and a name    *)
(* that is no profile id, which the promotion's rollback directory is.       *)
Readable(dirs) == /\ \A p \in Profiles : dirs[p].files # "torn"
                  /\ rollback.files = "none"

Here(p) == profile[p].files = "whole"
Archived(p) == Here(p) /\ profile[p].state = "archived"
Active(p) == Here(p) /\ profile[p].state = "active"

(* Archived with no sign-in saved: what the storage limit may delete.        *)
Expendable(p) == Archived(p) /\ ~profile[p].saved

(* createProfile and ensureScopedProfile, under the mutation lock: the       *)
(* Default Profile is made if it is missing, before the others are read.  A  *)
(* new id is none that a reset has drawn.                                    *)
Create(p) ==
  LET ensured == IF profile[Default].files = "none"
                 THEN [profile EXCEPT ![Default] = Fresh] ELSE profile
      makes == Readable(ensured) /\ ensured[p].files = "none"
      made == IF makes THEN [ensured EXCEPT ![p] = Fresh] ELSE ensured
  IN /\ op.pc = "idle"
     /\ \A q \in Profiles : journal[q].successor # p
     /\ made # profile
     /\ profile' = made
     /\ owned' = owned \cup {q \in Profiles : /\ made[q] # profile[q]
                                             /\ journal[q].op # "delete"
                                             /\ restoring.profile # q}
     /\ UNCHANGED <<journal, successorOf, copies, backup, op, rec, measured,
                    faults>>

(* recordSessionSite: a confirmed sign-in makes the profile a saved one.     *)
RecordSignIn(p) ==
  /\ op.pc = "idle" /\ Readable(profile) /\ Active(p)
  /\ profile' = [profile EXCEPT ![p].saved = TRUE]
  /\ UNCHANGED <<journal, owned, successorOf, copies, backup, op, rec,
                 measured, faults>>

(* enforceStorageLimit measures without the lock.                            *)
Measure ==
  /\ Readable(profile)
  /\ measured' = {p \in Profiles : Expendable(p)}
  /\ UNCHANGED <<store, copies, backup, op, rec, faults>>

-----------------------------------------------------------------------------
(* Lifecycle operations, under the mutation lock.                            *)

Quiet == UNCHANGED <<copies, backup, rec, measured, faults>>
OpEnds == op' = NoOp

(* Which operation it is shows only once the journals are dealt with.  (The  *)
(* host's own listing tries to read every profile before it reconciles.)     *)
Begin ==
  /\ op.pc = "idle"
  /\ op' = [NoOp EXCEPT !.pc = "reconcile",
              !.todo = {q \in Profiles : journal[q].op # "none"}]
  /\ UNCHANGED store /\ Quiet

Execute(p, phase, rest) ==
  op' = [op EXCEPT !.exec = p, !.todo = rest,
           !.pc = IF phase = "planned" THEN "stop" ELSE "apply"]

Own == op.plan.op # "none"

(* reconcileProfileLifecycleUnlocked: the journals found are executed again. *)
Reconcile ==
  /\ op.pc = "reconcile"
  /\ \/ \E p \in op.todo : Execute(p, journal[p].phase, op.todo \ {p})
     \/ op.todo = {} /\ op' = [op EXCEPT !.pc = "decide"]
  /\ UNCHANGED store /\ Quiet

(* MUTANT of StillExpendable: the storage limit trusts what it measured.     *)
StillExpendableAsMeasured(p) == Here(p)

(* What enforceStorageLimit looks at again under the lock.                   *)
StillExpendable(p) == Expendable(p)

(* What an operation finds to work on once it holds the lock.  How long a    *)
(* profile has been archived is left open, and so are the other facts of     *)
(* profileKeepReason (name, age, running, selected).                         *)
Eligible(k, p) ==
  CASE k = "archive" -> Active(p)
    [] k = "archiveUnsaved" -> Active(p) /\ ~profile[p].saved
    [] k = "restore" -> Archived(p)
    [] k = "reset" -> Active(p)
    [] k = "delete" -> Here(p)
    [] k = "unused" -> Active(p) /\ ~profile[p].saved
    [] k = "limit" -> StillExpendable(p)
    [] k = "expire" -> Archived(p)

Decide ==
  /\ op.pc = "decide"
  /\ \/ OpEnds /\ UNCHANGED <<profile, measured>>
     \/ \E k \in Kinds, found \in SUBSET Profiles :
          /\ Readable(profile) /\ found # {}
          /\ k # "expire" => Cardinality(found) = 1
          /\ k = "limit" => found \subseteq measured
          /\ \A p \in found : Eligible(k, p)
          /\ op' = [op EXCEPT !.pc = "next", !.todo = found,
                      !.plan = [NoJournal EXCEPT !.op = OpOf[k],
                                                 !.limit = k = "limit"]]
          /\ profile' = [p \in Profiles |->
               [profile[p] EXCEPT !.known = k = "limit" /\ p \in found]]
          /\ measured' = IF k = "limit" THEN measured \ found ELSE measured
  /\ UNCHANGED <<journal, owned, successorOf, copies, backup, rec, faults>>

(* beginLifecycle and beginResetLifecycle: the journal is written first. The *)
(* id of a reset's replacement is a new one.                                 *)
Plan ==
  /\ op.pc = "next"
  /\ \/ op.todo = {} /\ OpEnds /\ UNCHANGED <<journal, owned, successorOf>>
     \/ \E p \in op.todo, q \in Profiles \cup {None} :
          /\ (op.plan.op = "reset") = (q # None)
          /\ q # None => /\ profile[q].files = "none" /\ q # Default
                         /\ restoring.profile # q
          /\ journal' = [journal EXCEPT ![p] =
                           [op.plan EXCEPT !.successor = q]]
          /\ IF op.plan.op = "delete"
             THEN /\ owned' = owned \ {p}
                  /\ successorOf' = [r \in Profiles |->
                       IF successorOf[r] = p THEN None ELSE successorOf[r]]
             ELSE UNCHANGED <<owned, successorOf>>
          /\ Execute(p, "planned", op.todo \ {p})
  /\ UNCHANGED profile /\ Quiet

(* stoppedLifecycleJournal *)
Stop ==
  /\ op.pc = "stop"
  /\ journal' = [journal EXCEPT ![op.exec].phase = "stopped"]
  /\ op' = [op EXCEPT !.pc = "apply"]
  /\ UNCHANGED <<profile, owned, successorOf>> /\ Quiet

Continue(pc) == op' = [op EXCEPT !.pc = pc, !.saved = FALSE]

(* rm -r: the directory is torn before it is gone.                           *)
ApplyDelete(p) ==
  /\ journal[p].op = "delete"
  /\ profile' = [profile EXCEPT ![p] =
                   IF op.pc = "apply" /\ @.files # "none" THEN Torn ELSE Gone]
  /\ Continue(IF op.pc = "apply" /\ profile[p].files # "none"
              THEN "rest" ELSE "unlink")
  /\ UNCHANGED <<journal, owned, successorOf>>

(* repairManifest, before anything but a delete: an operation goes on with   *)
(* the manifest it has read.  An archive that has expired since is not       *)
(* restored: the operation throws (OpFails); found again, its journal is     *)
(* given up.                                                                 *)
ReadManifest(p) ==
  /\ op.pc = "apply" /\ journal[p].op # "delete" /\ Here(p)
  /\ \/ op' = [op EXCEPT !.pc = "write", !.saved = profile[p].saved]
     \/ journal[p].op = "restore" /\ Archived(p) /\ ~Own /\ Continue("unlink")
  /\ UNCHANGED <<profile, journal, owned, successorOf>>

(* writeJson puts that manifest, with its new state, over the one that is    *)
(* there by then; one put into a directory being removed goes with it.       *)
WriteManifest(p, state) ==
  /\ op.pc = "write" /\ profile[p].files # "none"
  /\ profile' = IF Here(p) THEN [profile EXCEPT ![p] =
                      [@ EXCEPT !.state = state, !.saved = op.saved]]
                ELSE profile

ApplyArchive(p) ==
  /\ journal[p].op = "archive" /\ WriteManifest(p, "archived")
  /\ Continue("unlink")
  /\ UNCHANGED <<journal, owned, successorOf>>

ApplyRestore(p) ==
  /\ journal[p].op = "restore" /\ WriteManifest(p, "active")
  /\ Continue("unlink")
  /\ UNCHANGED <<journal, owned, successorOf>>

(* MUTANT of AfterArchive: an archived profile is one whose reset is done.   *)
AfterArchiveOnce(p) == IF Archived(p) THEN "unlink" ELSE "rest"

(* A reset found again makes the replacement although the profile may be     *)
(* archived already.                                                         *)
AfterArchive(p) == "rest"

(* resetBrowserState archives the old profile before resetReplacementProfile *)
(* makes the new one, unless it is there already.                            *)
ApplyReset(p) ==
  LET q == journal[p].successor
  IN /\ journal[p].op = "reset"
     /\ \/ /\ WriteManifest(p, "archived")
           /\ successorOf' = [successorOf EXCEPT ![p] = q]
           /\ UNCHANGED owned
           /\ Continue(AfterArchive(p))
        \/ /\ op.pc = "rest" /\ profile[q].files # "torn"
           /\ profile' = IF Here(q) THEN profile
                         ELSE [profile EXCEPT ![q] = Fresh]
           /\ owned' = IF Here(q) \/ restoring.profile = q THEN owned
                       ELSE owned \cup {q}
           /\ Continue("unlink")
           /\ UNCHANGED successorOf
     /\ UNCHANGED journal

Apply ==
  /\ op.pc \in {"apply", "write", "rest"}
  /\ \/ ApplyDelete(op.exec) \/ ReadManifest(op.exec) \/ ApplyArchive(op.exec)
     \/ ApplyRestore(op.exec) \/ ApplyReset(op.exec)
  /\ Quiet

Unlink ==
  /\ op.pc = "unlink"
  /\ journal' = [journal EXCEPT ![op.exec] = NoJournal]
  /\ profile' = [profile EXCEPT ![op.exec].known = FALSE]
  /\ op' = [op EXCEPT !.pc = IF Own THEN "next" ELSE "reconcile",
                      !.exec = None]
  /\ UNCHANGED <<owned, successorOf>> /\ Quiet

(* A manifest cannot be read, or there is no directory to write it to.       *)
Unreadable == \/ op.pc = "apply" /\ journal[op.exec].op # "delete" /\ ~Here(op.exec)
              \/ op.pc = "write" /\ profile[op.exec].files = "none"
              \/ /\ op.pc = "rest" /\ journal[op.exec].op = "reset"
                 /\ profile[journal[op.exec].successor].files = "torn"

Expired == /\ op.pc = "apply" /\ Own
           /\ journal[op.exec].op = "restore" /\ Archived(op.exec)

(* The browser does not stop, a manifest cannot be read or a file step       *)
(* fails: the operation throws and its journal stays for the next one.       *)
OpFails ==
  /\ op.pc \in {"stop", "apply", "write", "rest", "unlink"}
  /\ faults' = IF Unreadable \/ Expired THEN faults ELSE faults + 1
  /\ faults' <= MaxFaults
  /\ OpEnds
  /\ UNCHANGED <<store, copies, backup, rec, measured>>

-----------------------------------------------------------------------------
(* Backups, under the recovery lock.                                         *)

Aside == UNCHANGED <<journal, owned, successorOf, op, measured, faults>>
RecTo(pc) == rec' = [rec EXCEPT !.pc = pc]

BeginRecovery(k, p) ==
  /\ rec.kind = "none"
  /\ rec' = [NoRec EXCEPT !.kind = k, !.target = p, !.pc = "recover"]
  /\ UNCHANGED <<profile, copies, backup>> /\ Aside

(* MUTANT of KeepsNew: the copy set aside is always brought back.            *)
KeepsNewNever(phase) == FALSE

(* Of two directories the restored one is kept only if its move was noted.   *)
KeepsNew(phase) == phase = "newMoved"

(* recoverPromotionJournal, on the journal found (recoverRecoveryState) or   *)
(* on the phase reached in memory (promoteRestoredProfile).                  *)
Undo ==
  LET p == restoring.profile
      phase == IF rec.pc = "undo" THEN rec.phase ELSE restoring.phase
      aside == rollback.files # "none"
      stays == profile[p].files # "none"
  IN /\ rec.pc \in {"recover", "undo"} /\ p # None
     /\ rec' = IF aside /\ stays
               THEN [rec EXCEPT !.pc = IF KeepsNew(phase) THEN "dropOld"
                                       ELSE "dropNew"]
               ELSE IF aside THEN [rec EXCEPT !.pc = "moveBack"]
               ELSE IF stays THEN [rec EXCEPT !.pc = "settle"]
               ELSE NoRec
     /\ staging' = IF rec'.kind = "none" /\ rec.pc = "undo" THEN Gone
                   ELSE staging
     /\ UNCHANGED <<profile, restoring, rollback, backup>> /\ Aside

(* cleanRecoveryStaging, when no promotion is found.                         *)
CleanStaging ==
  /\ rec.pc = "recover" /\ restoring.profile = None
  /\ staging' = Gone
  /\ RecTo("check")
  /\ UNCHANGED <<profile, restoring, rollback, backup>> /\ Aside

Removed(dir) == IF dir.files = "whole" THEN Torn ELSE Gone

DropOld ==
  /\ rec.pc = "dropOld"
  /\ rollback' = Removed(rollback)
  /\ RecTo(IF rollback'.files = "none" THEN "settle" ELSE "dropOld")
  /\ UNCHANGED <<profile, restoring, staging, backup>> /\ Aside

DropNew ==
  LET p == restoring.profile
  IN /\ rec.pc = "dropNew"
     /\ profile' = [profile EXCEPT ![p] = Removed(@)]
     /\ RecTo(IF profile'[p].files = "none" THEN "moveBack" ELSE "dropNew")
     /\ UNCHANGED <<copies, backup>> /\ Aside

(* A directory cannot be renamed onto another one that has files.            *)
MoveBack ==
  LET p == restoring.profile
  IN /\ rec.pc = "moveBack" /\ profile[p].files = "none"
     /\ profile' = [profile EXCEPT ![p] = rollback]
     /\ rollback' = Gone
     /\ RecTo("settle")
     /\ UNCHANGED <<restoring, staging, backup>> /\ Aside

(* MUTANT of Settle: a restore forgets its journal but not what it set       *)
(* aside, as when the journal is removed before the rollback directory.      *)
SettleEarly ==
  /\ rec.pc \in {"settle", "noteNew"}
  /\ restoring' = NoPromotion /\ staging' = Gone
  /\ IF rec.stage = "start" THEN RecTo("recover") ELSE rec' = NoRec
  /\ UNCHANGED <<profile, rollback, backup>> /\ Aside

(* The journal goes last.  A backup or restore that found one goes on.       *)
Settle ==
  /\ rec.pc = "settle"
  /\ restoring' = NoPromotion /\ staging' = Gone
  /\ IF rec.stage = "start" THEN RecTo("recover") ELSE rec' = NoRec
  /\ UNCHANGED <<profile, rollback, backup>> /\ Aside

(* The profile is stopped and its manifest is read, or the call fails.       *)
Backup ==
  /\ rec.pc = "check" /\ rec.kind = "backup"
  /\ backup' = IF Here(rec.target)
               THEN [backup EXCEPT ![rec.target] =
                       [profile[rec.target] EXCEPT !.known = FALSE]]
               ELSE backup
  /\ rec' = NoRec
  /\ UNCHANGED <<profile, copies>> /\ Aside

Stage ==
  /\ rec.pc = "check" /\ rec.kind = "restore"
  /\ Here(rec.target) /\ backup[rec.target].files = "whole"
  /\ staging' = backup[rec.target]
  /\ rec' = [rec EXCEPT !.pc = "prepare", !.stage = "promote"]
  /\ UNCHANGED <<profile, restoring, rollback, backup>> /\ Aside

(* promoteRestoredProfile, step by step.                                     *)
Prepare ==
  /\ rec.pc = "prepare"
  /\ restoring' = [profile |-> rec.target, phase |-> "prepared"]
  /\ RecTo("moveOld")
  /\ UNCHANGED <<profile, rollback, staging, backup>> /\ Aside

MoveOld ==
  /\ rec.pc = "moveOld" /\ profile[rec.target].files # "none"
  /\ rollback' = profile[rec.target]
  /\ profile' = [profile EXCEPT ![rec.target] = Gone]
  /\ rec' = [rec EXCEPT !.pc = "noteOld", !.phase = "oldMoved"]
  /\ UNCHANGED <<restoring, staging, backup>> /\ Aside

NoteOld ==
  /\ rec.pc = "noteOld"
  /\ restoring' = [restoring EXCEPT !.phase = "oldMoved"]
  /\ RecTo("moveNew")
  /\ UNCHANGED <<profile, rollback, staging, backup>> /\ Aside

MoveNew ==
  /\ rec.pc = "moveNew" /\ profile[rec.target].files = "none"
  /\ profile' = [profile EXCEPT ![rec.target] = staging]
  /\ staging' = Gone
  /\ RecTo("ownNew")
  /\ UNCHANGED <<restoring, rollback, backup>> /\ Aside

(* ensureOwned, before the move counts.                                      *)
OwnNew ==
  /\ rec.pc = "ownNew" /\ profile[rec.target].files # "none"
  /\ rec' = [rec EXCEPT !.pc = "noteNew", !.phase = "newMoved"]
  /\ UNCHANGED <<profile, copies, backup>> /\ Aside

NoteNew ==
  /\ rec.pc = "noteNew"
  /\ restoring' = [restoring EXCEPT !.phase = "newMoved"]
  /\ RecTo("dropOld")
  /\ UNCHANGED <<profile, rollback, staging, backup>> /\ Aside

(* The profile is running, its manifest or the archive cannot be read, or a  *)
(* step finds no directory or one in its way.                                *)
Refused == LET p == IF rec.pc = "moveBack" THEN restoring.profile ELSE rec.target
           IN \/ rec.pc = "check"
              \/ rec.pc \in {"moveOld", "ownNew"} /\ profile[p].files = "none"
              \/ rec.pc \in {"moveNew", "moveBack"} /\ profile[p].files # "none"

(* A step fails.  A promotion is undone; anything else ends the call, and a  *)
(* restore's staging directory goes with it.  A profile whose second rename  *)
(* could not be noted is no longer answered for: the rollback is dropped on  *)
(* the word of a phase that is not on disk.                                  *)
RecFails ==
  /\ rec.kind # "none"
  /\ faults' = IF Refused THEN faults ELSE faults + 1
  /\ faults' <= MaxFaults
  /\ rec' = IF rec.stage = "promote" /\ rec.pc # "prepare"
            THEN [rec EXCEPT !.pc = "undo", !.stage = "undo"] ELSE NoRec
  /\ staging' = IF rec'.kind = "none" /\ rec.stage # "start" THEN Gone
                ELSE staging
  /\ owned' = IF rec.pc = "noteNew" THEN owned \ {rec.target} ELSE owned
  /\ UNCHANGED <<profile, journal, successorOf, restoring, rollback, backup,
                 op, measured>>

-----------------------------------------------------------------------------
(* The worker dies: both locks are found stale by their process id.          *)
Crash ==
  /\ faults < MaxFaults
  /\ faults' = faults + 1
  /\ op' = NoOp /\ rec' = NoRec /\ measured' = {}
  /\ UNCHANGED <<store, copies, backup>>

Owner == \E p \in Profiles :
           \/ Create(p) \/ RecordSignIn(p)
           \/ p \in BackedUp /\ \E k \in {"backup", "restore"} :
                                   BeginRecovery(k, p)
Lifecycle == \/ Begin \/ Reconcile \/ Decide \/ Plan \/ Stop \/ Apply \/ Unlink
             \/ OpFails \/ Measure
Recovery == \/ Undo \/ CleanStaging \/ DropOld \/ DropNew \/ MoveBack
            \/ Settle \/ Backup \/ Stage \/ Prepare \/ MoveOld \/ NoteOld
            \/ MoveNew \/ OwnNew \/ NoteNew \/ RecFails

Next == Owner \/ Lifecycle \/ Recovery \/ Crash

Spec == Init /\ [][Next]_vars

-----------------------------------------------------------------------------
(***************************************************************************)
(* A profile nobody asked to delete is never lost: the directory the        *)
(* recovery would keep, the one set aside or the one in place, is whole     *)
(* after every step of a restore, its failure, its undoing, a crash in any  *)
(* of them, and whatever the lifecycle operations do meanwhile.             *)
(* Excepted is a restore that could not note its second rename: it goes on  *)
(* to drop the old profile while its journal still says to bring it back.   *)
(***************************************************************************)
Kept(p) == IF /\ restoring.profile = p /\ rollback.files # "none"
              /\ restoring.phase # "newMoved"
           THEN rollback ELSE profile[p]

RestoreKeepsACopy ==
  \A p \in owned : Kept(p).files = "whole"

(***************************************************************************)
(* The storage limit decides on a list it measured without the lock, and a   *)
(* deletion it has begun outlives failures and crashes.  While one is        *)
(* pending over the files it was decided on, they are those of an archived   *)
(* profile with no sign-in saved: no sign-in, restore from the archive or    *)
(* other operation that came in between has made them worth keeping.         *)
(* It says nothing of other files under the same id: those of a backup that  *)
(* a restore puts in their place (SavedNeverDeleted below), and a profile    *)
(* made again after a fault, with the deletion of the old one pending.       *)
(***************************************************************************)
CleanupSparesSignIns ==
  \A p \in Profiles :
    journal[p].limit /\ Here(p) /\ profile[p].known =>
      Archived(p) /\ ~profile[p].saved

(***************************************************************************)
(* What the comment on enforceStorageLimit and ADR 0024 say: a saved profile *)
(* is never deleted for the storage limit, whatever files it has by then.    *)
(* The code does not keep this: the restore of a backup holds another lock   *)
(* and the deletion that was decided on does not look again.                 *)
(***************************************************************************)
SavedNeverDeleted ==
  [][\A p \in Profiles :
       Apply /\ op.exec = p /\ journal[p].limit /\ Here(p) =>
         ~profile[p].saved]_vars

(***************************************************************************)
(* A reset leaves the owner a usable profile: once the old one is archived, *)
(* its replacement is there, or a journal will make it, or it is itself     *)
(* being restored from a backup (a replacement deleted since is let go).    *)
(***************************************************************************)
SuccessorsExist ==
  \A p \in Profiles :
    LET q == successorOf[p]
    IN q # None => \/ profile[q].files # "none"
                   \/ journal[p].op = "reset" /\ journal[p].successor = q
                   \/ restoring.profile = q
=============================================================================
