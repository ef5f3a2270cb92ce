------------------------------ MODULE GuestInstall ------------------------------
(***************************************************************************)
(* The crash-safe replacement of one machine's live root filesystem        *)
(* (app/Sources/VMGuestInstall.c), with the order in which its callers     *)
(* drive it: a boot (VMFirmwareBoot.c), a package build or the maintenance *)
(* of an installed guest (VMGuestInstallBuild.c) and an app installation   *)
(* (VMIPAPackage.m).                                                       *)
(*                                                                         *)
(* A namespace is one of the twelve transaction specs of the code.  Each   *)
(* owns a backup, a stage directory with one "next" image in it, a marker  *)
(* and a journal; all of them share the live image and the one-shot resume *)
(* request.  Every system call of the code that changes a directory entry  *)
(* or makes one durable is one action, so that the process can be killed,  *)
(* the call can fail, or the power can be lost between any two of them.    *)
(*                                                                         *)
(* Images are numbered in the order they come into being: 0 is "no such    *)
(* file" and -1 is a file whose bytes are incomplete.                      *)
(***************************************************************************)
EXTENDS Integers, Sequences, FiniteSets

CONSTANTS
  INSTALL,       \* the namespace of the first installation
  RECOVERY,      \* the namespace of the repair made during a boot
  Permanent,     \* maintenance namespaces whose marker stays
  Ephemeral,     \* namespaces whose marker goes once cleanup is complete
  Reporting,     \* the namespaces whose residue refuses another maintenance
  MaintTable,    \* the maintenance namespaces in the order of the code's table
  BuildAgain,    \* the ones a build recovers by name after the table
  Digests,       \* the manifest identities a caller can present
  MaxImage,      \* bound: images that come into being
  MaxFaults,     \* bound: kills, power losses and failed calls
  KILL, POWER, IOERR, LOSS,  \* which faults happen in this instance
  WRITES         \* whether the guest writes to its disk

NS == {INSTALL} \cup Permanent \cup Ephemeral

ASSUME NamespaceAssumption ==
  /\ INSTALL \notin Permanent \cup Ephemeral
  /\ Permanent \cap Ephemeral = {}
  /\ RECOVERY \in Ephemeral
  /\ Reporting \subseteq Permanent

ASSUME TableAssumption ==
  /\ MaintTable \in Seq(Permanent \cup Ephemeral)
  /\ \A n \in Permanent \cup Ephemeral :
       \E i \in 1 .. Len(MaintTable) : MaintTable[i] = n
  /\ \A i, j \in 1 .. Len(MaintTable) :
       MaintTable[i] = MaintTable[j] => i = j
  /\ BuildAgain \in Seq(Permanent)

ASSUME BoundAssumption ==
  /\ Digests \subseteq Nat \ {0}
  /\ MaxImage \in Nat \ {0}
  /\ MaxFaults \in Nat
  /\ {KILL, POWER, IOERR, LOSS, WRITES} \subseteq BOOLEAN

Absent == 0
Torn == -1
NoRecord == 0

VARIABLES
  fs,      \* the directory entries as the running process sees them
  dur,     \* the entries that are certain to survive a loss of power
  soft,    \* namespaces whose next image has bytes that were not fsynced
  op,      \* the operation under way
  status,  \* how the latest operation that came to an end ended
  gen,     \* the latest image that came into being
  txn,     \* history: the image each open transaction replaces, and by which
  faults   \* faults so far

disk == <<fs, dur, soft>>
history == <<gen, txn, faults>>
vars == <<fs, dur, soft, op, status, gen, txn, faults>>

Image == 1 .. MaxImage
File == Image \cup {Absent, Torn}
Record == Digests \cup {NoRecord}

(* What the work directory holds: the live image, the one-shot resume       *)
(* request (the image it was saved against, and whether the saved machine   *)
(* was powered off), and for each namespace its backup, marker, journal,    *)
(* partial records (tmp) and stage.  A stage entry is 0 or an inode: 1 and  *)
(* 2 tell a directory from the one that was removed and made again under    *)
(* its name.  The stage directory holds next and the temporary file of the  *)
(* image constructor (scrap).                                               *)
Inode == 0 .. 2
FS == [live : File, resume : File, off : BOOLEAN, backup : [NS -> File],
       next : [NS -> File], scrap : [NS -> BOOLEAN], stage : [NS -> Inode],
       journal : [NS -> Record], marker : [NS -> Record], tmp : [NS -> BOOLEAN]]

(* A pc value is a system call that can fail and end the operation, one of  *)
(* the cleanup calls, whose failure is only remembered, or a place where    *)
(* the code decides without touching the disk.                              *)
FailableCalls ==
  {"swapOut", "swapOutSync", "swapIn", "swapInStage", "swapInWork",
   "inv", "invSync", "markTmp", "markRen", "markSync",
   "restore", "restoreSync", "stTmp", "stNext", "stRmdir", "stMk", "stSync",
   "buildTmp", "buildLink", "buildSync", "buildUnlink", "buildDone",
   "fsyncNext", "jrnTmp", "jrnRen", "jrnSync",
   "disNext", "disRmdir", "disSync", "cfTmp", "cfRen", "cfSync"}
CopyCalls == {"copy", "copyEnd", "copySync"}
CleanupCalls ==
  {"rmBackup", "rmJournal", "rmTmp", "rmNext", "rmStage", "rmSync",
   "rmMarker", "rmMarkerSync"}
Goals == {"start", "gate", "prep", "stage", "confirm", "published", "repaired"}
Places == Goals \cup {"idle", "maint", "recover", "continue", "construct",
                      "repair", "publish", "discard", "discarded",
                      "restoreOnce", "running"}

PC == FailableCalls \cup CopyCalls \cup CleanupCalls \cup Places

(* The call stack of the one thread that works on the disk: the next call   *)
(* or place, the namespace it is about, the namespace whose disk the caller  *)
(* wants to replace and the identity it publishes, the namespaces still to   *)
(* be recovered and the place that follows, the call that follows the        *)
(* invalidation of the resume request, result->committed of the latest       *)
(* guest_recover_for, and the namespaces whose cleanup failed.               *)
Namespaces == Seq(NS)
Operation ==
  [pc : PC, cur : NS, tgt : NS, dig : Record, todo : Namespaces, goal : Goals,
   ret : {"markTmp", "rmBackup", "restore"}, done : BOOLEAN,
   dirty : SUBSET NS]

TypeOK ==
  /\ fs \in FS
  /\ dur \in FS
  /\ soft \subseteq NS
  /\ op \in Operation
  /\ status \in {"OK", "ERR_STATE", "ERR_IO"}
  /\ gen \in Image
  /\ txn \in [NS -> [old : File, new : File]]
  /\ faults \in 0 .. MaxFaults

Empty == [n \in NS |-> Absent]
FreshFS == [live |-> 1, resume |-> Absent, off |-> FALSE, backup |-> Empty,
            next |-> Empty, scrap |-> [n \in NS |-> FALSE], stage |-> Empty,
            journal |-> Empty, marker |-> Empty, tmp |-> [n \in NS |-> FALSE]]

NoTxn == [old |-> Absent, new |-> Absent]

Idle == [pc |-> "idle", cur |-> INSTALL, tgt |-> INSTALL, dig |-> NoRecord,
         todo |-> <<>>, goal |-> "start", ret |-> "markTmp", done |-> FALSE,
         dirty |-> {}]

(* A freshly imported machine: one live image and nothing else.             *)
Init ==
  /\ fs = FreshFS
  /\ dur = FreshFS
  /\ soft = {}
  /\ op = Idle
  /\ status = "OK"
  /\ gen = 1
  /\ txn = [n \in NS |-> NoTxn]
  /\ faults = 0

-----------------------------------------------------------------------------
(* System calls.                                                             *)

SameStage(n) == fs.stage[n] # 0 /\ fs.stage[n] = dur.stage[n]

(* fsync of the work directory: every entry but those of the stage           *)
(* directories; a stage that is new on disk has no durable entry yet.        *)
SyncedWork ==
  [fs EXCEPT !.next = [n \in NS |-> IF SameStage(n) THEN dur.next[n] ELSE Absent],
             !.scrap = [n \in NS |-> SameStage(n) /\ dur.scrap[n]]]

(* fsync of the stage directory of n.                                        *)
SyncedStage(n) ==
  IF SameStage(n)
  THEN [dur EXCEPT !.next[n] = fs.next[n], !.scrap[n] = fs.scrap[n]] ELSE dur

(* What the next mount finds after a loss of power.  Each directory is        *)
(* either as it was last synced or as the process last saw it: W says which   *)
(* for the work directory and K lists the stages found as last seen.  An      *)
(* image whose bytes were never synced is found incomplete.                   *)
AfterPowerLoss(W, K) ==
  LET base == IF W THEN fs ELSE dur
      seen(n) == n \in K /\ base.stage[n] # 0 /\ base.stage[n] = fs.stage[n]
      kept(n) == n \notin K /\ base.stage[n] # 0 /\ base.stage[n] = dur.stage[n]
      found(n) == IF seen(n) THEN fs.next[n]
                  ELSE IF kept(n) THEN dur.next[n] ELSE Absent
  IN [base EXCEPT
        !.next = [n \in NS |-> IF n \in soft /\ found(n) # Absent
                               THEN Torn ELSE found(n)],
        !.scrap = [n \in NS |-> (seen(n) /\ fs.scrap[n]) \/ (kept(n) /\ dur.scrap[n])]]

(* The caller gets a status and the operation is over.                        *)
Return(s) == op' = Idle /\ status' = s /\ UNCHANGED history

(* The operation goes on at pc p.                                             *)
Goto(p) == op' = [op EXCEPT !.pc = p] /\ UNCHANGED <<status, history>>

-----------------------------------------------------------------------------
(* Recovery.                                                                  *)

(* vm_guest_maintenance_recover: the positions of the table that claim the    *)
(* shared live name.                                                          *)
Positions == 1 .. Len(MaintTable)
JournalOwners == {i \in Positions : fs.journal[MaintTable[i]] # NoRecord}
OrphanOwners == {i \in Positions : fs.live = Absent
                                   /\ fs.backup[MaintTable[i]] # Absent}
Owners == IF JournalOwners # {} THEN JournalOwners ELSE OrphanOwners

(* The owner is recovered first, then the others in table order.              *)
OwnerFirst(i) ==
  <<MaintTable[i]>> \o SubSeq(MaintTable, 1, i - 1)
                    \o SubSeq(MaintTable, i + 1, Len(MaintTable))

MaintenanceRecover ==
  /\ op.pc = "maint"
  /\ \/ /\ \E i, j \in Owners : i # j
        /\ Return("ERR_STATE")
     \/ \E i \in Owners :
          /\ Owners = {i}
          /\ op' = [op EXCEPT !.pc = "recover", !.dirty = {},
                              !.todo = OwnerFirst(i) \o op.todo]
          /\ UNCHANGED <<status, history>>
     \/ /\ Owners = {}
        /\ op' = [op EXCEPT !.pc = "recover", !.dirty = {},
                            !.todo = MaintTable \o op.todo]
        /\ UNCHANGED <<status, history>>
  /\ UNCHANGED disk

(* guest_recover_for on namespace n goes on at pc p.                          *)
RecoverAt(n, p, r, committed) ==
  /\ op' = [op EXCEPT !.pc = p, !.cur = n, !.todo = Tail(op.todo), !.ret = r,
                      !.done = committed]
  /\ UNCHANGED <<status, history>>

(* Files of n that a finished transaction does not leave behind.              *)
Residue(n) ==
  \/ fs.journal[n] # NoRecord
  \/ fs.backup[n] # Absent
  \/ fs.next[n] # Absent
  \/ fs.stage[n] # 0

MarkerContradicted(n) ==
  fs.live = Absent \/ fs.journal[n] \notin {NoRecord, fs.marker[n]}

RecoverCommitted(n) ==
  /\ fs.marker[n] # NoRecord
  /\ \/ MarkerContradicted(n) /\ Return("ERR_STATE")
     \/ /\ ~MarkerContradicted(n)
        /\ RecoverAt(n, IF Residue(n) THEN "inv" ELSE "rmBackup", "rmBackup", TRUE)

(* Mutant: a machine that has its live image is left alone.                   *)
RecoverJournalLater(n) ==
  /\ fs.marker[n] = NoRecord
  /\ fs.journal[n] # NoRecord
  /\ RecoverAt(n, IF fs.live # Absent THEN "recover" ELSE "continue", "markTmp", FALSE)

RecoverJournal(n) ==
  /\ fs.marker[n] = NoRecord
  /\ fs.journal[n] # NoRecord
  /\ RecoverAt(n, "continue", "markTmp", FALSE)

BackupContradicted(n) ==
  fs.backup[n] # Absent /\ (fs.live # Absent \/ fs.next[n] # Absent)

(* Mutant: a backup without a journal is taken for debris.                    *)
RecoverOrphanDeletes(n) ==
  /\ fs.marker[n] = NoRecord
  /\ fs.journal[n] = NoRecord
  /\ RecoverAt(n, IF fs.backup[n] # Absent THEN "rmBackup" ELSE "recover", "markTmp", FALSE)

RecoverOrphan(n) ==
  /\ fs.marker[n] = NoRecord
  /\ fs.journal[n] = NoRecord
  /\ \/ /\ fs.backup[n] # Absent /\ fs.live = Absent /\ fs.next[n] = Absent
        /\ RecoverAt(n, "inv", "restore", FALSE)
     \/ BackupContradicted(n) /\ Return("ERR_STATE")
     \/ /\ fs.backup[n] = Absent
        /\ RecoverAt(n, "recover", "markTmp", FALSE)

RecoverFor ==
  /\ op.pc = "recover"
  /\ op.todo # <<>>
  /\ \/ RecoverCommitted(Head(op.todo))
     \/ RecoverJournal(Head(op.todo))
     \/ RecoverOrphan(Head(op.todo))
  /\ UNCHANGED disk

RecoveryOver ==
  /\ op.pc = "recover"
  /\ op.todo = <<>>
  /\ Goto(op.goal)
  /\ UNCHANGED disk

(* Mutants: the swap that lost its live name is refused; a rollback is taken   *)
(* for a commit.                                                               *)
ContinueForgetsSwapIn(live, next, backup) ==
  CASE live /\ next /\ ~backup   -> "swapOut"
    [] live /\ ~next /\ backup   -> "inv"
    [] ~live /\ ~next /\ backup  -> "restore"
    [] OTHER                     -> "contradictory"

ContinueCommitsRollback(live, next, backup) ==
  CASE live /\ next /\ ~backup   -> "swapOut"
    [] ~live /\ next /\ backup   -> "swapIn"
    [] ~next /\ backup           -> "inv"
    [] OTHER                     -> "contradictory"

(* guest_continue: the branch its three nodes select.                         *)
ContinueBranch(live, next, backup) ==
  CASE live /\ next /\ ~backup   -> "swapOut"
    [] ~live /\ next /\ backup   -> "swapIn"
    [] live /\ ~next /\ backup   -> "inv"
    [] ~live /\ ~next /\ backup  -> "restore"
    [] OTHER                     -> "contradictory"

Branch(n) ==
  ContinueBranch(fs.live # Absent, fs.next[n] # Absent, fs.backup[n] # Absent)

Continue ==
  /\ op.pc = "continue"
  /\ \/ Branch(op.cur) = "contradictory" /\ Return("ERR_STATE")
     \/ /\ Branch(op.cur) # "contradictory"
        /\ op' = [op EXCEPT !.pc = Branch(op.cur), !.ret = "markTmp"]
        /\ UNCHANGED <<status, history>>
  /\ UNCHANGED disk

SwapOut ==
  /\ op.pc = "swapOut"
  /\ fs' = [fs EXCEPT !.live = Absent, !.backup[op.cur] = fs.live]
  /\ Goto("swapOutSync")
  /\ UNCHANGED <<dur, soft>>

SwapOutSync ==
  /\ op.pc = "swapOutSync"
  /\ dur' = SyncedWork
  /\ Goto("swapIn")
  /\ UNCHANGED <<fs, soft>>

SwapIn ==
  /\ op.pc = "swapIn"
  /\ fs' = [fs EXCEPT !.live = fs.next[op.cur], !.next[op.cur] = Absent]
  /\ Goto("swapInStage")
  /\ UNCHANGED <<dur, soft>>

SwapInStage ==
  /\ op.pc = "swapInStage"
  /\ dur' = SyncedStage(op.cur)
  /\ Goto("swapInWork")
  /\ UNCHANGED <<fs, soft>>

SwapInWork ==
  /\ op.pc = "swapInWork"
  /\ dur' = SyncedWork
  /\ Goto("inv")
  /\ UNCHANGED <<fs, soft>>

(* Mutant: the resume request survives.                                       *)
InvalidateResumeForgotten ==
  /\ op.pc = "inv"
  /\ Goto("invSync")
  /\ UNCHANGED disk

(* guest_invalidate_resume                                                    *)
InvalidateResume ==
  /\ op.pc = "inv"
  /\ fs' = [fs EXCEPT !.resume = Absent, !.off = FALSE]
  /\ Goto("invSync")
  /\ UNCHANGED <<dur, soft>>

InvalidateResumeSync ==
  /\ op.pc = "invSync"
  /\ dur' = SyncedWork
  /\ Goto(op.ret)
  /\ UNCHANGED <<fs, soft>>

(* guest_publish_record of the marker: partial record, rename, sync.          *)
MarkTmp ==
  /\ op.pc = "markTmp"
  /\ fs' = [fs EXCEPT !.tmp[op.cur] = TRUE]
  /\ Goto("markRen")
  /\ UNCHANGED <<dur, soft>>

(* Mutant: the marker names another identity than the journal.                *)
MarkRenameWrongIdentity ==
  /\ op.pc = "markRen"
  /\ fs' = [fs EXCEPT !.tmp[op.cur] = FALSE,
                      !.marker[op.cur] = fs.journal[op.cur] + 1]
  /\ Goto("markSync")
  /\ UNCHANGED <<dur, soft>>

MarkRename ==
  /\ op.pc = "markRen"
  /\ fs' = [fs EXCEPT !.tmp[op.cur] = FALSE,
                      !.marker[op.cur] = fs.journal[op.cur]]
  /\ Goto("markSync")
  /\ UNCHANGED <<dur, soft>>

MarkSync ==
  /\ op.pc = "markSync"
  /\ dur' = SyncedWork
  /\ op' = [op EXCEPT !.pc = "rmBackup", !.done = TRUE]
  /\ UNCHANGED <<fs, soft, status, history>>

(* Mutants: the cleanup forgets the backup; it forgets the journal.           *)
RemoveBackupForgotten ==
  /\ op.pc = "rmBackup"
  /\ Goto("rmJournal")
  /\ UNCHANGED disk

RemoveJournalForgotten ==
  /\ op.pc = "rmJournal"
  /\ Goto("rmTmp")
  /\ UNCHANGED disk

(* guest_remove_committed_artifacts and guest_remove_rolled_back_artifacts:   *)
(* the removals go on after one of them fails.                                *)
RemoveBackup ==
  /\ op.pc = "rmBackup"
  /\ fs' = [fs EXCEPT !.backup[op.cur] = Absent]
  /\ Goto("rmJournal")
  /\ UNCHANGED <<dur, soft>>

RemoveJournal ==
  /\ op.pc = "rmJournal"
  /\ fs' = [fs EXCEPT !.journal[op.cur] = NoRecord]
  /\ Goto("rmTmp")
  /\ UNCHANGED <<dur, soft>>

RemoveTmp ==
  /\ op.pc = "rmTmp"
  /\ fs' = [fs EXCEPT !.tmp[op.cur] = FALSE]
  /\ Goto("rmNext")
  /\ UNCHANGED <<dur, soft>>

RemoveNext ==
  /\ op.pc = "rmNext"
  /\ fs' = [fs EXCEPT !.next[op.cur] = Absent]
  /\ soft' = soft \ {op.cur}
  /\ Goto("rmStage")
  /\ UNCHANGED dur

(* rmdir refuses a stage that still holds a file; the stage of a transaction  *)
(* that is being cleaned up holds none but an image that could not be removed *)
(* (Unopposed, below).                                                        *)
StageEmpty(n) == fs.next[n] = Absent /\ ~fs.scrap[n]

RemoveStage ==
  /\ op.pc = "rmStage"
  /\ IF StageEmpty(op.cur)
     THEN fs' = [fs EXCEPT !.stage[op.cur] = 0] /\ Goto("rmSync")
     ELSE /\ op' = [op EXCEPT !.pc = "rmSync", !.dirty = op.dirty \cup {op.cur}]
          /\ UNCHANGED <<fs, status, history>>
  /\ UNCHANGED <<dur, soft>>

(* guest_finish_committed_cleanup: the marker of an ephemeral namespace goes  *)
(* last, and only after everything else went.  The transaction is closed      *)
(* once the absence of its journal is durable.                                *)
RemoveSync ==
  /\ op.pc = "rmSync"
  /\ dur' = SyncedWork
  /\ op' = [op EXCEPT !.pc = IF op.done /\ op.cur \in Ephemeral
                                /\ op.cur \notin op.dirty
                             THEN "rmMarker" ELSE "recover"]
  /\ txn' = IF fs.journal[op.cur] = NoRecord
            THEN [txn EXCEPT ![op.cur] = NoTxn] ELSE txn
  /\ UNCHANGED <<fs, soft, status, gen, faults>>

RemoveMarker ==
  /\ op.pc = "rmMarker"
  /\ fs' = [fs EXCEPT !.marker[op.cur] = NoRecord]
  /\ Goto("rmMarkerSync")
  /\ UNCHANGED <<dur, soft>>

RemoveMarkerSync ==
  /\ op.pc = "rmMarkerSync"
  /\ dur' = SyncedWork
  /\ Goto("recover")
  /\ UNCHANGED <<fs, soft>>

(* The original image gets its name back.                                     *)
RestoreBackup ==
  /\ op.pc = "restore"
  /\ fs' = [fs EXCEPT !.live = fs.backup[op.cur], !.backup[op.cur] = Absent]
  /\ Goto("restoreSync")
  /\ UNCHANGED <<dur, soft>>

RestoreSync ==
  /\ op.pc = "restoreSync"
  /\ dur' = SyncedWork
  /\ Goto("rmJournal")
  /\ UNCHANGED <<fs, soft>>

-----------------------------------------------------------------------------
(* The callers.                                                               *)

Begin(n, tail, g) ==
  /\ op.pc = "idle"
  /\ op' = [op EXCEPT !.pc = "maint", !.tgt = n, !.todo = tail, !.goal = g]
  /\ status' = "OK"
  /\ UNCHANGED history

(* vm_firmware_boot_start: maintenance recovery, then install recovery.       *)
Boot == Begin(RECOVERY, <<INSTALL>>, "start") /\ UNCHANGED disk

(* vm_resume_checkpoint_disarm                                                *)
Disarmed == [fs EXCEPT !.resume = Absent, !.off = FALSE]

(* build_from_directory: a forced power-off first drops the resume request.   *)
BeginBuild(n) ==
  /\ n \in {INSTALL} \cup Permanent
  /\ Begin(n, BuildAgain \o <<INSTALL>>, "gate")
  /\ fs' \in {fs, Disarmed}
  /\ UNCHANGED <<dur, soft>>

(* installInDirectory and the package manager's setup: only over a committed  *)
(* installation.                                                              *)
BeginApp(n) ==
  /\ n \in Ephemeral \ {RECOVERY}
  /\ fs.marker[INSTALL] # NoRecord
  /\ Begin(n, <<>>, "gate")
  /\ UNCHANGED disk

(* A suspended guest refuses the change of its disk, and an app installation   *)
(* wants the record of its power-off; a package manager setup drops the        *)
(* resume request instead.                                                     *)
GateResume ==
  \/ /\ fs.off \/ (fs.resume = Absent /\ op.tgt \notin Ephemeral)
     /\ UNCHANGED fs
  \/ /\ op.tgt \in Ephemeral
     /\ fs' = Disarmed

(* The identity each caller publishes, and the namespaces it requires to be   *)
(* committed or not.                                                          *)
GateRecords(d) ==
  \/ /\ op.tgt = INSTALL
     /\ \A n \in {INSTALL} \cup Permanent : fs.marker[n] = NoRecord
  \/ /\ op.tgt \in Permanent
     /\ fs.marker[INSTALL] = d
     /\ fs.marker[op.tgt] = NoRecord
  \/ op.tgt \in Ephemeral

(* The disk is to be replaced.  An installation recovers its own namespace    *)
(* only; every maintenance recovers the whole table once more.                *)
GateReplace ==
  /\ op.pc = "gate"
  /\ GateResume
  /\ \E d \in Digests :
       /\ GateRecords(d)
       /\ op' = IF op.tgt = INSTALL
                THEN [op EXCEPT !.pc = "recover", !.todo = <<op.tgt>>,
                                !.goal = "stage", !.dig = d]
                ELSE [op EXCEPT !.pc = "maint", !.goal = "prep", !.dig = d]
  /\ UNCHANGED <<dur, soft, status, history>>

(* The disk already holds what the maintenance would add.                     *)
GateConfirm ==
  /\ op.pc = "gate"
  /\ op.tgt \in Permanent
  /\ \E d \in Digests :
       /\ GateRecords(d)
       /\ op' = [op EXCEPT !.pc = "recover", !.todo = <<op.tgt>>,
                           !.goal = "confirm", !.dig = d]
  /\ UNCHANGED <<disk, status, history>>

(* Nothing to do, or one of the checks of the packages, of the snapshots or   *)
(* of the guest filesystem refuses.                                           *)
GateRefuse ==
  /\ op.pc = "gate"
  /\ Return("OK")
  /\ UNCHANGED disk

(* recover_powered_off_work_image, in a boot that resumes nothing.            *)
BeginRepair ==
  /\ op.pc = "start"
  /\ fs.live # Absent
  /\ fs.resume = Absent \/ fs.off
  /\ \E d \in Digests :
       op' = [op EXCEPT !.pc = "maint", !.goal = "prep", !.dig = d]
  /\ UNCHANGED <<disk, status, history>>

(* Without a live image there is nothing to boot.                             *)
SkipRepair ==
  /\ op.pc = "start"
  /\ IF fs.live # Absent THEN Goto("restoreOnce") ELSE Return("ERR_STATE")
  /\ UNCHANGED disk

(* The prepare_stage of a maintenance after its maintenance recovery: the     *)
(* residue of the reporting namespaces refuses the reporting ones and the     *)
(* repair.                                                                    *)
ResidueRefuses ==
  /\ op.tgt \in Reporting \cup {RECOVERY}
  /\ op.dirty \cap (Reporting \ {op.tgt}) # {}

AlreadyCommitted == op.tgt \in Permanent /\ fs.marker[op.tgt] # NoRecord

Prepare ==
  /\ op.pc = "prep"
  /\ \/ /\ ResidueRefuses \/ AlreadyCommitted
        /\ Return("ERR_STATE")
     \/ /\ ~ResidueRefuses /\ ~AlreadyCommitted
        /\ op' = [op EXCEPT !.pc = "recover", !.todo = <<op.tgt>>, !.goal = "stage"]
        /\ UNCHANGED <<status, history>>
  /\ UNCHANGED disk

(* guest_prepare_stage_for after its own recovery.                            *)
PrepareStage ==
  /\ op.pc = "stage"
  /\ \/ /\ op.done \/ fs.live = Absent \/ fs.backup[op.tgt] # Absent
        /\ Return("ERR_STATE")
     \/ /\ ~op.done /\ fs.live # Absent /\ fs.backup[op.tgt] = Absent
        /\ op' = [op EXCEPT !.pc = "stTmp", !.cur = op.tgt]
        /\ UNCHANGED <<status, history>>
  /\ UNCHANGED disk

StageTmp ==
  /\ op.pc = "stTmp"
  /\ fs' = [fs EXCEPT !.tmp[op.cur] = FALSE]
  /\ Goto(IF fs.stage[op.cur] = 0 THEN "stMk" ELSE "stNext")
  /\ UNCHANGED <<dur, soft>>

StageNext ==
  /\ op.pc = "stNext"
  /\ fs' = [fs EXCEPT !.next[op.cur] = Absent]
  /\ soft' = soft \ {op.cur}
  /\ Goto("stRmdir")
  /\ UNCHANGED dur

(* A stage that still holds a file is refused, not emptied.                   *)
StageRmdir ==
  /\ op.pc = "stRmdir"
  /\ \/ /\ StageEmpty(op.cur)
        /\ fs' = [fs EXCEPT !.stage[op.cur] = 0]
        /\ Goto("stMk")
     \/ /\ ~StageEmpty(op.cur)
        /\ Return("ERR_STATE")
        /\ UNCHANGED fs
  /\ UNCHANGED <<dur, soft>>

StageMkdir ==
  /\ op.pc = "stMk"
  /\ fs' = [fs EXCEPT !.stage[op.cur] = IF dur.stage[op.cur] = 1 THEN 2 ELSE 1]
  /\ Goto("stSync")
  /\ UNCHANGED <<dur, soft>>

StageSync ==
  /\ op.pc = "stSync"
  /\ dur' = SyncedWork
  /\ Goto("construct")
  /\ UNCHANGED <<fs, soft>>

(* The repair and an app installation work on a clone; an installation, a     *)
(* maintenance and the package manager have rootfs_work_create build the      *)
(* image.                                                                     *)
Construct ==
  /\ op.pc = "construct"
  /\ \/ op.tgt \in Ephemeral /\ Goto("copy")
     \/ op.tgt # RECOVERY /\ Goto("buildTmp")
  /\ UNCHANGED disk

(* rootfs_work_create: a temporary file in the stage, built and fsynced, gets *)
(* the name next as a second link, and loses its own.                         *)
BuildTmp ==
  /\ op.pc = "buildTmp"
  /\ fs' = [fs EXCEPT !.scrap[op.cur] = TRUE]
  /\ Goto("buildLink")
  /\ UNCHANGED <<dur, soft>>

(* A new image comes into being under the name next.                          *)
NextImage(p) ==
  /\ gen < MaxImage
  /\ gen' = gen + 1
  /\ fs' = [fs EXCEPT !.next[op.cur] = gen + 1]
  /\ op' = [op EXCEPT !.pc = p]
  /\ UNCHANGED <<dur, status, txn, faults>>

BuildLink ==
  /\ op.pc = "buildLink"
  /\ NextImage("buildSync")
  /\ UNCHANGED soft

BuildSync ==
  /\ op.pc = "buildSync"
  /\ dur' = SyncedStage(op.cur)
  /\ Goto("buildUnlink")
  /\ UNCHANGED <<fs, soft>>

BuildUnlink ==
  /\ op.pc = "buildUnlink"
  /\ fs' = [fs EXCEPT !.scrap[op.cur] = FALSE]
  /\ Goto("buildDone")
  /\ UNCHANGED <<dur, soft>>

BuildDone ==
  /\ op.pc = "buildDone"
  /\ dur' = SyncedStage(op.cur)
  /\ Goto("publish")
  /\ UNCHANGED <<fs, soft>>

(* The image constructor refuses: it unlinks its temporary file.              *)
BuildRefuse ==
  /\ op.pc = "buildLink"
  /\ fs' = [fs EXCEPT !.scrap[op.cur] = FALSE]
  /\ IF op.tgt \in Ephemeral THEN Goto("discard") ELSE Return("OK")
  /\ UNCHANGED <<dur, soft>>

(* guest_clone_live_to_stage_for: copy, fsync of the copy, sync of the stage. *)
(* It refuses a namespace that holds anything but an empty stage: the callers *)
(* never see that refusal (Unopposed, below).                                 *)
CopyAllowed(n) ==
  /\ fs.live # Absent
  /\ fs.stage[n] # 0
  /\ fs.next[n] = Absent
  /\ fs.backup[n] = Absent
  /\ fs.marker[n] = NoRecord
  /\ fs.journal[n] = NoRecord

CopyBegin ==
  /\ op.pc = "copy"
  /\ IF CopyAllowed(op.cur)
     THEN /\ fs' = [fs EXCEPT !.next[op.cur] = Torn]
          /\ soft' = soft \cup {op.cur}
          /\ Goto("copyEnd")
     ELSE /\ op' = [op EXCEPT !.pc = "discard"]
          /\ status' = "ERR_STATE"
          /\ UNCHANGED <<fs, soft, history>>
  /\ UNCHANGED dur

(* guest_copy_new fsyncs the copy; where it is a clonefile call it does not.  *)
CopyEnd ==
  /\ op.pc = "copyEnd"
  /\ NextImage("copySync")
  /\ soft' \in {soft, soft \ {op.cur}}

CopySync ==
  /\ op.pc = "copySync"
  /\ dur' = SyncedStage(op.cur)
  /\ Goto("repair")
  /\ UNCHANGED <<fs, soft>>

(* The clone fails (a full disk, for one): what there is of it is removed.    *)
CopyFails ==
  /\ op.pc \in CopyCalls
  /\ op.pc = "copy" => CopyAllowed(op.cur)
  /\ fs' = [fs EXCEPT !.next[op.cur] = Absent]
  /\ soft' = soft \ {op.cur}
  /\ op' = [op EXCEPT !.pc = "discard"]
  /\ status' = "ERR_IO"
  /\ UNCHANGED <<dur, history>>

(* The clone is repaired or provisioned in place, and published when that     *)
(* changed it; otherwise the stage is discarded.                              *)
RepairClone ==
  /\ op.pc = "repair"
  /\ soft' = soft \cup {op.cur}
  /\ Goto("publish") \/ Goto("discard")
  /\ UNCHANGED <<fs, dur>>

(* guest_discard_stage_for: a published transaction is not an inert stage.    *)
DiscardAllowed(n) ==
  /\ fs.journal[n] = NoRecord
  /\ fs.backup[n] = Absent
  /\ fs.marker[n] = NoRecord

Discard ==
  /\ op.pc = "discard"
  /\ IF DiscardAllowed(op.cur) THEN Goto("disNext") ELSE Return("ERR_STATE")
  /\ UNCHANGED disk

DiscardNext ==
  /\ op.pc = "disNext"
  /\ fs' = [fs EXCEPT !.next[op.cur] = Absent]
  /\ soft' = soft \ {op.cur}
  /\ Goto("disRmdir")
  /\ UNCHANGED dur

DiscardRmdir ==
  /\ op.pc = "disRmdir"
  /\ IF StageEmpty(op.cur)
     THEN fs' = [fs EXCEPT !.stage[op.cur] = 0] /\ Goto("disSync")
     ELSE Return("ERR_IO") /\ UNCHANGED fs
  /\ UNCHANGED <<dur, soft>>

DiscardSync ==
  /\ op.pc = "disSync"
  /\ dur' = SyncedWork
  /\ Goto("discarded")
  /\ UNCHANGED <<fs, soft>>

(* A boot goes on with the unrepaired disk, unless it could not be cloned or  *)
(* the checker had found it damaged; an app installation is over.             *)
Discarded ==
  /\ op.pc = "discarded"
  /\ \/ op.tgt = RECOVERY /\ status = "OK" /\ Goto("restoreOnce")
     \/ Return(status)
  /\ UNCHANGED disk

-----------------------------------------------------------------------------
(* guest_publish_for: the staged image is made durable, the journal is        *)
(* published, and the transaction goes on as a recovery would.  A record that *)
(* is already there is recovered if it names the same identity, and refused   *)
(* like a missing image or a backup: the callers never see that either.       *)
PublishAllowed(n) ==
  /\ fs.marker[n] = NoRecord
  /\ fs.journal[n] = NoRecord
  /\ fs.stage[n] # 0
  /\ fs.live # Absent
  /\ fs.next[n] # Absent
  /\ fs.backup[n] = Absent

Recorded(n) == IF fs.marker[n] # NoRecord THEN fs.marker[n] ELSE fs.journal[n]

Publish ==
  /\ op.pc = "publish"
  /\ IF PublishAllowed(op.cur)
     THEN /\ op' = [op EXCEPT !.pc = "fsyncNext", !.goal = "published"]
          /\ UNCHANGED <<status, history>>
     ELSE IF Recorded(op.cur) = op.dig
          THEN /\ op' = [op EXCEPT !.pc = "recover", !.todo = <<op.cur>>,
                                   !.goal = "published"]
               /\ UNCHANGED <<status, history>>
          ELSE Return("ERR_STATE")
  /\ UNCHANGED disk

(* Mutant: the staged image is not fsynced.                                   *)
FsyncNextForgotten ==
  /\ op.pc = "fsyncNext"
  /\ Goto("jrnTmp")
  /\ UNCHANGED disk

FsyncNext ==
  /\ op.pc = "fsyncNext"
  /\ soft' = soft \ {op.cur}
  /\ Goto("jrnTmp")
  /\ UNCHANGED <<fs, dur>>

JournalTmp ==
  /\ op.pc = "jrnTmp"
  /\ fs' = [fs EXCEPT !.tmp[op.cur] = TRUE]
  /\ Goto("jrnRen")
  /\ UNCHANGED <<dur, soft>>

JournalRename ==
  /\ op.pc = "jrnRen"
  /\ fs' = [fs EXCEPT !.tmp[op.cur] = FALSE, !.journal[op.cur] = op.dig]
  /\ txn' = [txn EXCEPT ![op.cur] = [old |-> fs.live, new |-> fs.next[op.cur]]]
  /\ op' = [op EXCEPT !.pc = "jrnSync"]
  /\ UNCHANGED <<dur, soft, status, gen, faults>>

JournalSync ==
  /\ op.pc = "jrnSync"
  /\ dur' = SyncedWork
  /\ Goto("continue")
  /\ UNCHANGED <<fs, soft>>

(* The callers of publish.  A build goes on to confirm the namespaces whose   *)
(* content the new image already has.                                         *)
ConfirmNext(m) ==
  /\ op.pc = "published"
  /\ op.tgt \in {INSTALL} \cup Permanent
  /\ op.done
  /\ fs.marker[m] = NoRecord
  /\ op' = [op EXCEPT !.pc = "recover", !.todo = <<m>>, !.goal = "confirm"]
  /\ UNCHANGED <<disk, status, history>>

(* A repair whose cleanup failed is recovered once more before the boot goes  *)
(* on.                                                                        *)
Published ==
  /\ op.pc = "published"
  /\ \/ op.tgt # RECOVERY /\ Return(IF op.done THEN "OK" ELSE "ERR_STATE")
     \/ op.tgt = RECOVERY /\ RECOVERY \notin op.dirty /\ Goto("restoreOnce")
     \/ /\ op.tgt = RECOVERY /\ RECOVERY \in op.dirty
        /\ op' = [op EXCEPT !.pc = "recover", !.todo = <<RECOVERY>>,
                            !.goal = "repaired", !.dirty = {}]
        /\ UNCHANGED <<status, history>>
  /\ UNCHANGED disk

Repaired ==
  /\ op.pc = "repaired"
  /\ IF op.done /\ RECOVERY \notin op.dirty
     THEN Goto("restoreOnce") ELSE Return("ERR_STATE")
  /\ UNCHANGED disk

(* guest_confirm_for after its recovery: a marker for content that reached    *)
(* the disk without a transaction of this namespace.                          *)
NamespaceClean(n) ==
  /\ fs.live # Absent
  /\ fs.marker[n] = NoRecord
  /\ ~Residue(n)
  /\ ~fs.tmp[n]

Confirm ==
  /\ op.pc = "confirm"
  /\ \/ /\ fs.marker[INSTALL] = op.dig
        /\ ~op.done /\ NamespaceClean(op.cur)
        /\ Goto("cfTmp")
     \/ /\ fs.marker[INSTALL] = op.dig
        /\ op.done /\ fs.marker[op.cur] = op.dig
        /\ Goto("published")
     \/ /\ \/ fs.marker[INSTALL] # op.dig
           \/ op.done /\ fs.marker[op.cur] # op.dig
           \/ ~op.done /\ ~NamespaceClean(op.cur)
        /\ Return("ERR_STATE")
  /\ UNCHANGED disk

ConfirmTmp ==
  /\ op.pc = "cfTmp"
  /\ fs' = [fs EXCEPT !.tmp[op.cur] = TRUE]
  /\ Goto("cfRen")
  /\ UNCHANGED <<dur, soft>>

ConfirmRename ==
  /\ op.pc = "cfRen"
  /\ fs' = [fs EXCEPT !.tmp[op.cur] = FALSE, !.marker[op.cur] = op.dig]
  /\ Goto("cfSync")
  /\ UNCHANGED <<dur, soft>>

ConfirmSync ==
  /\ op.pc = "cfSync"
  /\ dur' = SyncedWork
  /\ op' = [op EXCEPT !.pc = "published", !.done = TRUE]
  /\ UNCHANGED <<fs, soft, status, history>>

-----------------------------------------------------------------------------
(* The running machine.                                                       *)

(* restore_once and the end of vm_firmware_boot_start: an armed request is    *)
(* restored and its marker removed; the directory is not synced.              *)
RestoreOnce ==
  /\ op.pc = "restoreOnce"
  /\ fs' = Disarmed
  /\ Goto("running")
  /\ UNCHANGED <<dur, soft>>

(* The guest writes to its disk: the same file, another content.              *)
GuestWrite ==
  /\ WRITES
  /\ op.pc = "running"
  /\ gen < MaxImage
  /\ gen' = gen + 1
  /\ fs' = [fs EXCEPT !.live = gen + 1]
  /\ dur' = IF dur.live = fs.live THEN [dur EXCEPT !.live = gen + 1] ELSE dur
  /\ UNCHANGED <<soft, op, status, txn, faults>>

(* vm_firmware_boot_save_resume: the machine stops with a resume request for  *)
(* the disk as it is, suspended or powered off.                               *)
Suspend ==
  /\ op.pc = "running"
  /\ \E off \in BOOLEAN : fs' = [fs EXCEPT !.resume = fs.live, !.off = off]
  /\ Return("OK")
  /\ UNCHANGED <<dur, soft>>

Stop ==
  /\ op.pc = "running"
  /\ Return("OK")
  /\ UNCHANGED disk

-----------------------------------------------------------------------------
(* Faults.                                                                    *)

Fault(s) ==
  /\ faults < MaxFaults
  /\ faults' = faults + 1
  /\ status' = s
  /\ UNCHANGED <<gen, txn>>

(* A call fails without effect and the operation returns.  A partial record   *)
(* or temporary image is removed, a new stage that could not be synced too.   *)
IoFailure ==
  /\ IOERR
  /\ op.pc \in FailableCalls
  /\ Fault("ERR_IO")
  /\ fs' = CASE op.pc \in {"markTmp", "markRen", "jrnTmp", "jrnRen", "cfTmp", "cfRen"}
                  -> [fs EXCEPT !.tmp[op.cur] = FALSE]
             [] op.pc \in {"buildTmp", "buildLink"}
                  -> [fs EXCEPT !.scrap[op.cur] = FALSE]
             [] op.pc = "stSync" -> [fs EXCEPT !.stage[op.cur] = 0]
             [] OTHER -> fs
  /\ op' = Idle
  /\ UNCHANGED <<dur, soft>>

(* A cleanup call fails: remembered, and the cleanup goes on.                 *)
CleanupSuccessor ==
  [rmBackup |-> "rmJournal", rmJournal |-> "rmTmp", rmTmp |-> "rmNext",
   rmNext |-> "rmStage", rmStage |-> "rmSync", rmSync |-> "recover",
   rmMarker |-> "recover", rmMarkerSync |-> "recover"]

CleanupFailure ==
  /\ IOERR
  /\ op.pc \in CleanupCalls
  /\ Fault(status)
  /\ op' = [op EXCEPT !.pc = CleanupSuccessor[op.pc],
                      !.dirty = op.dirty \cup {op.cur}]
  /\ UNCHANGED disk

(* The process is killed: the page cache survives, the call stack does not.   *)
Kill ==
  /\ KILL
  /\ op.pc # "idle"
  /\ Fault("OK")
  /\ op' = Idle
  /\ UNCHANGED disk

PowerLoss ==
  /\ POWER
  /\ Fault("OK")
  /\ \E W \in BOOLEAN, K \in SUBSET NS :
       /\ fs' = AfterPowerLoss(W, K)
       /\ dur' = AfterPowerLoss(W, K)
  /\ soft' = {}
  /\ op' = Idle

(* Between two operations a stage or a journal disappears, as the tests of    *)
(* the lost stage and of the orphaned backup have it.                         *)
LoseStage(n) ==
  /\ LOSS
  /\ op.pc = "idle"
  /\ fs.backup[n] # Absent /\ fs.next[n] # Absent
  /\ Fault("OK")
  /\ fs' = [fs EXCEPT !.next[n] = Absent, !.stage[n] = 0]
  /\ dur' = [dur EXCEPT !.next[n] = Absent, !.stage[n] = 0]
  /\ UNCHANGED <<soft, op>>

LoseJournal(n) ==
  /\ LOSS
  /\ op.pc = "idle"
  /\ fs.backup[n] # Absent /\ fs.journal[n] # NoRecord
  /\ Fault("OK")
  /\ fs' = [fs EXCEPT !.journal[n] = NoRecord]
  /\ dur' = [dur EXCEPT !.journal[n] = NoRecord]
  /\ UNCHANGED <<soft, op>>

-----------------------------------------------------------------------------
Recovery ==
  \/ MaintenanceRecover \/ RecoverFor \/ RecoveryOver \/ Continue
  \/ SwapOut \/ SwapOutSync \/ SwapIn \/ SwapInStage \/ SwapInWork
  \/ InvalidateResume \/ InvalidateResumeSync
  \/ MarkTmp \/ MarkRename \/ MarkSync
  \/ RemoveBackup \/ RemoveJournal \/ RemoveTmp \/ RemoveNext \/ RemoveStage
  \/ RemoveSync \/ RemoveMarker \/ RemoveMarkerSync
  \/ RestoreBackup \/ RestoreSync

Replacement ==
  \/ GateReplace \/ GateConfirm \/ GateRefuse \/ BeginRepair \/ SkipRepair
  \/ Prepare \/ PrepareStage \/ StageTmp \/ StageNext \/ StageRmdir
  \/ StageMkdir \/ StageSync \/ Construct
  \/ BuildTmp \/ BuildLink \/ BuildSync \/ BuildUnlink \/ BuildDone \/ BuildRefuse
  \/ CopyBegin \/ CopyEnd \/ CopySync \/ CopyFails \/ RepairClone
  \/ Discard \/ DiscardNext \/ DiscardRmdir \/ DiscardSync \/ Discarded
  \/ Publish \/ FsyncNext \/ JournalTmp \/ JournalRename \/ JournalSync
  \/ Published \/ Repaired \/ (\E m \in Permanent : ConfirmNext(m))
  \/ Confirm \/ ConfirmTmp \/ ConfirmRename \/ ConfirmSync

(* One step of the operation that is under way.                               *)
Step == Recovery \/ Replacement \/ RestoreOnce

Environment ==
  \/ \E n \in NS : BeginBuild(n) \/ BeginApp(n)
  \/ GuestWrite \/ Suspend \/ Stop
  \/ IoFailure \/ CleanupFailure \/ Kill \/ PowerLoss
  \/ \E n \in NS : LoseStage(n) \/ LoseJournal(n)

Next == Step \/ Boot \/ Environment

Spec == Init /\ [][Next]_vars

(* The thread that runs an operation is scheduled, and the owner of the       *)
(* machine does not stop opening it.                                          *)
FairSpec == Spec /\ WF_vars(Step) /\ SF_vars(Boot)

-----------------------------------------------------------------------------
(* Properties.                                                                *)

(* The directories the next process may find: those of now, and after each    *)
(* loss of power that is possible now.                                        *)
Possible ==
  {fs} \cup (IF POWER THEN {AfterPowerLoss(W, K) : W \in BOOLEAN, K \in SUBSET NS}
             ELSE {})

(* The namespace whose backup holds the disk while the live name is free.     *)
Holds(d, n) == d.backup[n] # Absent /\ d.marker[n] = NoRecord

(* The image the machine is left with: the live one, or the backup.           *)
Current(d) ==
  IF d.live # Absent THEN d.live
  ELSE IF \E n \in NS : Holds(d, n)
       THEN d.backup[CHOOSE n \in NS : Holds(d, n)] ELSE Absent

(* Whatever happens next, the machine keeps a complete disk: the live name    *)
(* never holds an incomplete image, and while it is free the backup of an     *)
(* open transaction holds a complete one.                                     *)
DiskSurvives ==
  \A d \in Possible :
    /\ d.live \in Image \cup {Absent}
    /\ d.live = Absent => \E n \in NS : Holds(d, n) /\ d.backup[n] \in Image

(* There is never a doubt which image that is: while the live name is free,   *)
(* only one open transaction has a backup.                                    *)
OneClaimant ==
  \A d \in Possible :
    d.live = Absent => \A m, n \in NS : Holds(d, m) /\ Holds(d, n) => m = n

(* A commit record never lies: while a namespace has both its journal and its *)
(* marker, the machine has the image the transaction installed or a later     *)
(* one, also after a loss of power.                                           *)
CommitMeansInstalled ==
  \A d \in Possible : \A n \in NS :
    d.marker[n] # NoRecord /\ d.journal[n] # NoRecord => Current(d) >= txn[n].new

(* A resume request that a boot is about to restore was saved against the     *)
(* disk that is live.                                                         *)
ResumeMatchesDisk ==
  op.pc = "restoreOnce" /\ fs.resume # Absent => fs.resume = fs.live

(* Recovery never meets evidence it has to refuse.                            *)
RecoveryDecides ==
  /\ op.pc = "maint" => \A i, j \in Owners : i = j
  /\ op.pc = "recover" /\ op.todo # <<>> =>
       LET n == Head(op.todo)
       IN /\ fs.marker[n] # NoRecord => ~MarkerContradicted(n)
          /\ fs.marker[n] = NoRecord /\ fs.journal[n] = NoRecord
               => ~BackupContradicted(n)
  /\ op.pc = "continue" => Branch(op.cur) # "contradictory"

(* Nothing appears between the preparation of a stage and its publication     *)
(* that makes the clone or the publication refuse, and nothing is left in a   *)
(* stage that is being given up, unless a removal failed and the cleanup is   *)
(* known to be incomplete: a transaction is never stopped by evidence its own *)
(* preparation should have settled.                                           *)
Unopposed ==
  /\ op.pc = "rmStage" => StageEmpty(op.cur) \/ op.cur \in op.dirty
  /\ op.pc = "disRmdir" => StageEmpty(op.cur)
  /\ op.pc = "copy" => CopyAllowed(op.cur)
  /\ op.pc = "publish" => PublishAllowed(op.cur)

(* A journal that is found between two operations still has the image it      *)
(* speaks of: the staged one, or the original.                                *)
JournalHasEvidence ==
  op.pc = "idle" =>
    \A n \in NS : fs.journal[n] # NoRecord /\ fs.marker[n] = NoRecord
                    => fs.next[n] # Absent \/ fs.backup[n] # Absent

(* What a recovery finds is never contradictory: it can decide every state it *)
(* is asked about, and no journal is left behind that speaks of lost images   *)
(* (guest_recover_for, guest_continue).                                       *)
EvidenceIsClear == RecoveryDecides /\ JournalHasEvidence

(* No transaction disputes the disk of another: one claimant of the live      *)
(* name, and nothing that stops a transaction behind its own preparation      *)
(* (vm_guest_maintenance_recover, guest_prepare_stage_for).                   *)
Undisputed == OneClaimant /\ Unopposed

(* An open transaction is finished or rolled back, whatever it was            *)
(* interrupted by, once the machine is opened again.                          *)
TransactionsSettle ==
  \A n \in NS : fs.journal[n] # NoRecord
                  ~> fs.journal[n] = NoRecord /\ fs.backup[n] = Absent

===================================================================================
