--------------------------- MODULE GuestInstallProof ---------------------------
(***************************************************************************)
(* Proofs about GuestInstall, for every choice of the namespaces, of the   *)
(* digests and of the bounds.  In this order: the type invariant; that no  *)
(* interruption leaves the machine without a complete disk (DiskSurvives,  *)
(* from IInv); that no transaction disputes the disk of another            *)
(* (Undisputed, from FullInv); that a commit record never lies             *)
(* (CommitMeansInstalled, from InstallInv); and that a resume request is   *)
(* only ever restored against its own disk while the power holds           *)
(* (ResumeMatchesDisk, from ResumeInv).                                    *)
(*                                                                         *)
(* A lemma about a part P of an invariant is named for what it rests on.   *)
(* ..Inert: the step changes nothing P speaks of.  ..Elsewhere: it reaches *)
(* no place P speaks of.  ..Fields and ..Place: the entries and the places *)
(* in the code that a group of actions (Recovery, Replacement,             *)
(* Environment) changes.                                                   *)
(***************************************************************************)
EXTENDS GuestInstall, TLAPS

(* The two halves of the type invariant.                                    *)
DiskOK == fs \in FS /\ dur \in FS /\ soft \subseteq NS
ControlOK ==
  /\ op \in Operation
  /\ status \in {"OK", "ERR_STATE", "ERR_IO"}
  /\ gen \in Image
  /\ txn \in [NS -> [old : File, new : File]]
  /\ faults \in 0 .. MaxFaults

(* TypeOK is the type of the directories and the type of the control state. *)
LEMMA TypeHalves == TypeOK <=> DiskOK /\ ControlOK
BY DEF TypeOK, DiskOK, ControlOK

(* The same of the next state. *)
LEMMA TypeHalvesPrimed == TypeOK' <=> DiskOK' /\ ControlOK'
BY DEF TypeOK, DiskOK, ControlOK

(* What the assumptions say of the namespaces and of the recovery orders. *)
LEMMA NamespaceFacts ==
  /\ INSTALL \in NS /\ RECOVERY \in NS
  /\ Permanent \subseteq NS /\ Ephemeral \subseteq NS
  /\ MaintTable \in Namespaces /\ BuildAgain \in Namespaces
  /\ <<>> \in Namespaces
  /\ \A n \in NS : <<n>> \in Namespaces
  /\ \A s, t \in Namespaces : s \o t \in Namespaces
  /\ \A s \in Namespaces : s # <<>> => Head(s) \in NS /\ Tail(s) \in Namespaces
  /\ Digests \subseteq Record /\ NoRecord \in Record
  /\ \A d \in Digests : d # NoRecord
BY NamespaceAssumption, TableAssumption, BoundAssumption
DEF NS, Record, NoRecord, Namespaces

(* The numbers that name images, and the fact that none of them is Absent   *)
(* or Torn.                                                                  *)
LEMMA Images ==
  /\ Image \subseteq File /\ Absent \in File /\ Torn \in File
  /\ Absent \notin Image /\ Torn \notin Image /\ Absent # Torn
  /\ 1 \in Image
  /\ \A i \in Image : i < MaxImage => i + 1 \in Image
BY BoundAssumption DEF Image, File, Absent, Torn

(* The values a stage entry takes. *)
LEMMA Inodes == 0 \in Inode /\ 1 \in Inode /\ 2 \in Inode
BY DEF Inode

(* An fsync of the work directory leaves a directory of the right type. *)
LEMMA SyncedWorkType == ASSUME DiskOK PROVE SyncedWork \in FS
BY Images DEF DiskOK, FS, SyncedWork, SameStage

(* So does an fsync of a stage directory. *)
LEMMA SyncedStageType == ASSUME DiskOK, NEW n \in NS PROVE SyncedStage(n) \in FS
BY DEF DiskOK, FS, SyncedStage, SameStage

(* So does what a mount finds after a loss of power. *)
LEMMA AfterPowerLossType ==
  ASSUME DiskOK, NEW W \in BOOLEAN, NEW K \in SUBSET NS
  PROVE  AfterPowerLoss(W, K) \in FS
BY Images DEF DiskOK, FS, AfterPowerLoss

(* An operation that is over has its type. *)
LEMMA IdleType == Idle \in Operation
BY NamespaceFacts DEF Idle, Operation, PC, Places, Goals

(* How an operation goes on.                                                 *)
LEMMA ReturnType ==
  ASSUME ControlOK, NEW s \in {"OK", "ERR_STATE", "ERR_IO"}, Return(s)
  PROVE  ControlOK'
BY IdleType DEF ControlOK, Return, history

(* Going on at another call keeps the control state typed. *)
LEMMA GotoType ==
  ASSUME ControlOK, NEW p \in PC, Goto(p)
  PROVE  ControlOK'
BY DEF ControlOK, Goto, history, Operation

(* So does any other typed operation record. *)
LEMMA OpType ==
  ASSUME ControlOK, op' \in Operation, UNCHANGED <<status, history>>
  PROVE  ControlOK'
BY DEF ControlOK, history

(* A step that leaves the disk alone keeps it typed. *)
LEMMA SameDisk == ASSUME DiskOK, UNCHANGED disk PROVE DiskOK'
BY DEF DiskOK, disk

(* The program counters the actions assign. *)
LEMMA PcFacts ==
  /\ Goals \subseteq PC /\ FailableCalls \subseteq PC /\ CopyCalls \subseteq PC
  /\ CleanupCalls \subseteq PC /\ Places \subseteq PC
  /\ {"swapOut", "swapOutSync", "swapIn", "swapInStage", "swapInWork",
      "inv", "invSync", "markTmp", "markRen", "markSync", "restore",
      "restoreSync", "stTmp", "stNext", "stRmdir", "stMk", "stSync",
      "buildTmp", "buildLink", "buildSync", "buildUnlink", "buildDone",
      "fsyncNext", "jrnTmp", "jrnRen", "jrnSync", "disNext", "disRmdir",
      "disSync", "cfTmp", "cfRen", "cfSync", "copy", "copyEnd", "copySync",
      "rmBackup", "rmJournal", "rmTmp", "rmNext", "rmStage", "rmSync",
      "rmMarker", "rmMarkerSync", "start", "gate", "prep", "stage",
      "confirm", "published", "repaired", "idle", "maint", "recover",
      "continue", "construct", "repair", "publish", "discard", "discarded",
      "restoreOnce", "running"} \subseteq PC
BY DEF PC, FailableCalls, CopyCalls, CleanupCalls, Places, Goals

(* The order of vm_guest_maintenance_recover is a list of namespaces. *)
LEMMA OwnerFirstType == ASSUME NEW i \in Positions PROVE OwnerFirst(i) \in Namespaces
BY NamespaceFacts DEF OwnerFirst, Positions, Namespaces

(* guest_recover_for goes on with a typed operation. *)
LEMMA RecoverAtType ==
  ASSUME ControlOK, op.todo # <<>>, NEW n \in NS, NEW p \in PC,
         NEW r \in {"markTmp", "rmBackup", "restore"}, NEW c \in BOOLEAN,
         RecoverAt(n, p, r, c)
  PROVE  ControlOK'
BY NamespaceFacts DEF ControlOK, RecoverAt, Operation, history

(* An operation begins with a typed record. *)
LEMMA BeginType ==
  ASSUME ControlOK, NEW n \in NS, NEW t \in Namespaces, NEW g \in Goals, Begin(n, t, g)
  PROVE  ControlOK'
<1>1. op' \in Operation
  BY PcFacts DEF Begin, ControlOK, Operation
<1>2. QED BY <1>1 DEF Begin, ControlOK, history

(* A fault keeps the counters typed. *)
LEMMA FaultType ==
  ASSUME ControlOK, NEW s \in {"OK", "ERR_STATE", "ERR_IO"}, Fault(s),
         op' \in Operation
  PROVE  ControlOK'
BY BoundAssumption DEF ControlOK, Fault

(* Every call of the recovery keeps both halves of the type. *)
LEMMA RecoveryTypes ==
  ASSUME DiskOK, ControlOK, Recovery
  PROVE  DiskOK' /\ ControlOK'
<1>1. CASE MaintenanceRecover
  <2>1. DiskOK'
    BY <1>1, SameDisk DEF MaintenanceRecover
  <2>2. CASE Return("ERR_STATE")
    BY <2>1, <2>2, ReturnType
  <2>3. CASE UNCHANGED <<status, history>> /\ op' \in Operation
    BY <2>1, <2>3, OpType
  <2>4. ASSUME NEW s \in Namespaces,
               op' = [op EXCEPT !.pc = "recover", !.dirty = {},
                                !.todo = s \o op.todo]
        PROVE  op' \in Operation
    BY <2>4, PcFacts, NamespaceFacts DEF ControlOK, Operation
  <2>5. Owners \subseteq Positions
    BY DEF Owners, JournalOwners, OrphanOwners
  <2>6. QED
    <3>1. CASE \E i \in Owners :
               op' = [op EXCEPT !.pc = "recover", !.dirty = {},
                                !.todo = OwnerFirst(i) \o op.todo]
      BY <1>1, <2>2, <2>3, <2>4, <2>5, <3>1, OwnerFirstType DEF MaintenanceRecover
    <3>2. CASE op' = [op EXCEPT !.pc = "recover", !.dirty = {},
                                !.todo = MaintTable \o op.todo]
      BY <1>1, <2>2, <2>3, <2>4, <3>2, NamespaceFacts DEF MaintenanceRecover
    <3>3. QED BY <1>1, <2>2, <3>1, <3>2 DEF MaintenanceRecover
<1>2. CASE RecoverFor
  <2>1. DiskOK'
    BY <1>2, SameDisk DEF RecoverFor
  <2>2. op.todo # <<>> /\ Head(op.todo) \in NS
    BY <1>2, NamespaceFacts DEF RecoverFor, ControlOK, Operation
  <2>3. CASE RecoverCommitted(Head(op.todo))
    BY ZenonT(60), <2>1, <2>2, <2>3, RecoverAtType, ReturnType, PcFacts DEF RecoverCommitted
  <2>4. CASE RecoverJournal(Head(op.todo))
    BY <2>1, <2>2, <2>4, RecoverAtType, PcFacts DEF RecoverJournal
  <2>5. CASE RecoverOrphan(Head(op.todo))
    BY <2>1, <2>2, <2>5, RecoverAtType, ReturnType, PcFacts DEF RecoverOrphan
  <2>6. QED
    BY <1>2, <2>3, <2>4, <2>5 DEF RecoverFor
<1>3. CASE RecoveryOver
  BY <1>3, GotoType, PcFacts, SameDisk DEF RecoveryOver, ControlOK,
     Operation, Goals
<1>4. CASE Continue
  <2>1. Branch(op.cur) # "contradictory" => Branch(op.cur) \in PC
    BY PcFacts DEF Branch, ContinueBranch
  <2>2. QED
    BY <1>4, <2>1, ReturnType, SameDisk DEF Continue, ControlOK, Operation, history
<1>5. CASE SwapOut
  BY ZenonT(60), <1>5, GotoType, PcFacts, Images DEF SwapOut, DiskOK, ControlOK,
     Operation, FS
<1>6. CASE SwapOutSync
  BY <1>6, GotoType, PcFacts, SyncedWorkType DEF SwapOutSync, DiskOK
<1>7. CASE SwapIn
  BY <1>7, GotoType, PcFacts, Images DEF SwapIn, DiskOK, ControlOK,
     Operation, FS
<1>8. CASE SwapInStage
  BY <1>8, GotoType, PcFacts, SyncedStageType DEF SwapInStage, DiskOK,
     ControlOK, Operation
<1>9. CASE SwapInWork
  BY <1>9, GotoType, PcFacts, SyncedWorkType DEF SwapInWork, DiskOK
<1>10. CASE InvalidateResume
  BY <1>10, GotoType, PcFacts, Images DEF InvalidateResume, DiskOK,
     ControlOK, Operation, FS
<1>11. CASE InvalidateResumeSync
  BY <1>11, GotoType, PcFacts, SyncedWorkType DEF InvalidateResumeSync,
     ControlOK, Operation, Goals, DiskOK
<1>12. CASE MarkTmp
  BY <1>12, GotoType, PcFacts, Images DEF MarkTmp, DiskOK, ControlOK,
     Operation, FS
<1>13. CASE MarkRename
  BY <1>13, GotoType, PcFacts, Images DEF MarkRename, DiskOK, ControlOK,
     Operation, FS
<1>14. CASE MarkSync
  BY <1>14, NamespaceFacts, PcFacts, SyncedWorkType DEF MarkSync, ControlOK,
     Operation, Goals, history, DiskOK
<1>15. CASE RemoveBackup
  BY <1>15, GotoType, PcFacts, Images DEF RemoveBackup, DiskOK, ControlOK,
     Operation, FS
<1>16. CASE RemoveJournal
  BY <1>16, GotoType, PcFacts, NamespaceFacts, Images DEF RemoveJournal,
     DiskOK, ControlOK, Operation, FS
<1>17. CASE RemoveTmp
  BY <1>17, GotoType, PcFacts, Images DEF RemoveTmp, DiskOK, ControlOK,
     Operation, FS
<1>18. CASE RemoveNext
  BY <1>18, GotoType, PcFacts, Images DEF RemoveNext, DiskOK, ControlOK,
     Operation, FS
<1>19. CASE RemoveStage
  <2>1. DiskOK'
    <3>1. [fs EXCEPT !.stage[op.cur] = 0] \in FS
      BY Inodes DEF DiskOK, ControlOK, Operation, FS
    <3>2. QED BY <1>19, <3>1 DEF RemoveStage, DiskOK
  <2>2. ControlOK'
    <3>1. op.dirty \cup {op.cur} \in SUBSET NS
      BY DEF ControlOK, Operation
    <3>2. [op EXCEPT !.pc = "rmSync", !.dirty = op.dirty \cup {op.cur}] \in Operation
      BY <3>1, PcFacts DEF ControlOK, Operation
    <3>3. QED BY <1>19, <3>2, GotoType, OpType, PcFacts DEF RemoveStage
  <2>3. QED BY <2>1, <2>2
<1>20. CASE RemoveSync
  BY <1>20, NamespaceFacts, Images, PcFacts, SyncedWorkType DEF RemoveSync,
     ControlOK, Operation, Goals, NoTxn, DiskOK
<1>21. CASE RemoveMarker
  BY <1>21, GotoType, PcFacts, NamespaceFacts, Images DEF RemoveMarker,
     DiskOK, ControlOK, Operation, FS
<1>22. CASE RemoveMarkerSync
  BY <1>22, GotoType, PcFacts, SyncedWorkType DEF RemoveMarkerSync, DiskOK
<1>23. CASE RestoreBackup
  BY <1>23, GotoType, PcFacts, Images DEF RestoreBackup, DiskOK, ControlOK,
     Operation, FS
<1>24. CASE RestoreSync
  BY <1>24, GotoType, PcFacts, SyncedWorkType DEF RestoreSync, DiskOK
<1>25. QED
  BY <1>1, <1>2, <1>3, <1>4, <1>5, <1>6, <1>7, <1>8, <1>9, <1>10, <1>11, <1>12, <1>13, <1>14, <1>15, <1>16, <1>17, <1>18, <1>19, <1>20, <1>21, <1>22, <1>23, <1>24 DEF Recovery

(* So does every call of a replacement. *)
LEMMA ReplacementTypes ==
  ASSUME DiskOK, ControlOK, Replacement
  PROVE  DiskOK' /\ ControlOK'
<1>1. CASE GateReplace
  <2>1. DiskOK'
    BY ZenonT(60), <1>1, Images DEF GateReplace, DiskOK, FS, GateResume, Disarmed
  <2>2. op' \in Operation
    <3>1. op.tgt \in NS /\ <<op.tgt>> \in Namespaces
      BY NamespaceFacts DEF ControlOK, Operation
    <3>2. PICK d \in Digests :
            op' = IF op.tgt = INSTALL
                  THEN [op EXCEPT !.pc = "recover", !.todo = <<op.tgt>>,
                                  !.goal = "stage", !.dig = d]
                  ELSE [op EXCEPT !.pc = "maint", !.goal = "prep", !.dig = d]
      BY <1>1 DEF GateReplace
    <3>3. QED
      BY ZenonT(60), <3>1, <3>2, PcFacts, NamespaceFacts DEF ControlOK, Operation, Goals
  <2>3. QED
    BY <1>1, <2>1, <2>2, OpType DEF GateReplace
<1>2. CASE GateConfirm
  <2>1. op.tgt \in NS /\ <<op.tgt>> \in Namespaces
    BY NamespaceFacts DEF ControlOK, Operation
  <2>2. PICK d \in Digests :
          op' = [op EXCEPT !.pc = "recover", !.todo = <<op.tgt>>,
                           !.goal = "confirm", !.dig = d]
    BY <1>2 DEF GateConfirm
  <2>3. op' \in Operation
    BY <2>1, <2>2, PcFacts, NamespaceFacts DEF ControlOK, Operation, Goals
  <2>4. QED
    BY <1>2, <2>3, OpType, SameDisk DEF GateConfirm
<1>3. CASE GateRefuse
  BY <1>3, ReturnType, SameDisk DEF GateRefuse
<1>4. CASE BeginRepair
  BY ZenonT(60), <1>4, NamespaceFacts, PcFacts, SameDisk DEF BeginRepair, ControlOK,
     Operation, Goals, history
<1>5. CASE SkipRepair
  BY <1>5, GotoType, ReturnType, PcFacts, SameDisk DEF SkipRepair
<1>6. CASE Prepare
  <2>1. <<op.tgt>> \in Namespaces
    BY NamespaceFacts DEF ControlOK, Operation
  <2>2. QED
    BY ZenonT(60), <1>6, <2>1, PcFacts, SameDisk, ReturnType
    DEF Prepare, ControlOK, Operation, Goals, history
<1>7. CASE PrepareStage
  BY ZenonT(60), <1>7, ReturnType, NamespaceFacts, PcFacts, SameDisk DEF PrepareStage,
     ControlOK, Operation, Goals, history
<1>8. CASE StageTmp
  BY ZenonT(60), <1>8, GotoType, PcFacts, Images DEF StageTmp, DiskOK, ControlOK,
     Operation, FS
<1>9. CASE StageNext
  BY <1>9, GotoType, PcFacts, Images DEF StageNext, DiskOK, ControlOK,
     Operation, FS
<1>10. CASE StageRmdir
  <2>1. DiskOK'
    <3>1. [fs EXCEPT !.stage[op.cur] = 0] \in FS
      BY Inodes DEF DiskOK, ControlOK, Operation, FS
    <3>2. QED BY <1>10, <3>1 DEF StageRmdir, DiskOK
  <2>2. QED
    BY <1>10, <2>1, GotoType, ReturnType, PcFacts DEF StageRmdir
<1>11. CASE StageMkdir
  BY <1>11, GotoType, PcFacts, Inodes
  DEF StageMkdir, DiskOK, ControlOK, Operation, FS
<1>12. CASE StageSync
  BY <1>12, GotoType, PcFacts, SyncedWorkType DEF StageSync, DiskOK
<1>13. CASE Construct
  BY <1>13, GotoType, PcFacts, SameDisk DEF Construct
<1>14. CASE BuildTmp
  BY <1>14, GotoType, PcFacts, Images DEF BuildTmp, DiskOK, ControlOK,
     Operation, FS
<1>15. CASE BuildLink
  BY <1>15, Images, PcFacts, BoundAssumption DEF BuildLink, ControlOK,
     Operation, Goals, NextImage, DiskOK, FS
<1>16. CASE BuildSync
  BY <1>16, GotoType, PcFacts, SyncedStageType DEF BuildSync, DiskOK,
     ControlOK, Operation
<1>17. CASE BuildUnlink
  BY <1>17, GotoType, PcFacts, Images DEF BuildUnlink, DiskOK, ControlOK,
     Operation, FS
<1>18. CASE BuildDone
  BY <1>18, GotoType, PcFacts, SyncedStageType DEF BuildDone, DiskOK,
     ControlOK, Operation
<1>19. CASE BuildRefuse
  BY <1>19, GotoType, ReturnType, PcFacts, Images DEF BuildRefuse, DiskOK,
     ControlOK, Operation, FS
<1>20. CASE CopyBegin
  <2>1. DiskOK'
    <3>1. [fs EXCEPT !.next[op.cur] = Torn] \in FS /\ soft \cup {op.cur} \subseteq NS
      BY Images DEF DiskOK, ControlOK, Operation, FS
    <3>2. QED BY <1>20, <3>1 DEF CopyBegin, DiskOK
  <2>2. ControlOK'
    <3>1. [op EXCEPT !.pc = "discard"] \in Operation
      BY PcFacts DEF ControlOK, Operation
    <3>2. QED BY <1>20, <3>1, GotoType, PcFacts DEF CopyBegin, ControlOK, history
  <2>3. QED BY <2>1, <2>2
<1>21. CASE CopyEnd
  BY <1>21, Images, PcFacts, BoundAssumption DEF CopyEnd, ControlOK,
     Operation, Goals, NextImage, DiskOK, FS
<1>22. CASE CopySync
  BY <1>22, GotoType, PcFacts, SyncedStageType DEF CopySync, DiskOK,
     ControlOK, Operation
<1>23. CASE CopyFails
  BY <1>23, PcFacts, Images DEF CopyFails, ControlOK, Operation, Goals,
     history, DiskOK, FS
<1>24. CASE RepairClone
  BY <1>24, GotoType, PcFacts DEF RepairClone, DiskOK, ControlOK, Operation
<1>25. CASE Discard
  BY <1>25, GotoType, ReturnType, PcFacts, SameDisk DEF Discard
<1>26. CASE DiscardNext
  BY <1>26, GotoType, PcFacts, Images DEF DiscardNext, DiskOK, ControlOK,
     Operation, FS
<1>27. CASE DiscardRmdir
  <2>1. DiskOK'
    <3>1. [fs EXCEPT !.stage[op.cur] = 0] \in FS
      BY Inodes DEF DiskOK, ControlOK, Operation, FS
    <3>2. QED BY <1>27, <3>1 DEF DiscardRmdir, DiskOK
  <2>2. QED
    BY <1>27, <2>1, GotoType, ReturnType, PcFacts DEF DiscardRmdir
<1>28. CASE DiscardSync
  BY <1>28, GotoType, PcFacts, SyncedWorkType DEF DiscardSync, DiskOK
<1>29. CASE Discarded
  BY <1>29, GotoType, ReturnType, PcFacts, SameDisk DEF Discarded, ControlOK
<1>30. CASE Publish
  <2>1. <<op.cur>> \in Namespaces
    BY NamespaceFacts DEF ControlOK, Operation
  <2>2. QED
    BY ZenonT(60), <1>30, <2>1, PcFacts, SameDisk, ReturnType
    DEF Publish, ControlOK, Operation, Goals, history
<1>31. CASE FsyncNext
  BY <1>31, GotoType, PcFacts DEF FsyncNext, DiskOK
<1>32. CASE JournalTmp
  BY <1>32, GotoType, PcFacts, Images DEF JournalTmp, DiskOK, ControlOK,
     Operation, FS
<1>33. CASE JournalRename
  BY <1>33, Images, PcFacts DEF JournalRename, ControlOK, DiskOK, FS,
     Operation, Goals
<1>34. CASE JournalSync
  BY <1>34, GotoType, PcFacts, SyncedWorkType DEF JournalSync, DiskOK
<1>35. CASE Published
  BY ZenonT(60), <1>35, PcFacts, NamespaceFacts, SameDisk, ReturnType, GotoType
  DEF Published, ControlOK, Operation, Goals, history
<1>36. CASE Repaired
  BY <1>36, GotoType, ReturnType, PcFacts, SameDisk DEF Repaired
<1>37. ASSUME NEW m \in Permanent, ConfirmNext(m) PROVE DiskOK' /\ ControlOK'
  BY <1>37, PcFacts, NamespaceFacts, SameDisk
  DEF ConfirmNext, ControlOK, Operation, Goals, history
<1>38. CASE Confirm
  BY <1>38, GotoType, ReturnType, PcFacts, SameDisk DEF Confirm
<1>39. CASE ConfirmTmp
  BY <1>39, GotoType, PcFacts, Images DEF ConfirmTmp, DiskOK, ControlOK,
     Operation, FS
<1>40. CASE ConfirmRename
  BY <1>40, GotoType, PcFacts, Images DEF ConfirmRename, DiskOK, ControlOK,
     Operation, FS
<1>41. CASE ConfirmSync
  BY <1>41, NamespaceFacts, PcFacts, SyncedWorkType DEF ConfirmSync,
     ControlOK, Operation, Goals, history, DiskOK
<1>42. QED
  BY <1>1, <1>2, <1>3, <1>4, <1>5, <1>6, <1>7, <1>8, <1>9, <1>10, <1>11, <1>12, <1>13, <1>14, <1>15, <1>16, <1>17, <1>18, <1>19, <1>20, <1>21, <1>22, <1>23, <1>24, <1>25, <1>26, <1>27, <1>28, <1>29, <1>30, <1>31, <1>32, <1>33, <1>34, <1>35, <1>36, <1>37, <1>38, <1>39, <1>40, <1>41 DEF Replacement

(* So do the callers, the guest and the faults. *)
LEMMA EnvironmentTypes ==
  ASSUME DiskOK, ControlOK, Environment
  PROVE  DiskOK' /\ ControlOK'
<1>1. ASSUME NEW n \in NS, BeginBuild(n) PROVE DiskOK' /\ ControlOK'
  <2>1. DiskOK'
    BY <1>1, Images DEF BeginBuild, DiskOK, FS, Disarmed
  <2>2. ControlOK'
    BY <1>1, BeginType, NamespaceFacts DEF BeginBuild, Goals
  <2>3. QED BY <2>1, <2>2
<1>2. ASSUME NEW n \in NS, BeginApp(n) PROVE DiskOK' /\ ControlOK'
  BY <1>2, BeginType, NamespaceFacts, SameDisk DEF BeginApp, Goals
<1>3. CASE GuestWrite
  BY <1>3, Images, BoundAssumption DEF GuestWrite, ControlOK, DiskOK, FS
<1>4. CASE Suspend
  BY <1>4, ReturnType DEF Suspend, DiskOK, FS
<1>5. CASE Stop
  BY <1>5, ReturnType, SameDisk DEF Stop
<1>6. CASE IoFailure
  <2>1. ControlOK'
    BY <1>6, IdleType, FaultType DEF IoFailure
  <2>2. /\ [fs EXCEPT !.tmp[op.cur] = FALSE] \in FS
        /\ [fs EXCEPT !.scrap[op.cur] = FALSE] \in FS
        /\ [fs EXCEPT !.stage[op.cur] = 0] \in FS
    BY Inodes DEF ControlOK, Operation, DiskOK, FS
  <2>3. DiskOK'
    BY <1>6, <2>2 DEF IoFailure, DiskOK
  <2>4. QED BY <2>1, <2>3
<1>7. CASE CleanupFailure
  <2>1. CleanupSuccessor[op.pc] \in PC
    BY <1>7, PcFacts DEF CleanupFailure, CleanupSuccessor, CleanupCalls
  <2>2. op.dirty \cup {op.cur} \in SUBSET NS
    BY DEF ControlOK, Operation
  <2>3. op' \in Operation
    BY <1>7, <2>1, <2>2 DEF CleanupFailure, ControlOK, Operation
  <2>4. QED
    BY <1>7, <2>3, FaultType, SameDisk DEF CleanupFailure, ControlOK
<1>8. CASE Kill
  BY <1>8, IdleType, BoundAssumption, SameDisk DEF Kill, ControlOK, Fault
<1>9. CASE PowerLoss
  BY <1>9, IdleType, BoundAssumption, AfterPowerLossType DEF PowerLoss,
     ControlOK, Fault, DiskOK
<1>10. ASSUME NEW n \in NS, LoseStage(n) PROVE DiskOK' /\ ControlOK'
  <2>1. \A d \in FS : [d EXCEPT !.next[n] = Absent, !.stage[n] = 0] \in FS
    BY Images, Inodes DEF FS
  <2>2. QED
    BY <1>10, <2>1, FaultType DEF ControlOK, LoseStage, DiskOK
<1>11. ASSUME NEW n \in NS, LoseJournal(n) PROVE DiskOK' /\ ControlOK'
  <2>1. \A d \in FS : [d EXCEPT !.journal[n] = NoRecord] \in FS
    BY NamespaceFacts DEF FS
  <2>2. QED
    BY <1>11, <2>1, FaultType DEF ControlOK, LoseJournal, DiskOK
<1>12. QED
  BY <1>1, <1>2, <1>3, <1>4, <1>5, <1>6, <1>7, <1>8, <1>9, <1>10, <1>11 DEF Environment

(* Every step keeps the types. *)
LEMMA TypeStep == TypeOK /\ [Next]_vars => TypeOK'
<1> SUFFICES ASSUME TypeOK, [Next]_vars PROVE TypeOK'
  OBVIOUS
<1>1. DiskOK /\ ControlOK
  BY TypeHalves
<1>2. CASE Next
  <2>1. CASE Boot
    BY <1>1, <2>1, BeginType, NamespaceFacts, SameDisk, TypeHalvesPrimed
    DEF Boot, Goals
  <2>2. CASE RestoreOnce
    <3>1. DiskOK'
      BY <1>1, <2>2, Images DEF RestoreOnce, DiskOK, FS, Disarmed
    <3>2. QED
      BY <1>1, <2>2, <3>1, GotoType, PcFacts, TypeHalvesPrimed DEF RestoreOnce
  <2>3. QED
    BY <1>1, <1>2, <2>1, <2>2, RecoveryTypes, ReplacementTypes, EnvironmentTypes,
       TypeHalvesPrimed
    DEF Next, Step
<1>3. CASE UNCHANGED vars
  BY <1>3 DEF vars, TypeOK
<1>4. QED BY <1>2, <1>3

(* The freshly imported machine has its type. *)
LEMMA TypeInit == Init => TypeOK
BY NamespaceFacts, Images, Inodes, IdleType, BoundAssumption
DEF Init, TypeOK, FreshFS, FS, Empty, NoTxn, Absent, NoRecord

(* Every reachable state has its type, for every choice of the constants.    *)
THEOREM TypeCorrect == Spec => []TypeOK
BY TypeInit, TypeStep, PTL DEF Spec

-----------------------------------------------------------------------------
(* The inductive invariant behind DiskSurvives.  What a loss of power finds  *)
(* under the live and the backup names is what the process sees or what was   *)
(* last synced, so each of the two directories must keep a disk by itself.    *)

Keeps(d) ==
  \/ d.live \in Image
  \/ d.live = Absent /\ \E n \in NS : d.backup[n] \in Image /\ d.marker[n] = NoRecord

Whole(d) == \A n \in NS : d.backup[n] # Torn

(* An image that a journal speaks of is complete, and stays so if the power   *)
(* is lost.                                                                   *)
Journalled(n) == fs.journal[n] # NoRecord \/ dur.journal[n] # NoRecord
JournalledComplete ==
  \A n \in NS : Journalled(n) => n \notin soft /\ fs.next[n] # Torn /\ dur.next[n] # Torn

Invalidating(r) == op.pc \in {"inv", "invSync"} /\ op.ret = r

(* What guest_continue has established about the disk at each of its calls.   *)
SwapKnows ==
  /\ op.pc = "continue" => fs.journal[op.cur] # NoRecord /\ fs.marker[op.cur] = NoRecord
  /\ op.pc = "swapOut" => fs.live \in Image
  /\ op.pc \in {"swapOut", "swapOutSync", "swapIn"} =>
       /\ fs.journal[op.cur] # NoRecord
       /\ fs.marker[op.cur] = NoRecord
       /\ fs.next[op.cur] \in Image
  /\ op.pc \in {"swapInStage", "swapInWork", "markTmp", "markRen"} \/ Invalidating("markTmp")
       => fs.live \in Image /\ fs.journal[op.cur] # NoRecord
  /\ op.pc = "swapInStage" => fs.next[op.cur] = Absent
  /\ op.pc \in {"swapOut", "swapOutSync", "swapIn", "swapInStage", "swapInWork"}
       => op.ret = "markTmp"
  /\ op.pc \in {"markSync", "rmBackup"} \/ Invalidating("rmBackup")
       => fs.marker[op.cur] # NoRecord
  /\ op.pc = "restore" \/ Invalidating("restore") => fs.backup[op.cur] \in Image
  /\ op.pc \in {"cfTmp", "cfRen"} => fs.live \in Image

(* What the preparation of a stage, the construction of the image and its     *)
(* publication have established.                                              *)
Cloning == {"copyEnd", "copySync", "repair"}
Building == {"buildTmp", "buildLink", "buildSync", "buildUnlink", "buildDone"}
Journalling == {"fsyncNext", "jrnTmp", "jrnRen"}
StageKnows ==
  /\ op.goal \notin {"start", "gate"} => op.dig # NoRecord
  /\ op.pc \in {"prep", "stage", "stTmp", "stNext", "stRmdir", "stMk", "stSync",
                "construct", "copy", "publish", "confirm", "cfTmp", "cfRen", "cfSync",
                "published"} \cup Cloning \cup Building \cup Journalling
       => op.goal \notin {"start", "gate"}
  /\ op.pc = "stSync" => fs.stage[op.cur] # dur.stage[op.cur]
  /\ op.pc \in {"construct", "copy", "publish"} \cup Cloning \cup Building \cup Journalling
       => /\ dur.next[op.cur] # Torn
          /\ dur.journal[op.cur] = fs.journal[op.cur]
  /\ op.pc \in Cloning => fs.journal[op.cur] = NoRecord
  /\ op.pc \in {"buildSync", "buildUnlink", "buildDone", "copySync", "repair", "publish"}
                \cup Journalling
       => fs.next[op.cur] \in Image
  /\ op.pc \in Journalling =>
       fs.journal[op.cur] = NoRecord /\ fs.marker[op.cur] = NoRecord
  /\ op.pc \in {"jrnTmp", "jrnRen"} => op.cur \notin soft
  /\ op.pc = "jrnSync" => fs.journal[op.cur] # NoRecord /\ fs.marker[op.cur] = NoRecord

DiskInv ==
  /\ Keeps(fs) /\ Keeps(dur)
  /\ Whole(fs) /\ Whole(dur)
  /\ JournalledComplete

OpInv == SwapKnows /\ StageKnows

IInv == TypeOK /\ DiskInv /\ OpInv

(* The typed fields that the steps below read.                                *)
LEMMA Fields ==
  ASSUME TypeOK
  PROVE  /\ fs \in FS /\ dur \in FS /\ op \in Operation
         /\ op.cur \in NS /\ op.tgt \in NS
         /\ fs.live \in File /\ fs.next[op.cur] \in File
         /\ fs.backup[op.cur] \in File
         /\ \A i \in File : i \in Image \/ i = Absent \/ i = Torn
BY DEF TypeOK, FS, Operation, File

(* A step that leaves the disk alone keeps the disk invariant. *)
LEMMA SameDiskInv == ASSUME DiskInv, UNCHANGED disk PROVE DiskInv'
BY DEF DiskInv, disk, Keeps, Whole, JournalledComplete, Journalled

(* After an fsync of the work directory the durable entries keep the disk if the visible ones do. *)
LEMMA SyncedWorkInv ==
  ASSUME TypeOK, DiskInv, dur' = SyncedWork, UNCHANGED <<fs, soft>>
  PROVE  DiskInv'
<1>1. /\ SyncedWork.live = fs.live /\ SyncedWork.backup = fs.backup
      /\ SyncedWork.marker = fs.marker /\ SyncedWork.journal = fs.journal
      /\ \A n \in NS : SyncedWork.next[n] \in {dur.next[n], Absent}
  BY DEF SyncedWork, TypeOK, FS
<1>2. QED
  BY <1>1, Images
  DEF DiskInv, Keeps, Whole, JournalledComplete, Journalled

(* An fsync of the stage keeps the disk invariant while the image in it is complete or unjournalled. *)
LEMMA SyncedStageInv ==
  ASSUME TypeOK, DiskInv, NEW n \in NS, dur' = SyncedStage(n), fs.next[n] # Torn,
         UNCHANGED <<fs, soft>>
  PROVE  DiskInv'
<1>1. CASE SameStage(n)
  <2>1. dur' = [dur EXCEPT !.next[n] = fs.next[n], !.scrap[n] = fs.scrap[n]]
    BY <1>1 DEF SyncedStage
  <2>2. /\ dur'.live = dur.live /\ dur'.backup = dur.backup
        /\ dur'.marker = dur.marker /\ dur'.journal = dur.journal
        /\ dur'.next = [dur.next EXCEPT ![n] = fs.next[n]]
    BY <2>1 DEF TypeOK, FS
  <2>3. \A m \in NS : dur'.next[m] # Torn \/ dur'.next[m] = dur.next[m]
    BY <2>2 DEF TypeOK, FS
  <2>4. QED
    BY <2>2, <2>3 DEF DiskInv, Keeps, Whole, JournalledComplete, Journalled
<1>2. CASE ~SameStage(n)
  <2>1. UNCHANGED disk
    BY <1>2 DEF SyncedStage, disk
  <2>2. QED BY <2>1, SameDiskInv
<1>3. QED BY <1>1, <1>2

(* Whatever a loss of power leaves keeps the disk. *)
LEMMA AfterPowerLossInv ==
  ASSUME TypeOK, DiskInv, NEW W \in BOOLEAN, NEW K \in SUBSET NS,
         fs' = AfterPowerLoss(W, K), dur' = AfterPowerLoss(W, K), soft' = {}
  PROVE  DiskInv'
<1> DEFINE d == AfterPowerLoss(W, K)
           base == IF W THEN fs ELSE dur
<1>1. /\ d.live = base.live /\ d.backup = base.backup
      /\ d.marker = base.marker /\ d.journal = base.journal
      /\ \A n \in NS : n \notin soft => d.next[n] \in {fs.next[n], dur.next[n], Absent}
  BY DEF AfterPowerLoss, TypeOK, FS
<1>2. QED
  BY <1>1, Images
  DEF DiskInv, Keeps, Whole, JournalledComplete, Journalled

(* An operation that is over knows nothing.                                   *)
LEMMA IdleInv == ASSUME op' = Idle PROVE OpInv'
BY DEF Idle, OpInv, SwapKnows, StageKnows, Invalidating, Cloning, Building, Journalling

(* Neither does one at a place about which the invariant says nothing.        *)
Quiet == {"recover", "maint", "start", "gate", "repaired",
          "restoreOnce", "rmJournal", "rmTmp", "rmNext", "rmStage", "rmSync"}

(* Nothing is required of an operation at a place outside the swap and the stage. *)
LEMMA QuietInv ==
  ASSUME OpInv, op'.pc \in Quiet, op'.goal \notin {"start", "gate"} => op'.dig # NoRecord
  PROVE  OpInv'
BY DEF Quiet, OpInv, SwapKnows, StageKnows, Invalidating, Cloning, Building, Journalling

(* Nor does the disk invariant speak of the other entries.                    *)
LEMMA InertInv ==
  ASSUME DiskInv, UNCHANGED <<dur, soft>>,
         fs'.live = fs.live, fs'.backup = fs.backup, fs'.marker = fs.marker,
         fs'.journal = fs.journal, fs'.next = fs.next
  PROVE  DiskInv'
BY DEF DiskInv, Keeps, Whole, JournalledComplete, Journalled

(* The fields guest_recover_for assigns. *)
LEMMA RecoverAtFields ==
  ASSUME TypeOK, NEW n, NEW p, NEW r, NEW c, RecoverAt(n, p, r, c)
  PROVE  /\ op'.pc = p /\ op'.cur = n /\ op'.ret = r
         /\ op'.goal = op.goal /\ op'.dig = op.dig
<1> DEFINE t == Tail(op.todo)
<1>1. op' = [op EXCEPT !.pc = p, !.cur = n, !.todo = t, !.ret = r, !.done = c]
  BY DEF RecoverAt
<1> HIDE DEF t
<1>2. QED BY <1>1 DEF TypeOK, Operation

(* A new image is an image. *)
LEMMA FreshImage == ASSUME TypeOK, gen < MaxImage PROVE gen + 1 \in Image
BY Images DEF TypeOK

(* guest_recover_for goes on only where the evidence allows it. *)
LEMMA RecoverForInv == ASSUME IInv, RecoverFor PROVE OpInv'
<1> DEFINE n == Head(op.todo)
<1>1. UNCHANGED fs /\ UNCHANGED dur /\ UNCHANGED soft /\ TypeOK /\ n \in NS
  BY NamespaceFacts DEF RecoverFor, disk, IInv, TypeOK, Operation
<1> HIDE DEF n
<1>2. CASE RecoverCommitted(n)
  <2>1. CASE Return("ERR_STATE")
    BY <2>1, IdleInv DEF Return
  <2>2. ASSUME NEW p \in {"inv", "rmBackup"}, RecoverAt(n, p, "rmBackup", TRUE)
        PROVE  OpInv'
    <3>1. /\ op'.pc = p /\ op'.cur = n /\ op'.ret = "rmBackup"
          /\ op'.goal = op.goal /\ op'.dig = op.dig
      BY <1>1, <2>2, RecoverAtFields
    <3>2. fs.marker[n] # NoRecord
      BY <1>2 DEF RecoverCommitted
    <3>3. QED
      BY <1>1, <3>1, <3>2 DEF IInv, OpInv, SwapKnows, StageKnows, Invalidating,
         Cloning, Building, Journalling
  <2>3. QED BY <1>2, <2>1, <2>2 DEF RecoverCommitted
<1>3. CASE RecoverJournal(n)
  <2>1. /\ RecoverAt(n, "continue", "markTmp", FALSE)
        /\ fs.marker[n] = NoRecord /\ fs.journal[n] # NoRecord
    BY <1>3 DEF RecoverJournal
  <2>2. /\ op'.pc = "continue" /\ op'.cur = n
        /\ op'.goal = op.goal /\ op'.dig = op.dig
    BY <1>1, <2>1, RecoverAtFields
  <2>3. QED
    BY <1>1, <2>1, <2>2 DEF IInv, OpInv, SwapKnows, StageKnows, Invalidating,
       Cloning, Building, Journalling
<1>4. CASE RecoverOrphan(n)
  <2>1. CASE Return("ERR_STATE")
    BY <2>1, IdleInv DEF Return
  <2>2. CASE RecoverAt(n, "recover", "markTmp", FALSE)
    <3>1. op'.pc = "recover" /\ op'.goal = op.goal /\ op'.dig = op.dig
      BY <1>1, <2>2, RecoverAtFields
    <3>2. QED BY <3>1, QuietInv DEF IInv, OpInv, StageKnows, Quiet
  <2>3. CASE fs.backup[n] # Absent /\ RecoverAt(n, "inv", "restore", FALSE)
    <3>1. /\ op'.pc = "inv" /\ op'.cur = n /\ op'.ret = "restore"
          /\ op'.goal = op.goal /\ op'.dig = op.dig
      BY <1>1, <2>3, RecoverAtFields
    <3>2. fs.backup[n] \in Image
      BY <1>1, <2>3, Fields DEF IInv, DiskInv, Whole, TypeOK, FS
    <3>3. QED
      BY <1>1, <3>1, <3>2 DEF IInv, OpInv, SwapKnows, StageKnows, Invalidating,
         Cloning, Building, Journalling
  <2>4. QED BY <1>4, <2>1, <2>2, <2>3 DEF RecoverOrphan
<1>5. QED BY <1>2, <1>3, <1>4 DEF RecoverFor, n

(* Every call of the recovery keeps the disk invariant. *)
LEMMA RecoveryDiskInv == ASSUME IInv, Recovery PROVE DiskInv'
<1> USE DEF IInv
<1>1. CASE MaintenanceRecover
  BY <1>1, SameDiskInv DEF MaintenanceRecover
<1>2. CASE RecoverFor
  BY <1>2, SameDiskInv DEF RecoverFor
<1>3. CASE RecoveryOver
  BY <1>3, SameDiskInv DEF RecoveryOver
<1>4. CASE Continue
  BY <1>4, SameDiskInv DEF Continue
<1>5. CASE SwapOut
  BY <1>5, Fields, Images DEF SwapOut, FS, DiskInv, Keeps, Whole,
     JournalledComplete, Journalled, OpInv, SwapKnows
<1>6. CASE SwapOutSync
  BY <1>6, SyncedWorkInv DEF SwapOutSync
<1>7. CASE SwapIn
  BY <1>7, Fields, Images DEF SwapIn, FS, DiskInv, Keeps, Whole,
     JournalledComplete, Journalled, OpInv, SwapKnows
<1>8. CASE SwapInStage
  BY <1>8, SyncedStageInv, Fields, Images DEF SwapInStage, OpInv, SwapKnows
<1>9. CASE SwapInWork
  BY <1>9, SyncedWorkInv DEF SwapInWork
<1>10. CASE InvalidateResume
  BY <1>10, InertInv, Fields DEF InvalidateResume, FS
<1>11. CASE InvalidateResumeSync
  BY <1>11, SyncedWorkInv DEF InvalidateResumeSync
<1>12. CASE MarkTmp
  BY <1>12, InertInv, Fields DEF MarkTmp, FS
<1>13. CASE MarkRename
  BY <1>13, Fields, Images DEF MarkRename, FS, DiskInv, Keeps, Whole,
     JournalledComplete, Journalled, OpInv, SwapKnows
<1>14. CASE MarkSync
  BY <1>14, SyncedWorkInv DEF MarkSync
<1>15. CASE RemoveBackup
  BY <1>15, Fields, Images DEF RemoveBackup, FS, DiskInv, Keeps, Whole,
     JournalledComplete, Journalled, OpInv, SwapKnows
<1>16. CASE RemoveJournal
  BY <1>16, Fields, Images DEF RemoveJournal, FS, DiskInv, Keeps, Whole,
     JournalledComplete, Journalled
<1>17. CASE RemoveTmp
  BY <1>17, InertInv, Fields DEF RemoveTmp, FS
<1>18. CASE RemoveNext
  BY <1>18, Fields, Images DEF RemoveNext, FS, DiskInv, Keeps, Whole,
     JournalledComplete, Journalled
<1>19. CASE RemoveStage
  BY <1>19, InertInv, Fields DEF RemoveStage, FS
<1>20. CASE RemoveSync
  BY <1>20, SyncedWorkInv DEF RemoveSync
<1>21. CASE RemoveMarker
  BY <1>21, Fields, Images DEF RemoveMarker, FS, DiskInv, Keeps, Whole,
     JournalledComplete, Journalled
<1>22. CASE RemoveMarkerSync
  BY <1>22, SyncedWorkInv DEF RemoveMarkerSync
<1>23. CASE RestoreBackup
  BY <1>23, Fields, Images DEF RestoreBackup, FS, DiskInv, Keeps, Whole,
     JournalledComplete, Journalled, OpInv, SwapKnows
<1>24. CASE RestoreSync
  BY <1>24, SyncedWorkInv DEF RestoreSync
<1>25. QED
  BY <1>1, <1>2, <1>3, <1>4, <1>5, <1>6, <1>7, <1>8, <1>9, <1>10, <1>11,
     <1>12, <1>13, <1>14, <1>15, <1>16, <1>17, <1>18, <1>19, <1>20, <1>21,
     <1>22, <1>23, <1>24 DEF Recovery

(* Every call of the recovery knows what its place requires. *)
LEMMA RecoveryOpInv == ASSUME IInv, Recovery PROVE OpInv'
<1> USE DEF IInv, OpInv, SwapKnows, StageKnows, Invalidating, Cloning, Building,
            Journalling
<1>1. CASE MaintenanceRecover
  <2>1. ASSUME NEW t, op' = [op EXCEPT !.pc = "recover", !.dirty = {}, !.todo = t]
        PROVE  OpInv'
    <3>1. op'.pc \in Quiet /\ op'.goal = op.goal /\ op'.dig = op.dig
      BY <2>1, Fields DEF Operation, Quiet
    <3>2. QED BY <3>1, QuietInv
  <2>2. QED BY <1>1, <2>1, IdleInv DEF MaintenanceRecover, Return
<1>2. CASE RecoverFor
  BY <1>2, RecoverForInv
<1>3. CASE RecoveryOver
  <2>2. /\ op'.pc = op.goal /\ op'.goal = op.goal /\ op'.dig = op.dig
        /\ op.goal \in Goals
    BY <1>3, Fields DEF RecoveryOver, Goto, Operation
  <2>3. QED
    BY <2>2 DEF Goals
<1>4. CASE Continue
  <2>2. CASE Branch(op.cur) = "contradictory"
    BY <1>4, <2>2, IdleInv DEF Continue, Return
  <2>3. CASE Branch(op.cur) # "contradictory"
    <3>1. /\ op'.pc = Branch(op.cur) /\ op'.ret = "markTmp" /\ op'.cur = op.cur
          /\ op'.goal = op.goal /\ op'.dig = op.dig /\ UNCHANGED <<fs, dur, soft>>
      BY <1>4, <2>3, Fields DEF Continue, Operation, disk
    <3>2. /\ fs.journal[op.cur] # NoRecord /\ fs.marker[op.cur] = NoRecord
          /\ fs.live # Absent => fs.live \in Image
          /\ fs.backup[op.cur] # Absent => fs.backup[op.cur] \in Image
          /\ fs.next[op.cur] # Absent => fs.next[op.cur] \in Image
      BY <1>4, Fields
      DEF Continue, DiskInv, Keeps, Whole, JournalledComplete, Journalled
    <3>3. CASE Branch(op.cur) = "swapOut" /\ fs.live # Absent /\ fs.next[op.cur] # Absent
      BY <3>1, <3>2, <3>3
    <3>4. CASE Branch(op.cur) = "swapIn" /\ fs.next[op.cur] # Absent
      BY <3>1, <3>2, <3>4
    <3>5. CASE Branch(op.cur) = "inv" /\ fs.live # Absent
      BY <3>1, <3>2, <3>5
    <3>6. CASE Branch(op.cur) = "restore" /\ fs.backup[op.cur] # Absent
      BY <3>1, <3>2, <3>6
    <3>7. QED
      BY <2>3, <3>3, <3>4, <3>5, <3>6 DEF Branch, ContinueBranch
  <2>4. QED BY <2>2, <2>3
<1>5. CASE SwapOut
  BY <1>5, Fields, Images DEF SwapOut, FS, Operation, Goto, DiskInv
<1>6. CASE SwapOutSync
  BY <1>6, Fields DEF SwapOutSync, SyncedWork, FS, Operation, Goto
<1>7. CASE SwapIn
  BY <1>7, Fields, Images DEF SwapIn, FS, Operation, Goto
<1>8. CASE SwapInStage
  BY <1>8, Fields DEF SwapInStage, SyncedStage, FS, Operation, Goto, DiskInv
<1>9. CASE SwapInWork
  BY <1>9, Fields DEF SwapInWork, SyncedWork, FS, Operation, Goto
<1>10. CASE InvalidateResume
  BY <1>10, Fields DEF InvalidateResume, FS, Operation, Goto
<1>11. CASE InvalidateResumeSync
  BY <1>11, Fields DEF InvalidateResumeSync, SyncedWork, FS, Operation, Goto
<1>12. CASE MarkTmp
  BY <1>12, Fields DEF MarkTmp, FS, Operation, Goto
<1>13. CASE MarkRename
  BY <1>13, Fields, Images DEF MarkRename, FS, Operation, Goto
<1>14. CASE MarkSync
  BY <1>14, Fields DEF MarkSync, SyncedWork, FS, Operation
<1>15. CASE RemoveBackup
  BY <1>15, Fields DEF RemoveBackup, FS, Operation, Goto
<1>16. CASE RemoveJournal
  BY <1>16, Fields DEF RemoveJournal, FS, Operation, Goto
<1>17. CASE RemoveTmp
  BY <1>17, Fields DEF RemoveTmp, FS, Operation, Goto
<1>18. CASE RemoveNext
  BY <1>18, Fields DEF RemoveNext, FS, Operation, Goto
<1>19. CASE RemoveStage
  <2>1. op'.pc \in Quiet /\ op'.goal = op.goal /\ op'.dig = op.dig
    BY <1>19, Fields DEF RemoveStage, Goto, Operation, Quiet
  <2>2. QED BY <2>1, QuietInv
<1>20. CASE RemoveSync
  BY <1>20, Fields DEF RemoveSync, SyncedWork, FS, Operation
<1>21. CASE RemoveMarker
  BY <1>21, Fields DEF RemoveMarker, FS, Operation, Goto
<1>22. CASE RemoveMarkerSync
  BY <1>22, Fields DEF RemoveMarkerSync, SyncedWork, FS, Operation, Goto
<1>23. CASE RestoreBackup
  BY <1>23, Fields, Images DEF RestoreBackup, FS, Operation, Goto
<1>24. CASE RestoreSync
  BY <1>24, Fields DEF RestoreSync, SyncedWork, FS, Operation, Goto
<1>25. QED
  BY <1>1, <1>2, <1>3, <1>4, <1>5, <1>6, <1>7, <1>8, <1>9, <1>10, <1>11,
     <1>12, <1>13, <1>14, <1>15, <1>16, <1>17, <1>18, <1>19, <1>20, <1>21,
     <1>22, <1>23, <1>24 DEF Recovery

(* Every call of a replacement keeps the disk invariant. *)
LEMMA ReplacementDiskInv == ASSUME IInv, Replacement PROVE DiskInv'
<1> USE DEF IInv
<1>1. CASE GateReplace
  BY <1>1, InertInv, Fields DEF GateReplace, GateResume, Disarmed, FS
<1>2. CASE GateConfirm
  BY <1>2, SameDiskInv DEF GateConfirm
<1>3. CASE GateRefuse
  BY <1>3, SameDiskInv DEF GateRefuse
<1>4. CASE BeginRepair
  BY <1>4, SameDiskInv DEF BeginRepair
<1>5. CASE SkipRepair
  BY <1>5, SameDiskInv DEF SkipRepair
<1>6. CASE Prepare
  BY <1>6, SameDiskInv DEF Prepare
<1>7. CASE PrepareStage
  BY <1>7, SameDiskInv DEF PrepareStage
<1>8. CASE StageTmp
  BY <1>8, InertInv, Fields DEF StageTmp, FS
<1>9. CASE StageNext
  BY <1>9, Fields, Images DEF StageNext, FS, DiskInv, Keeps, Whole,
     JournalledComplete, Journalled
<1>10. CASE StageRmdir
  BY <1>10, InertInv, Fields DEF StageRmdir, FS
<1>11. CASE StageMkdir
  BY <1>11, InertInv, Fields DEF StageMkdir, FS
<1>12. CASE StageSync
  BY <1>12, SyncedWorkInv DEF StageSync
<1>13. CASE Construct
  BY <1>13, SameDiskInv DEF Construct
<1>14. CASE BuildTmp
  BY <1>14, InertInv, Fields DEF BuildTmp, FS
<1>15. CASE BuildLink
  <2>1. PICK i \in Image : fs' = [fs EXCEPT !.next[op.cur] = i]
    BY <1>15, FreshImage DEF BuildLink, NextImage
  <2>2. QED
    BY <1>15, <2>1, Fields, Images
    DEF BuildLink, NextImage, FS, DiskInv, Keeps, Whole, JournalledComplete, Journalled
<1>16. CASE BuildSync
  BY <1>16, SyncedStageInv, Fields, Images DEF BuildSync, OpInv, StageKnows,
     Cloning, Building, Journalling
<1>17. CASE BuildUnlink
  BY <1>17, InertInv, Fields DEF BuildUnlink, FS
<1>18. CASE BuildDone
  BY <1>18, SyncedStageInv, Fields, Images DEF BuildDone, OpInv, StageKnows,
     Cloning, Building, Journalling
<1>19. CASE BuildRefuse
  BY <1>19, InertInv, Fields DEF BuildRefuse, FS
<1>20. CASE CopyBegin
  BY <1>20, Fields, Images DEF CopyBegin, CopyAllowed, FS, DiskInv, Keeps,
     Whole, JournalledComplete, Journalled, OpInv, SwapKnows, StageKnows,
     Cloning, Building, Journalling
<1>21. CASE CopyEnd
  <2>1. PICK i \in Image : fs' = [fs EXCEPT !.next[op.cur] = i]
    BY <1>21, FreshImage DEF CopyEnd, NextImage
  <2>2. QED
    BY <1>21, <2>1, Fields, Images
    DEF CopyEnd, NextImage, FS, DiskInv, Keeps, Whole, JournalledComplete, Journalled
<1>22. CASE CopySync
  BY <1>22, SyncedStageInv, Fields, Images DEF CopySync, OpInv, StageKnows,
     Cloning, Building, Journalling
<1>23. CASE CopyFails
  BY <1>23, Fields, Images DEF CopyFails, FS, DiskInv, Keeps, Whole,
     JournalledComplete, Journalled
<1>24. CASE RepairClone
  BY <1>24, Fields, Images DEF RepairClone, FS, DiskInv, Keeps, Whole,
     JournalledComplete, Journalled, OpInv, SwapKnows, StageKnows, Cloning,
     Building, Journalling
<1>25. CASE Discard
  BY <1>25, SameDiskInv DEF Discard
<1>26. CASE DiscardNext
  BY <1>26, Fields, Images DEF DiscardNext, FS, DiskInv, Keeps, Whole,
     JournalledComplete, Journalled
<1>27. CASE DiscardRmdir
  BY <1>27, InertInv, Fields DEF DiscardRmdir, FS
<1>28. CASE DiscardSync
  BY <1>28, SyncedWorkInv DEF DiscardSync
<1>29. CASE Discarded
  BY <1>29, SameDiskInv DEF Discarded
<1>30. CASE Publish
  BY <1>30, SameDiskInv DEF Publish
<1>31. CASE FsyncNext
  BY <1>31, Fields, Images DEF FsyncNext, FS, DiskInv, Keeps, Whole,
     JournalledComplete, Journalled
<1>32. CASE JournalTmp
  BY <1>32, InertInv, Fields DEF JournalTmp, FS
<1>33. CASE JournalRename
  BY <1>33, Fields, Images DEF JournalRename, FS, DiskInv, Keeps, Whole,
     JournalledComplete, Journalled, OpInv, SwapKnows, StageKnows, Cloning,
     Building, Journalling
<1>34. CASE JournalSync
  BY <1>34, SyncedWorkInv DEF JournalSync
<1>35. CASE Published
  BY <1>35, SameDiskInv DEF Published
<1>36. CASE Repaired
  BY <1>36, SameDiskInv DEF Repaired
<1>37. ASSUME NEW m \in Permanent, ConfirmNext(m) PROVE DiskInv'
  BY <1>37, SameDiskInv DEF ConfirmNext
<1>38. CASE Confirm
  BY <1>38, SameDiskInv DEF Confirm
<1>39. CASE ConfirmTmp
  BY <1>39, InertInv, Fields DEF ConfirmTmp, FS
<1>40. CASE ConfirmRename
  BY <1>40, Fields, Images DEF ConfirmRename, FS, DiskInv, Keeps, Whole,
     JournalledComplete, Journalled, OpInv, SwapKnows, StageKnows, Cloning,
     Building, Journalling
<1>41. CASE ConfirmSync
  BY <1>41, SyncedWorkInv DEF ConfirmSync
<1>42. QED
  BY <1>1, <1>2, <1>3, <1>4, <1>5, <1>6, <1>7, <1>8, <1>9, <1>10, <1>11,
     <1>12, <1>13, <1>14, <1>15, <1>16, <1>17, <1>18, <1>19, <1>20, <1>21,
     <1>22, <1>23, <1>24, <1>25, <1>26, <1>27, <1>28, <1>29, <1>30, <1>31,
     <1>32, <1>33, <1>34, <1>35, <1>36, <1>37, <1>38, <1>39, <1>40, <1>41 DEF
     Replacement

(* Every call of a replacement knows what its place requires. *)
LEMMA ReplacementOpInv == ASSUME IInv, Replacement PROVE OpInv'
<1> USE DEF IInv, OpInv, SwapKnows, StageKnows, Invalidating, Cloning, Building,
            Journalling
<1>1. CASE GateReplace
  BY <1>1, Fields, NamespaceFacts DEF GateReplace, FS, Operation
<1>2. CASE GateConfirm
  BY <1>2, Fields, NamespaceFacts DEF GateConfirm, disk, Operation
<1>3. CASE GateRefuse
  BY <1>3, IdleInv DEF GateRefuse, Return
<1>4. CASE BeginRepair
  BY <1>4, Fields, NamespaceFacts DEF BeginRepair, disk, Operation
<1>5. CASE SkipRepair
  BY <1>5, Fields, IdleInv DEF SkipRepair, disk, Operation, Goto, Return
<1>6. CASE Prepare
  BY ZenonT(60), <1>6, Fields, IdleInv DEF Prepare, disk, Operation, Return
<1>7. CASE PrepareStage
  BY <1>7, Fields, IdleInv DEF PrepareStage, disk, Operation, Return
<1>8. CASE StageTmp
  BY <1>8, Fields DEF StageTmp, FS, Operation, Goto
<1>9. CASE StageNext
  BY <1>9, Fields DEF StageNext, FS, Operation, Goto
<1>10. CASE StageRmdir
  BY <1>10, Fields, IdleInv DEF StageRmdir, FS, Operation, Goto, Return
<1>11. CASE StageMkdir
  BY <1>11, Fields, Inodes DEF StageMkdir, FS, Operation, Goto
<1>12. CASE StageSync
  BY <1>12, Fields, Images
  DEF StageSync, SyncedWork, FS, Operation, Goto, SameStage
<1>13. CASE Construct
  BY <1>13, Fields DEF Construct, disk, Operation, Goto
<1>14. CASE BuildTmp
  BY <1>14, Fields DEF BuildTmp, FS, Operation, Goto
<1>15. CASE BuildLink
  <2>1. PICK i \in Image : fs' = [fs EXCEPT !.next[op.cur] = i]
    BY <1>15, FreshImage DEF BuildLink, NextImage
  <2>2. op'.pc = "buildSync" /\ op'.cur = op.cur /\ op'.goal = op.goal /\ op'.dig = op.dig
    BY <1>15, Fields DEF BuildLink, NextImage, Operation
  <2>3. QED
    BY <1>15, <2>1, <2>2, Fields DEF BuildLink, NextImage, FS
<1>16. CASE BuildSync
  BY <1>16, Fields, Images DEF BuildSync, SyncedStage, FS, Operation, Goto
<1>17. CASE BuildUnlink
  BY <1>17, Fields DEF BuildUnlink, FS, Operation, Goto
<1>18. CASE BuildDone
  BY <1>18, Fields, Images DEF BuildDone, SyncedStage, FS, Operation, Goto
<1>19. CASE BuildRefuse
  BY <1>19, Fields, IdleInv DEF BuildRefuse, FS, Operation, Goto, Return
<1>20. CASE CopyBegin
  BY <1>20, Fields DEF CopyBegin, CopyAllowed, FS, Operation, Goto
<1>21. CASE CopyEnd
  <2>1. PICK i \in Image : fs' = [fs EXCEPT !.next[op.cur] = i]
    BY <1>21, FreshImage DEF CopyEnd, NextImage
  <2>2. op'.pc = "copySync" /\ op'.cur = op.cur /\ op'.goal = op.goal /\ op'.dig = op.dig
    BY <1>21, Fields DEF CopyEnd, NextImage, Operation
  <2>3. QED
    BY <1>21, <2>1, <2>2, Fields DEF CopyEnd, NextImage, FS
<1>22. CASE CopySync
  BY <1>22, Fields, Images DEF CopySync, SyncedStage, FS, Operation, Goto
<1>23. CASE CopyFails
  BY <1>23, Fields DEF CopyFails, FS, Operation
<1>24. CASE RepairClone
  BY <1>24, Fields DEF RepairClone, Operation, Goto
<1>25. CASE Discard
  BY <1>25, Fields, IdleInv DEF Discard, disk, Operation, Goto, Return
<1>26. CASE DiscardNext
  BY <1>26, Fields DEF DiscardNext, FS, Operation, Goto
<1>27. CASE DiscardRmdir
  BY <1>27, Fields, IdleInv DEF DiscardRmdir, FS, Operation, Goto, Return
<1>28. CASE DiscardSync
  BY <1>28, Fields DEF DiscardSync, SyncedWork, FS, Operation, Goto
<1>29. CASE Discarded
  BY <1>29, Fields, IdleInv DEF Discarded, disk, Operation, Goto, Return
<1>30. CASE Publish
  <2>1. CASE op' = [op EXCEPT !.pc = "fsyncNext", !.goal = "published"]
             /\ PublishAllowed(op.cur)
    BY <1>30, <2>1, Fields DEF Publish, PublishAllowed, disk, Operation
  <2>2. ASSUME NEW t, op' = [op EXCEPT !.pc = "recover", !.todo = t,
                                       !.goal = "published"]
        PROVE  OpInv'
    <3>1. op'.pc \in Quiet /\ op'.dig = op.dig
      BY <2>2, Fields DEF Operation, Quiet
    <3>2. QED BY <1>30, <3>1, QuietInv DEF Publish
  <2>3. QED
    BY <1>30, <2>1, <2>2, IdleInv DEF Publish, Return
<1>31. CASE FsyncNext
  BY <1>31, Fields DEF FsyncNext, Operation, Goto
<1>32. CASE JournalTmp
  BY <1>32, Fields DEF JournalTmp, FS, Operation, Goto
<1>33. CASE JournalRename
  BY <1>33, Fields DEF JournalRename, FS, Operation
<1>34. CASE JournalSync
  BY <1>34, Fields DEF JournalSync, SyncedWork, FS, Operation, Goto
<1>35. CASE Published
  <2>2. op' = Idle \/ (op'.pc \in Quiet /\ op'.dig = op.dig)
    <3>1. ASSUME NEW t, op' = [op EXCEPT !.pc = "recover", !.todo = t,
                                         !.goal = "repaired", !.dirty = {}]
          PROVE  op'.pc \in Quiet /\ op'.dig = op.dig
      BY <3>1, Fields DEF Operation, Quiet
    <3>2. Goto("restoreOnce") => op'.pc \in Quiet /\ op'.dig = op.dig
      BY Fields DEF Goto, Operation, Quiet
    <3>3. QED BY <1>35, <3>1, <3>2 DEF Published, Return
  <2>3. QED
    BY <1>35, <2>2, IdleInv, QuietInv DEF Published
<1>36. CASE Repaired
  BY <1>36, Fields, IdleInv DEF Repaired, disk, Operation, Goto, Return
<1>37. ASSUME NEW m \in Permanent, ConfirmNext(m) PROVE OpInv'
  <2>2. op'.pc \in Quiet /\ op'.dig = op.dig
    <3> DEFINE t == <<m>>
    <3>1. op' = [op EXCEPT !.pc = "recover", !.todo = t, !.goal = "confirm"]
      BY <1>37 DEF ConfirmNext
    <3> HIDE DEF t
    <3>2. QED BY <3>1, Fields DEF Operation, Quiet
  <2>3. QED
    BY <1>37, <2>2, QuietInv DEF ConfirmNext
<1>38. CASE Confirm
  <2>2. UNCHANGED <<fs, dur, soft>>
    BY <1>38 DEF Confirm, disk
  <2>3. CASE Goto("cfTmp") /\ fs.live # Absent
    <3>1. fs.live \in Image
      BY <2>3, Fields DEF DiskInv, Keeps
    <3>2. QED
      BY <1>38, <2>2, <2>3, <3>1, Fields DEF Confirm, Goto, Operation
  <2>4. CASE Goto("published")
    BY <1>38, <2>2, <2>4, Fields DEF Confirm, Goto, Operation
  <2>5. QED
    BY <1>38, <2>3, <2>4, IdleInv DEF Confirm, NamespaceClean, Return
<1>39. CASE ConfirmTmp
  BY <1>39, Fields DEF ConfirmTmp, FS, Operation, Goto
<1>40. CASE ConfirmRename
  BY <1>40, Fields DEF ConfirmRename, FS, Operation, Goto
<1>41. CASE ConfirmSync
  BY <1>41, Fields DEF ConfirmSync, SyncedWork, FS, Operation
<1>42. QED
  BY <1>1, <1>2, <1>3, <1>4, <1>5, <1>6, <1>7, <1>8, <1>9, <1>10, <1>11,
     <1>12, <1>13, <1>14, <1>15, <1>16, <1>17, <1>18, <1>19, <1>20, <1>21,
     <1>22, <1>23, <1>24, <1>25, <1>26, <1>27, <1>28, <1>29, <1>30, <1>31,
     <1>32, <1>33, <1>34, <1>35, <1>36, <1>37, <1>38, <1>39, <1>40, <1>41 DEF
     Replacement

(* The callers, the guest and the faults keep the disk invariant. *)
LEMMA EnvironmentDiskInv == ASSUME IInv, Environment PROVE DiskInv'
<1> USE DEF IInv
<1>1. ASSUME NEW n \in NS, BeginBuild(n) PROVE DiskInv'
  BY <1>1, InertInv, Fields DEF BeginBuild, Disarmed, FS
<1>2. ASSUME NEW n \in NS, BeginApp(n) PROVE DiskInv'
  BY <1>2, SameDiskInv DEF BeginApp
<1>3. CASE GuestWrite
  <2>1. PICK i \in Image : /\ fs' = [fs EXCEPT !.live = i]
                           /\ dur' \in {dur, [dur EXCEPT !.live = i]}
    BY <1>3, FreshImage DEF GuestWrite
  <2>2. QED
    BY <1>3, <2>1, Fields, Images
    DEF GuestWrite, FS, DiskInv, Keeps, Whole, JournalledComplete, Journalled
<1>4. CASE Suspend
  BY <1>4, InertInv, Fields DEF Suspend, FS
<1>5. CASE Stop
  BY <1>5, SameDiskInv DEF Stop
<1>6. CASE IoFailure
  BY <1>6, Fields, Images DEF IoFailure, FS, DiskInv, Keeps, Whole,
     JournalledComplete, Journalled
<1>7. CASE CleanupFailure
  BY <1>7, SameDiskInv DEF CleanupFailure
<1>8. CASE Kill
  BY <1>8, SameDiskInv DEF Kill
<1>9. CASE PowerLoss
  BY <1>9, AfterPowerLossInv DEF PowerLoss
<1>10. ASSUME NEW n \in NS, LoseStage(n) PROVE DiskInv'
  BY <1>10, Fields, Images DEF LoseStage, FS, DiskInv, Keeps, Whole,
     JournalledComplete, Journalled
<1>11. ASSUME NEW n \in NS, LoseJournal(n) PROVE DiskInv'
  BY <1>11, Fields, Images DEF LoseJournal, FS, DiskInv, Keeps, Whole,
     JournalledComplete, Journalled
<1>12. QED
  BY <1>1, <1>2, <1>3, <1>4, <1>5, <1>6, <1>7, <1>8, <1>9, <1>10, <1>11 DEF
     Environment

(* They leave an operation that knows what its place requires. *)
LEMMA EnvironmentOpInv == ASSUME IInv, Environment PROVE OpInv'
<1> USE DEF IInv, OpInv, SwapKnows, StageKnows, Invalidating, Cloning, Building,
            Journalling
<1>1. ASSUME NEW n \in NS, BeginBuild(n) PROVE OpInv'
  BY <1>1, Fields DEF BeginBuild, Begin, FS, Operation
<1>2. ASSUME NEW n \in NS, BeginApp(n) PROVE OpInv'
  BY <1>2, Fields DEF BeginApp, Begin, disk, Operation
<1>3. CASE GuestWrite
  BY <1>3, Fields DEF GuestWrite, Operation
<1>4. CASE Suspend
  BY <1>4, IdleInv DEF Suspend, Return
<1>5. CASE Stop
  BY <1>5, IdleInv DEF Stop, Return
<1>6. CASE IoFailure
  BY <1>6, IdleInv DEF IoFailure, Return
<1>7. CASE CleanupFailure
  <2>2. CleanupSuccessor[op.pc] \in Quiet
    BY <1>7 DEF CleanupFailure, CleanupCalls, CleanupSuccessor, Quiet
  <2>3. op'.pc \in Quiet /\ op'.goal = op.goal /\ op'.dig = op.dig
    BY <1>7, <2>2, Fields DEF CleanupFailure, Operation
  <2>4. QED
    BY <2>3, QuietInv
<1>8. CASE Kill
  BY <1>8, IdleInv DEF Kill, Return
<1>9. CASE PowerLoss
  BY <1>9, IdleInv DEF PowerLoss, Return
<1>10. ASSUME NEW n \in NS, LoseStage(n) PROVE OpInv'
  BY <1>10, Fields DEF LoseStage, FS, Operation
<1>11. ASSUME NEW n \in NS, LoseJournal(n) PROVE OpInv'
  BY <1>11, Fields DEF LoseJournal, FS, Operation
<1>12. QED
  BY <1>1, <1>2, <1>3, <1>4, <1>5, <1>6, <1>7, <1>8, <1>9, <1>10, <1>11 DEF
     Environment

(* The invariant is inductive. *)
LEMMA InvStep == IInv /\ [Next]_vars => IInv'
<1> SUFFICES ASSUME IInv, [Next]_vars PROVE IInv'
  OBVIOUS
<1>1. TypeOK'
  BY TypeStep DEF IInv
<1>2. DiskInv' /\ OpInv'
  <2>1. CASE Boot
    <3>1. DiskInv'
      BY <2>1, SameDiskInv DEF Boot, IInv
    <3>2. op'.pc \in Quiet /\ op'.goal = "start"
      <4> DEFINE t == <<INSTALL>>
      <4>1. op' = [op EXCEPT !.pc = "maint", !.tgt = RECOVERY, !.todo = t, !.goal = "start"]
        BY <2>1 DEF Boot, Begin
      <4> HIDE DEF t
      <4>2. QED BY <4>1, Fields DEF IInv, Operation, Quiet
    <3>3. QED BY <3>1, <3>2, QuietInv DEF IInv
  <2>2. CASE RestoreOnce
    <3>1. DiskInv'
      BY <2>2, InertInv, Fields DEF RestoreOnce, Disarmed, IInv, FS
    <3>2. OpInv'
      BY <2>2, Fields DEF RestoreOnce, Goto, Operation, IInv, OpInv, SwapKnows,
         StageKnows, Invalidating, Cloning, Building, Journalling
    <3>3. QED BY <3>1, <3>2
  <2>3. CASE UNCHANGED vars
    BY <2>3, SameDiskInv DEF vars, disk, IInv, OpInv, SwapKnows, StageKnows, Invalidating
  <2>4. QED
    BY <2>1, <2>2, <2>3, RecoveryDiskInv, RecoveryOpInv, ReplacementDiskInv,
       ReplacementOpInv, EnvironmentDiskInv, EnvironmentOpInv
    DEF Next, Step
<1>3. QED BY <1>1, <1>2 DEF IInv

(* The freshly imported machine satisfies it. *)
LEMMA InvInit == Init => IInv
<1> SUFFICES ASSUME Init PROVE IInv
  OBVIOUS
<1>1. TypeOK BY TypeInit
<1>2. DiskInv
  BY Images DEF Init, FreshFS, Empty, DiskInv, Keeps, Whole, JournalledComplete,
     Journalled, NoRecord, Absent
<1>3. OpInv
  BY DEF Init, Idle, OpInv, SwapKnows, StageKnows, Invalidating, Cloning, Building,
     Journalling
<1>4. QED BY <1>1, <1>2, <1>3 DEF IInv

(* It implies that the disk survives. *)
LEMMA InvKeepsDisk == IInv => DiskSurvives
<1> SUFFICES ASSUME IInv, NEW d \in Possible
             PROVE  /\ d.live \in Image \cup {Absent}
                    /\ d.live = Absent =>
                         \E n \in NS : Holds(d, n) /\ d.backup[n] \in Image
  BY DEF DiskSurvives
<1>1. ASSUME NEW e, Keeps(e)
      PROVE  /\ e.live \in Image \cup {Absent}
             /\ e.live = Absent => \E n \in NS : Holds(e, n) /\ e.backup[n] \in Image
  BY <1>1, Images DEF Keeps, Holds
<1>2. Keeps(d)
  <2>1. CASE d = fs
    BY <2>1 DEF IInv, DiskInv
  <2>2. ASSUME NEW W \in BOOLEAN, NEW K \in SUBSET NS, d = AfterPowerLoss(W, K)
        PROVE  Keeps(d)
    <3>1. LET base == IF W THEN fs ELSE dur
          IN  d.live = base.live /\ d.backup = base.backup /\ d.marker = base.marker
      BY <2>2 DEF AfterPowerLoss, IInv, TypeOK, FS
    <3>2. QED BY <3>1 DEF IInv, DiskInv, Keeps
  <2>3. QED BY <2>1, <2>2 DEF Possible
<1>3. QED BY <1>1, <1>2

(* Whatever the process, the power and the calls do, and however many         *)
(* namespaces, images and faults there are, the replacement of the root       *)
(* filesystem (guest_continue, guest_recover_for) leaves a complete disk.     *)
THEOREM DiskAlwaysSurvives == Spec => []DiskSurvives
BY InvInit, InvStep, InvKeepsDisk, PTL DEF Spec

-----------------------------------------------------------------------------
(* The inductive invariant behind Undisputed.  A namespace claims the live    *)
(* name while its backup holds the disk, or while an image its journal speaks *)
(* of waits somewhere; there is never a second claim, neither in what the     *)
(* process sees nor in what was last synced.                                  *)

NextAnywhere(n) == fs.next[n] # Absent \/ dur.next[n] # Absent

Armed(d, n) ==
  /\ d.journal[n] # NoRecord /\ d.marker[n] = NoRecord /\ d.backup[n] = Absent
  /\ NextAnywhere(n)

Claims(d, n) == Holds(d, n) \/ Armed(d, n)
SoleClaim(d) == \A m, n \in NS : Claims(d, m) /\ Claims(d, n) => m = n

(* A journal that would come back after a loss of power claims the live name  *)
(* now.  An image that guest_continue or guest_recover_for took for gone       *)
(* does not come back.                                                         *)
ClaimInv ==
  /\ SoleClaim(fs) /\ SoleClaim(dur)
  /\ \A n \in NS : Armed(dur, n) => Claims(fs, n)
  /\ \A n \in NS : fs.live = Absent /\ Holds(fs, n) /\ fs.next[n] = Absent
                     => dur.next[n] = Absent

(* The temporary file of the image constructor is gone before a namespace has *)
(* a record or a backup, and no stage that was removed holds a file.           *)
HasRecord(d, n) ==
  d.journal[n] # NoRecord \/ d.marker[n] # NoRecord \/ d.backup[n] # Absent

Tidy(d) ==
  \A n \in NS : HasRecord(d, n) /\ d.stage[n] # 0 =>
    /\ fs.stage[n] = d.stage[n] => ~fs.scrap[n]
    /\ dur.stage[n] = d.stage[n] => ~dur.scrap[n]

TidyInv ==
  /\ Tidy(fs) /\ Tidy(dur)
  /\ \A n \in NS : fs.stage[n] = 0 => fs.next[n] = Absent /\ ~fs.scrap[n]

(* Whoever claims the live name is still to be recovered, or is the one being *)
(* recovered or published: every caller recovers all of them first.           *)
First == {"start", "gate"}
Swapping ==
  {"jrnSync", "continue", "swapOut", "swapOutSync", "swapIn", "swapInStage",
   "swapInWork", "inv", "invSync", "markTmp", "markRen", "restore"}
Settled ==
  First \cup {"restoreOnce", "running", "repaired",
             "discard", "disNext", "disRmdir", "disSync", "discarded"}
Among(n, s) == \E i \in 1 .. Len(s) : s[i] = n
Ahead(n) ==
  \/ op.goal \in First /\ Among(n, op.todo)
  \/ op.goal \in First /\ op.pc = "maint" /\ n \in Permanent \cup Ephemeral
  \/ op.goal \in First \cup {"published"} /\ op.pc \in Swapping /\ n = op.cur
SettleInv ==
  /\ op.pc # "idle" => \A n \in NS : Claims(fs, n) => Ahead(n)
  /\ op.pc \in Settled /\ op.goal \in First => op.todo = <<>>

(* What a swap and its rollback have established.                             *)
SwapHolds ==
  /\ op.pc = "swapOut" => fs.backup[op.cur] = Absent
  /\ op.pc \in {"swapOutSync", "swapIn"} => fs.live = Absent /\ fs.backup[op.cur] # Absent
  /\ op.pc \in {"swapInStage", "swapInWork", "markTmp", "markRen"} \/ Invalidating("markTmp")
       => fs.backup[op.cur] # Absent /\ fs.marker[op.cur] = NoRecord
  /\ op.pc \in {"markTmp", "markRen"} => dur.backup[op.cur] # Absent
  /\ op.pc = "restore" \/ Invalidating("restore") =>
       /\ fs.live = Absent /\ fs.marker[op.cur] = NoRecord
       /\ fs.next[op.cur] = Absent /\ dur.next[op.cur] = Absent

(* What the cleanup after a commit or a rollback has established.             *)
Removing == {"rmJournal", "rmTmp", "rmNext", "rmStage", "rmSync"}
CleanupKnows ==
  /\ op.pc \in {"restoreSync"} \cup Removing =>
       \/ fs.marker[op.cur] # NoRecord /\ op.pc # "restoreSync"
       \/ /\ fs.backup[op.cur] = Absent
          /\ fs.next[op.cur] = Absent /\ dur.next[op.cur] = Absent
  /\ op.pc \in Removing /\ op.done /\ op.cur \notin op.dirty => fs.backup[op.cur] = Absent
  /\ op.pc \in Removing \ {"rmJournal"} /\ op.done /\ op.cur \notin op.dirty
       => fs.journal[op.cur] = NoRecord
  /\ op.pc = "rmStage" => fs.next[op.cur] = Absent \/ op.cur \in op.dirty
  /\ op.pc = "rmMarker" => fs.backup[op.cur] = Absent /\ fs.journal[op.cur] = NoRecord
  /\ op.pc = "rmBackup" \/ Invalidating("rmBackup") => op.done
  /\ op.pc \in {"markSync", "restoreSync"} \/ (op.pc \in Removing /\ ~op.done)
       => op.goal \in First \cup {"published"}
  /\ op.pc \in {"markSync", "restoreSync", "rmBackup"} \cup Swapping \cup Removing
       => ~fs.scrap[op.cur]

(* What the preparation of a stage has established, and the construction of   *)
(* the image keeps.                                                           *)
Preparing == {"stTmp", "stNext", "stRmdir", "stMk", "stSync"}
Fresh == {"construct", "copy", "copyEnd", "copySync", "buildTmp", "buildLink", "buildSync"}
Made == {"repair", "buildUnlink", "buildDone", "publish"} \cup Journalling
StageHolds ==
  /\ op.pc = "maint" => op.goal # "stage"
  /\ op.pc = "recover" /\ op.goal = "stage" =>
       \/ op.todo = <<op.tgt>>
       \/ /\ op.todo = <<>>
          /\ op.done \/ (fs.marker[op.tgt] = NoRecord /\ fs.journal[op.tgt] = NoRecord)
  /\ op.pc \in {"inv", "invSync", "rmBackup", "rmMarker", "rmMarkerSync"} \cup Removing
       /\ op.goal = "stage" => op.todo = <<>> /\ op.done
  /\ op.pc = "stage" =>
       op.done \/ (fs.marker[op.tgt] = NoRecord /\ fs.journal[op.tgt] = NoRecord)
  /\ op.pc \in Preparing \cup Fresh \cup Made =>
       fs.live # Absent /\ ~HasRecord(fs, op.cur)
  /\ op.pc \in {"stMk", "stSync"} => fs.next[op.cur] = Absent /\ ~fs.scrap[op.cur]
  /\ op.pc = "stSync" => fs.stage[op.cur] # 0
  /\ op.pc \in Fresh \cup Made =>
       /\ fs.stage[op.cur] # 0 /\ dur.stage[op.cur] = fs.stage[op.cur]
       /\ ~HasRecord(dur, op.cur)
  /\ op.pc \in {"construct", "copy", "buildTmp", "buildLink"} => fs.next[op.cur] = Absent
  /\ op.pc \in {"construct", "copy", "publish"} \cup Cloning \cup Journalling =>
       ~fs.scrap[op.cur] /\ ~dur.scrap[op.cur]
  /\ op.pc = "buildDone" => ~fs.scrap[op.cur]
  /\ op.pc \in {"discard", "disNext", "disRmdir"} => ~fs.scrap[op.cur]
  /\ op.pc = "disNext" => fs.backup[op.cur] = Absent
  /\ op.pc = "disRmdir" => fs.next[op.cur] = Absent
  /\ op.pc \in Journalling \cup {"jrnSync"} => op.goal = "published"
  /\ op.pc \in {"cfTmp", "cfRen"} =>
       /\ fs.journal[op.cur] = NoRecord /\ fs.backup[op.cur] = Absent
       /\ fs.stage[op.cur] = 0

FullInv ==
  IInv /\ ClaimInv /\ TidyInv /\ SettleInv /\ SwapHolds /\ CleanupKnows /\ StageHolds

-----------------------------------------------------------------------------
(* ClaimInv is a matter of the disk alone: first what no claim depends on, an *)
(* fsync and a loss of power, then the calls that move an image or a record.  *)

(* The claims do not depend on the other entries. *)
LEMMA ClaimInert ==
  ASSUME ClaimInv, UNCHANGED dur,
         fs'.live = fs.live, fs'.backup = fs.backup, fs'.marker = fs.marker,
         fs'.journal = fs.journal, fs'.next = fs.next
  PROVE  ClaimInv'
BY DEF ClaimInv, SoleClaim, Claims, Armed, Holds, NextAnywhere

(* What an fsync of the work directory makes durable. *)
LEMMA SyncedWorkFields ==
  ASSUME TypeOK
  PROVE  /\ SyncedWork.live = fs.live /\ SyncedWork.backup = fs.backup
         /\ SyncedWork.marker = fs.marker /\ SyncedWork.journal = fs.journal
         /\ SyncedWork.stage = fs.stage
         /\ \A n \in NS : /\ SyncedWork.next[n] = IF SameStage(n) THEN dur.next[n] ELSE Absent
                          /\ SyncedWork.scrap[n] = (SameStage(n) /\ dur.scrap[n])
BY DEF SyncedWork, TypeOK, FS

(* After an fsync of the work directory the claims are those the process sees. *)
LEMMA ClaimSyncedWork ==
  ASSUME TypeOK, ClaimInv, dur' = SyncedWork, UNCHANGED fs
  PROVE  ClaimInv'
<1>1. /\ dur'.live = fs.live /\ dur'.backup = fs.backup
      /\ dur'.marker = fs.marker /\ dur'.journal = fs.journal
      /\ \A n \in NS : dur'.next[n] \in {dur.next[n], Absent}
  BY SyncedWorkFields
<1>2. \A n \in NS : NextAnywhere(n)' => NextAnywhere(n)
  BY <1>1 DEF NextAnywhere
<1>3. \A n \in NS : /\ Claims(fs, n)' => Claims(fs, n)
                    /\ Claims(dur, n)' <=> Claims(fs, n)'
                    /\ Armed(dur, n)' <=> Armed(fs, n)'
  BY <1>1, <1>2 DEF Claims, Armed, Holds
<1>4. \A n \in NS : (fs.live = Absent /\ Holds(fs, n) /\ fs.next[n] = Absent)'
                      => dur'.next[n] = Absent
  BY <1>1 DEF ClaimInv, Holds
<1>5. QED BY <1>3, <1>4 DEF ClaimInv, SoleClaim, Claims

(* What an fsync of a stage makes durable. *)
LEMMA SyncedStageFields ==
  ASSUME TypeOK, NEW n \in NS
  PROVE  /\ SyncedStage(n).live = dur.live /\ SyncedStage(n).backup = dur.backup
         /\ SyncedStage(n).marker = dur.marker /\ SyncedStage(n).journal = dur.journal
         /\ SyncedStage(n).stage = dur.stage
         /\ \A m \in NS : m # n => /\ SyncedStage(n).next[m] = dur.next[m]
                                   /\ SyncedStage(n).scrap[m] = dur.scrap[m]
         /\ SameStage(n) => /\ SyncedStage(n).next[n] = fs.next[n]
                            /\ SyncedStage(n).scrap[n] = fs.scrap[n]
         /\ ~SameStage(n) => SyncedStage(n) = dur
BY DEF SyncedStage, TypeOK, FS

(* An fsync of a stage makes no claim. *)
LEMMA ClaimSyncedStage ==
  ASSUME TypeOK, ClaimInv, NEW n \in NS, dur' = SyncedStage(n), UNCHANGED fs
  PROVE  ClaimInv'
<1>1. /\ dur'.live = dur.live /\ dur'.backup = dur.backup
      /\ dur'.marker = dur.marker /\ dur'.journal = dur.journal
      /\ \A m \in NS : dur'.next[m] \in {dur.next[m], fs.next[m]}
  BY SyncedStageFields
<1>2. \A m \in NS : NextAnywhere(m)' => NextAnywhere(m)
  BY <1>1 DEF NextAnywhere
<1>3. \A m \in NS : /\ Claims(fs, m)' => Claims(fs, m)
                    /\ Claims(dur, m)' => Claims(dur, m)
                    /\ Armed(dur, m)' => Armed(dur, m) /\ NextAnywhere(m)'
                    /\ Claims(fs, m) /\ NextAnywhere(m)' => Claims(fs, m)'
  BY <1>1, <1>2 DEF Claims, Armed, Holds
<1>4. \A m \in NS : (fs.live = Absent /\ Holds(fs, m) /\ fs.next[m] = Absent)'
                      => dur'.next[m] = Absent
  BY <1>1 DEF ClaimInv, Holds
<1>5. QED BY <1>3, <1>4 DEF ClaimInv, SoleClaim

(* What a loss of power leaves. *)
LEMMA AfterPowerLossFields ==
  ASSUME TypeOK, NEW W \in BOOLEAN, NEW K \in SUBSET NS,
         NEW base, base = IF W THEN fs ELSE dur
  PROVE  LET d == AfterPowerLoss(W, K)
         IN  /\ d.live = base.live /\ d.backup = base.backup
             /\ d.marker = base.marker /\ d.journal = base.journal
             /\ d.stage = base.stage
             /\ \A n \in NS :
                  /\ d.next[n] \in {fs.next[n], dur.next[n], Absent, Torn}
                  /\ d.next[n] = Torn => NextAnywhere(n)
                  /\ n \notin soft => d.next[n] \in {fs.next[n], dur.next[n], Absent}
                  /\ d.next[n] # Absent => base.stage[n] # 0
                  /\ d.scrap[n] => /\ base.stage[n] # 0
                                   /\ \/ fs.stage[n] = base.stage[n] /\ fs.scrap[n]
                                      \/ dur.stage[n] = base.stage[n] /\ dur.scrap[n]
BY Images DEF AfterPowerLoss, TypeOK, FS, NextAnywhere

(* A loss of power makes no claim. *)
LEMMA ClaimPowerLoss ==
  ASSUME TypeOK, ClaimInv, NEW W \in BOOLEAN, NEW K \in SUBSET NS,
         fs' = AfterPowerLoss(W, K), dur' = AfterPowerLoss(W, K)
  PROVE  ClaimInv'
<1>1. PICK base : base = IF W THEN fs ELSE dur
  OBVIOUS
<1>2. /\ fs'.live = base.live /\ fs'.backup = base.backup
      /\ fs'.marker = base.marker /\ fs'.journal = base.journal
      /\ \A n \in NS : /\ fs'.next[n] \in {fs.next[n], dur.next[n], Absent, Torn}
                       /\ fs'.next[n] = Torn => NextAnywhere(n)
  BY <1>1, AfterPowerLossFields
<1>3. \A n \in NS : NextAnywhere(n)' => NextAnywhere(n)
  BY <1>2 DEF NextAnywhere
<1>4. \A n \in NS : Claims(fs, n)' => Claims(base, n)
  BY <1>2, <1>3 DEF Claims, Armed, Holds
<1>5. SoleClaim(base)
  BY <1>1 DEF ClaimInv
<1>6. SoleClaim(fs)'
  BY <1>4, <1>5 DEF SoleClaim
<1>7. QED BY <1>6 DEF ClaimInv, SoleClaim, Claims, Armed, Holds

(* Removing an image from a stage removes claims, and never one that a loss   *)
(* of power could bring back.                                                 *)
LEMMA ClaimNextGone ==
  ASSUME TypeOK, ClaimInv, NEW n \in NS, fs' = [fs EXCEPT !.next[n] = Absent],
         UNCHANGED dur, ~Holds(fs, n) \/ dur.next[n] = Absent
  PROVE  ClaimInv'
<1>1. /\ fs'.live = fs.live /\ fs'.backup = fs.backup
      /\ fs'.marker = fs.marker /\ fs'.journal = fs.journal
      /\ fs'.next[n] = Absent
      /\ \A m \in NS \ {n} : fs'.next[m] = fs.next[m]
  BY DEF TypeOK, FS
<1>2. \A m \in NS : NextAnywhere(m)' => NextAnywhere(m)
  BY <1>1 DEF NextAnywhere
<1>3. \A m \in NS : /\ Claims(fs, m)' => Claims(fs, m)
                    /\ Claims(dur, m)' => Claims(dur, m)
                    /\ Armed(dur, m)' => Armed(dur, m) /\ NextAnywhere(m)'
                    /\ Claims(fs, m) /\ NextAnywhere(m)' => Claims(fs, m)'
  BY <1>1, <1>2 DEF Claims, Armed, Holds
<1>4. \A m \in NS : (fs.live = Absent /\ Holds(fs, m) /\ fs.next[m] = Absent)'
                      => dur'.next[m] = Absent
  BY <1>1 DEF ClaimInv, Holds
<1>5. QED BY <1>3, <1>4 DEF ClaimInv, SoleClaim

(* An image that comes into being in a stage without a record makes no claim. *)
LEMMA ClaimNextMade ==
  ASSUME TypeOK, ClaimInv, NEW n \in NS, NEW i, fs' = [fs EXCEPT !.next[n] = i],
         UNCHANGED dur, ~HasRecord(fs, n), ~HasRecord(dur, n)
  PROVE  ClaimInv'
BY DEF TypeOK, FS, HasRecord, ClaimInv, SoleClaim, Claims, Armed, Holds, NextAnywhere

(* Every call of the recovery keeps the claims apart. *)
LEMMA RecoveryClaims == ASSUME FullInv, Recovery PROVE ClaimInv'
<1> USE DEF FullInv, IInv
<1>1. CASE UNCHANGED disk
  BY <1>1 DEF disk, ClaimInv, SoleClaim, Claims, Armed, Holds, NextAnywhere
<1>2. CASE dur' = SyncedWork /\ UNCHANGED fs
  BY <1>2, ClaimSyncedWork
<1>3. CASE SwapOut
  <2>1. /\ fs' = [fs EXCEPT !.live = Absent, !.backup[op.cur] = fs.live]
        /\ UNCHANGED dur
    BY <1>3 DEF SwapOut
  <2>2. /\ fs.live # Absent /\ fs.next[op.cur] # Absent
        /\ fs.journal[op.cur] # NoRecord /\ fs.marker[op.cur] = NoRecord
        /\ fs.backup[op.cur] = Absent
    BY <1>3, Images DEF SwapOut, SwapHolds, OpInv, SwapKnows
  <2>3. \A n \in NS : /\ Claims(fs, n)' <=> Claims(fs, n)
                      /\ Armed(dur, n)' <=> Armed(dur, n)
                      /\ Claims(dur, n)' <=> Claims(dur, n)
    BY <2>1, <2>2, Fields DEF FS, Claims, Armed, Holds, NextAnywhere
  <2>4. Claims(fs, op.cur)
    BY <2>2 DEF Claims, Armed, NextAnywhere
  <2>5. \A n \in NS : Holds(fs, n)' => n = op.cur
    BY <2>1, <2>3, <2>4, Fields DEF ClaimInv, SoleClaim, Claims
  <2>6. fs'.next = fs.next
    BY <2>1, Fields DEF FS
  <2>7. QED BY <2>1, <2>2, <2>3, <2>5, <2>6 DEF ClaimInv, SoleClaim
<1>4. CASE SwapIn
  <2>1. /\ fs' = [fs EXCEPT !.live = fs.next[op.cur], !.next[op.cur] = Absent]
        /\ UNCHANGED dur
    BY <1>4 DEF SwapIn
  <2>2. Holds(fs, op.cur) /\ fs.next[op.cur] # Absent
    BY <1>4, Images DEF SwapIn, SwapHolds, OpInv, SwapKnows, Holds
  <2>3. \A n \in NS : /\ Claims(fs, n)' <=> Claims(fs, n)
                      /\ Armed(dur, n)' => Armed(dur, n)
                      /\ Claims(dur, n)' => Claims(dur, n)
    BY <2>1, <2>2, Fields DEF FS, Claims, Armed, Holds, NextAnywhere
  <2>4. fs'.live # Absent
    BY <2>1, <2>2, Fields DEF FS
  <2>5. QED BY <2>1, <2>3, <2>4 DEF ClaimInv, SoleClaim
<1>5. CASE SwapInStage
  BY <1>5, ClaimSyncedStage, Fields DEF SwapInStage
<1>6. CASE InvalidateResume
  BY <1>6, ClaimInert, Fields DEF InvalidateResume, FS
<1>7. CASE MarkTmp
  BY <1>7, ClaimInert, Fields DEF MarkTmp, FS
<1>8. CASE MarkRename
  <2>1. /\ fs.backup[op.cur] # Absent /\ dur.backup[op.cur] # Absent
        /\ fs.live # Absent /\ fs.journal[op.cur] # NoRecord
    BY <1>8, Images DEF MarkRename, SwapHolds, OpInv, SwapKnows
  <2>2. QED
    BY <1>8, <2>1, Fields
    DEF MarkRename, FS, ClaimInv, SoleClaim, Claims, Armed, Holds, NextAnywhere
<1>9. CASE RemoveBackup
  BY <1>9, Fields DEF RemoveBackup, FS, OpInv, SwapKnows, ClaimInv, SoleClaim,
     Claims, Armed, Holds, NextAnywhere
<1>10. CASE RemoveJournal
  <2>1. /\ fs' = [fs EXCEPT !.journal[op.cur] = NoRecord] /\ UNCHANGED dur
    BY <1>10 DEF RemoveJournal
  <2>2. ~Claims(fs, op.cur) /\ ~Armed(dur, op.cur)
    BY <1>10, Fields
    DEF RemoveJournal, CleanupKnows, Removing, ClaimInv, Claims, Armed, Holds, NextAnywhere
  <2>3. QED
    BY <2>1, <2>2, Fields DEF FS, ClaimInv, SoleClaim, Claims, Armed, Holds, NextAnywhere
<1>11. CASE RemoveTmp
  BY <1>11, ClaimInert, Fields DEF RemoveTmp, FS
<1>12. CASE RemoveNext
  <2>1. ~Holds(fs, op.cur) \/ dur.next[op.cur] = Absent
    BY <1>12 DEF RemoveNext, CleanupKnows, Removing, Holds
  <2>2. QED BY <1>12, <2>1, ClaimNextGone, Fields DEF RemoveNext
<1>13. CASE RemoveStage
  BY <1>13, ClaimInert, Fields DEF RemoveStage, FS
<1>14. CASE RemoveMarker
  BY <1>14, Fields DEF RemoveMarker, FS, CleanupKnows, ClaimInv, SoleClaim,
     Claims, Armed, Holds, NextAnywhere
<1>15. CASE RestoreBackup
  <2>1. /\ fs.next[op.cur] = Absent /\ dur.next[op.cur] = Absent
        /\ fs.backup[op.cur] # Absent
    BY <1>15, Images DEF RestoreBackup, SwapHolds, OpInv, SwapKnows
  <2>2. QED
    BY <1>15, <2>1, Fields DEF RestoreBackup, FS, ClaimInv, SoleClaim, Claims,
       Armed, Holds, NextAnywhere
<1>16. QED
  BY <1>1, <1>2, <1>3, <1>4, <1>5, <1>6, <1>7, <1>8, <1>9, <1>10, <1>11, <1>12,
     <1>13, <1>14, <1>15
  DEF Recovery, MaintenanceRecover, RecoverFor, RecoveryOver, Continue, SwapOutSync,
      SwapInWork, InvalidateResumeSync, MarkSync, RemoveSync, RemoveMarkerSync,
      RestoreSync

(* Every call of a replacement keeps the claims apart: the image it makes has *)
(* no journal, and nobody claims the live name when the journal comes.        *)
LEMMA ReplacementClaims == ASSUME FullInv, Replacement PROVE ClaimInv'
<1> USE DEF FullInv, IInv
<1>1. CASE UNCHANGED <<fs, dur>>
  BY <1>1 DEF ClaimInv, SoleClaim, Claims, Armed, Holds, NextAnywhere
<1>2. CASE dur' = SyncedWork /\ UNCHANGED fs
  BY <1>2, ClaimSyncedWork
<1>3. CASE dur' = SyncedStage(op.cur) /\ UNCHANGED fs
  BY <1>3, ClaimSyncedStage, Fields
<1>4. CASE GateReplace
  BY <1>4, ClaimInert, Fields DEF GateReplace, GateResume, Disarmed, FS
<1>5. CASE StageTmp \/ StageRmdir \/ StageMkdir \/ BuildTmp \/ BuildUnlink \/ BuildRefuse
           \/ DiscardRmdir \/ JournalTmp \/ ConfirmTmp
  BY <1>5, ClaimInert, Fields
  DEF FS, StageTmp, StageRmdir, StageMkdir, BuildTmp, BuildUnlink, BuildRefuse,
      DiscardRmdir, JournalTmp, ConfirmTmp
<1>6. CASE StageNext \/ DiscardNext \/ CopyFails
  <2>1. ~Holds(fs, op.cur)
    BY <1>6 DEF StageNext, DiscardNext, CopyFails, CopyCalls, StageHolds, Preparing,
       Fresh, HasRecord, Holds
  <2>2. QED
    BY <1>6, <2>1, ClaimNextGone, Fields DEF StageNext, DiscardNext, CopyFails
<1>7. CASE BuildLink \/ CopyBegin \/ CopyEnd
  <2>1. ~HasRecord(fs, op.cur) /\ ~HasRecord(dur, op.cur)
    BY <1>7 DEF BuildLink, CopyBegin, CopyEnd, StageHolds, Fresh
  <2>2. (\E i : fs' = [fs EXCEPT !.next[op.cur] = i]) \/ UNCHANGED fs
    BY <1>7 DEF BuildLink, CopyBegin, CopyEnd, NextImage
  <2>3. UNCHANGED dur
    BY <1>7 DEF BuildLink, CopyBegin, CopyEnd, NextImage
  <2>4. QED BY <1>1, <2>1, <2>2, <2>3, ClaimNextMade, Fields
<1>8. CASE JournalRename
  <2>1. \A n \in NS : ~Claims(fs, n)
    BY <1>8 DEF JournalRename, SettleInv, Ahead, First, Swapping, OpInv, StageKnows,
       Journalling
  <2>2. \A n \in NS : Claims(fs, n)' => n = op.cur
    BY <1>8, <2>1, Fields
    DEF JournalRename, FS, Claims, Armed, Holds, NextAnywhere
  <2>3. \A n \in NS : /\ ~Armed(dur, n)'
                      /\ Claims(dur, n)' <=> Claims(dur, n)
                      /\ ~Holds(fs, n)'
    BY <1>8, <2>1, Fields
    DEF JournalRename, FS, ClaimInv, Claims, Armed, Holds, NextAnywhere
  <2>4. QED BY <2>2, <2>3 DEF ClaimInv, SoleClaim
<1>9. CASE ConfirmRename
  BY <1>9, Fields
  DEF ConfirmRename, FS, StageHolds, ClaimInv, SoleClaim, Claims, Armed, Holds, NextAnywhere
<1>10. QED
  BY <1>1, <1>2, <1>3, <1>4, <1>5, <1>6, <1>7, <1>8, <1>9
  DEF Replacement, disk, GateConfirm, GateRefuse, BeginRepair, SkipRepair, Prepare,
      PrepareStage, StageSync, Construct, BuildSync, BuildDone, CopySync,
      RepairClone, Discard, DiscardSync, Discarded, Publish, FsyncNext, JournalSync,
      Published, Repaired, ConfirmNext, Confirm, ConfirmSync

(* The callers, the guest and the faults keep the claims apart. *)
LEMMA EnvironmentClaims == ASSUME FullInv, Environment PROVE ClaimInv'
<1> USE DEF FullInv, IInv
<1>1. CASE UNCHANGED disk
  BY <1>1 DEF disk, ClaimInv, SoleClaim, Claims, Armed, Holds, NextAnywhere
<1>2. ASSUME NEW n \in NS, BeginBuild(n) PROVE ClaimInv'
  BY <1>2, ClaimInert, Fields DEF BeginBuild, Disarmed, FS
<1>3. CASE GuestWrite
  <2>1. PICK i \in Image : /\ fs' = [fs EXCEPT !.live = i]
                           /\ dur' \in {dur, [dur EXCEPT !.live = i]}
    BY <1>3, FreshImage DEF GuestWrite
  <2>2. /\ fs'.live # Absent
        /\ fs'.backup = fs.backup /\ fs'.marker = fs.marker
        /\ fs'.journal = fs.journal /\ fs'.next = fs.next
        /\ dur'.backup = dur.backup /\ dur'.marker = dur.marker
        /\ dur'.journal = dur.journal /\ dur'.next = dur.next
    BY <2>1, Fields, Images DEF FS
  <2>3. QED BY <2>2 DEF ClaimInv, SoleClaim, Claims, Armed, Holds, NextAnywhere
<1>4. CASE Suspend
  BY <1>4, ClaimInert, Fields DEF Suspend, FS
<1>5. CASE IoFailure
  BY <1>5, ClaimInert, Fields DEF IoFailure, FS
<1>6. CASE PowerLoss
  BY <1>6, ClaimPowerLoss DEF PowerLoss
<1>7. ASSUME NEW n \in NS, LoseStage(n) PROVE ClaimInv'
  <2>1. /\ fs' = [fs EXCEPT !.next[n] = Absent, !.stage[n] = 0]
        /\ dur' = [dur EXCEPT !.next[n] = Absent, !.stage[n] = 0]
    BY <1>7 DEF LoseStage
  <2>2. \A m \in NS : /\ NextAnywhere(m)' <=> NextAnywhere(m) /\ m # n
                      /\ fs'.next[m] = IF m = n THEN Absent ELSE fs.next[m]
                      /\ dur'.next[m] = IF m = n THEN Absent ELSE dur.next[m]
    BY <2>1, Fields DEF FS, NextAnywhere
  <2>3. /\ fs'.live = fs.live /\ fs'.backup = fs.backup /\ fs'.marker = fs.marker
        /\ fs'.journal = fs.journal /\ dur'.backup = dur.backup
        /\ dur'.marker = dur.marker /\ dur'.journal = dur.journal
    BY <2>1, Fields DEF FS
  <2>4. QED BY <2>2, <2>3 DEF ClaimInv, SoleClaim, Claims, Armed, Holds
<1>8. ASSUME NEW n \in NS, LoseJournal(n) PROVE ClaimInv'
  <2>1. /\ fs' = [fs EXCEPT !.journal[n] = NoRecord]
        /\ dur' = [dur EXCEPT !.journal[n] = NoRecord] /\ fs.backup[n] # Absent
    BY <1>8 DEF LoseJournal
  <2>2. /\ fs'.live = fs.live /\ fs'.backup = fs.backup /\ fs'.marker = fs.marker
        /\ fs'.next = fs.next /\ dur'.backup = dur.backup
        /\ dur'.marker = dur.marker /\ dur'.next = dur.next
        /\ \A m \in NS : /\ fs'.journal[m] = IF m = n THEN NoRecord ELSE fs.journal[m]
                         /\ dur'.journal[m] = IF m = n THEN NoRecord ELSE dur.journal[m]
    BY <2>1, Fields DEF FS
  <2>3. QED BY <2>1, <2>2 DEF ClaimInv, SoleClaim, Claims, Armed, Holds, NextAnywhere
<1>9. QED
  BY <1>1, <1>2, <1>3, <1>4, <1>5, <1>6, <1>7, <1>8
  DEF Environment, BeginApp, Stop, CleanupFailure, Kill

-----------------------------------------------------------------------------
(* TidyInv is a matter of the disk, too.                                      *)

(* It does not depend on the other entries. *)
LEMMA TidyInert ==
  ASSUME TidyInv, UNCHANGED dur,
         fs'.backup = fs.backup, fs'.marker = fs.marker, fs'.journal = fs.journal,
         fs'.next = fs.next, fs'.stage = fs.stage, fs'.scrap = fs.scrap
  PROVE  TidyInv'
BY DEF TidyInv, Tidy, HasRecord

(* An fsync of the work directory keeps it. *)
LEMMA TidySyncedWork ==
  ASSUME TypeOK, TidyInv, dur' = SyncedWork, UNCHANGED fs
  PROVE  TidyInv'
<1>1. /\ dur'.backup = fs.backup /\ dur'.marker = fs.marker
      /\ dur'.journal = fs.journal /\ dur'.stage = fs.stage
      /\ \A n \in NS : dur'.scrap[n] => SameStage(n) /\ dur.scrap[n]
  BY SyncedWorkFields
<1>2. QED BY <1>1 DEF TidyInv, Tidy, HasRecord, SameStage

(* So does an fsync of a stage. *)
LEMMA TidySyncedStage ==
  ASSUME TypeOK, TidyInv, NEW n \in NS, dur' = SyncedStage(n), UNCHANGED fs
  PROVE  TidyInv'
<1>1. /\ dur'.backup = dur.backup /\ dur'.marker = dur.marker
      /\ dur'.journal = dur.journal /\ dur'.stage = dur.stage
      /\ \A m \in NS : dur'.scrap[m] => dur.scrap[m] \/ (SameStage(m) /\ fs.scrap[m])
  BY SyncedStageFields
<1>2. QED BY <1>1 DEF TidyInv, Tidy, HasRecord, SameStage

(* So does a loss of power. *)
LEMMA TidyPowerLoss ==
  ASSUME TypeOK, TidyInv, NEW W \in BOOLEAN, NEW K \in SUBSET NS,
         fs' = AfterPowerLoss(W, K), dur' = AfterPowerLoss(W, K)
  PROVE  TidyInv'
<1>1. PICK base : base = IF W THEN fs ELSE dur
  OBVIOUS
<1>2. /\ fs'.backup = base.backup /\ fs'.marker = base.marker
      /\ fs'.journal = base.journal /\ fs'.stage = base.stage
      /\ \A n \in NS : /\ fs'.next[n] # Absent => base.stage[n] # 0
                       /\ fs'.scrap[n] =>
                            /\ base.stage[n] # 0
                            /\ \/ fs.stage[n] = base.stage[n] /\ fs.scrap[n]
                               \/ dur.stage[n] = base.stage[n] /\ dur.scrap[n]
  BY <1>1, AfterPowerLossFields
<1>3. Tidy(base)
  BY <1>1 DEF TidyInv
<1>4. QED BY <1>2, <1>3 DEF TidyInv, Tidy, HasRecord

(* Every call of the recovery keeps the stages tidy. *)
LEMMA RecoveryTidy == ASSUME FullInv, Recovery PROVE TidyInv'
<1> USE DEF FullInv, IInv
<1>1. CASE UNCHANGED disk
  BY <1>1 DEF disk, TidyInv, Tidy, HasRecord
<1>2. CASE dur' = SyncedWork /\ UNCHANGED fs
  BY <1>2, TidySyncedWork
<1>3. CASE SwapOut
  BY <1>3, Fields DEF SwapOut, FS, TidyInv, Tidy, HasRecord, OpInv, SwapKnows
<1>4. CASE SwapIn
  BY <1>4, Fields DEF SwapIn, FS, TidyInv, Tidy, HasRecord
<1>5. CASE SwapInStage
  BY <1>5, TidySyncedStage, Fields DEF SwapInStage
<1>6. CASE InvalidateResume \/ MarkTmp \/ RemoveTmp
  BY <1>6, TidyInert, Fields DEF InvalidateResume, MarkTmp, RemoveTmp, FS
<1>7. CASE MarkRename
  BY <1>7, Fields DEF MarkRename, FS, TidyInv, Tidy, HasRecord, OpInv, SwapKnows
<1>8. CASE RemoveBackup
  BY <1>8, Fields DEF RemoveBackup, FS, TidyInv, Tidy, HasRecord
<1>9. CASE RemoveJournal
  BY <1>9, Fields DEF RemoveJournal, FS, TidyInv, Tidy, HasRecord
<1>10. CASE RemoveNext
  BY <1>10, Fields DEF RemoveNext, FS, TidyInv, Tidy, HasRecord
<1>11. CASE RemoveStage
  BY <1>11, Fields DEF RemoveStage, StageEmpty, FS, TidyInv, Tidy, HasRecord
<1>12. CASE RemoveMarker
  BY <1>12, Fields DEF RemoveMarker, FS, TidyInv, Tidy, HasRecord
<1>13. CASE RestoreBackup
  BY <1>13, Fields DEF RestoreBackup, FS, TidyInv, Tidy, HasRecord
<1>14. QED
  BY <1>1, <1>2, <1>3, <1>4, <1>5, <1>6, <1>7, <1>8, <1>9, <1>10, <1>11, <1>12, <1>13
  DEF Recovery, MaintenanceRecover, RecoverFor, RecoveryOver, Continue, SwapOutSync,
      SwapInWork, InvalidateResumeSync, MarkSync, RemoveSync, RemoveMarkerSync,
      RestoreSync

(* Every call of a replacement does: the constructor's file lies in a stage   *)
(* without a record, and is gone when the record comes.                       *)
LEMMA ReplacementTidy == ASSUME FullInv, Replacement PROVE TidyInv'
<1> USE DEF FullInv, IInv
<1>1. CASE UNCHANGED <<fs, dur>>
  BY <1>1 DEF TidyInv, Tidy, HasRecord
<1>2. CASE dur' = SyncedWork /\ UNCHANGED fs
  BY <1>2, TidySyncedWork
<1>3. CASE dur' = SyncedStage(op.cur) /\ UNCHANGED fs
  BY <1>3, TidySyncedStage, Fields
<1>4. CASE GateReplace
  BY <1>4, TidyInert, Fields DEF GateReplace, GateResume, Disarmed, FS
<1>5. CASE StageTmp \/ JournalTmp \/ ConfirmTmp
  BY <1>5, TidyInert, Fields DEF FS, StageTmp, JournalTmp, ConfirmTmp
<1>6. CASE StageRmdir \/ DiscardRmdir
  BY <1>6, Fields DEF FS, StageRmdir, DiscardRmdir, StageEmpty, TidyInv, Tidy, HasRecord
<1>7. CASE StageMkdir
  <2>1. PICK s \in {1, 2} : s # dur.stage[op.cur] /\ fs' = [fs EXCEPT !.stage[op.cur] = s]
    BY <1>7 DEF StageMkdir
  <2>2. ~HasRecord(fs, op.cur)
    BY <1>7 DEF StageMkdir, StageHolds, Preparing
  <2>3. UNCHANGED dur
    BY <1>7 DEF StageMkdir
  <2>4. QED BY <2>1, <2>2, <2>3, Fields DEF FS, TidyInv, Tidy, HasRecord
<1>8. CASE StageNext \/ DiscardNext \/ CopyFails
  BY <1>8, Fields DEF StageNext, DiscardNext, CopyFails, FS, TidyInv, Tidy, HasRecord
<1>9. CASE BuildLink \/ CopyBegin \/ CopyEnd
  <2>1. fs.stage[op.cur] # 0 /\ UNCHANGED dur
    BY <1>9 DEF BuildLink, CopyBegin, CopyEnd, NextImage, StageHolds, Fresh
  <2>2. (\E i : fs' = [fs EXCEPT !.next[op.cur] = i]) \/ UNCHANGED fs
    BY <1>9 DEF BuildLink, CopyBegin, CopyEnd, NextImage
  <2>3. QED BY <2>1, <2>2, Fields DEF FS, TidyInv, Tidy, HasRecord
<1>10. CASE BuildTmp
  <2>1. ~HasRecord(fs, op.cur) /\ ~HasRecord(dur, op.cur) /\ fs.stage[op.cur] # 0
    BY <1>10 DEF BuildTmp, StageHolds, Fresh
  <2>2. QED BY <1>10, <2>1, Fields DEF BuildTmp, FS, TidyInv, Tidy, HasRecord
<1>11. CASE BuildUnlink \/ BuildRefuse
  BY <1>11, Fields DEF BuildUnlink, BuildRefuse, FS, TidyInv, Tidy, HasRecord
<1>12. CASE JournalRename
  <2>1. ~fs.scrap[op.cur] /\ ~dur.scrap[op.cur]
    BY <1>12 DEF JournalRename, StageHolds, Journalling
  <2>2. QED BY <1>12, <2>1, Fields DEF JournalRename, FS, TidyInv, Tidy, HasRecord
<1>13. CASE ConfirmRename
  BY <1>13, Fields DEF ConfirmRename, FS, StageHolds, TidyInv, Tidy, HasRecord
<1>14. QED
  BY <1>1, <1>2, <1>3, <1>4, <1>5, <1>6, <1>7, <1>8, <1>9, <1>10, <1>11, <1>12, <1>13
  DEF Replacement, disk, GateConfirm, GateRefuse, BeginRepair, SkipRepair, Prepare,
      PrepareStage, StageSync, Construct, BuildSync, BuildDone, CopySync,
      RepairClone, Discard, DiscardSync, Discarded, Publish, FsyncNext, JournalSync,
      Published, Repaired, ConfirmNext, Confirm, ConfirmSync

(* The callers, the guest and the faults keep the stages tidy. *)
LEMMA EnvironmentTidy == ASSUME FullInv, Environment PROVE TidyInv'
<1> USE DEF FullInv, IInv
<1>1. CASE UNCHANGED disk
  BY <1>1 DEF disk, TidyInv, Tidy, HasRecord
<1>2. ASSUME NEW n \in NS, BeginBuild(n) PROVE TidyInv'
  BY <1>2, TidyInert, Fields DEF BeginBuild, Disarmed, FS
<1>3. CASE GuestWrite
  <2>1. PICK i \in Image : /\ fs' = [fs EXCEPT !.live = i]
                           /\ dur' \in {dur, [dur EXCEPT !.live = i]}
    BY <1>3, FreshImage DEF GuestWrite
  <2>2. QED BY <2>1, Fields DEF FS, TidyInv, Tidy, HasRecord
<1>4. CASE Suspend
  BY <1>4, TidyInert, Fields DEF Suspend, FS
<1>5. CASE IoFailure
  <2>1. CASE op.pc = "stSync"
    BY <1>5, <2>1, Fields DEF IoFailure, FS, StageHolds, TidyInv, Tidy, HasRecord
  <2>2. CASE op.pc \in {"buildTmp", "buildLink"}
    BY <1>5, <2>2, Fields DEF IoFailure, FS, TidyInv, Tidy, HasRecord
  <2>3. CASE op.pc \notin {"stSync", "buildTmp", "buildLink"}
    BY <1>5, <2>3, TidyInert, Fields DEF IoFailure, FS
  <2>4. QED BY <2>1, <2>2, <2>3
<1>6. CASE PowerLoss
  BY <1>6, TidyPowerLoss DEF PowerLoss
<1>7. ASSUME NEW n \in NS, LoseStage(n) PROVE TidyInv'
  <2>1. /\ fs' = [fs EXCEPT !.next[n] = Absent, !.stage[n] = 0]
        /\ dur' = [dur EXCEPT !.next[n] = Absent, !.stage[n] = 0]
        /\ HasRecord(fs, n)
    BY <1>7 DEF LoseStage, HasRecord
  <2>2. ~fs.scrap[n]
    BY <2>1 DEF TidyInv, Tidy
  <2>3. /\ fs'.backup = fs.backup /\ fs'.marker = fs.marker /\ fs'.journal = fs.journal
        /\ dur'.backup = dur.backup /\ dur'.marker = dur.marker
        /\ dur'.journal = dur.journal /\ fs'.scrap = fs.scrap /\ dur'.scrap = dur.scrap
        /\ \A m \in NS : /\ fs'.next[m] = IF m = n THEN Absent ELSE fs.next[m]
                         /\ fs'.stage[m] = IF m = n THEN 0 ELSE fs.stage[m]
                         /\ dur'.stage[m] = IF m = n THEN 0 ELSE dur.stage[m]
    BY <2>1, Fields DEF FS
  <2>4. QED BY <2>2, <2>3 DEF TidyInv, Tidy, HasRecord
<1>8. ASSUME NEW n \in NS, LoseJournal(n) PROVE TidyInv'
  BY <1>8, Fields DEF LoseJournal, FS, TidyInv, Tidy, HasRecord
<1>9. QED
  BY <1>1, <1>2, <1>3, <1>4, <1>5, <1>6, <1>7, <1>8
  DEF Environment, BeginApp, Stop, CleanupFailure, Kill

-----------------------------------------------------------------------------
(* SettleInv: no call makes a claim but the rename of the journal, and the    *)
(* callers do not go on before the others are settled.                        *)

(* The fields of an operation that goes on at another call. *)
LEMMA GotoFields ==
  ASSUME TypeOK, NEW p, Goto(p)
  PROVE  /\ op'.pc = p /\ op'.cur = op.cur /\ op'.tgt = op.tgt /\ op'.dig = op.dig
         /\ op'.todo = op.todo /\ op'.goal = op.goal /\ op'.ret = op.ret
         /\ op'.done = op.done /\ op'.dirty = op.dirty
BY DEF Goto, TypeOK, Operation

(* The fields guest_recover_for leaves behind when it goes on. *)
LEMMA RecoverAtKeeps ==
  ASSUME TypeOK, NEW n, NEW p, NEW r, NEW c, RecoverAt(n, p, r, c)
  PROVE  /\ op'.pc = p /\ op'.cur = n /\ op'.ret = r /\ op'.done = c
         /\ op'.todo = Tail(op.todo) /\ op'.goal = op.goal /\ op'.dig = op.dig
         /\ op'.tgt = op.tgt /\ op'.dirty = op.dirty
<1> DEFINE t == Tail(op.todo)
<1>1. op' = [op EXCEPT !.pc = p, !.cur = n, !.todo = t, !.ret = r, !.done = c]
  BY DEF RecoverAt
<1> HIDE DEF t
<1>2. op'.todo = t
  BY <1>1 DEF TypeOK, Operation
<1>3. QED BY <1>1, <1>2 DEF TypeOK, Operation, t

(* The members of a list of namespaces are its first one and those of the rest. *)
LEMMA AmongTail ==
  ASSUME NEW s \in Namespaces, s # <<>>, NEW n, Among(n, s)
  PROVE  n = Head(s) \/ Among(n, Tail(s))
<1>1. PICK i \in 1 .. Len(s) : s[i] = n
  BY DEF Among
<1>2. CASE i = 1
  BY <1>1, <1>2 DEF Namespaces
<1>3. CASE i # 1
  <2>1. i - 1 \in 1 .. Len(Tail(s)) /\ Tail(s)[i - 1] = n
    BY <1>1, <1>3 DEF Namespaces
  <2>2. QED BY <2>1 DEF Among
<1>4. QED BY <1>2, <1>3

(* Those of two lists are those of either. *)
LEMMA AmongBoth ==
  ASSUME NEW s \in Namespaces, NEW t \in Namespaces, NEW n, Among(n, s) \/ Among(n, t)
  PROVE  Among(n, s \o t)
<1>1. CASE Among(n, s)
  <2>1. PICK i \in 1 .. Len(s) : s[i] = n
    BY <1>1 DEF Among
  <2>2. i \in 1 .. Len(s \o t) /\ (s \o t)[i] = n
    BY <2>1 DEF Namespaces
  <2>3. QED BY <2>2 DEF Among
<1>2. CASE Among(n, t)
  <2>1. PICK i \in 1 .. Len(t) : t[i] = n
    BY <1>2 DEF Among
  <2>2. Len(s) + i \in 1 .. Len(s \o t) /\ (s \o t)[Len(s) + i] = n
    BY <2>1 DEF Namespaces
  <2>3. QED BY <2>2 DEF Among
<1>3. QED BY <1>1, <1>2

(* The maintenance table names every maintenance namespace. *)
LEMMA AmongTable ==
  ASSUME NEW n \in Permanent \cup Ephemeral
  PROVE  Among(n, MaintTable)
BY TableAssumption DEF Among

(* So does the order of vm_guest_maintenance_recover, whoever goes first. *)
LEMMA AmongOwnerFirst ==
  ASSUME NEW n \in Permanent \cup Ephemeral, NEW i \in Positions
  PROVE  Among(n, OwnerFirst(i))
<1> DEFINE M == MaintTable
           a == SubSeq(M, 1, i - 1)
           b == SubSeq(M, i + 1, Len(M))
<1>1. PICK j \in 1 .. Len(M) : M[j] = n
  BY TableAssumption
<1>2. M \in Namespaces /\ i \in 1 .. Len(M) /\ M[i] \in NS
  BY NamespaceFacts DEF Positions, Namespaces
<1>3. /\ a \in Namespaces /\ Len(a) = i - 1 /\ \A k \in 1 .. i - 1 : a[k] = M[k]
      /\ b \in Namespaces /\ Len(b) = Len(M) - i /\ \A k \in 1 .. Len(M) - i : b[k] = M[i + k]
  BY <1>2 DEF Namespaces
<1>4. <<M[i]>> \in Namespaces /\ <<M[i]>> \o a \in Namespaces
  BY <1>2, <1>3, NamespaceFacts
<1>5. OwnerFirst(i) = (<<M[i]>> \o a) \o b
  BY DEF OwnerFirst
<1> HIDE DEF M, a, b
<1>6. CASE j = i
  <2>1. Among(n, <<M[i]>>)
    BY <1>1, <1>6 DEF Among
  <2>2. QED BY <1>3, <1>4, <1>5, <2>1, AmongBoth
<1>7. CASE j < i
  <2>1. j \in 1 .. Len(a) /\ a[j] = n
    BY <1>1, <1>2, <1>3, <1>7 DEF Namespaces
  <2>2. Among(n, a)
    BY <2>1 DEF Among
  <2>3. QED BY <1>3, <1>4, <1>5, <2>2, AmongBoth
<1>8. CASE j > i
  <2>1. j - i \in 1 .. Len(b) /\ b[j - i] = n
    BY <1>1, <1>2, <1>3, <1>8 DEF Namespaces
  <2>2. Among(n, b)
    BY <2>1 DEF Among
  <2>3. QED BY <1>3, <1>4, <1>5, <2>2, AmongBoth
<1>9. j = i \/ j < i \/ j > i
  BY <1>1, <1>2 DEF Namespaces
<1>10. QED BY <1>6, <1>7, <1>8, <1>9

(* No call of the recovery makes a claim. *)
LEMMA RecoveryNoNewClaim ==
  ASSUME FullInv, Recovery
  PROVE  \A n \in NS : Claims(fs, n)' => Claims(fs, n)
<1> USE DEF FullInv, IInv
<1>1. CASE UNCHANGED disk
  BY <1>1 DEF disk, Claims, Armed, Holds, NextAnywhere
<1>2. CASE dur' = SyncedWork /\ UNCHANGED fs
  BY <1>2, SyncedWorkFields DEF Claims, Armed, Holds, NextAnywhere
<1>3. CASE SwapOut
  BY <1>3, Fields, Images
  DEF SwapOut, SwapHolds, OpInv, SwapKnows, FS, Claims, Armed, Holds, NextAnywhere
<1>4. CASE SwapIn
  BY <1>4, Fields DEF SwapIn, FS, Claims, Armed, Holds, NextAnywhere
<1>5. CASE SwapInStage
  <2>1. \A n \in NS : NextAnywhere(n)' => NextAnywhere(n)
    BY <1>5, Fields, SyncedStageFields DEF SwapInStage, SameStage, NextAnywhere
  <2>2. QED BY <1>5, <2>1 DEF SwapInStage, Claims, Armed, Holds
<1>6. CASE InvalidateResume \/ MarkTmp \/ RemoveTmp
  BY <1>6, Fields
  DEF InvalidateResume, MarkTmp, RemoveTmp, FS, Claims, Armed, Holds, NextAnywhere
<1>7. CASE MarkRename
  BY <1>7, Fields
  DEF MarkRename, FS, OpInv, SwapKnows, Claims, Armed, Holds, NextAnywhere
<1>8. CASE RemoveBackup
  BY <1>8, Fields
  DEF RemoveBackup, FS, OpInv, SwapKnows, Claims, Armed, Holds, NextAnywhere
<1>9. CASE RemoveJournal
  BY <1>9, Fields DEF RemoveJournal, FS, Claims, Armed, Holds, NextAnywhere
<1>10. CASE RemoveNext
  BY <1>10, Fields DEF RemoveNext, FS, Claims, Armed, Holds, NextAnywhere
<1>11. CASE RemoveStage
  BY <1>11, Fields DEF RemoveStage, FS, Claims, Armed, Holds, NextAnywhere
<1>12. CASE RemoveMarker
  BY <1>12, Fields DEF RemoveMarker, FS, CleanupKnows, Claims, Armed, Holds, NextAnywhere
<1>13. CASE RestoreBackup
  BY <1>13, Fields DEF RestoreBackup, FS, SwapHolds, Claims, Armed, Holds, NextAnywhere
<1>14. QED
  BY <1>1, <1>2, <1>3, <1>4, <1>5, <1>6, <1>7, <1>8, <1>9, <1>10, <1>11, <1>12, <1>13
  DEF Recovery, MaintenanceRecover, RecoverFor, RecoveryOver, Continue, SwapOutSync,
      SwapInWork, InvalidateResumeSync, MarkSync, RemoveSync, RemoveMarkerSync,
      RestoreSync

(* No call of a replacement does but the rename of the journal. *)
LEMMA ReplacementNoNewClaim ==
  ASSUME FullInv, Replacement, op.pc # "jrnRen"
  PROVE  \A n \in NS : Claims(fs, n)' => Claims(fs, n)
<1> USE DEF FullInv, IInv
<1>1. CASE UNCHANGED <<fs, dur>>
  BY <1>1 DEF Claims, Armed, Holds, NextAnywhere
<1>2. CASE dur' = SyncedWork /\ UNCHANGED fs
  BY <1>2, SyncedWorkFields DEF Claims, Armed, Holds, NextAnywhere
<1>3. CASE dur' = SyncedStage(op.cur) /\ UNCHANGED fs
  <2>1. \A n \in NS : NextAnywhere(n)' => NextAnywhere(n)
    BY <1>3, Fields, SyncedStageFields DEF SameStage, NextAnywhere
  <2>2. QED BY <1>3, <2>1 DEF Claims, Armed, Holds
<1>4. CASE GateReplace
  BY <1>4, Fields
  DEF GateReplace, GateResume, Disarmed, FS, Claims, Armed, Holds, NextAnywhere
<1>5. CASE StageTmp \/ StageRmdir \/ StageMkdir \/ BuildTmp \/ BuildUnlink \/ BuildRefuse
           \/ DiscardRmdir \/ JournalTmp \/ ConfirmTmp
  BY <1>5, Fields
  DEF FS, StageTmp, StageRmdir, StageMkdir, BuildTmp, BuildUnlink, BuildRefuse,
      DiscardRmdir, JournalTmp, ConfirmTmp, Claims, Armed, Holds, NextAnywhere
<1>6. CASE StageNext \/ DiscardNext \/ CopyFails
  BY <1>6, Fields
  DEF StageNext, DiscardNext, CopyFails, FS, Claims, Armed, Holds, NextAnywhere
<1>7. CASE BuildLink \/ CopyBegin \/ CopyEnd
  <2>1. ~HasRecord(fs, op.cur) /\ UNCHANGED dur
    BY <1>7 DEF BuildLink, CopyBegin, CopyEnd, NextImage, StageHolds, Fresh
  <2>2. (\E i : fs' = [fs EXCEPT !.next[op.cur] = i]) \/ UNCHANGED fs
    BY <1>7 DEF BuildLink, CopyBegin, CopyEnd, NextImage
  <2>3. QED BY <2>1, <2>2, Fields DEF FS, HasRecord, Claims, Armed, Holds, NextAnywhere
<1>8. CASE JournalRename
  BY <1>8 DEF JournalRename
<1>9. CASE ConfirmRename
  BY <1>9, Fields
  DEF ConfirmRename, FS, StageHolds, Claims, Armed, Holds, NextAnywhere
<1>10. QED
  BY <1>1, <1>2, <1>3, <1>4, <1>5, <1>6, <1>7, <1>8, <1>9
  DEF Replacement, disk, GateConfirm, GateRefuse, BeginRepair, SkipRepair, Prepare,
      PrepareStage, StageSync, Construct, BuildSync, BuildDone, CopySync,
      RepairClone, Discard, DiscardSync, Discarded, Publish, FsyncNext, JournalSync,
      Published, Repaired, ConfirmNext, Confirm, ConfirmSync

(* An operation goes on, and its own claim, if it has one, stays in sight. *)
LEMMA SettleGoesOn ==
  ASSUME FullInv, op.pc \notin {"idle", "maint"},
         op'.goal = op.goal, op'.todo = op.todo, op'.cur = op.cur,
         \A n \in NS : Claims(fs, n)' => Claims(fs, n),
         op.pc \in Swapping => op'.pc \in Swapping \/ ~Claims(fs, op.cur)',
         op'.pc \notin Settled \/ op.pc \in Settled
  PROVE  SettleInv'
<1>1. ASSUME NEW n \in NS, Claims(fs, n)' PROVE Ahead(n)'
  <2>1. Ahead(n)
    BY <1>1 DEF FullInv, SettleInv
  <2>2. QED BY <1>1, <2>1 DEF Ahead
<1>2. QED BY <1>1 DEF FullInv, SettleInv

(* An operation that is over has nobody ahead of it. *)
LEMMA SettleIdle == ASSUME op' = Idle PROVE SettleInv'
BY DEF SettleInv, Idle, Settled, First

(* Nor has one where nobody claims the live name. *)
LEMMA SettleNone ==
  ASSUME \A n \in NS : ~Claims(fs, n)', op'.goal \in First => op'.todo = <<>>
  PROVE  SettleInv'
BY DEF SettleInv

(* Wherever an operation is neither recovering nor swapping, nobody claims    *)
(* the live name.                                                             *)
LEMMA NobodyClaims ==
  ASSUME FullInv, op.pc \notin Swapping \cup {"idle", "maint"},
         op.goal \in First => op.todo = <<>>
  PROVE  \A n \in NS : ~Claims(fs, n)
BY DEF FullInv, SettleInv, Ahead, Among

(* guest_recover_for deals with the claim of its namespace, if it has one. *)
LEMMA SettleRecoverFor == ASSUME FullInv, RecoverFor PROVE SettleInv'
<1> DEFINE n == Head(op.todo)
<1>1. /\ TypeOK /\ op.pc = "recover" /\ op.todo \in Namespaces /\ op.todo # <<>>
      /\ n \in NS /\ UNCHANGED <<fs, dur>>
  BY NamespaceFacts DEF RecoverFor, disk, FullInv, IInv, TypeOK, Operation
<1>2. \A m \in NS : Claims(fs, m)' <=> Claims(fs, m)
  BY <1>1 DEF Claims, Armed, Holds, NextAnywhere
<1>3. \A m \in NS : Claims(fs, m) => op.goal \in First /\ (m = n \/ Among(m, Tail(op.todo)))
  BY <1>1, AmongTail DEF FullInv, SettleInv, Ahead, Swapping
<1> HIDE DEF n
<1>4. ASSUME NEW p \in {"continue", "inv", "recover", "rmBackup"}, NEW r, NEW c,
             RecoverAt(n, p, r, c), p \in {"continue", "inv"} \/ ~Claims(fs, n)
      PROVE  SettleInv'
  <2>1. /\ op'.pc = p /\ op'.cur = n /\ op'.todo = Tail(op.todo) /\ op'.goal = op.goal
    BY <1>1, <1>4, RecoverAtKeeps
  <2>2. ASSUME NEW m \in NS, Claims(fs, m) PROVE Ahead(m)'
    <3>1. CASE m = n
      BY <1>3, <1>4, <2>1, <2>2, <3>1 DEF Ahead, Swapping
    <3>2. CASE Among(m, Tail(op.todo))
      BY <1>3, <2>1, <2>2, <3>2 DEF Ahead
    <3>3. QED BY <1>3, <2>2, <3>1, <3>2
  <2>3. op'.pc \notin Settled
    BY <2>1 DEF Settled, First
  <2>4. QED BY <1>2, <2>2, <2>3 DEF SettleInv
<1>5. CASE Return("ERR_STATE")
  BY <1>5, SettleIdle DEF Return
<1>6. CASE RecoverCommitted(n)
  <2>1. ~Claims(fs, n)
    BY <1>6 DEF RecoverCommitted, Claims, Armed, Holds
  <2>2. QED BY <1>4, <1>5, <1>6, <2>1 DEF RecoverCommitted
<1>7. CASE RecoverJournal(n)
  BY <1>4, <1>7 DEF RecoverJournal
<1>8. CASE RecoverOrphan(n)
  <2>1. fs.backup[n] = Absent => ~Claims(fs, n)
    BY <1>8 DEF RecoverOrphan, Claims, Armed, Holds
  <2>2. QED BY <1>4, <1>5, <1>8, <2>1 DEF RecoverOrphan
<1>9. QED BY <1>6, <1>7, <1>8 DEF RecoverFor, n

(* vm_guest_maintenance_recover puts every namespace of its table ahead. *)
LEMMA SettleMaintenance == ASSUME FullInv, MaintenanceRecover PROVE SettleInv'
<1>1. /\ TypeOK /\ op.pc = "maint" /\ op.todo \in Namespaces /\ UNCHANGED <<fs, dur>>
  BY DEF MaintenanceRecover, disk, FullInv, IInv, TypeOK, Operation
<1>2. \A m \in NS : Claims(fs, m)' <=> Claims(fs, m)
  BY <1>1 DEF Claims, Armed, Holds, NextAnywhere
<1>3. \A m \in NS : Claims(fs, m) =>
        op.goal \in First /\ (Among(m, op.todo) \/ m \in Permanent \cup Ephemeral)
  BY <1>1 DEF FullInv, SettleInv, Ahead, Swapping
<1>4. ASSUME NEW s \in Namespaces, \A m \in Permanent \cup Ephemeral : Among(m, s),
             op' = [op EXCEPT !.pc = "recover", !.dirty = {}, !.todo = s \o op.todo]
      PROVE  SettleInv'
  <2> DEFINE t == s \o op.todo
  <2>1. \A m \in NS : Claims(fs, m) => op.goal \in First /\ Among(m, t)
    BY <1>1, <1>3, <1>4, AmongBoth
  <2>2. op' = [op EXCEPT !.pc = "recover", !.dirty = {}, !.todo = t]
    BY <1>4
  <2> HIDE DEF t
  <2>3. op'.pc = "recover" /\ op'.goal = op.goal /\ op'.todo = t
    BY <1>1, <2>2 DEF TypeOK, Operation
  <2>4. QED BY <1>2, <2>1, <2>3 DEF SettleInv, Ahead, Settled, First
<1>5. CASE Return("ERR_STATE")
  BY <1>5, SettleIdle DEF Return
<1>6. ASSUME NEW i \in Owners,
             op' = [op EXCEPT !.pc = "recover", !.dirty = {},
                              !.todo = OwnerFirst(i) \o op.todo]
      PROVE  SettleInv'
  <2>1. i \in Positions
    BY DEF Owners, JournalOwners, OrphanOwners
  <2>2. OwnerFirst(i) \in Namespaces /\ \A m \in Permanent \cup Ephemeral : Among(m, OwnerFirst(i))
    BY <2>1, OwnerFirstType, AmongOwnerFirst
  <2>3. QED BY <1>4, <1>6, <2>2
<1>7. CASE op' = [op EXCEPT !.pc = "recover", !.dirty = {}, !.todo = MaintTable \o op.todo]
  BY <1>4, <1>7, NamespaceFacts, AmongTable
<1>8. QED BY <1>5, <1>6, <1>7 DEF MaintenanceRecover

(* Every call of the recovery leaves only claims that are still ahead. *)
LEMMA RecoverySettles == ASSUME FullInv, Recovery PROVE SettleInv'
<1>1. TypeOK /\ \A n \in NS : Claims(fs, n)' => Claims(fs, n)
  BY RecoveryNoNewClaim DEF FullInv, IInv
<1>2. CASE MaintenanceRecover
  BY <1>2, SettleMaintenance
<1>3. CASE RecoverFor
  BY <1>3, SettleRecoverFor
<1>4. CASE RecoveryOver
  <2>1. op.pc = "recover" /\ op.todo = <<>> /\ op'.todo = op.todo
    BY <1>1, <1>4, GotoFields DEF RecoveryOver
  <2>2. QED BY <1>1, <2>1, NobodyClaims, SettleNone DEF Swapping
<1>5. CASE Continue
  <2>1. CASE Return("ERR_STATE")
    BY <2>1, SettleIdle DEF Return
  <2>2. CASE op' = [op EXCEPT !.pc = Branch(op.cur), !.ret = "markTmp"]
             /\ Branch(op.cur) # "contradictory"
    <3>1. Branch(op.cur) \in Swapping
      BY <2>2 DEF Branch, ContinueBranch, Swapping
    <3>2. /\ op'.pc \in Swapping /\ op'.goal = op.goal /\ op'.todo = op.todo
          /\ op'.cur = op.cur /\ op.pc = "continue"
      BY <1>1, <1>5, <2>2, <3>1 DEF Continue, TypeOK, Operation
    <3>3. QED BY <1>1, <3>2, SettleGoesOn DEF Swapping, Settled, First
  <2>3. QED BY <1>5, <2>1, <2>2 DEF Continue
<1>6. ASSUME NEW p, Goto(p), op.pc \in Swapping, p \in Swapping
      PROVE  SettleInv'
  BY <1>1, <1>6, GotoFields, SettleGoesOn DEF Swapping, Settled, First
<1>7. ASSUME NEW p, Goto(p), op.pc \notin Swapping \cup {"idle", "maint"},
             p \notin Settled
      PROVE  SettleInv'
  BY <1>1, <1>7, GotoFields, SettleGoesOn
<1>8. ASSUME NEW p, Goto(p), op.pc \in Swapping, p \notin Settled, ~Claims(fs, op.cur)'
      PROVE  SettleInv'
  BY <1>1, <1>8, GotoFields, SettleGoesOn DEF Swapping
<1>9. CASE SwapOut \/ SwapOutSync \/ SwapIn \/ SwapInStage \/ SwapInWork
           \/ InvalidateResume \/ MarkTmp
  BY <1>6, <1>9
  DEF SwapOut, SwapOutSync, SwapIn, SwapInStage, SwapInWork, InvalidateResume,
      MarkTmp, Swapping
<1>10. CASE InvalidateResumeSync
  <2>1. op.ret \in {"markTmp", "rmBackup", "restore"} /\ op.pc \in Swapping /\ Goto(op.ret)
    BY <1>1, <1>10 DEF InvalidateResumeSync, TypeOK, Operation, Swapping
  <2>2. CASE op.ret = "rmBackup"
    <3>1. ~Claims(fs, op.cur)'
      BY <1>10, <2>1, <2>2, GotoFields, <1>1
      DEF InvalidateResumeSync, FullInv, IInv, OpInv, SwapKnows, Invalidating,
          Claims, Armed, Holds
    <3>2. QED BY <1>8, <2>1, <2>2, <3>1 DEF Settled, First
  <2>3. CASE op.ret # "rmBackup"
    BY <1>6, <2>1, <2>3 DEF Swapping
  <2>4. QED BY <2>2, <2>3
<1>11. CASE MarkRename
  <2>1. ~Claims(fs, op.cur)'
    BY <1>1, <1>11, Fields, GotoFields
    DEF MarkRename, FS, FullInv, IInv, OpInv, SwapKnows, Claims, Armed, Holds
  <2>2. QED BY <1>8, <1>11, <2>1 DEF MarkRename, Swapping, Settled, First
<1>12. CASE RestoreBackup
  <2>1. ~Claims(fs, op.cur)'
    BY <1>1, <1>12, Fields, GotoFields
    DEF RestoreBackup, FS, FullInv, SwapHolds, Claims, Armed, Holds, NextAnywhere
  <2>2. QED BY <1>8, <1>12, <2>1 DEF RestoreBackup, Swapping, Settled, First
<1>13. ASSUME op'.goal = op.goal, op'.todo = op.todo, op'.cur = op.cur,
              op.pc \notin Swapping \cup {"idle", "maint"}, op'.pc \notin Settled
       PROVE  SettleInv'
  BY <1>1, <1>13, SettleGoesOn
<1>14. CASE MarkSync \/ RemoveStage \/ RemoveSync
  <2>1. /\ op'.goal = op.goal /\ op'.todo = op.todo /\ op'.cur = op.cur
        /\ op.pc \in {"markSync", "rmStage", "rmSync"}
        /\ op'.pc \in {"rmBackup", "rmSync", "rmMarker", "recover"}
    BY <1>1, <1>14, GotoFields DEF MarkSync, RemoveStage, RemoveSync, TypeOK, Operation
  <2>2. QED BY <1>13, <2>1 DEF Swapping, Settled, First
<1>15. CASE RemoveBackup \/ RemoveJournal \/ RemoveTmp \/ RemoveNext \/ RemoveMarker
            \/ RemoveMarkerSync \/ RestoreSync
  BY <1>7, <1>15
  DEF RemoveBackup, RemoveJournal, RemoveTmp, RemoveNext, RemoveMarker,
      RemoveMarkerSync, RestoreSync, Swapping, Settled, First
<1>16. QED
  BY <1>2, <1>3, <1>4, <1>5, <1>9, <1>10, <1>11, <1>12, <1>14, <1>15 DEF Recovery

(* Where a replacement is under way, nobody claims the live name; the journal *)
(* makes the one claim there is then.                                         *)
LEMMA ReplacementSettles == ASSUME FullInv, Replacement PROVE SettleInv'
<1>1. /\ TypeOK /\ StageKnows
      /\ op.pc # "jrnRen" => \A n \in NS : Claims(fs, n)' => Claims(fs, n)
  BY ReplacementNoNewClaim DEF FullInv, IInv, OpInv
<1>2. CASE JournalSync
  <2>1. op.pc = "jrnSync" /\ Goto("continue")
    BY <1>2 DEF JournalSync
  <2>2. QED BY <1>1, <2>1, GotoFields, SettleGoesOn DEF Swapping, Settled, First
<1>3. CASE JournalRename
  <2>1. /\ op.pc = "jrnRen" /\ op.goal = "published"
        /\ op'.pc = "jrnSync" /\ op'.cur = op.cur /\ op'.goal = op.goal
    BY <1>1, <1>3 DEF JournalRename, FullInv, StageHolds, Journalling, TypeOK, Operation
  <2>2. \A n \in NS : ~Claims(fs, n)
    BY <2>1, NobodyClaims DEF Swapping, First
  <2>3. \A n \in NS : Claims(fs, n)' => n = op.cur
    BY <1>1, <1>3, <2>2, Fields
    DEF JournalRename, FS, Claims, Armed, Holds, NextAnywhere
  <2>4. QED BY <2>1, <2>3 DEF SettleInv, Ahead, Swapping, Settled, First
<1>4. ASSUME op.pc \notin Swapping \cup {"idle", "maint", "jrnRen"},
             op.goal \in First => op.todo = <<>>,
             op' = Idle \/ (op'.goal \in First => op'.goal = op.goal /\ op'.todo = op.todo)
      PROVE  SettleInv'
  <2>1. CASE op' = Idle
    BY <2>1, SettleIdle
  <2>2. CASE op'.goal \in First => op'.goal = op.goal /\ op'.todo = op.todo
    BY <1>1, <1>4, <2>2, NobodyClaims, SettleNone
  <2>3. QED BY <1>4, <2>1, <2>2
<1>5. ASSUME NEW p, Goto(p), op.pc \notin Swapping \cup {"idle", "maint", "jrnRen"},
             op.goal \in First => op.todo = <<>>
      PROVE  SettleInv'
  BY <1>1, <1>4, <1>5, GotoFields
<1>6. ASSUME NEW s, Return(s), op.pc \notin Swapping \cup {"idle", "maint", "jrnRen"},
             op.goal \in First => op.todo = <<>>
      PROVE  SettleInv'
  BY <1>6, SettleIdle DEF Return
<1>7. CASE op.pc \in Settled
  <2>1. /\ op.goal \in First => op.todo = <<>>
        /\ op.pc \notin Swapping \cup {"idle", "maint", "jrnRen"}
    BY <1>7 DEF FullInv, SettleInv, Swapping, Settled, First
  <2>2. ASSUME GateReplace \/ GateConfirm \/ BeginRepair
        PROVE  op'.goal \notin First
    <3>1. ASSUME NEW d, NEW t, op' = [op EXCEPT !.pc = "recover", !.todo = t,
                                                !.goal = "stage", !.dig = d]
          PROVE  op'.goal \notin First
      BY <1>1, <3>1 DEF TypeOK, Operation, First
    <3>2. ASSUME NEW d, op' = [op EXCEPT !.pc = "maint", !.goal = "prep", !.dig = d]
          PROVE  op'.goal \notin First
      BY <1>1, <3>2 DEF TypeOK, Operation, First
    <3>3. ASSUME NEW d, NEW t, op' = [op EXCEPT !.pc = "recover", !.todo = t,
                                                !.goal = "confirm", !.dig = d]
          PROVE  op'.goal \notin First
      BY <1>1, <3>3 DEF TypeOK, Operation, First
    <3>4. CASE GateReplace
      BY <3>1, <3>2, <3>4 DEF GateReplace
    <3>5. CASE GateConfirm
      BY <3>3, <3>5 DEF GateConfirm
    <3>6. CASE BeginRepair
      BY <3>2, <3>6 DEF BeginRepair
    <3>7. QED BY <2>2, <3>4, <3>5, <3>6
  <2>3. CASE GateReplace \/ GateConfirm \/ BeginRepair
    BY <1>4, <2>1, <2>2, <2>3
  <2>4. CASE GateRefuse \/ SkipRepair \/ Discard \/ DiscardNext \/ DiscardRmdir
             \/ DiscardSync \/ Discarded \/ Repaired
    BY <1>5, <1>6, <2>1, <2>4
    DEF GateRefuse, SkipRepair, Discard, DiscardNext, DiscardRmdir, DiscardSync,
        Discarded, Repaired
  <2>5. QED
    BY <1>7, <2>3, <2>4
    DEF Replacement, Settled, First, Prepare, PrepareStage, StageTmp, StageNext,
        StageRmdir, StageMkdir, StageSync, Construct, BuildTmp, BuildLink, BuildSync,
        BuildUnlink, BuildDone, BuildRefuse, CopyBegin, CopyEnd, CopySync, CopyFails,
        CopyCalls, RepairClone, Publish, FsyncNext, JournalTmp, JournalRename,
        JournalSync, Published, ConfirmNext, Confirm, ConfirmTmp, ConfirmRename,
        ConfirmSync
<1>8. CASE op.pc \notin Settled \cup {"jrnRen", "jrnSync"}
  <2>1. /\ op.goal \notin First
        /\ op.pc \notin Swapping \cup {"idle", "maint", "jrnRen"}
    BY <1>1, <1>8
    DEF Replacement, Settled, First, GateReplace, GateConfirm, GateRefuse, BeginRepair,
        SkipRepair, Prepare, PrepareStage, StageTmp, StageNext, StageRmdir, StageMkdir,
        StageSync, Construct, BuildTmp, BuildLink, BuildSync, BuildUnlink, BuildDone,
        BuildRefuse, CopyBegin, CopyEnd, CopySync, CopyFails, CopyCalls, RepairClone,
        Discard, DiscardNext, DiscardRmdir, DiscardSync, Discarded, Publish, FsyncNext,
        JournalTmp, JournalRename, JournalSync, Published, Repaired, ConfirmNext,
        Confirm, ConfirmTmp, ConfirmRename, ConfirmSync, Swapping, StageKnows,
        Cloning, Building, Journalling
  <2>2. op' = Idle \/ op'.goal \notin First
    <3>1. ASSUME NEW p, Goto(p) PROVE op'.goal \notin First
      BY <1>1, <2>1, <3>1, GotoFields
    <3>2. ASSUME NEW p, op' = [op EXCEPT !.pc = p] PROVE op'.goal \notin First
      BY <1>1, <2>1, <3>2 DEF TypeOK, Operation
    <3>3. CASE Prepare
      <4> DEFINE t == <<op.tgt>>
      <4>1. op' = Idle \/ op' = [op EXCEPT !.pc = "recover", !.todo = t, !.goal = "stage"]
        BY <3>3 DEF Prepare, Return
      <4> HIDE DEF t
      <4>2. QED BY <1>1, <4>1 DEF TypeOK, Operation, First
    <3>4. CASE PrepareStage
      BY <1>1, <2>1, <3>4 DEF PrepareStage, Return, TypeOK, Operation
    <3>5. CASE Publish
      <4> DEFINE t == <<op.cur>>
      <4>1. \/ op' = Idle
            \/ op' = [op EXCEPT !.pc = "fsyncNext", !.goal = "published"]
            \/ op' = [op EXCEPT !.pc = "recover", !.todo = t, !.goal = "published"]
        BY <3>5 DEF Publish, Return
      <4> HIDE DEF t
      <4>2. QED BY <1>1, <4>1 DEF TypeOK, Operation, First
    <3>6. CASE Published
      <4> DEFINE t == <<RECOVERY>>
      <4>1. \/ op' = Idle
            \/ Goto("restoreOnce")
            \/ op' = [op EXCEPT !.pc = "recover", !.todo = t, !.goal = "repaired", !.dirty = {}]
        BY <3>6 DEF Published, Return
      <4> HIDE DEF t
      <4>2. QED BY <1>1, <3>1, <4>1 DEF TypeOK, Operation, First
    <3>7. ASSUME NEW m \in Permanent, ConfirmNext(m) PROVE op'.goal \notin First
      <4> DEFINE t == <<m>>
      <4>1. op' = [op EXCEPT !.pc = "recover", !.todo = t, !.goal = "confirm"]
        BY <3>7 DEF ConfirmNext
      <4> HIDE DEF t
      <4>2. QED BY <1>1, <4>1 DEF TypeOK, Operation, First
    <3>8. CASE ConfirmSync
      BY <1>1, <2>1, <3>8 DEF ConfirmSync, TypeOK, Operation
    <3>9. CASE CopyBegin \/ CopyFails \/ BuildLink \/ CopyEnd
      BY <3>1, <3>2, <3>9 DEF CopyBegin, CopyFails, BuildLink, CopyEnd, NextImage
    <3>10. CASE StageTmp \/ StageNext \/ StageRmdir \/ StageMkdir \/ StageSync \/ Construct
                \/ BuildTmp \/ BuildSync \/ BuildUnlink \/ BuildDone \/ BuildRefuse
      BY <3>1, <3>10
      DEF StageTmp, StageNext, StageRmdir, StageMkdir, StageSync, Construct, BuildTmp,
          BuildSync, BuildUnlink, BuildDone, BuildRefuse, Return
    <3>11. CASE CopySync \/ RepairClone \/ FsyncNext \/ JournalTmp \/ Confirm \/ ConfirmTmp
                \/ ConfirmRename
      BY <3>1, <3>11
      DEF CopySync, RepairClone, FsyncNext, JournalTmp, Confirm, ConfirmTmp,
          ConfirmRename, Return
    <3>12. QED
      BY <1>8, <3>3, <3>4, <3>5, <3>6, <3>7, <3>8, <3>9, <3>10, <3>11
      DEF Replacement, Settled, First, GateReplace, GateConfirm, GateRefuse, BeginRepair,
          SkipRepair, Discard, DiscardNext, DiscardRmdir, DiscardSync, Discarded,
          Repaired, JournalRename, JournalSync
  <2>3. QED BY <1>4, <2>1, <2>2
<1>9. CASE op.pc \in {"jrnRen", "jrnSync"}
  BY <1>2, <1>3, <1>9
  DEF Replacement, GateReplace, GateConfirm, GateRefuse, BeginRepair,
      SkipRepair, Prepare, PrepareStage, StageTmp, StageNext, StageRmdir, StageMkdir,
      StageSync, Construct, BuildTmp, BuildLink, BuildSync, BuildUnlink, BuildDone,
      BuildRefuse, CopyBegin, CopyEnd, CopySync, CopyFails, CopyCalls, RepairClone,
      Discard, DiscardNext, DiscardRmdir, DiscardSync, Discarded, Publish, FsyncNext,
      JournalTmp, Published, Repaired, ConfirmNext,
      Confirm, ConfirmTmp, ConfirmRename, ConfirmSync
<1>10. QED BY <1>7, <1>8, <1>9

(* A call begins with everybody ahead who may have a claim. *)
LEMMA SettleBegin ==
  ASSUME FullInv, NEW n \in NS, NEW t \in Namespaces, NEW g \in Goals, Begin(n, t, g),
         g \in First, Among(INSTALL, t) \/ ~Claims(fs, INSTALL)',
         \A m \in NS : Claims(fs, m)' => Claims(fs, m)
  PROVE  SettleInv'
<1>1. op'.pc = "maint" /\ op'.todo = t /\ op'.goal = g
  BY DEF Begin, FullInv, IInv, TypeOK, Operation
<1>2. QED BY <1>1 DEF SettleInv, Ahead, NS, Settled, First

(* The callers, the guest and the faults leave only claims that are ahead. *)
LEMMA EnvironmentSettles == ASSUME FullInv, Environment PROVE SettleInv'
<1>1. TypeOK
  BY DEF FullInv, IInv
<1>2. CASE op' = Idle
  BY <1>2, SettleIdle
<1>3. ASSUME NEW n \in NS, BeginBuild(n) PROVE SettleInv'
  <2>1. \A m \in NS : Claims(fs, m)' => Claims(fs, m)
    BY <1>1, <1>3, Fields DEF BeginBuild, Disarmed, FS, Claims, Armed, Holds, NextAnywhere
  <2>2. BuildAgain \in Namespaces /\ <<INSTALL>> \in Namespaces
        /\ BuildAgain \o <<INSTALL>> \in Namespaces
    BY NamespaceFacts
  <2>3. Among(INSTALL, <<INSTALL>>)
    BY DEF Among
  <2>4. Among(INSTALL, BuildAgain \o <<INSTALL>>)
    BY <2>2, <2>3, AmongBoth
  <2>5. QED BY <1>3, <2>1, <2>2, <2>4, SettleBegin DEF BeginBuild, Goals, First
<1>4. ASSUME NEW n \in NS, BeginApp(n) PROVE SettleInv'
  <2>1. \A m \in NS : Claims(fs, m)' <=> Claims(fs, m)
    BY <1>4 DEF BeginApp, disk, Claims, Armed, Holds, NextAnywhere
  <2>2. ~Claims(fs, INSTALL)
    BY <1>4 DEF BeginApp, Claims, Armed, Holds
  <2>3. <<>> \in Namespaces /\ INSTALL \in NS
    BY NamespaceFacts
  <2>4. QED BY <1>4, <2>1, <2>2, <2>3, SettleBegin DEF BeginApp, Goals, First
<1>5. CASE GuestWrite
  <2>1. /\ op.pc = "running" /\ op' = op
        /\ \A m \in NS : Claims(fs, m)' => Claims(fs, m)
    BY <1>1, <1>5, Fields DEF GuestWrite, FS, Claims, Armed, Holds, NextAnywhere
  <2>2. QED BY <2>1, SettleGoesOn DEF Swapping, Settled, First
<1>6. CASE CleanupFailure
  <2>1. /\ CleanupSuccessor[op.pc] \notin Settled
        /\ op.pc \notin Swapping \cup {"idle", "maint"}
    BY <1>6 DEF CleanupFailure, CleanupCalls, CleanupSuccessor, Settled, First, Swapping
  <2>2. /\ op'.goal = op.goal /\ op'.todo = op.todo /\ op'.cur = op.cur
        /\ op'.pc = CleanupSuccessor[op.pc]
    BY <1>1, <1>6 DEF CleanupFailure, TypeOK, Operation
  <2>3. \A m \in NS : Claims(fs, m)' => Claims(fs, m)
    BY <1>6 DEF CleanupFailure, disk, Claims, Armed, Holds, NextAnywhere
  <2>4. QED BY <2>1, <2>2, <2>3, SettleGoesOn
<1>7. ASSUME op.pc = "idle", op' = op PROVE SettleInv'
  BY <1>7 DEF SettleInv, Settled, First
<1>8. QED
  BY <1>2, <1>3, <1>4, <1>5, <1>6, <1>7
  DEF Environment, Suspend, Stop, Return, IoFailure, Kill, PowerLoss, LoseStage, LoseJournal

-----------------------------------------------------------------------------
(* What an operation knows at each of its calls.                              *)

(* The places the callers go on at. *)
LEMMA CallerPlace ==
  ASSUME TypeOK,
         \/ GateReplace \/ GateConfirm \/ GateRefuse \/ BeginRepair \/ SkipRepair
         \/ Prepare \/ Published \/ Repaired \/ \E m \in Permanent : ConfirmNext(m)
  PROVE  op'.pc \in {"idle", "maint", "recover", "restoreOnce"}
<1>1. ASSUME NEW d, NEW t, NEW g,
             op' = [op EXCEPT !.pc = "recover", !.todo = t, !.goal = g, !.dig = d]
      PROVE  op'.pc = "recover"
  BY <1>1 DEF TypeOK, Operation
<1>2. ASSUME NEW d, op' = [op EXCEPT !.pc = "maint", !.goal = "prep", !.dig = d]
      PROVE  op'.pc = "maint"
  BY <1>2 DEF TypeOK, Operation
<1>3. ASSUME NEW t, NEW g, op' = [op EXCEPT !.pc = "recover", !.todo = t, !.goal = g]
      PROVE  op'.pc = "recover"
  BY <1>3 DEF TypeOK, Operation
<1>4. ASSUME NEW t, NEW g, op' = [op EXCEPT !.pc = "recover", !.todo = t, !.goal = g,
                                            !.dirty = {}]
      PROVE  op'.pc = "recover"
  BY <1>4 DEF TypeOK, Operation
<1>5. ASSUME NEW s, Return(s) PROVE op'.pc = "idle"
  BY <1>5 DEF Return, Idle
<1>6. Goto("restoreOnce") => op'.pc = "restoreOnce"
  BY GotoFields
<1>7. CASE GateReplace \/ GateConfirm \/ BeginRepair
  BY <1>1, <1>2, <1>7 DEF GateReplace, GateConfirm, BeginRepair
<1>8. CASE Prepare
  BY <1>3, <1>5, <1>8 DEF Prepare
<1>9. CASE Published
  <2> DEFINE t == <<RECOVERY>>
  <2>1. \/ op' = Idle
        \/ Goto("restoreOnce")
        \/ op' = [op EXCEPT !.pc = "recover", !.todo = t, !.goal = "repaired", !.dirty = {}]
    BY <1>9 DEF Published, Return
  <2> HIDE DEF t
  <2>2. op' = Idle => op'.pc = "idle"
    BY DEF Idle
  <2>3. QED BY <1>4, <1>6, <2>1, <2>2
<1>10. ASSUME NEW m \in Permanent, ConfirmNext(m) PROVE op'.pc = "recover"
  BY <1>3, <1>10 DEF ConfirmNext
<1>11. CASE GateRefuse \/ SkipRepair \/ Repaired
  BY <1>5, <1>6, <1>11 DEF GateRefuse, SkipRepair, Repaired
<1>12. QED BY <1>7, <1>8, <1>9, <1>10, <1>11

(* The places a replacement goes on at. *)
LEMMA ReplacementPlace ==
  ASSUME TypeOK, Replacement
  PROVE  /\ op'.pc \notin (Swapping \ {"jrnSync", "continue"}) \cup Removing
         /\ op'.pc \notin {"markSync", "restoreSync", "rmBackup", "rmMarker", "rmMarkerSync",
                          "running"}
         /\ op'.pc = "jrnSync" => JournalRename
         /\ op'.pc = "continue" => JournalSync
<1> USE DEF Swapping, Removing
<1>1. ASSUME NEW p, Goto(p) PROVE op'.pc = p
  BY <1>1, GotoFields
<1>2. ASSUME NEW p, op' = [op EXCEPT !.pc = p] PROVE op'.pc = p
  BY <1>2 DEF TypeOK, Operation
<1>3. ASSUME NEW s, Return(s) PROVE op'.pc = "idle"
  BY <1>3 DEF Return, Idle
<1>4. CASE \/ GateReplace \/ GateConfirm \/ GateRefuse \/ BeginRepair \/ SkipRepair
           \/ Prepare \/ Published \/ Repaired \/ \E m \in Permanent : ConfirmNext(m)
  <2>1. op'.pc \in {"idle", "maint", "recover", "restoreOnce"}
    BY <1>4, CallerPlace
  <2>2. QED BY <2>1
<1>5. CASE Publish
  <2> DEFINE t == <<op.cur>>
  <2>1. \/ op' = Idle
        \/ op' = [op EXCEPT !.pc = "fsyncNext", !.goal = "published"]
        \/ op' = [op EXCEPT !.pc = "recover", !.todo = t, !.goal = "published"]
    BY <1>5 DEF Publish, Return
  <2> HIDE DEF t
  <2>2. op' = Idle => op'.pc = "idle"
    BY DEF Idle
  <2>3. op' = [op EXCEPT !.pc = "fsyncNext", !.goal = "published"] => op'.pc = "fsyncNext"
    BY DEF TypeOK, Operation
  <2>4. op' = [op EXCEPT !.pc = "recover", !.todo = t, !.goal = "published"]
          => op'.pc = "recover"
    BY DEF TypeOK, Operation
  <2>5. op'.pc \in {"idle", "recover", "fsyncNext"}
    BY <2>1, <2>2, <2>3, <2>4
  <2>6. QED BY <2>5
<1>6. CASE PrepareStage \/ ConfirmSync
  <2>1. op'.pc \in {"idle", "stTmp", "published"}
    BY <1>3, <1>6 DEF PrepareStage, ConfirmSync, TypeOK, Operation
  <2>2. QED BY <2>1
<1>7. CASE JournalRename
  BY <1>7, <1>2 DEF JournalRename
<1>8. CASE JournalSync
  BY <1>1, <1>8 DEF JournalSync
<1>9. CASE CopyBegin \/ CopyFails \/ BuildLink \/ CopyEnd
  <2>1. op'.pc \in {"copyEnd", "copySync", "discard", "buildSync"}
    BY <1>1, <1>2, <1>9 DEF CopyBegin, CopyFails, BuildLink, CopyEnd, NextImage
  <2>2. QED BY <2>1
<1>10. CASE StageTmp \/ StageNext \/ StageRmdir \/ StageMkdir \/ StageSync \/ Construct
            \/ BuildTmp \/ BuildSync \/ BuildUnlink \/ BuildDone \/ BuildRefuse
  <2>1. op'.pc \in {"stMk", "stNext", "stRmdir", "idle", "stSync", "construct", "copy",
                    "buildTmp", "buildLink", "buildUnlink", "buildDone", "publish", "discard"}
    BY <1>1, <1>3, <1>10
    DEF StageTmp, StageNext, StageRmdir, StageMkdir, StageSync, Construct, BuildTmp,
        BuildSync, BuildUnlink, BuildDone, BuildRefuse
  <2>2. QED BY <2>1
<1>11. CASE CopySync \/ RepairClone \/ Discard \/ DiscardNext \/ DiscardRmdir
            \/ DiscardSync \/ Discarded
  <2>1. op'.pc \in {"repair", "publish", "discard", "disNext", "disRmdir", "disSync",
                    "discarded", "restoreOnce", "idle"}
    BY <1>1, <1>3, <1>11
    DEF CopySync, RepairClone, Discard, DiscardNext, DiscardRmdir, DiscardSync, Discarded
  <2>2. QED BY <2>1
<1>12. CASE FsyncNext \/ JournalTmp \/ Confirm \/ ConfirmTmp \/ ConfirmRename
  <2>1. op'.pc \in {"idle", "jrnTmp", "jrnRen", "cfTmp", "cfRen", "cfSync", "published"}
    BY <1>1, <1>3, <1>12 DEF FsyncNext, JournalTmp, Confirm, ConfirmTmp, ConfirmRename
  <2>2. QED BY <2>1
<1>13. QED
  BY <1>4, <1>5, <1>6, <1>7, <1>8, <1>9, <1>10, <1>11, <1>12 DEF Replacement

(* The places where the callers, the guest and the faults leave an operation. *)
LEMMA EnvironmentPlace ==
  ASSUME TypeOK, Environment
  PROVE  \/ op'.pc \in {"idle", "running"}
         \/ op'.pc = "maint" /\ op'.goal \in First
         \/ CleanupFailure /\ op'.pc = CleanupSuccessor[op.pc]
<1>1. ASSUME NEW n, NEW t, NEW g, Begin(n, t, g) PROVE op'.pc = "maint" /\ op'.goal = g
  BY <1>1 DEF Begin, TypeOK, Operation
<1>2. ASSUME NEW n \in NS, BeginBuild(n) \/ BeginApp(n)
      PROVE  op'.pc = "maint" /\ op'.goal \in First
  BY <1>1, <1>2 DEF BeginBuild, BeginApp, First
<1>3. CASE CleanupFailure
  BY <1>3 DEF CleanupFailure, TypeOK, Operation
<1>4. CASE Suspend \/ Stop \/ IoFailure \/ Kill \/ PowerLoss
  <2>1. op' = Idle
    BY <1>4 DEF Suspend, Stop, Return, IoFailure, Kill, PowerLoss
  <2>2. QED BY <2>1 DEF Idle
<1>5. CASE GuestWrite
  BY <1>5 DEF GuestWrite
<1>6. ASSUME NEW n \in NS, LoseStage(n) \/ LoseJournal(n) PROVE op'.pc = "idle"
  BY <1>6 DEF LoseStage, LoseJournal
<1>7. QED BY <1>2, <1>3, <1>4, <1>5, <1>6 DEF Environment

(* A call outside the swap knows nothing of it. *)
LEMMA SwapElsewhere ==
  ASSUME op'.pc \notin Swapping \ {"jrnSync", "continue"}
  PROVE  SwapHolds'
BY DEF SwapHolds, Invalidating, Swapping

(* Every call of the recovery knows what the swap has established. *)
LEMMA RecoverySwapHolds == ASSUME FullInv, Recovery PROVE SwapHolds'
<1> USE DEF FullInv, IInv, OpInv, SwapKnows, SwapHolds, Invalidating
<1>1. CASE RecoverFor
  <2> DEFINE n == Head(op.todo)
  <2>1. /\ n \in NS /\ UNCHANGED <<fs, dur>>
    BY <1>1, NamespaceFacts DEF RecoverFor, disk, TypeOK, Operation
  <2> HIDE DEF n
  <2>2. ASSUME NEW p, NEW r, NEW c, RecoverAt(n, p, r, c)
        PROVE  op'.pc = p /\ op'.ret = r /\ op'.cur = n
    BY <2>2, RecoverAtKeeps
  <2>3. ASSUME NEW p, NEW r, NEW c, RecoverAt(n, p, r, c),
               \/ p \in {"continue", "recover", "rmBackup"}
               \/ r = "rmBackup" /\ p = "inv"
        PROVE  SwapHolds'
    BY <2>3, <2>2
  <2>4. CASE Return("ERR_STATE")
    BY <2>4, SwapElsewhere DEF Return, Idle, Swapping
  <2>5. CASE RecoverCommitted(n)
    BY <2>3, <2>4, <2>5 DEF RecoverCommitted
  <2>6. CASE RecoverJournal(n)
    BY <2>3, <2>6 DEF RecoverJournal
  <2>7. CASE RecoverOrphan(n)
    <3>1. CASE /\ fs.backup[n] # Absent /\ fs.live = Absent /\ fs.next[n] = Absent
               /\ RecoverAt(n, "inv", "restore", FALSE)
      <4>1. op'.pc = "inv" /\ op'.ret = "restore" /\ op'.cur = n
        BY <2>2, <3>1
      <4>2. fs.marker[n] = NoRecord /\ dur.next[n] = Absent
        BY <2>1, <2>7, <3>1 DEF RecoverOrphan, ClaimInv, Holds
      <4>3. QED BY <2>1, <3>1, <4>1, <4>2
    <3>2. QED BY <2>3, <2>4, <2>7, <3>1 DEF RecoverOrphan
  <2>8. QED BY <1>1, <2>5, <2>6, <2>7 DEF RecoverFor, n
<1>2. CASE Continue
  <2>1. CASE Return("ERR_STATE")
    BY <2>1, SwapElsewhere DEF Return, Idle, Swapping
  <2>2. CASE op' = [op EXCEPT !.pc = Branch(op.cur), !.ret = "markTmp"]
             /\ Branch(op.cur) # "contradictory"
    <3>1. /\ op'.pc = Branch(op.cur) /\ op'.ret = "markTmp" /\ op'.cur = op.cur
          /\ UNCHANGED <<fs, dur>> /\ fs.marker[op.cur] = NoRecord
      BY <1>2, <2>2, Fields DEF Continue, Operation, disk
    <3>2. CASE Branch(op.cur) = "swapOut" /\ fs.backup[op.cur] = Absent
      BY <3>1, <3>2
    <3>3. CASE Branch(op.cur) = "swapIn" /\ fs.live = Absent /\ fs.backup[op.cur] # Absent
      BY <3>1, <3>3
    <3>4. CASE Branch(op.cur) = "inv" /\ fs.backup[op.cur] # Absent
      BY <3>1, <3>4
    <3>5. CASE /\ Branch(op.cur) = "restore" /\ fs.live = Absent
               /\ fs.backup[op.cur] # Absent /\ fs.next[op.cur] = Absent
      <4>1. dur.next[op.cur] = Absent
        BY <3>1, <3>5, Fields DEF ClaimInv, Holds
      <4>2. QED BY <3>1, <3>5, <4>1
    <3>6. QED BY <2>2, <3>2, <3>3, <3>4, <3>5 DEF Branch, ContinueBranch
  <2>3. QED BY <1>2, <2>1, <2>2 DEF Continue
<1>3. CASE SwapOut
  BY <1>3, Fields, Images, GotoFields DEF SwapOut, FS
<1>4. CASE SwapOutSync
  BY <1>4, Fields, GotoFields DEF SwapOutSync
<1>5. CASE SwapIn
  BY <1>5, Fields, GotoFields DEF SwapIn, FS
<1>6. CASE SwapInStage
  BY <1>6, Fields, GotoFields DEF SwapInStage
<1>7. CASE SwapInWork
  BY <1>7, Fields, GotoFields DEF SwapInWork
<1>8. CASE InvalidateResume
  BY <1>8, Fields, GotoFields DEF InvalidateResume, FS
<1>9. CASE InvalidateResumeSync
  <2>1. dur'.backup = fs.backup /\ dur'.next[op.cur] \in {dur.next[op.cur], Absent}
    BY <1>9, Fields, SyncedWorkFields DEF InvalidateResumeSync
  <2>2. QED BY <1>9, <2>1, Fields, GotoFields DEF InvalidateResumeSync, Operation
<1>10. CASE MarkTmp
  BY <1>10, Fields, GotoFields DEF MarkTmp, FS
<1>11. CASE MaintenanceRecover
  <2>1. ASSUME NEW t, op' = [op EXCEPT !.pc = "recover", !.dirty = {}, !.todo = t]
        PROVE  op'.pc = "recover"
    BY <2>1, Fields DEF Operation
  <2>2. op'.pc \in {"recover", "idle"}
    <3>1. CASE Return("ERR_STATE")
      BY <3>1 DEF Return, Idle
    <3>2. ASSUME NEW i \in Owners,
                 op' = [op EXCEPT !.pc = "recover", !.dirty = {},
                                  !.todo = OwnerFirst(i) \o op.todo]
          PROVE  op'.pc = "recover"
      BY <2>1, <3>2
    <3>3. CASE op' = [op EXCEPT !.pc = "recover", !.dirty = {},
                                !.todo = MaintTable \o op.todo]
      BY <2>1, <3>3
    <3>4. QED BY <1>11, <3>1, <3>2, <3>3 DEF MaintenanceRecover
  <2>3. QED BY <2>2, SwapElsewhere DEF Swapping
<1>12. CASE RecoveryOver
  <2>1. op'.pc \in Goals
    BY <1>12, Fields, GotoFields DEF RecoveryOver, Operation
  <2>2. QED BY <2>1, SwapElsewhere DEF Goals, Swapping
<1>13. CASE MarkRename \/ MarkSync \/ RemoveBackup \/ RemoveJournal \/ RemoveTmp
            \/ RemoveNext \/ RemoveStage \/ RemoveSync \/ RemoveMarker \/ RemoveMarkerSync
            \/ RestoreBackup \/ RestoreSync
  <2>1. op'.pc \in {"markSync", "rmBackup", "rmJournal", "rmTmp", "rmNext", "rmStage",
                    "rmSync", "rmMarker", "recover", "rmMarkerSync", "restoreSync"}
    BY <1>13, Fields, GotoFields
    DEF MarkRename, MarkSync, RemoveBackup, RemoveJournal, RemoveTmp, RemoveNext,
        RemoveStage, RemoveSync, RemoveMarker, RemoveMarkerSync, RestoreBackup,
        RestoreSync, Operation
  <2>2. QED BY <2>1, SwapElsewhere DEF Swapping
<1>14. QED
  BY <1>1, <1>2, <1>3, <1>4, <1>5, <1>6, <1>7, <1>8, <1>9, <1>10, <1>11, <1>12, <1>13
  DEF Recovery

(* A call outside the swap and the cleanup knows nothing of the cleanup. *)
LEMMA CleanupElsewhere ==
  ASSUME op'.pc \notin Swapping \cup Removing \cup {"markSync", "restoreSync", "rmBackup", "rmMarker"}
  PROVE  CleanupKnows'
BY DEF CleanupKnows, Invalidating, Swapping, Removing

(* A namespace with a record has no constructor's file in its stage. *)
LEMMA RecordedIsTidy ==
  ASSUME FullInv, NEW n \in NS, HasRecord(fs, n)
  PROVE  ~fs.scrap[n]
BY DEF FullInv, TidyInv, Tidy

(* Whoever claims the live name is being recovered for a boot or a build, or  *)
(* is being published.                                                        *)
LEMMA ClaimantsGoal ==
  ASSUME FullInv, op.pc # "idle", NEW n \in NS, Claims(fs, n)
  PROVE  op.goal \in First \cup {"published"}
BY DEF FullInv, SettleInv, Ahead

(* Every call of the recovery knows what the cleanup has established. *)
LEMMA RecoveryCleanupKnows == ASSUME FullInv, Recovery PROVE CleanupKnows'
<1>1. TypeOK /\ CleanupKnows /\ SwapHolds /\ SwapKnows
  BY DEF FullInv, IInv, OpInv
<1> USE DEF CleanupKnows, Swapping, Removing, Invalidating
<1>2. CASE RecoverFor
  <2> DEFINE n == Head(op.todo)
  <2>1. n \in NS /\ UNCHANGED <<fs, dur>>
    BY <1>1, <1>2, NamespaceFacts DEF RecoverFor, disk, TypeOK, Operation
  <2> HIDE DEF n
  <2>2. ASSUME NEW p, NEW r, NEW c, RecoverAt(n, p, r, c)
        PROVE  op'.pc = p /\ op'.cur = n /\ op'.ret = r /\ op'.done = c
    BY <1>1, <2>2, RecoverAtKeeps
  <2>3. ASSUME NEW p \in {"inv", "rmBackup", "continue"}, NEW r \in {"rmBackup", "restore", "markTmp"},
               NEW c, RecoverAt(n, p, r, c), HasRecord(fs, n),
               r = "rmBackup" \/ p = "rmBackup" => c = TRUE
        PROVE  CleanupKnows'
    <3>1. op'.pc = p /\ op'.cur = n /\ op'.ret = r /\ op'.done = c
      BY <2>2, <2>3
    <3>2. ~fs'.scrap[n]
      BY <2>1, <2>3, RecordedIsTidy
    <3>3. QED BY <2>3, <3>1, <3>2
  <2>4. CASE Return("ERR_STATE")
    BY <2>4, CleanupElsewhere DEF Return, Idle
  <2>5. CASE RecoverAt(n, "recover", "markTmp", FALSE)
    <3>1. op'.pc = "recover"
      BY <2>2, <2>5
    <3>2. QED BY <3>1, CleanupElsewhere
  <2>6. CASE RecoverCommitted(n)
    <3>1. HasRecord(fs, n)
      BY <2>6 DEF RecoverCommitted, HasRecord
    <3>2. QED BY <2>3, <2>4, <2>6, <3>1 DEF RecoverCommitted
  <2>7. CASE RecoverJournal(n)
    <3>1. HasRecord(fs, n)
      BY <2>7 DEF RecoverJournal, HasRecord
    <3>2. QED BY <2>3, <2>7, <3>1 DEF RecoverJournal
  <2>8. CASE RecoverOrphan(n)
    <3>1. fs.backup[n] # Absent => HasRecord(fs, n)
      BY DEF HasRecord
    <3>2. QED BY <2>3, <2>4, <2>5, <2>8, <3>1 DEF RecoverOrphan
  <2>9. QED BY <1>2, <2>6, <2>7, <2>8 DEF RecoverFor, n
<1>3. CASE Continue
  <2>1. CASE Return("ERR_STATE")
    BY <2>1, CleanupElsewhere DEF Return, Idle
  <2>2. CASE op' = [op EXCEPT !.pc = Branch(op.cur), !.ret = "markTmp"]
             /\ Branch(op.cur) # "contradictory"
    <3>1. /\ op'.pc \in {"swapOut", "swapIn", "inv", "restore"}
          /\ op'.ret = "markTmp" /\ op'.cur = op.cur /\ UNCHANGED <<fs, dur>>
      BY <1>1, <1>3, <2>2, Fields DEF Continue, Operation, disk, Branch, ContinueBranch
    <3>2. QED BY <1>1, <1>3, <3>1 DEF Continue
  <2>3. QED BY <1>3, <2>1, <2>2 DEF Continue
<1>4. CASE MaintenanceRecover \/ RecoveryOver
  <2>1. op'.pc \in Goals \cup {"recover", "idle"}
    <3>1. ASSUME NEW t, op' = [op EXCEPT !.pc = "recover", !.dirty = {}, !.todo = t]
          PROVE  op'.pc = "recover"
      BY <1>1, <3>1 DEF TypeOK, Operation
    <3>2. CASE Return("ERR_STATE")
      BY <3>2 DEF Return, Idle
    <3>3. ASSUME NEW i \in Owners,
                 op' = [op EXCEPT !.pc = "recover", !.dirty = {},
                                  !.todo = OwnerFirst(i) \o op.todo]
          PROVE  op'.pc = "recover"
      BY <3>1, <3>3
    <3>4. CASE op' = [op EXCEPT !.pc = "recover", !.dirty = {},
                                !.todo = MaintTable \o op.todo]
      BY <3>1, <3>4
    <3>5. CASE RecoveryOver
      BY <1>1, <3>5, GotoFields DEF RecoveryOver, TypeOK, Operation
    <3>6. QED BY <1>4, <3>2, <3>3, <3>4, <3>5 DEF MaintenanceRecover
  <2>2. QED BY <2>1, CleanupElsewhere DEF Goals
<1>5. CASE SwapOut
  BY <1>1, <1>5, Fields, GotoFields DEF SwapOut, FS
<1>6. CASE SwapOutSync
  BY <1>1, <1>6, GotoFields DEF SwapOutSync
<1>7. CASE SwapIn
  BY <1>1, <1>7, Fields, GotoFields DEF SwapIn, FS
<1>8. CASE SwapInStage
  BY <1>1, <1>8, GotoFields DEF SwapInStage
<1>9. CASE SwapInWork
  BY <1>1, <1>9, Fields, GotoFields DEF SwapInWork, SwapKnows
<1>10. CASE InvalidateResume
  BY <1>1, <1>10, Fields, GotoFields DEF InvalidateResume, FS
<1>11. CASE InvalidateResumeSync
  BY <1>1, <1>11, Fields, GotoFields DEF InvalidateResumeSync, Operation
<1>12. CASE MarkTmp
  BY <1>1, <1>12, Fields, GotoFields DEF MarkTmp, FS
<1>13. CASE MarkRename
  <2>1. op.goal \in First \cup {"published"}
    BY <1>1, <1>13, Fields, ClaimantsGoal DEF MarkRename, SwapHolds, Claims, Holds
  <2>2. QED BY <1>1, <1>13, <2>1, Fields, GotoFields DEF MarkRename, FS
<1>14. CASE MarkSync
  <2>1. /\ op'.pc = "rmBackup" /\ op'.done /\ op'.cur = op.cur /\ UNCHANGED fs
    BY <1>1, <1>14 DEF MarkSync, TypeOK, Operation
  <2>2. QED BY <1>1, <1>14, <2>1 DEF MarkSync
<1>15. CASE RemoveBackup
  BY <1>1, <1>15, Fields, GotoFields DEF RemoveBackup, FS, SwapKnows
<1>16. CASE RemoveJournal
  BY <1>1, <1>16, Fields, GotoFields DEF RemoveJournal, FS
<1>17. CASE RemoveTmp
  BY <1>1, <1>17, Fields, GotoFields DEF RemoveTmp, FS
<1>18. CASE RemoveNext
  BY <1>1, <1>18, Fields, GotoFields DEF RemoveNext, FS
<1>19. CASE RemoveStage
  <2>1. /\ op'.pc = "rmSync" /\ op'.cur = op.cur /\ op'.done = op.done
        /\ op'.goal = op.goal /\ op.dirty \subseteq op'.dirty /\ op.pc = "rmStage"
    BY <1>1, <1>19, GotoFields DEF RemoveStage, TypeOK, Operation
  <2>2. /\ fs'.backup = fs.backup /\ fs'.marker = fs.marker /\ fs'.journal = fs.journal
        /\ fs'.next = fs.next /\ fs'.scrap = fs.scrap /\ UNCHANGED dur
    BY <1>19, <1>1, Fields DEF RemoveStage, FS
  <2>3. QED BY <1>1, <2>1, <2>2
<1>20. CASE RemoveSync
  <2>1. /\ op'.pc = IF op.done /\ op.cur \in Ephemeral /\ op.cur \notin op.dirty
                    THEN "rmMarker" ELSE "recover"
        /\ op'.cur = op.cur /\ UNCHANGED fs /\ op.pc = "rmSync"
    BY <1>1, <1>20 DEF RemoveSync, TypeOK, Operation
  <2>2. QED BY <1>1, <2>1
<1>21. CASE RemoveMarker \/ RemoveMarkerSync
  <2>1. op'.pc \in {"rmMarkerSync", "recover"}
    BY <1>1, <1>21, GotoFields DEF RemoveMarker, RemoveMarkerSync
  <2>2. QED BY <2>1, CleanupElsewhere
<1>22. CASE RestoreBackup
  <2>1. op.goal \in First \cup {"published"}
    BY <1>1, <1>22, Fields, Images, ClaimantsGoal
    DEF RestoreBackup, SwapHolds, SwapKnows, Claims, Holds
  <2>2. QED BY <1>1, <1>22, <2>1, Fields, GotoFields DEF RestoreBackup, FS, SwapHolds
<1>23. CASE RestoreSync
  <2>1. dur'.next[op.cur] \in {dur.next[op.cur], Absent}
    BY <1>1, <1>23, Fields, SyncedWorkFields DEF RestoreSync
  <2>2. QED BY <1>1, <1>23, <2>1, GotoFields DEF RestoreSync
<1>24. QED
  BY <1>2, <1>3, <1>4, <1>5, <1>6, <1>7, <1>8, <1>9, <1>10, <1>11, <1>12, <1>13,
     <1>14, <1>15, <1>16, <1>17, <1>18, <1>19, <1>20, <1>21, <1>22, <1>23
  DEF Recovery

(* A replacement enters the swap with a tidy stage. *)
LEMMA ReplacementCleanupKnows == ASSUME FullInv, Replacement PROVE CleanupKnows'
<1>1. TypeOK
  BY DEF FullInv, IInv
<1>2. CASE op'.pc = "jrnSync"
  <2>1. ~fs.scrap[op.cur] /\ JournalRename
    BY <1>1, <1>2, ReplacementPlace DEF JournalRename, FullInv, StageHolds, Journalling
  <2>2. ~fs'.scrap[op'.cur]
    BY <1>1, <2>1, Fields DEF JournalRename, FS, Operation
  <2>3. QED BY <1>2, <2>2 DEF CleanupKnows, Swapping, Removing, Invalidating
<1>3. CASE op'.pc = "continue"
  <2>1. ~fs.scrap[op.cur] /\ JournalSync
    BY <1>1, <1>3, ReplacementPlace DEF JournalSync, FullInv, CleanupKnows, Swapping
  <2>2. ~fs'.scrap[op'.cur]
    BY <1>1, <2>1, GotoFields DEF JournalSync
  <2>3. QED BY <1>3, <2>2 DEF CleanupKnows, Swapping, Removing, Invalidating
<1>4. CASE op'.pc \notin {"jrnSync", "continue"}
  BY <1>1, <1>4, ReplacementPlace, CleanupElsewhere DEF Swapping, Removing
<1>5. QED BY <1>2, <1>3, <1>4

(* A failure of a cleanup call is remembered. *)
LEMMA EnvironmentCleanupKnows == ASSUME FullInv, Environment PROVE CleanupKnows'
<1>1. TypeOK /\ CleanupKnows /\ SwapKnows
  BY DEF FullInv, IInv, OpInv
<1>2. CASE op'.pc \in {"idle", "maint", "running"}
  BY <1>2, CleanupElsewhere DEF Swapping, Removing
<1>3. CASE CleanupFailure
  <2>1. /\ op'.pc = CleanupSuccessor[op.pc] /\ op'.cur = op.cur /\ op'.done = op.done
        /\ op'.goal = op.goal /\ op'.dirty = op.dirty \cup {op.cur}
        /\ UNCHANGED <<fs, dur>> /\ op.pc \in CleanupCalls
    BY <1>1, <1>3 DEF CleanupFailure, disk, TypeOK, Operation
  <2>2. CASE op.pc \in {"rmSync", "rmMarker", "rmMarkerSync"}
    BY <2>1, <2>2, CleanupElsewhere DEF CleanupSuccessor, Swapping, Removing
  <2>3. CASE op.pc \in {"rmBackup", "rmJournal", "rmTmp", "rmNext", "rmStage"}
    <3>1. /\ op'.pc \in Removing /\ op'.cur \in op'.dirty
          /\ op.pc \in Removing \cup {"rmBackup"}
      BY <2>1, <2>3 DEF CleanupSuccessor, Removing
    <3>2. /\ \/ fs.marker[op.cur] # NoRecord
             \/ /\ fs.backup[op.cur] = Absent
                /\ fs.next[op.cur] = Absent /\ dur.next[op.cur] = Absent
          /\ ~op.done => op.goal \in First \cup {"published"}
          /\ ~fs.scrap[op.cur]
      BY <1>1, <2>3 DEF CleanupKnows, SwapKnows, Removing
    <3>3. QED
      BY <2>1, <3>1, <3>2 DEF CleanupKnows, Swapping, Removing, Invalidating
  <2>4. QED BY <2>1, <2>2, <2>3 DEF CleanupCalls
<1>4. QED BY <1>1, <1>2, <1>3, EnvironmentPlace

(* The places where a call of the recovery leaves an operation. *)
LEMMA RecoveryPlace ==
  ASSUME TypeOK, Recovery
  PROVE  /\ \/ op'.pc \in (Swapping \ {"jrnSync"}) \cup Removing
            \/ op'.pc \in {"idle", "recover", "markSync", "restoreSync", "rmBackup",
                           "rmMarker", "rmMarkerSync"}
            \/ RecoveryOver /\ op'.pc = op.goal
         /\ op'.pc # "idle" => op'.goal = op.goal
<1> USE DEF Swapping, Removing
<1>1. ASSUME NEW p, Goto(p) PROVE op'.pc = p /\ op'.goal = op.goal
  BY <1>1, GotoFields
<1>2. ASSUME NEW s, Return(s) PROVE op'.pc = "idle"
  BY <1>2 DEF Return, Idle
<1>3. CASE RecoverFor
  <2> DEFINE n == Head(op.todo)
  <2>1. ASSUME NEW p \in {"inv", "rmBackup", "continue", "recover"}, NEW r, NEW c,
               RecoverAt(n, p, r, c)
        PROVE  /\ op'.pc \in {"inv", "rmBackup", "continue", "recover"}
               /\ op'.goal = op.goal
    BY <2>1, RecoverAtKeeps
  <2> HIDE DEF n
  <2>2. CASE RecoverCommitted(n)
    BY <1>2, <2>1, <2>2 DEF RecoverCommitted
  <2>3. CASE RecoverJournal(n)
    BY <2>1, <2>3 DEF RecoverJournal
  <2>4. CASE RecoverOrphan(n)
    BY <1>2, <2>1, <2>4 DEF RecoverOrphan
  <2>5. QED BY <1>3, <2>2, <2>3, <2>4 DEF RecoverFor, n
<1>4. CASE Continue
  <2>1. CASE op' = [op EXCEPT !.pc = Branch(op.cur), !.ret = "markTmp"]
             /\ Branch(op.cur) # "contradictory"
    BY <2>1 DEF Branch, ContinueBranch, TypeOK, Operation
  <2>2. QED BY <1>2, <1>4, <2>1 DEF Continue
<1>5. CASE MaintenanceRecover
  <2>1. ASSUME NEW t, op' = [op EXCEPT !.pc = "recover", !.dirty = {}, !.todo = t]
        PROVE  op'.pc = "recover" /\ op'.goal = op.goal
    BY <2>1 DEF TypeOK, Operation
  <2>2. ASSUME NEW i \in Owners,
               op' = [op EXCEPT !.pc = "recover", !.dirty = {},
                                !.todo = OwnerFirst(i) \o op.todo]
        PROVE  op'.pc = "recover" /\ op'.goal = op.goal
    BY <2>1, <2>2
  <2>3. CASE op' = [op EXCEPT !.pc = "recover", !.dirty = {},
                              !.todo = MaintTable \o op.todo]
    BY <2>1, <2>3
  <2>4. QED BY <1>2, <1>5, <2>2, <2>3 DEF MaintenanceRecover
<1>6. CASE RecoveryOver
  BY <1>1, <1>6 DEF RecoveryOver
<1>7. CASE SwapOut \/ SwapOutSync \/ SwapIn \/ SwapInStage \/ SwapInWork
           \/ InvalidateResume \/ MarkTmp \/ MarkRename
  BY <1>1, <1>7 DEF SwapOut, SwapOutSync, SwapIn, SwapInStage, SwapInWork,
     InvalidateResume, MarkTmp, MarkRename
<1>8. CASE InvalidateResumeSync
  BY <1>1, <1>8 DEF InvalidateResumeSync, TypeOK, Operation
<1>9. CASE MarkSync \/ RemoveStage \/ RemoveSync
  BY <1>1, <1>9 DEF MarkSync, RemoveStage, RemoveSync, TypeOK, Operation
<1>10. CASE RemoveBackup \/ RemoveJournal \/ RemoveTmp \/ RemoveNext \/ RemoveMarker
            \/ RemoveMarkerSync \/ RestoreBackup \/ RestoreSync
  BY <1>1, <1>10 DEF RemoveBackup, RemoveJournal, RemoveTmp, RemoveNext, RemoveMarker,
     RemoveMarkerSync, RestoreBackup, RestoreSync
<1>11. QED
  BY <1>3, <1>4, <1>5, <1>6, <1>7, <1>8, <1>9, <1>10 DEF Recovery

(* A call outside the recovery of the caller's namespace and the work on its  *)
(* stage knows nothing of the stage.                                          *)
LEMMA StageElsewhere ==
  ASSUME \/ op'.pc \notin {"maint", "recover", "stage", "inv", "invSync", "rmBackup",
                           "rmMarker", "rmMarkerSync"} \cup Removing
         \/ op'.goal # "stage" /\ op'.pc # "stage",
         op'.pc \notin Preparing \cup Fresh \cup Made
                        \cup {"discard", "disNext", "disRmdir", "jrnSync", "cfTmp", "cfRen"}
  PROVE  StageHolds'
BY DEF StageHolds, Preparing, Fresh, Made, Cloning, Journalling, Removing

(* The recovery of the caller's own namespace, once nobody claims the live    *)
(* name, leaves it without a record or reports that there was one.            *)
LEMMA RecoveryStageHolds == ASSUME FullInv, Recovery PROVE StageHolds'
<1>1. /\ TypeOK /\ StageHolds /\ CleanupKnows /\ SwapHolds /\ SwapKnows
  BY DEF FullInv, IInv, OpInv
<1>2. CASE op.goal # "stage"
  <2>1. op'.pc = "idle" \/ (op'.goal # "stage" /\ op'.pc # "stage")
    BY <1>1, <1>2, RecoveryPlace DEF Swapping, Removing
  <2>2. op'.pc \notin Preparing \cup Fresh \cup Made
                       \cup {"discard", "disNext", "disRmdir", "jrnSync", "cfTmp", "cfRen"}
    BY <1>1, RecoveryPlace
    DEF Swapping, Removing, Preparing, Fresh, Made, Journalling, TypeOK, Operation, Goals
  <2>3. QED BY <2>1, <2>2, StageElsewhere DEF Removing
<1>3. CASE op.goal = "stage"
  <2> USE <1>3 DEF First, Removing
  <2>1. ASSUME op'.pc \notin {"maint", "recover", "stage", "inv", "invSync", "rmBackup",
                              "rmMarker", "rmMarkerSync"} \cup Removing
        PROVE  StageHolds'
    BY <1>1, <2>1, RecoveryPlace, StageElsewhere
    DEF Swapping, Preparing, Fresh, Made, Journalling
  <2>2. ~Claims(fs, op.cur) \/ op.pc = "idle"
    BY <1>1, ClaimantsGoal, Fields
  <2>3. ASSUME op'.pc \in {"inv", "invSync", "rmBackup", "rmMarker", "rmMarkerSync",
                           "recover"} \cup Removing,
               op'.todo = <<>>, op'.done = TRUE
        PROVE  StageHolds'
    BY <2>3 DEF StageHolds, Preparing, Fresh, Made, Cloning, Journalling
  <2>4. CASE RecoverFor
    <3> DEFINE n == Head(op.todo)
    <3>1. /\ op.pc = "recover" /\ n = op.tgt /\ Tail(op.todo) = <<>>
          /\ UNCHANGED <<fs, dur>>
      <4>1. op.pc = "recover" /\ op.todo # <<>> /\ UNCHANGED <<fs, dur>>
        BY <2>4 DEF RecoverFor, disk
      <4>2. op.todo = <<op.tgt>>
        BY <1>1, <4>1 DEF StageHolds
      <4>3. QED BY <4>1, <4>2
    <3>2. ASSUME NEW p, NEW r, NEW c, RecoverAt(n, p, r, c)
          PROVE  /\ op'.pc = p /\ op'.todo = <<>> /\ op'.done = c /\ op'.goal = op.goal
                 /\ op'.tgt = op.tgt
      BY <1>1, <3>1, <3>2, RecoverAtKeeps
    <3>3. ~Claims(fs, n)
      BY <1>1, <3>1, ClaimantsGoal, Fields
    <3> HIDE DEF n
    <3>4. CASE Return("ERR_STATE")
      BY <2>1, <3>4 DEF Return, Idle
    <3>5. CASE RecoverCommitted(n)
      <4>1. ASSUME NEW p \in {"inv", "rmBackup"}, RecoverAt(n, p, "rmBackup", TRUE)
            PROVE  StageHolds'
        BY <2>3, <3>2, <4>1
      <4>2. QED BY <3>4, <3>5, <4>1 DEF RecoverCommitted
    <3>6. CASE RecoverJournal(n)
      <4>1. op'.pc = "continue"
        BY <3>2, <3>6 DEF RecoverJournal
      <4>2. QED BY <2>1, <4>1
    <3>7. CASE RecoverOrphan(n)
      <4>1. fs.backup[n] = Absent
        BY <3>3, <3>7 DEF RecoverOrphan, Claims, Holds
      <4>2. /\ RecoverAt(n, "recover", "markTmp", FALSE)
            /\ fs.marker[n] = NoRecord /\ fs.journal[n] = NoRecord
        BY <3>7, <4>1 DEF RecoverOrphan, BackupContradicted
      <4>3. /\ op'.pc = "recover" /\ op'.todo = <<>> /\ op'.tgt = n
        BY <3>1, <3>2, <4>2
      <4>4. QED
        BY <3>1, <4>2, <4>3 DEF StageHolds, Preparing, Fresh, Made, Cloning, Journalling
    <3>8. QED BY <2>4, <3>5, <3>6, <3>7 DEF RecoverFor, n
  <2>5. CASE RecoveryOver
    <3>1. /\ op'.pc = "stage" /\ op'.tgt = op.tgt /\ op'.done = op.done /\ UNCHANGED fs
          /\ op.done \/ (fs.marker[op.tgt] = NoRecord /\ fs.journal[op.tgt] = NoRecord)
      BY <1>1, <2>5, GotoFields DEF RecoveryOver, StageHolds, disk
    <3>2. QED
      BY <3>1 DEF StageHolds, Preparing, Fresh, Made, Cloning, Journalling
  <2>6. CASE Continue
    <3>1. Branch(op.cur) = "contradictory"
      BY <1>1, <2>2, <2>6
      DEF Continue, SwapKnows, Claims, Armed, Holds, NextAnywhere, Branch, ContinueBranch
    <3>2. QED BY <2>1, <2>6, <3>1 DEF Continue, Return, Idle
  <2>7. CASE SwapOut \/ SwapOutSync \/ SwapIn \/ SwapInStage \/ MarkTmp \/ MarkRename
             \/ RestoreBackup
    BY <1>1, <2>1, <2>7, GotoFields
    DEF SwapOut, SwapOutSync, SwapIn, SwapInStage, MarkTmp, MarkRename, RestoreBackup
  <2>8. CASE SwapInWork
    BY <1>1, <2>2, <2>8 DEF SwapInWork, SwapHolds, Claims, Holds
  <2>9. CASE InvalidateResume \/ RemoveBackup \/ RemoveJournal \/ RemoveTmp \/ RemoveNext
             \/ RemoveMarker \/ RemoveMarkerSync
    <3>1. op.todo = <<>> /\ op.done = TRUE
      BY <1>1, <2>9
      DEF InvalidateResume, RemoveBackup, RemoveJournal, RemoveTmp, RemoveNext,
          RemoveMarker, RemoveMarkerSync, StageHolds, TypeOK, Operation
    <3>2. QED
      BY <1>1, <2>3, <2>9, <3>1, GotoFields
      DEF InvalidateResume, RemoveBackup, RemoveJournal, RemoveTmp, RemoveNext,
          RemoveMarker, RemoveMarkerSync
  <2>10. CASE InvalidateResumeSync
    <3>1. op'.pc = op.ret /\ op'.todo = op.todo /\ op'.done = op.done
      BY <1>1, <2>10, GotoFields DEF InvalidateResumeSync
    <3>2. op.todo = <<>> /\ op.done = TRUE /\ op.ret \in {"markTmp", "rmBackup", "restore"}
      BY <1>1, <2>10 DEF InvalidateResumeSync, StageHolds, TypeOK, Operation
    <3>3. QED BY <2>1, <2>3, <3>1, <3>2
  <2>11. CASE MarkSync \/ RestoreSync
    BY <1>1, <2>11 DEF MarkSync, RestoreSync, CleanupKnows
  <2>12. CASE RemoveStage \/ RemoveSync
    <3>1. op.todo = <<>> /\ op.done = TRUE
      BY <1>1, <2>12 DEF RemoveStage, RemoveSync, StageHolds, TypeOK, Operation
    <3>2. /\ op'.todo = op.todo /\ op'.done = op.done
          /\ op'.pc \in {"rmSync", "rmMarker", "recover"}
      BY <1>1, <2>12, GotoFields DEF RemoveStage, RemoveSync, TypeOK, Operation
    <3>3. QED BY <2>3, <3>1, <3>2
  <2>13. CASE MaintenanceRecover
    BY <1>1, <2>13 DEF MaintenanceRecover, StageHolds
  <2>14. QED
    BY <2>4, <2>5, <2>6, <2>7, <2>8, <2>9, <2>10, <2>11, <2>12, <2>13 DEF Recovery
<1>4. QED BY <1>2, <1>3

(* Every call of a replacement knows what its preparation has established, and *)
(* keeps it true for the next one.                                            *)
LEMMA ReplacementStageHolds == ASSUME FullInv, Replacement PROVE StageHolds'
<1>1. /\ TypeOK /\ StageHolds /\ TidyInv /\ StageKnows
  BY DEF FullInv, IInv, OpInv
<1>2. CASE op' = Idle
  <2>1. op'.pc = "idle"
    BY <1>2 DEF Idle
  <2>2. QED BY <2>1, StageElsewhere DEF Removing, Preparing, Fresh, Made, Journalling
<1>3. ASSUME op'.pc \in {"restoreOnce", "published", "disSync", "discarded", "cfSync",
                         "continue"}
      PROVE  StageHolds'
  BY <1>3, StageElsewhere DEF Removing, Preparing, Fresh, Made, Journalling
<1>4. ASSUME op'.pc \in {"maint", "recover"}, op'.goal # "stage"
      PROVE  StageHolds'
  BY <1>4, StageElsewhere DEF Removing, Preparing, Fresh, Made, Journalling
<1>5. ASSUME op'.pc = "recover", op'.goal = "stage", op'.todo = <<op'.tgt>>
      PROVE  StageHolds'
  BY <1>5 DEF StageHolds, Removing, Preparing, Fresh, Made, Cloning, Journalling
<1>6. CASE GateReplace \/ GateConfirm \/ BeginRepair
  <2>1. ASSUME NEW d, NEW g, op' = [op EXCEPT !.pc = "recover", !.todo = <<op.tgt>>,
                                              !.goal = g, !.dig = d],
               g \in {"stage", "confirm"}
        PROVE  StageHolds'
    <3> DEFINE t == <<op.tgt>>
    <3>1. op' = [op EXCEPT !.pc = "recover", !.todo = t, !.goal = g, !.dig = d]
      BY <2>1
    <3> HIDE DEF t
    <3>2. op'.pc = "recover" /\ op'.goal = g /\ op'.todo = t /\ op'.tgt = op.tgt
      BY <1>1, <3>1 DEF TypeOK, Operation
    <3>3. QED BY <1>4, <1>5, <2>1, <3>2 DEF t
  <2>2. ASSUME NEW d, op' = [op EXCEPT !.pc = "maint", !.goal = "prep", !.dig = d]
        PROVE  StageHolds'
    <3>1. op'.pc = "maint" /\ op'.goal = "prep"
      BY <1>1, <2>2 DEF TypeOK, Operation
    <3>2. QED BY <1>4, <3>1
  <2>3. QED BY <1>6, <2>1, <2>2 DEF GateReplace, GateConfirm, BeginRepair
<1>7. CASE Prepare \/ Published \/ (\E m \in Permanent : ConfirmNext(m))
  <2>1. ASSUME NEW t, NEW g, g \in {"stage", "confirm"},
               op' = [op EXCEPT !.pc = "recover", !.todo = t, !.goal = g],
               g = "stage" => t = <<op.tgt>>
        PROVE  StageHolds'
    <3>1. op'.pc = "recover" /\ op'.goal = g /\ op'.todo = t /\ op'.tgt = op.tgt
      BY <1>1, <2>1 DEF TypeOK, Operation
    <3>2. QED BY <1>4, <1>5, <2>1, <3>1
  <2>2. CASE Prepare
    BY <1>2, <2>1, <2>2 DEF Prepare, Return
  <2>3. CASE Published
    <3> DEFINE t == <<RECOVERY>>
    <3>1. \/ op' = Idle
          \/ Goto("restoreOnce")
          \/ op' = [op EXCEPT !.pc = "recover", !.todo = t, !.goal = "repaired", !.dirty = {}]
      BY <2>3 DEF Published, Return
    <3> HIDE DEF t
    <3>2. op' = [op EXCEPT !.pc = "recover", !.todo = t, !.goal = "repaired", !.dirty = {}]
            => op'.pc = "recover" /\ op'.goal = "repaired"
      BY <1>1 DEF TypeOK, Operation
    <3>3. Goto("restoreOnce") => op'.pc = "restoreOnce"
      BY <1>1, GotoFields
    <3>4. QED BY <1>2, <1>3, <1>4, <3>1, <3>2, <3>3
  <2>4. ASSUME NEW m \in Permanent, ConfirmNext(m) PROVE StageHolds'
    BY <2>1, <2>4 DEF ConfirmNext
  <2>5. QED BY <1>7, <2>2, <2>3, <2>4
<1>8. CASE GateRefuse \/ SkipRepair \/ Repaired \/ Discarded
  <2>1. Goto("restoreOnce") => op'.pc = "restoreOnce"
    BY <1>1, GotoFields
  <2>2. QED
    BY <1>2, <1>3, <1>8, <2>1 DEF GateRefuse, SkipRepair, Repaired, Discarded, Return
<1>9. CASE DiscardRmdir \/ DiscardSync \/ JournalSync \/ ConfirmRename
  <2>1. op' = Idle \/ op'.pc \in {"disSync", "discarded", "continue", "cfSync"}
    BY <1>1, <1>9, GotoFields
    DEF DiscardRmdir, DiscardSync, JournalSync, ConfirmRename, Return
  <2>2. QED BY <1>2, <1>3, <2>1
<1>10. CASE ConfirmSync
  <2>1. op'.pc = "published"
    BY <1>1, <1>10 DEF ConfirmSync, TypeOK, Operation
  <2>2. QED BY <1>3, <2>1
<1> USE DEF StageHolds, HasRecord, Removing, Preparing, Fresh, Made, Cloning, Journalling
<1>11. CASE PrepareStage
  <2>1. CASE op' = [op EXCEPT !.pc = "stTmp", !.cur = op.tgt]
             /\ ~op.done /\ fs.live # Absent /\ fs.backup[op.tgt] = Absent
    <3>1. op'.pc = "stTmp" /\ op'.cur = op.tgt /\ UNCHANGED fs
      BY <1>1, <1>11, <2>1 DEF PrepareStage, disk, TypeOK, Operation
    <3>2. fs.marker[op.tgt] = NoRecord /\ fs.journal[op.tgt] = NoRecord
      BY <1>1, <1>11, <2>1 DEF PrepareStage
    <3>3. QED BY <2>1, <3>1, <3>2
  <2>2. QED BY <1>2, <1>11, <2>1 DEF PrepareStage, Return
<1>12. CASE StageTmp
  <2>1. /\ op'.pc = IF fs.stage[op.cur] = 0 THEN "stMk" ELSE "stNext"
        /\ op'.cur = op.cur
    BY <1>1, <1>12, GotoFields DEF StageTmp
  <2>2. /\ fs'.live = fs.live /\ fs'.backup = fs.backup /\ fs'.marker = fs.marker
        /\ fs'.journal = fs.journal /\ fs'.next = fs.next /\ fs'.scrap = fs.scrap
    BY <1>1, <1>12, Fields DEF StageTmp, FS
  <2>3. fs.stage[op.cur] = 0 => fs.next[op.cur] = Absent /\ ~fs.scrap[op.cur]
    BY <1>1, Fields DEF TidyInv
  <2>4. fs.live # Absent /\ ~HasRecord(fs, op.cur)
    BY <1>1, <1>12 DEF StageTmp
  <2>5. QED BY <2>1, <2>2, <2>3, <2>4
<1>13. CASE StageNext
  BY <1>1, <1>13, Fields, GotoFields DEF StageNext, FS
<1>14. CASE StageRmdir
  BY <1>1, <1>2, <1>14, Fields, GotoFields DEF StageRmdir, FS, StageEmpty, Return
<1>15. CASE StageMkdir
  BY <1>1, <1>15, Fields, GotoFields DEF StageMkdir, FS
<1>16. CASE StageSync
  <2>1. op'.pc = "construct" /\ op'.cur = op.cur /\ UNCHANGED fs /\ op.pc = "stSync"
    BY <1>1, <1>16, GotoFields DEF StageSync
  <2>2. /\ dur'.backup = fs.backup /\ dur'.marker = fs.marker
        /\ dur'.journal = fs.journal /\ dur'.stage = fs.stage
        /\ dur'.scrap[op.cur] = (SameStage(op.cur) /\ dur.scrap[op.cur])
    BY <1>1, <1>16, SyncedWorkFields, Fields DEF StageSync
  <2>3. ~SameStage(op.cur)
    BY <1>1, <2>1 DEF StageKnows, SameStage
  <2>4. QED BY <1>1, <2>1, <2>2, <2>3
<1>17. CASE Construct
  BY <1>1, <1>17, GotoFields DEF Construct, disk
<1>18. CASE BuildTmp \/ BuildUnlink \/ BuildRefuse
  BY <1>1, <1>2, <1>18, Fields, GotoFields DEF BuildTmp, BuildUnlink, BuildRefuse, FS, Return
<1>19. CASE BuildLink \/ CopyEnd
  <2>1. /\ op'.pc = IF op.pc = "buildLink" THEN "buildSync" ELSE "copySync"
        /\ op'.cur = op.cur /\ op.pc \in {"buildLink", "copyEnd"}
    BY <1>1, <1>19 DEF BuildLink, CopyEnd, NextImage, TypeOK, Operation
  <2>2. /\ fs'.live = fs.live /\ fs'.backup = fs.backup /\ fs'.marker = fs.marker
        /\ fs'.journal = fs.journal /\ fs'.scrap = fs.scrap /\ fs'.stage = fs.stage
        /\ UNCHANGED dur
    BY <1>1, <1>19, Fields DEF BuildLink, CopyEnd, NextImage, FS
  <2>3. QED BY <1>1, <2>1, <2>2
<1>20. CASE BuildSync \/ BuildDone \/ CopySync
  <2>1. /\ op'.pc = IF op.pc = "buildSync" THEN "buildUnlink"
                    ELSE IF op.pc = "buildDone" THEN "publish" ELSE "repair"
        /\ op'.cur = op.cur /\ op.pc \in {"buildSync", "buildDone", "copySync"}
        /\ UNCHANGED fs
    BY <1>1, <1>20, GotoFields DEF BuildSync, BuildDone, CopySync
  <2>2. /\ dur'.backup = dur.backup /\ dur'.marker = dur.marker
        /\ dur'.journal = dur.journal /\ dur'.stage = dur.stage
        /\ SameStage(op.cur) => dur'.scrap[op.cur] = fs.scrap[op.cur]
    BY <1>1, <1>20, SyncedStageFields, Fields DEF BuildSync, BuildDone, CopySync
  <2>3. SameStage(op.cur)
    BY <1>1, <2>1 DEF SameStage
  <2>4. QED BY <1>1, <2>1, <2>2, <2>3
<1>21. CASE CopyBegin
  <2>1. CASE CopyAllowed(op.cur)
    BY <1>1, <1>21, <2>1, Fields, GotoFields DEF CopyBegin, FS
  <2>2. CASE ~CopyAllowed(op.cur)
    <3>1. op'.pc = "discard" /\ op'.cur = op.cur /\ UNCHANGED fs /\ op.pc = "copy"
      BY <1>1, <1>21, <2>2 DEF CopyBegin, TypeOK, Operation
    <3>2. QED BY <1>1, <3>1
  <2>3. QED BY <2>1, <2>2
<1>22. CASE CopyFails
  <2>1. /\ op'.pc = "discard" /\ op'.cur = op.cur /\ fs'.scrap = fs.scrap
        /\ op.pc \in {"copy", "copyEnd", "copySync"}
    BY <1>1, <1>22, Fields DEF CopyFails, CopyCalls, TypeOK, Operation, FS
  <2>2. QED BY <1>1, <2>1
<1>23. CASE RepairClone
  BY <1>1, <1>23, GotoFields DEF RepairClone
<1>24. CASE Discard
  BY <1>1, <1>2, <1>24, GotoFields DEF Discard, DiscardAllowed, disk, Return
<1>25. CASE DiscardNext
  BY <1>1, <1>25, Fields, GotoFields DEF DiscardNext, FS
<1>26. CASE Publish
  <2>1. CASE op' = [op EXCEPT !.pc = "fsyncNext", !.goal = "published"]
    <3>1. op'.pc = "fsyncNext" /\ op'.cur = op.cur /\ op'.goal = "published"
      BY <1>1, <2>1 DEF TypeOK, Operation
    <3>2. UNCHANGED <<fs, dur>> /\ op.pc = "publish"
      BY <1>26 DEF Publish, disk
    <3>3. QED BY <1>1, <3>1, <3>2
  <2>2. CASE op' = [op EXCEPT !.pc = "recover", !.todo = <<op.cur>>, !.goal = "published"]
    <3> DEFINE t == <<op.cur>>
    <3>1. op' = [op EXCEPT !.pc = "recover", !.todo = t, !.goal = "published"]
      BY <2>2
    <3> HIDE DEF t
    <3>2. op'.pc = "recover" /\ op'.goal = "published"
      BY <1>1, <3>1 DEF TypeOK, Operation
    <3>3. QED BY <1>4, <3>2
  <2>3. QED BY <1>2, <1>26, <2>1, <2>2 DEF Publish, Return
<1>27. CASE FsyncNext \/ JournalTmp
  BY <1>1, <1>27, Fields, GotoFields DEF FsyncNext, JournalTmp, FS
<1>28. CASE JournalRename
  <2>1. op'.pc = "jrnSync" /\ op'.goal = op.goal /\ op.pc = "jrnRen"
    BY <1>1, <1>28 DEF JournalRename, TypeOK, Operation
  <2>2. QED BY <1>1, <2>1
<1>29. CASE Confirm
  <2>1. CASE Goto("cfTmp") /\ NamespaceClean(op.cur)
    BY <1>1, <1>29, <2>1, GotoFields DEF Confirm, NamespaceClean, Residue, disk
  <2>2. CASE Goto("published")
    BY <1>1, <1>3, <2>2, GotoFields
  <2>3. QED BY <1>2, <1>29, <2>1, <2>2 DEF Confirm, Return
<1>30. CASE ConfirmTmp
  BY <1>1, <1>30, Fields, GotoFields DEF ConfirmTmp, FS
<1>31. QED
  BY <1>6, <1>7, <1>8, <1>9, <1>10, <1>11, <1>12, <1>13, <1>14, <1>15, <1>16, <1>17,
     <1>18, <1>19, <1>20, <1>21, <1>22, <1>23, <1>24, <1>25, <1>26, <1>27, <1>28,
     <1>29, <1>30
  DEF Replacement

(* The callers and the faults leave an operation whose cleanup knows as much.  *)
LEMMA EnvironmentStageHolds == ASSUME FullInv, Environment PROVE StageHolds'
<1>1. TypeOK /\ StageHolds
  BY DEF FullInv, IInv
<1>2. CASE op'.pc \in {"idle", "running"} \/ (op'.pc = "maint" /\ op'.goal \in First)
  BY <1>2, StageElsewhere DEF First, Removing, Preparing, Fresh, Made, Journalling
<1>3. CASE CleanupFailure /\ op'.pc = CleanupSuccessor[op.pc]
  <2>1. /\ op'.goal = op.goal /\ op'.todo = op.todo /\ op'.done = op.done
        /\ op.pc \in CleanupCalls
    BY <1>1, <1>3 DEF CleanupFailure, TypeOK, Operation
  <2>2. op'.pc \in {"recover"} \cup Removing
    BY <1>3, <2>1 DEF CleanupCalls, CleanupSuccessor, Removing
  <2>3. CASE op.goal = "stage"
    <3>1. op.todo = <<>> /\ op.done
      BY <1>1, <2>1, <2>3 DEF StageHolds, CleanupCalls, Removing
    <3>2. QED
      BY <2>1, <2>2, <3>1 DEF StageHolds, Removing, Preparing, Fresh, Made, Cloning, Journalling
  <2>4. CASE op.goal # "stage"
    BY <2>1, <2>2, <2>4, StageElsewhere DEF Removing, Preparing, Fresh, Made, Journalling
  <2>5. QED BY <2>3, <2>4
<1>4. QED BY <1>1, <1>2, <1>3, EnvironmentPlace

-----------------------------------------------------------------------------
(* The invariant as a whole.                                                  *)

(* A boot begins with everybody ahead, and RestoreOnce leaves the claims.     *)
LEMMA FullInvBoot == ASSUME FullInv, Boot \/ RestoreOnce PROVE FullInv'
<1>1. TypeOK
  BY DEF FullInv, IInv
<1>2. IInv'
  BY InvStep DEF FullInv, Next, Step
<1>3. CASE Boot
  <2>1. Begin(RECOVERY, <<INSTALL>>, "start") /\ UNCHANGED <<fs, dur>>
    BY <1>3 DEF Boot, disk
  <2>2. op'.pc = "maint" /\ op'.goal = "start"
    BY <1>1, <2>1 DEF Begin, TypeOK, Operation
  <2>3. ClaimInv' /\ TidyInv'
    BY <1>1, <2>1, ClaimInert, TidyInert DEF FullInv
  <2>4. SettleInv'
    <3>1. \A m \in NS : Claims(fs, m)' => Claims(fs, m)
      BY <2>1 DEF Claims, Armed, Holds, NextAnywhere
    <3>2. RECOVERY \in NS /\ <<INSTALL>> \in Namespaces /\ Among(INSTALL, <<INSTALL>>)
      BY NamespaceFacts DEF Among
    <3>3. QED BY <2>1, <3>1, <3>2, SettleBegin DEF Goals, First
  <2>5. SwapHolds' /\ CleanupKnows' /\ StageHolds'
    BY <2>2, SwapElsewhere, CleanupElsewhere, StageElsewhere
    DEF Swapping, Removing, Preparing, Fresh, Made, Journalling
  <2>6. QED BY <1>2, <2>3, <2>4, <2>5 DEF FullInv
<1>4. CASE RestoreOnce
  <2>1. /\ op.pc = "restoreOnce" /\ op'.pc = "running" /\ op'.goal = op.goal
        /\ op'.todo = op.todo /\ op'.cur = op.cur
    BY <1>1, <1>4, GotoFields DEF RestoreOnce
  <2>2. /\ fs'.live = fs.live /\ fs'.backup = fs.backup /\ fs'.marker = fs.marker
        /\ fs'.journal = fs.journal /\ fs'.next = fs.next /\ fs'.stage = fs.stage
        /\ fs'.scrap = fs.scrap /\ UNCHANGED dur
    BY <1>1, <1>4, Fields DEF RestoreOnce, Disarmed, FS
  <2>3. ClaimInv' /\ TidyInv'
    BY <2>2, ClaimInert, TidyInert DEF FullInv
  <2>4. SettleInv'
    <3>1. \A m \in NS : Claims(fs, m)' => Claims(fs, m)
      BY <2>2 DEF Claims, Armed, Holds, NextAnywhere
    <3>2. QED BY <2>1, <3>1, SettleGoesOn DEF Swapping, Settled
  <2>5. SwapHolds' /\ CleanupKnows' /\ StageHolds'
    BY <2>1, SwapElsewhere, CleanupElsewhere, StageElsewhere
    DEF Swapping, Removing, Preparing, Fresh, Made, Journalling
  <2>6. QED BY <1>2, <2>3, <2>4, <2>5 DEF FullInv
<1>5. QED BY <1>3, <1>4

(* Neither a replacement nor the environment is inside the swap. *)
LEMMA OutsideSwapHolds == ASSUME FullInv, Replacement \/ Environment PROVE SwapHolds'
<1>1. TypeOK
  BY DEF FullInv, IInv
<1>2. CASE Replacement
  BY <1>1, <1>2, ReplacementPlace, SwapElsewhere
<1>3. CASE op'.pc \in {"idle", "running", "maint"}
  BY <1>3, SwapElsewhere DEF Swapping
<1>4. CASE CleanupFailure /\ op'.pc = CleanupSuccessor[op.pc]
  <2>1. op'.pc \in {"rmJournal", "rmTmp", "rmNext", "rmStage", "rmSync", "recover"}
    BY <1>4 DEF CleanupFailure, CleanupCalls, CleanupSuccessor
  <2>2. QED BY <2>1, SwapElsewhere DEF Swapping
<1>5. QED BY <1>1, <1>2, <1>3, <1>4, EnvironmentPlace

(* Every step keeps the whole invariant. *)
LEMMA FullInvStep == FullInv /\ [Next]_vars => FullInv'
<1> SUFFICES ASSUME FullInv, [Next]_vars PROVE FullInv'
  OBVIOUS
<1>1. IInv'
  BY InvStep DEF FullInv
<1>2. CASE Recovery
  BY <1>1, <1>2, RecoveryClaims, RecoveryTidy, RecoverySettles, RecoverySwapHolds,
     RecoveryCleanupKnows, RecoveryStageHolds DEF FullInv
<1>3. CASE Replacement
  BY <1>1, <1>3, ReplacementClaims, ReplacementTidy, ReplacementSettles, OutsideSwapHolds,
     ReplacementCleanupKnows, ReplacementStageHolds DEF FullInv
<1>4. CASE Environment
  BY <1>1, <1>4, EnvironmentClaims, EnvironmentTidy, EnvironmentSettles, OutsideSwapHolds,
     EnvironmentCleanupKnows, EnvironmentStageHolds DEF FullInv
<1>5. CASE Boot \/ RestoreOnce
  BY <1>5, FullInvBoot
<1>6. CASE UNCHANGED vars
  BY <1>1, <1>6
  DEF vars, FullInv, ClaimInv, SoleClaim, Claims, Armed, Holds, NextAnywhere, TidyInv, Tidy,
      HasRecord, SettleInv, Ahead, SwapHolds, Invalidating, CleanupKnows, StageHolds
<1>7. QED BY <1>2, <1>3, <1>4, <1>5, <1>6 DEF Next, Step

(* A freshly imported machine satisfies it. *)
LEMMA FullInvInit == Init => FullInv
<1> SUFFICES ASSUME Init PROVE FullInv
  OBVIOUS
<1>1. IInv
  BY InvInit
<1>2. /\ fs = dur /\ op.pc = "idle" /\ op.goal = "start" /\ op.todo = <<>>
      /\ \A n \in NS : /\ fs.backup[n] = Absent /\ fs.next[n] = Absent /\ ~fs.scrap[n]
                       /\ fs.stage[n] = 0 /\ fs.journal[n] = NoRecord
                       /\ fs.marker[n] = NoRecord
  BY DEF Init, FreshFS, Empty, Idle, Absent, NoRecord
<1>3. ClaimInv /\ TidyInv
  BY <1>2 DEF ClaimInv, SoleClaim, Claims, Armed, Holds, NextAnywhere, TidyInv, Tidy, HasRecord
<1>4. SettleInv /\ SwapHolds /\ CleanupKnows /\ StageHolds
  BY <1>2 DEF SettleInv, SwapHolds, Invalidating, CleanupKnows, StageHolds, Settled, First,
     Swapping, Removing, Preparing, Fresh, Made, Cloning, Journalling
<1>5. QED BY <1>1, <1>3, <1>4 DEF FullInv

(* The invariant leaves no dispute: a second backup would be a second claim,  *)
(* and no call finds what its preparation has excluded.                       *)
LEMMA FullInvUndisputed == FullInv => Undisputed
<1> SUFFICES ASSUME FullInv PROVE Undisputed
  OBVIOUS
<1>1. TypeOK /\ ClaimInv /\ StageHolds /\ CleanupKnows /\ StageKnows
  BY DEF FullInv, IInv, OpInv
<1>2. OneClaimant
  <2>1. ASSUME NEW d, NEW base, base = fs \/ base = dur,
               d.backup = base.backup, d.marker = base.marker,
               NEW m \in NS, NEW n \in NS, Holds(d, m), Holds(d, n)
        PROVE  m = n
    <3>1. Claims(base, m) /\ Claims(base, n)
      BY <2>1 DEF Holds, Claims
    <3>2. QED BY <1>1, <2>1, <3>1 DEF ClaimInv, SoleClaim
  <2>2. ASSUME NEW d \in Possible
        PROVE  \E base : /\ base = fs \/ base = dur
                         /\ d.backup = base.backup /\ d.marker = base.marker
    <3>1. CASE d = fs
      BY <3>1
    <3>2. ASSUME NEW W \in BOOLEAN, NEW K \in SUBSET NS, d = AfterPowerLoss(W, K)
          PROVE  \E base : /\ base = fs \/ base = dur
                           /\ d.backup = base.backup /\ d.marker = base.marker
      <4>1. PICK base : base = IF W THEN fs ELSE dur
        OBVIOUS
      <4>2. d.backup = base.backup /\ d.marker = base.marker
        BY <1>1, <3>2, <4>1, AfterPowerLossFields
      <4>3. QED BY <4>1, <4>2
    <3>3. QED BY <2>2, <3>1, <3>2 DEF Possible
  <2>3. QED BY <2>1, <2>2 DEF OneClaimant
<1>3. Unopposed
  <2>1. op.pc = "rmStage" => StageEmpty(op.cur) \/ op.cur \in op.dirty
    BY <1>1 DEF CleanupKnows, Removing, StageEmpty
  <2>2. op.pc = "disRmdir" => StageEmpty(op.cur)
    BY <1>1 DEF StageHolds, StageEmpty
  <2>3. op.pc = "copy" => CopyAllowed(op.cur)
    BY <1>1 DEF StageHolds, Fresh, HasRecord, CopyAllowed
  <2>4. op.pc = "publish" => PublishAllowed(op.cur)
    BY <1>1, Images DEF StageHolds, StageKnows, Made, HasRecord, PublishAllowed
  <2>5. QED BY <2>1, <2>2, <2>3, <2>4 DEF Unopposed
<1>4. QED BY <1>2, <1>3 DEF Undisputed

(* Undisputed: whatever is interrupted, killed or lost, at most one open       *)
(* transaction holds the machine's disk (vm_guest_maintenance_recover relies   *)
(* on it), and no transaction is stopped by what its own preparation should    *)
(* have settled (guest_prepare_stage_for, guest_clone_live_to_stage_for,       *)
(* guest_publish_for, guest_discard_stage_for).                                *)
THEOREM NeverDisputed == Spec => []Undisputed
<1>1. Init => FullInv
  BY FullInvInit
<1>2. FullInv /\ [Next]_vars => FullInv'
  BY FullInvStep
<1>3. FullInv => Undisputed
  BY FullInvUndisputed
<1>4. QED BY <1>1, <1>2, <1>3, PTL DEF Spec

-----------------------------------------------------------------------------
(* The inductive invariant behind CommitMeansInstalled.  Images are numbered  *)
(* as they come into being, so an image is as new as its number.  Until the   *)
(* swap the disk is at most the image the transaction installs, and the only  *)
(* image in its stage is that one; from the swap on the disk is at least it.  *)
AtLeast(d, v) ==
  /\ d.live # Absent => d.live >= v
  /\ d.live = Absent => \A n \in NS : Holds(d, n) => d.backup[n] >= v
AtMost(d, v) ==
  /\ d.live # Absent => d.live <= v
  /\ d.live = Absent => \A n \in NS : Holds(d, n) => d.backup[n] <= v

Numbered(d) == d.live <= gen /\ \A n \in NS : d.backup[n] <= gen /\ d.next[n] <= gen

Waiting(d, n) ==
  /\ d.marker[n] = NoRecord /\ NextAnywhere(n)
  /\ d.backup[n] = Absent \/ d.live = Absent

Installed(d) ==
  \A n \in NS : d.journal[n] # NoRecord =>
    /\ d.marker[n] # NoRecord => AtLeast(d, txn[n].new)
    /\ Holds(d, n) /\ d.live # Absent => d.live >= txn[n].new
    /\ Waiting(d, n) => /\ AtMost(d, txn[n].new)
                        /\ fs.next[n] \in {Absent, txn[n].new}
                        /\ dur.next[n] \in {Absent, txn[n].new}

CommitInv ==
  /\ Numbered(fs) /\ Numbered(dur)
  /\ \A n \in NS : txn[n].new <= gen
  /\ Installed(fs) /\ Installed(dur)

(* What the construction of the image has established for the journal.        *)
ImageInv ==
  /\ op.pc \in Fresh => dur.next[op.cur] = Absent
  /\ op.pc \in Made \cup {"copySync", "buildSync"} => fs.live <= fs.next[op.cur]
  /\ op.pc \in Made => dur.next[op.cur] = fs.next[op.cur]

InstallInv == FullInv /\ CommitInv /\ ImageInv

(* The numbers that name images are integers. *)
LEMMA Numbers ==
  ASSUME TypeOK
  PROVE  /\ fs.live \in Int /\ dur.live \in Int /\ gen \in Int /\ gen >= 1
         /\ \A n \in NS : /\ fs.backup[n] \in Int /\ dur.backup[n] \in Int
                          /\ fs.next[n] \in Int /\ dur.next[n] \in Int
                          /\ txn[n].new \in Int
<1>1. File \subseteq Int
  BY BoundAssumption DEF File, Image, Absent, Torn
<1>2. gen \in Int /\ gen >= 1
  BY BoundAssumption DEF TypeOK, Image
<1>3. QED BY <1>1, <1>2 DEF TypeOK, FS

(* Nothing here depends on the other entries. *)
LEMMA CommitInert ==
  ASSUME CommitInv, UNCHANGED <<dur, gen, txn>>,
         fs'.live = fs.live, fs'.backup = fs.backup, fs'.marker = fs.marker,
         fs'.journal = fs.journal, fs'.next = fs.next
  PROVE  CommitInv'
BY DEF CommitInv, Numbered, Installed, AtLeast, AtMost, Waiting, Holds, NextAnywhere

(* An fsync of the work directory makes durable what the process sees; the    *)
(* history of a transaction is closed once the absence of its journal is.     *)
LEMMA CommitSyncedWork ==
  ASSUME TypeOK, CommitInv, dur' = SyncedWork, UNCHANGED <<fs, gen>>,
         \A n \in NS : \/ txn'[n].new = txn[n].new
                       \/ txn'[n].new = Absent /\ fs.journal[n] = NoRecord
  PROVE  CommitInv'
<1>1. /\ dur'.live = fs.live /\ dur'.backup = fs.backup
      /\ dur'.marker = fs.marker /\ dur'.journal = fs.journal
      /\ \A n \in NS : dur'.next[n] \in {dur.next[n], Absent}
  BY SyncedWorkFields
<1>2. \A n \in NS : NextAnywhere(n)' => NextAnywhere(n)
  BY <1>1 DEF NextAnywhere
<1>3. Numbered(fs)' /\ Numbered(dur)' /\ \A n \in NS : txn'[n].new <= gen'
  BY <1>1, Numbers DEF CommitInv, Numbered, Absent
<1>4. \A n \in NS : fs.journal[n] # NoRecord => txn'[n].new = txn[n].new
  OBVIOUS
<1>5. \A n \in NS : /\ Holds(fs, n)' <=> Holds(fs, n)
                    /\ Holds(dur, n)' <=> Holds(fs, n)
                    /\ Waiting(fs, n)' => Waiting(fs, n)
                    /\ Waiting(dur, n)' => Waiting(fs, n)
  BY <1>1, <1>2 DEF Holds, Waiting
<1>6. ASSUME NEW n \in NS, fs.journal[n] # NoRecord
      PROVE  /\ AtLeast(fs, txn[n].new) => AtLeast(fs, txn[n].new)' /\ AtLeast(dur, txn[n].new)'
             /\ AtMost(fs, txn[n].new) => AtMost(fs, txn[n].new)' /\ AtMost(dur, txn[n].new)'
  BY <1>1, <1>4, <1>5, <1>6 DEF AtLeast, AtMost
<1>7. Installed(fs)' /\ Installed(dur)'
  BY <1>1, <1>4, <1>5, <1>6 DEF CommitInv, Installed
<1>8. QED BY <1>3, <1>7 DEF CommitInv

(* An fsync of a stage makes durable an image that waits in it. *)
LEMMA CommitSyncedStage ==
  ASSUME TypeOK, CommitInv, NEW n \in NS, dur' = SyncedStage(n), UNCHANGED <<fs, gen, txn>>
  PROVE  CommitInv'
<1>1. /\ dur'.live = dur.live /\ dur'.backup = dur.backup
      /\ dur'.marker = dur.marker /\ dur'.journal = dur.journal
      /\ \A m \in NS : dur'.next[m] \in {dur.next[m], fs.next[m]}
  BY SyncedStageFields
<1>2. \A m \in NS : NextAnywhere(m)' => NextAnywhere(m)
  BY <1>1 DEF NextAnywhere
<1>3. \A m \in NS : Waiting(fs, m)' => Waiting(fs, m)
  BY <1>2 DEF Waiting
<1>4. \A m \in NS : Waiting(dur, m)' => Waiting(dur, m)
  BY <1>1, <1>2 DEF Waiting
<1>5. Installed(fs)'
  BY <1>1, <1>3 DEF CommitInv, Installed, AtLeast, AtMost, Holds
<1>6. Installed(dur)'
  BY <1>1, <1>4 DEF CommitInv, Installed, AtLeast, AtMost, Holds
<1>7. QED BY <1>1, <1>5, <1>6 DEF CommitInv, Numbered

(* A loss of power leaves one of the two directories, and an image that a     *)
(* journal speaks of is complete.                                             *)
LEMMA CommitPowerLoss ==
  ASSUME IInv, CommitInv, NEW W \in BOOLEAN, NEW K \in SUBSET NS,
         fs' = AfterPowerLoss(W, K), dur' = AfterPowerLoss(W, K), UNCHANGED <<gen, txn>>
  PROVE  CommitInv'
<1>1. PICK base : base = IF W THEN fs ELSE dur
  OBVIOUS
<1>2. TypeOK /\ JournalledComplete
  BY DEF IInv, DiskInv
<1>3. /\ fs'.live = base.live /\ fs'.backup = base.backup
      /\ fs'.marker = base.marker /\ fs'.journal = base.journal /\ dur' = fs'
      /\ \A n \in NS : /\ fs'.next[n] \in {fs.next[n], dur.next[n], Absent, Torn}
                       /\ fs'.next[n] = Torn => NextAnywhere(n)
                       /\ n \notin soft => fs'.next[n] \in {fs.next[n], dur.next[n], Absent}
  BY <1>1, <1>2, AfterPowerLossFields
<1>4. \A n \in NS : NextAnywhere(n)' => NextAnywhere(n)
  BY <1>3 DEF NextAnywhere
<1>5. \A n \in NS : base.journal[n] # NoRecord =>
        fs'.next[n] \in {fs.next[n], dur.next[n], Absent}
  BY <1>1, <1>2, <1>3 DEF JournalledComplete, Journalled
<1>6. Numbered(base) /\ Installed(base)
  BY <1>1 DEF CommitInv
<1>7. Numbered(fs)'
  BY <1>2, <1>3, <1>6, Numbers DEF CommitInv, Numbered, Absent, Torn
<1>8. \A n \in NS : /\ Holds(fs, n)' <=> Holds(base, n)
                    /\ Waiting(fs, n)' => Waiting(base, n)
  BY <1>3, <1>4 DEF Holds, Waiting
<1>9. \A n \in NS : /\ AtLeast(base, txn[n].new) => AtLeast(fs, txn[n].new)'
                    /\ AtMost(base, txn[n].new) => AtMost(fs, txn[n].new)'
  BY <1>3, <1>8 DEF AtLeast, AtMost
<1>10. Installed(fs)'
  BY <1>3, <1>5, <1>6, <1>8, <1>9 DEF Installed
<1>11. Numbered(dur)' /\ Installed(dur)'
  BY <1>3, <1>7, <1>10 DEF Numbered, Installed, AtLeast, AtMost, Waiting, Holds
<1>12. QED BY <1>7, <1>10, <1>11 DEF CommitInv

(* An image that is removed from a stage leaves the others. *)
LEMMA CommitNextGone ==
  ASSUME TypeOK, CommitInv, NEW n \in NS, fs' = [fs EXCEPT !.next[n] = Absent],
         UNCHANGED <<dur, gen, txn>>
  PROVE  CommitInv'
<1>1. /\ fs'.live = fs.live /\ fs'.backup = fs.backup
      /\ fs'.marker = fs.marker /\ fs'.journal = fs.journal
      /\ \A m \in NS : fs'.next[m] \in {fs.next[m], Absent}
  BY DEF TypeOK, FS
<1>2. \A m \in NS : NextAnywhere(m)' => NextAnywhere(m)
  BY <1>1 DEF NextAnywhere
<1>3. \A m \in NS : /\ Waiting(fs, m)' => Waiting(fs, m)
                    /\ Waiting(dur, m)' => Waiting(dur, m)
  BY <1>1, <1>2 DEF Waiting
<1>4. Installed(fs)'
  BY <1>1, <1>3 DEF CommitInv, Installed, AtLeast, AtMost, Holds
<1>5. Installed(dur)'
  BY <1>1, <1>3 DEF CommitInv, Installed, AtLeast, AtMost, Holds
<1>6. QED BY <1>1, <1>4, <1>5, Numbers DEF CommitInv, Numbered, Absent

(* A new image in a stage without a record is the newest one. *)
LEMMA CommitNextMade ==
  ASSUME TypeOK, CommitInv, NEW n \in NS, NEW i \in Int, fs' = [fs EXCEPT !.next[n] = i],
         ~HasRecord(fs, n), ~HasRecord(dur, n), gen' \in Int, gen <= gen', i <= gen',
         UNCHANGED <<dur, txn>>
  PROVE  CommitInv'
<1>1. /\ fs'.live = fs.live /\ fs'.backup = fs.backup
      /\ fs'.marker = fs.marker /\ fs'.journal = fs.journal
      /\ fs'.next[n] = i /\ \A m \in NS \ {n} : fs'.next[m] = fs.next[m]
  BY DEF TypeOK, FS
<1>2. Numbered(fs)' /\ Numbered(dur)' /\ \A m \in NS : txn'[m].new <= gen'
  BY <1>1, Numbers DEF CommitInv, Numbered
<1>3. fs.journal[n] = NoRecord /\ dur.journal[n] = NoRecord
  BY DEF HasRecord
<1>4. \A m \in NS \ {n} : NextAnywhere(m)' <=> NextAnywhere(m)
  BY <1>1 DEF NextAnywhere
<1>5. Installed(fs)'
  BY <1>1, <1>3, <1>4 DEF CommitInv, Installed, AtLeast, AtMost, Waiting, Holds
<1>6. Installed(dur)'
  BY <1>1, <1>3, <1>4 DEF CommitInv, Installed, AtLeast, AtMost, Waiting, Holds
<1>7. QED BY <1>2, <1>5, <1>6 DEF CommitInv

(* The first rename of the swap: the disk becomes the backup, and no other      *)
(* backup can be taken for it.                                                 *)
LEMMA SwapOutCommits == ASSUME InstallInv, SwapOut PROVE CommitInv'
<1>1. TypeOK /\ ClaimInv /\ CommitInv
  BY DEF InstallInv, FullInv, IInv
<1>2. PICK c \in NS : c = op.cur
  BY <1>1, Fields
<1>3. /\ fs' = [fs EXCEPT !.live = Absent, !.backup[c] = fs.live]
      /\ UNCHANGED <<dur, gen, txn>> /\ c \in NS
  BY <1>2 DEF SwapOut, Goto, history
<1>4. /\ fs.live # Absent /\ fs.journal[c] # NoRecord /\ fs.marker[c] = NoRecord
      /\ fs.backup[c] = Absent /\ NextAnywhere(c)
  BY <1>2, Images
  DEF SwapOut, InstallInv, FullInv, IInv, OpInv, SwapKnows, SwapHolds, NextAnywhere
<1>5. \A n \in NS : Claims(fs, n) => n = c
  BY <1>1, <1>3, <1>4 DEF ClaimInv, SoleClaim, Claims, Armed
<1>6. /\ fs'.live = Absent /\ fs'.marker = fs.marker /\ fs'.journal = fs.journal
      /\ fs'.next = fs.next /\ fs'.backup[c] = fs.live
      /\ \A n \in NS \ {c} : fs'.backup[n] = fs.backup[n]
  BY <1>1, <1>3, Fields DEF FS
<1>7. \A n \in NS : Holds(fs, n)' => n = c
  BY <1>5, <1>6 DEF Holds, Claims
<1>8. \A n \in NS : Waiting(fs, n)' /\ fs.journal[n] # NoRecord => n = c
  BY <1>3, <1>5, <1>6 DEF Waiting, Claims, Armed, Holds, NextAnywhere
<1>9. \A n \in NS : AtLeast(fs, txn[n].new) => AtLeast(fs, txn[n].new)'
  <2>1. ASSUME NEW v, AtLeast(fs, v), NEW m \in NS, Holds(fs, m)'
        PROVE  fs'.backup[m] >= v
    <3>1. m = c
      BY <1>7, <2>1
    <3>2. fs.live >= v
      BY <1>4, <2>1 DEF AtLeast
    <3>3. QED BY <1>6, <3>1, <3>2
  <2>2. QED BY <1>3, <1>6, <2>1 DEF AtLeast
<1>10. /\ AtMost(fs, txn[c].new)' /\ fs.next[c] \in {Absent, txn[c].new}
      /\ dur.next[c] \in {Absent, txn[c].new}
  <2>1. Waiting(fs, c)
    BY <1>4 DEF Waiting
  <2>2. /\ fs.live <= txn[c].new /\ fs.next[c] \in {Absent, txn[c].new}
        /\ dur.next[c] \in {Absent, txn[c].new}
    BY <1>1, <1>3, <1>4, <2>1 DEF CommitInv, Installed, AtMost
  <2>3. ASSUME NEW m \in NS, Holds(fs, m)' PROVE fs'.backup[m] <= txn'[c].new
    BY <1>3, <1>6, <1>7, <2>2, <2>3
  <2>4. QED BY <1>6, <2>2, <2>3 DEF AtMost
<1>11. Installed(fs)'
  <2>1. ASSUME NEW n \in NS, fs'.journal[n] # NoRecord, fs'.marker[n] # NoRecord
        PROVE  AtLeast(fs, txn[n].new)'
    BY <1>1, <1>6, <1>9, <2>1 DEF CommitInv, Installed
  <2>2. ASSUME NEW n \in NS, fs'.journal[n] # NoRecord, Waiting(fs, n)'
        PROVE  n = c
    BY <1>6, <1>8, <2>2
  <2>3. QED BY <1>3, <1>6, <1>10, <2>1, <2>2 DEF Installed
<1>12. Installed(dur)'
  BY <1>1, <1>3, <1>6 DEF CommitInv, Installed, AtLeast, AtMost, Waiting, Holds, NextAnywhere
<1>13. Numbered(fs)' /\ Numbered(dur)'
  BY <1>1, <1>3, <1>6, Numbers DEF CommitInv, Numbered, Absent
<1>14. QED BY <1>1, <1>3, <1>11, <1>12, <1>13 DEF CommitInv

(* The second one: the image that waited is the one the journal speaks of, and *)
(* at least as new as the disk.                                                *)
LEMMA SwapInCommits == ASSUME InstallInv, SwapIn PROVE CommitInv'
<1>1. TypeOK /\ ClaimInv /\ CommitInv
  BY DEF InstallInv, FullInv, IInv
<1> DEFINE c == op.cur
<1>2. /\ fs' = [fs EXCEPT !.live = fs.next[c], !.next[c] = Absent]
      /\ UNCHANGED <<dur, gen, txn>> /\ c \in NS
  BY <1>1, Fields DEF SwapIn, Goto, history
<1>3. /\ fs.live = Absent /\ fs.journal[c] # NoRecord /\ fs.marker[c] = NoRecord
      /\ fs.backup[c] # Absent /\ fs.next[c] # Absent
  BY Images DEF SwapIn, InstallInv, FullInv, IInv, OpInv, SwapKnows, SwapHolds
<1> HIDE DEF c
<1>4. Holds(fs, c) /\ Waiting(fs, c)
  BY <1>3 DEF Holds, Waiting, NextAnywhere
<1>5. \A n \in NS : Claims(fs, n) => n = c
  BY <1>1, <1>2, <1>4 DEF ClaimInv, SoleClaim, Claims
<1>6. /\ fs'.live = fs.next[c] /\ fs'.marker = fs.marker /\ fs'.journal = fs.journal
      /\ fs'.backup = fs.backup /\ fs'.next[c] = Absent
      /\ \A n \in NS \ {c} : fs'.next[n] = fs.next[n]
  BY <1>1, <1>2, Fields DEF FS
<1>7. fs.next[c] = txn[c].new /\ fs.backup[c] <= txn[c].new
  BY <1>1, <1>2, <1>3, <1>4 DEF CommitInv, Installed, AtMost
<1>8. \A n \in NS : NextAnywhere(n)' => NextAnywhere(n)
  BY <1>2, <1>3, <1>6 DEF NextAnywhere
<1>9. \A n \in NS : fs.journal[n] # NoRecord => ~Waiting(fs, n)'
  BY <1>3, <1>5, <1>6, <1>8 DEF Waiting, Claims, Armed
<1>10. \A n \in NS : AtLeast(fs, txn[n].new) => AtLeast(fs, txn[n].new)'
  BY <1>1, <1>2, <1>3, <1>4, <1>6, <1>7, Numbers DEF AtLeast
<1>11. \A n \in NS : Holds(fs, n)' => n = c
  BY <1>5, <1>6 DEF Holds, Claims
<1>12. Installed(fs)'
  BY <1>1, <1>2, <1>6, <1>7, <1>9, <1>10, <1>11, Numbers DEF CommitInv, Installed
<1>13. \A n \in NS : Waiting(dur, n)' => Waiting(dur, n)
  BY <1>2, <1>8 DEF Waiting
<1>14. Installed(dur)'
  BY <1>1, <1>2, <1>6, <1>13 DEF CommitInv, Installed, AtLeast, AtMost, Holds
<1>15. Numbered(fs)' /\ Numbered(dur)'
  BY <1>1, <1>2, <1>6, Numbers DEF CommitInv, Numbered, Absent
<1>16. QED BY <1>1, <1>2, <1>12, <1>14, <1>15 DEF CommitInv

(* The rollback: the backup becomes the disk again, and no image waits.        *)
LEMMA RestoreBackupCommits == ASSUME InstallInv, RestoreBackup PROVE CommitInv'
<1>1. TypeOK /\ ClaimInv /\ CommitInv
  BY DEF InstallInv, FullInv, IInv
<1> DEFINE c == op.cur
<1>2. /\ fs' = [fs EXCEPT !.live = fs.backup[c], !.backup[c] = Absent]
      /\ UNCHANGED <<dur, gen, txn>> /\ c \in NS
  BY <1>1, Fields DEF RestoreBackup, Goto, history
<1>3. /\ fs.live = Absent /\ fs.marker[c] = NoRecord /\ fs.backup[c] # Absent
      /\ ~NextAnywhere(c)
  BY Images DEF RestoreBackup, InstallInv, FullInv, IInv, OpInv, SwapKnows, SwapHolds,
     NextAnywhere
<1> HIDE DEF c
<1>4. Holds(fs, c)
  BY <1>3 DEF Holds
<1>5. \A n \in NS : Claims(fs, n) => n = c
  BY <1>1, <1>2, <1>4 DEF ClaimInv, SoleClaim, Claims
<1>6. /\ fs'.live = fs.backup[c] /\ fs'.marker = fs.marker /\ fs'.journal = fs.journal
      /\ fs'.next = fs.next /\ fs'.backup[c] = Absent
      /\ \A n \in NS \ {c} : fs'.backup[n] = fs.backup[n]
  BY <1>1, <1>2, Fields DEF FS
<1>7. \A n \in NS : NextAnywhere(n)' <=> NextAnywhere(n)
  BY <1>2, <1>6 DEF NextAnywhere
<1>8. \A n \in NS : fs.journal[n] # NoRecord => ~Waiting(fs, n)'
  BY <1>3, <1>5, <1>6, <1>7 DEF Waiting, Claims, Armed, Holds
<1>9. \A n \in NS : ~Holds(fs, n)'
  BY <1>5, <1>6 DEF Holds, Claims
<1>10. \A n \in NS : AtLeast(fs, txn[n].new) => AtLeast(fs, txn[n].new)'
  BY <1>2, <1>3, <1>4, <1>6 DEF AtLeast
<1>11. Installed(fs)'
  BY <1>1, <1>2, <1>6, <1>8, <1>9, <1>10 DEF CommitInv, Installed
<1>12. Installed(dur)'
  BY <1>1, <1>2, <1>6 DEF CommitInv, Installed, AtLeast, AtMost, Waiting, Holds, NextAnywhere
<1>13. Numbered(fs)' /\ Numbered(dur)'
  BY <1>1, <1>2, <1>6, Numbers DEF CommitInv, Numbered, Absent
<1>14. QED BY <1>1, <1>2, <1>11, <1>12, <1>13 DEF CommitInv

(* The commit record: the disk has been the new image since the swap.          *)
LEMMA MarkRenameCommits == ASSUME InstallInv, MarkRename PROVE CommitInv'
<1>1. TypeOK /\ CommitInv
  BY DEF InstallInv, FullInv, IInv
<1> DEFINE c == op.cur
<1>2. /\ fs' = [fs EXCEPT !.tmp[c] = FALSE, !.marker[c] = fs.journal[c]]
      /\ UNCHANGED <<dur, gen, txn>> /\ c \in NS
  BY <1>1, Fields DEF MarkRename, Goto, history
<1>3. /\ fs.live # Absent /\ fs.journal[c] # NoRecord /\ Holds(fs, c)
  BY Images DEF MarkRename, InstallInv, FullInv, IInv, OpInv, SwapKnows, SwapHolds, Holds
<1> HIDE DEF c
<1>4. /\ fs'.live = fs.live /\ fs'.backup = fs.backup /\ fs'.journal = fs.journal
      /\ fs'.next = fs.next /\ fs'.marker[c] # NoRecord
      /\ \A n \in NS \ {c} : fs'.marker[n] = fs.marker[n]
  BY <1>1, <1>2, <1>3, Fields DEF FS
<1>5. \A n \in NS : /\ Holds(fs, n)' => Holds(fs, n)
                    /\ Waiting(fs, n)' => Waiting(fs, n) /\ n # c
  BY <1>2, <1>4 DEF Holds, Waiting, NextAnywhere
<1>6. \A n \in NS : /\ AtLeast(fs, txn[n].new)' <=> fs.live >= txn[n].new
                    /\ AtLeast(fs, txn[n].new) <=> fs.live >= txn[n].new
                    /\ AtMost(fs, txn[n].new)' <=> AtMost(fs, txn[n].new)
  BY <1>2, <1>3, <1>4 DEF AtLeast, AtMost
<1>7. fs.live >= txn[c].new
  BY <1>1, <1>2, <1>3 DEF CommitInv, Installed
<1>8. Installed(fs)'
  BY <1>1, <1>2, <1>4, <1>5, <1>6, <1>7 DEF CommitInv, Installed
<1>9. Installed(dur)'
  BY <1>1, <1>2, <1>4 DEF CommitInv, Installed, AtLeast, AtMost, Waiting, Holds, NextAnywhere
<1>10. QED BY <1>1, <1>2, <1>4, <1>8, <1>9 DEF CommitInv, Numbered

(* Every call of the recovery keeps the commit records honest. *)
LEMMA RecoveryCommits == ASSUME InstallInv, Recovery PROVE CommitInv'
<1>1. TypeOK /\ CommitInv /\ CleanupKnows /\ SwapKnows
  BY DEF InstallInv, FullInv, IInv, OpInv
<1>2. CASE UNCHANGED <<disk, gen, txn>>
  BY <1>1, <1>2, CommitInert DEF disk
<1>3. CASE SwapOut \/ SwapIn \/ RestoreBackup \/ MarkRename
  BY <1>3, SwapOutCommits, SwapInCommits, RestoreBackupCommits, MarkRenameCommits
<1>4. CASE dur' = SyncedWork /\ UNCHANGED <<fs, gen, txn>>
  BY <1>1, <1>4, CommitSyncedWork
<1>5. CASE SwapInStage
  BY <1>1, <1>5, CommitSyncedStage, Fields DEF SwapInStage, Goto, history
<1>6. CASE InvalidateResume \/ MarkTmp \/ RemoveTmp \/ RemoveStage
  <2>1. /\ UNCHANGED <<dur, gen, txn>>
        /\ fs'.live = fs.live /\ fs'.backup = fs.backup /\ fs'.marker = fs.marker
        /\ fs'.journal = fs.journal /\ fs'.next = fs.next
    BY <1>1, <1>6, Fields
    DEF InvalidateResume, MarkTmp, RemoveTmp, RemoveStage, Goto, history, FS
  <2>2. QED BY <1>1, <2>1, CommitInert
<1>7. CASE RemoveBackup
  <2>1. /\ fs' = [fs EXCEPT !.backup[op.cur] = Absent] /\ UNCHANGED <<dur, gen, txn>>
        /\ fs.marker[op.cur] # NoRecord
    BY <1>1, <1>7 DEF RemoveBackup, Goto, history, SwapKnows
  <2>2. PICK c \in NS : c = op.cur
    BY <1>1, Fields
  <2>3. /\ fs'.live = fs.live /\ fs'.marker = fs.marker /\ fs'.journal = fs.journal
        /\ fs'.next = fs.next /\ fs'.backup[c] = Absent
        /\ \A n \in NS \ {c} : fs'.backup[n] = fs.backup[n]
    BY <1>1, <2>1, <2>2, Fields DEF FS
  <2>4. \A n \in NS : /\ Holds(fs, n)' <=> Holds(fs, n)
                      /\ Waiting(fs, n)' => Waiting(fs, n)
    BY <2>1, <2>2, <2>3 DEF Holds, Waiting, NextAnywhere
  <2>5. \A n \in NS : Holds(fs, n) => fs'.backup[n] = fs.backup[n]
    BY <2>1, <2>2, <2>3 DEF Holds
  <2>6. \A n \in NS : /\ AtLeast(fs, txn[n].new)' <=> AtLeast(fs, txn[n].new)
                      /\ AtMost(fs, txn[n].new)' <=> AtMost(fs, txn[n].new)
    BY <2>1, <2>3, <2>4, <2>5 DEF AtLeast, AtMost
  <2>7. Installed(fs)'
    BY <1>1, <2>1, <2>3, <2>4, <2>6 DEF CommitInv, Installed
  <2>8. Installed(dur)'
    BY <1>1, <2>1, <2>3 DEF CommitInv, Installed, AtLeast, AtMost, Waiting, Holds, NextAnywhere
  <2>9. Numbered(fs)' /\ Numbered(dur)'
    BY <1>1, <2>1, <2>3, Numbers DEF CommitInv, Numbered, Absent
  <2>10. QED BY <1>1, <2>1, <2>7, <2>8, <2>9 DEF CommitInv
<1>8. CASE RemoveJournal
  <2>1. /\ UNCHANGED <<dur, gen, txn>>
        /\ fs'.live = fs.live /\ fs'.backup = fs.backup /\ fs'.marker = fs.marker
        /\ fs'.next = fs.next /\ \A n \in NS : fs'.journal[n] \in {fs.journal[n], NoRecord}
    BY <1>1, <1>8, Fields DEF RemoveJournal, Goto, history, FS
  <2>2. QED
    BY <1>1, <2>1
    DEF CommitInv, Numbered, Installed, AtLeast, AtMost, Waiting, Holds, NextAnywhere
<1>9. CASE RemoveNext
  BY <1>1, <1>9, CommitNextGone, Fields DEF RemoveNext, Goto, history
<1>10. CASE RemoveSync
  <2>1. /\ dur' = SyncedWork /\ UNCHANGED <<fs, gen>>
        /\ txn' = IF fs.journal[op.cur] = NoRecord
                  THEN [txn EXCEPT ![op.cur] = NoTxn] ELSE txn
    BY <1>10 DEF RemoveSync
  <2>2. \A n \in NS : \/ txn'[n].new = txn[n].new
                      \/ txn'[n].new = Absent /\ fs.journal[n] = NoRecord
    BY <1>1, <2>1 DEF TypeOK, NoTxn
  <2>3. QED BY <1>1, <2>1, <2>2, CommitSyncedWork
<1>11. CASE RemoveMarker
  <2>1. /\ fs' = [fs EXCEPT !.marker[op.cur] = NoRecord] /\ UNCHANGED <<dur, gen, txn>>
        /\ fs.backup[op.cur] = Absent /\ fs.journal[op.cur] = NoRecord
    BY <1>1, <1>11 DEF RemoveMarker, Goto, history, CleanupKnows
  <2>2. PICK c \in NS : c = op.cur
    BY <1>1, Fields
  <2>3. /\ fs'.live = fs.live /\ fs'.backup = fs.backup /\ fs'.journal = fs.journal
        /\ fs'.next = fs.next
        /\ \A n \in NS \ {c} : fs'.marker[n] = fs.marker[n]
    BY <1>1, <2>1, <2>2, Fields DEF FS
  <2>4. \A n \in NS : /\ Holds(fs, n)' <=> Holds(fs, n)
                      /\ fs.journal[n] # NoRecord => (Waiting(fs, n)' => Waiting(fs, n))
    BY <2>1, <2>2, <2>3 DEF Holds, Waiting, NextAnywhere
  <2>5. \A n \in NS : /\ AtLeast(fs, txn[n].new)' <=> AtLeast(fs, txn[n].new)
                      /\ AtMost(fs, txn[n].new)' <=> AtMost(fs, txn[n].new)
    BY <2>1, <2>3, <2>4 DEF AtLeast, AtMost
  <2>6. Installed(fs)'
    BY <1>1, <2>1, <2>2, <2>3, <2>4, <2>5 DEF CommitInv, Installed
  <2>7. Installed(dur)'
    BY <1>1, <2>1, <2>3 DEF CommitInv, Installed, AtLeast, AtMost, Waiting, Holds, NextAnywhere
  <2>8. QED BY <1>1, <2>1, <2>3, <2>6, <2>7 DEF CommitInv, Numbered
<1>12. ASSUME NEW n, NEW p, NEW r, NEW c, RecoverAt(n, p, r, c) PROVE UNCHANGED <<gen, txn>>
  BY <1>12 DEF RecoverAt, history
<1>13. CASE RecoverFor
  <2>1. UNCHANGED disk
    BY <1>13 DEF RecoverFor
  <2>2. UNCHANGED <<gen, txn>>
    BY <1>12, <1>13
    DEF RecoverFor, RecoverCommitted, RecoverJournal, RecoverOrphan, Return, history
  <2>3. QED BY <1>2, <2>1, <2>2
<1>14. CASE MaintenanceRecover \/ RecoveryOver \/ Continue
  <2>1. UNCHANGED disk /\ UNCHANGED <<gen, txn>>
    BY <1>14 DEF MaintenanceRecover, RecoveryOver, Continue, Goto, Return, history
  <2>2. QED BY <1>2, <2>1
<1>15. CASE SwapOutSync \/ SwapInWork \/ InvalidateResumeSync \/ MarkSync \/ RemoveMarkerSync
            \/ RestoreSync
  BY <1>4, <1>15
  DEF SwapOutSync, SwapInWork, InvalidateResumeSync, MarkSync, RemoveMarkerSync, RestoreSync,
      Goto, history
<1>16. QED
  BY <1>3, <1>5, <1>6, <1>7, <1>8, <1>9, <1>10, <1>11, <1>13, <1>14, <1>15 DEF Recovery

(* The rename of the journal opens a transaction: the image it speaks of is    *)
(* at least as new as the disk, and the only one in its stage.                 *)
LEMMA JournalRenameCommits == ASSUME InstallInv, JournalRename PROVE CommitInv'
<1>1. TypeOK /\ CommitInv /\ StageHolds /\ ImageInv
  BY DEF InstallInv, FullInv, IInv
<1>2. PICK c \in NS : c = op.cur
  BY <1>1, Fields
<1>3. /\ fs' = [fs EXCEPT !.tmp[c] = FALSE, !.journal[c] = op.dig]
      /\ txn' = [txn EXCEPT ![c] = [old |-> fs.live, new |-> fs.next[c]]]
      /\ UNCHANGED <<dur, gen>>
  BY <1>2 DEF JournalRename
<1>4. /\ fs.live # Absent /\ ~HasRecord(fs, c) /\ ~HasRecord(dur, c)
      /\ fs.live <= fs.next[c] /\ dur.next[c] = fs.next[c]
  BY <1>1, <1>2 DEF JournalRename, StageHolds, ImageInv, Made, Journalling
<1>5. /\ fs'.live = fs.live /\ fs'.backup = fs.backup /\ fs'.marker = fs.marker
      /\ fs'.next = fs.next
      /\ \A n \in NS \ {c} : fs'.journal[n] = fs.journal[n] /\ txn'[n] = txn[n]
      /\ txn'[c].new = fs.next[c]
  BY <1>1, <1>3, Fields DEF FS, TypeOK
<1>6. \A n \in NS : txn'[n].new <= gen'
  BY <1>1, <1>3, <1>5 DEF CommitInv, Numbered
<1>7. ASSUME NEW n \in NS \ {c}, fs'.journal[n] # NoRecord
      PROVE  /\ fs'.marker[n] # NoRecord => AtLeast(fs, txn[n].new)'
             /\ Holds(fs, n)' /\ fs'.live # Absent => fs'.live >= txn'[n].new
             /\ Waiting(fs, n)' => /\ AtMost(fs, txn[n].new)'
                                   /\ fs'.next[n] \in {Absent, txn'[n].new}
                                   /\ dur'.next[n] \in {Absent, txn'[n].new}
  BY <1>1, <1>3, <1>5, <1>7
  DEF CommitInv, Installed, AtLeast, AtMost, Waiting, Holds, NextAnywhere
<1>8. /\ fs'.marker[c] = NoRecord /\ ~Holds(fs, c)' /\ AtMost(fs, fs.next[c])'
      /\ fs'.next[c] = txn'[c].new /\ dur'.next[c] = txn'[c].new
  BY <1>3, <1>4, <1>5 DEF HasRecord, Holds, AtMost
<1>9. Installed(fs)'
  <2>1. AtMost(fs, txn[c].new)'
    BY <1>4, <1>5 DEF AtMost
  <2>2. QED BY <1>7, <1>8, <2>1 DEF Installed
<1>10. Installed(dur)'
  BY <1>1, <1>3, <1>4, <1>5
  DEF HasRecord, CommitInv, Installed, AtLeast, AtMost, Waiting, Holds, NextAnywhere
<1>11. QED BY <1>1, <1>3, <1>5, <1>6, <1>9, <1>10 DEF CommitInv, Numbered

(* Every call of a replacement keeps the commit records honest. *)
LEMMA ReplacementCommits == ASSUME InstallInv, Replacement PROVE CommitInv'
<1>1. TypeOK /\ CommitInv /\ StageHolds
  BY DEF InstallInv, FullInv, IInv
<1>2. CASE UNCHANGED <<fs, dur>> /\ UNCHANGED <<gen, txn>>
  BY <1>1, <1>2, CommitInert
<1>3. CASE dur' = SyncedWork /\ UNCHANGED <<fs, gen, txn>>
  BY <1>1, <1>3, CommitSyncedWork
<1>4. CASE dur' = SyncedStage(op.cur) /\ UNCHANGED <<fs, gen, txn>>
  BY <1>1, <1>4, CommitSyncedStage, Fields
<1>5. CASE GateReplace \/ StageTmp \/ StageRmdir \/ StageMkdir \/ BuildTmp \/ BuildUnlink
           \/ BuildRefuse \/ DiscardRmdir \/ JournalTmp \/ ConfirmTmp
  <2>1. UNCHANGED <<dur, gen, txn>>
    BY <1>5
    DEF GateReplace, StageTmp, StageRmdir, StageMkdir, BuildTmp, BuildUnlink, BuildRefuse,
        DiscardRmdir, JournalTmp, ConfirmTmp, Goto, Return, history
  <2>2. /\ fs'.live = fs.live /\ fs'.backup = fs.backup /\ fs'.marker = fs.marker
        /\ fs'.journal = fs.journal /\ fs'.next = fs.next
    BY <1>1, <1>5, Fields
    DEF GateReplace, GateResume, Disarmed, StageTmp, StageRmdir, StageMkdir, BuildTmp,
        BuildUnlink, BuildRefuse, DiscardRmdir, JournalTmp, ConfirmTmp, FS
  <2>3. QED BY <1>1, <2>1, <2>2, CommitInert
<1>6. CASE StageNext \/ DiscardNext \/ CopyFails
  BY <1>1, <1>6, CommitNextGone, Fields DEF StageNext, DiscardNext, CopyFails, Goto, history
<1>7. CASE CopyBegin
  <2>1. CASE CopyAllowed(op.cur)
    <3>1. /\ fs' = [fs EXCEPT !.next[op.cur] = Torn] /\ UNCHANGED <<dur, gen, txn>>
          /\ ~HasRecord(fs, op.cur) /\ ~HasRecord(dur, op.cur)
      BY <1>1, <1>7, <2>1 DEF CopyBegin, Goto, history, StageHolds, Fresh
    <3>2. Torn \in Int /\ Torn <= gen
      BY <1>1, Numbers DEF Torn
    <3>3. QED BY <1>1, <3>1, <3>2, CommitNextMade, Fields, Numbers
  <2>2. CASE ~CopyAllowed(op.cur)
    BY <1>2, <1>7, <2>2 DEF CopyBegin, history
  <2>3. QED BY <2>1, <2>2
<1>8. CASE BuildLink \/ CopyEnd
  <2>1. /\ fs' = [fs EXCEPT !.next[op.cur] = gen + 1] /\ gen' = gen + 1
        /\ UNCHANGED <<dur, txn>>
        /\ ~HasRecord(fs, op.cur) /\ ~HasRecord(dur, op.cur)
    BY <1>1, <1>8 DEF BuildLink, CopyEnd, NextImage, StageHolds, Fresh
  <2>2. gen + 1 \in Int /\ gen <= gen + 1
    BY <1>1, Numbers
  <2>3. QED BY <1>1, <2>1, <2>2, CommitNextMade, Fields
<1>9. CASE JournalRename
  BY <1>9, JournalRenameCommits
<1>10. CASE ConfirmRename
  <2>1. /\ fs' = [fs EXCEPT !.tmp[op.cur] = FALSE, !.marker[op.cur] = op.dig]
        /\ UNCHANGED <<dur, gen, txn>>
        /\ fs.journal[op.cur] = NoRecord /\ fs.backup[op.cur] = Absent
    BY <1>1, <1>10 DEF ConfirmRename, Goto, history, StageHolds
  <2>2. PICK c \in NS : c = op.cur
    BY <1>1, Fields
  <2>3. /\ fs'.live = fs.live /\ fs'.backup = fs.backup /\ fs'.journal = fs.journal
        /\ fs'.next = fs.next
        /\ \A n \in NS \ {c} : fs'.marker[n] = fs.marker[n]
    BY <1>1, <2>1, <2>2, Fields DEF FS
  <2>4. \A n \in NS : /\ Holds(fs, n)' <=> Holds(fs, n)
                      /\ fs.journal[n] # NoRecord => (Waiting(fs, n)' => Waiting(fs, n))
    BY <2>1, <2>2, <2>3 DEF Holds, Waiting, NextAnywhere
  <2>5. \A n \in NS : /\ AtLeast(fs, txn[n].new)' <=> AtLeast(fs, txn[n].new)
                      /\ AtMost(fs, txn[n].new)' <=> AtMost(fs, txn[n].new)
    BY <2>1, <2>3, <2>4 DEF AtLeast, AtMost
  <2>6. Installed(fs)'
    BY <1>1, <2>1, <2>2, <2>3, <2>4, <2>5 DEF CommitInv, Installed
  <2>7. Installed(dur)'
    BY <1>1, <2>1, <2>3 DEF CommitInv, Installed, AtLeast, AtMost, Waiting, Holds, NextAnywhere
  <2>8. QED BY <1>1, <2>1, <2>3, <2>6, <2>7 DEF CommitInv, Numbered
<1>11. CASE GateConfirm \/ GateRefuse \/ BeginRepair \/ SkipRepair \/ Prepare \/ PrepareStage
            \/ Construct \/ RepairClone \/ Discard \/ Discarded
  <2>1. UNCHANGED <<fs, dur>>
    BY <1>11
    DEF GateConfirm, GateRefuse, BeginRepair, SkipRepair, Prepare, PrepareStage, Construct,
        RepairClone, Discard, Discarded, disk
  <2>2. UNCHANGED <<gen, txn>>
    BY <1>11
    DEF GateConfirm, GateRefuse, BeginRepair, SkipRepair, Prepare, PrepareStage, Construct,
        RepairClone, Discard, Discarded, Goto, Return, history
  <2>3. QED BY <1>2, <2>1, <2>2
<1>12. CASE Publish \/ FsyncNext \/ Published \/ Repaired \/ Confirm
            \/ (\E m \in Permanent : ConfirmNext(m))
  <2>1. UNCHANGED <<fs, dur>>
    BY <1>12 DEF Publish, FsyncNext, Published, Repaired, Confirm, ConfirmNext, disk
  <2>2. UNCHANGED <<gen, txn>>
    BY <1>12 DEF Publish, FsyncNext, Published, Repaired, Confirm, ConfirmNext, Goto, Return,
       history
  <2>3. QED BY <1>2, <2>1, <2>2
<1>13. CASE StageSync \/ DiscardSync \/ JournalSync \/ ConfirmSync
  BY <1>3, <1>13 DEF StageSync, DiscardSync, JournalSync, ConfirmSync, Goto, history
<1>14. CASE BuildSync \/ BuildDone \/ CopySync
  BY <1>4, <1>14 DEF BuildSync, BuildDone, CopySync, Goto, history
<1>15. QED
  BY <1>5, <1>6, <1>7, <1>8, <1>9, <1>10, <1>11, <1>12, <1>13, <1>14 DEF Replacement

(* The guest writes when nobody else claims the disk, so that what it writes   *)
(* is newer than any image a transaction installed.                            *)
LEMMA GuestWriteCommits == ASSUME InstallInv, GuestWrite PROVE CommitInv'
<1>1. TypeOK /\ CommitInv /\ ClaimInv /\ SettleInv /\ FullInv
  BY DEF InstallInv, FullInv, IInv
<1>2. /\ fs' = [fs EXCEPT !.live = gen + 1] /\ gen' = gen + 1 /\ UNCHANGED txn
      /\ dur' = IF dur.live = fs.live THEN [dur EXCEPT !.live = gen + 1] ELSE dur
  BY DEF GuestWrite
<1>3. \A n \in NS : ~Claims(fs, n)
  BY <1>1, NobodyClaims DEF GuestWrite, SettleInv, Settled, Swapping
<1>4. fs.live # Absent
  BY <1>1, <1>3, Images DEF IInv, FullInv, DiskInv, Keeps, Claims, Holds
<1>5. \A n \in NS : ~Armed(dur, n)
  BY <1>1, <1>3 DEF ClaimInv
<1>6. /\ fs'.live = gen + 1 /\ fs'.backup = fs.backup /\ fs'.marker = fs.marker
      /\ fs'.journal = fs.journal /\ fs'.next = fs.next
      /\ dur'.backup = dur.backup /\ dur'.marker = dur.marker
      /\ dur'.journal = dur.journal /\ dur'.next = dur.next
      /\ dur'.live = dur.live \/ (dur.live # Absent /\ dur'.live = gen + 1)
  BY <1>1, <1>2, <1>4, Fields DEF FS
<1>7. gen + 1 # Absent /\ \A n \in NS : gen + 1 >= txn[n].new
  BY <1>1, Numbers DEF CommitInv, Absent
<1>8. Numbered(fs)' /\ Numbered(dur)' /\ \A n \in NS : txn'[n].new <= gen'
  BY <1>1, <1>2, <1>6, Numbers DEF CommitInv, Numbered
<1>9. Installed(fs)'
  <2>1. \A n \in NS : AtLeast(fs, txn[n].new)'
    BY <1>2, <1>6, <1>7 DEF AtLeast
  <2>2. \A n \in NS : fs.journal[n] # NoRecord => ~Waiting(fs, n)'
    BY <1>2, <1>3, <1>6 DEF Waiting, Claims, Armed, Holds, NextAnywhere
  <2>3. QED BY <1>2, <1>6, <1>7, <2>1, <2>2 DEF Installed
<1>10. Installed(dur)'
  <2>1. CASE dur'.live = dur.live
    BY <1>1, <1>2, <1>6, <2>1
    DEF CommitInv, Installed, AtLeast, AtMost, Waiting, Holds, NextAnywhere
  <2>2. CASE dur.live # Absent /\ dur'.live = gen + 1
    <3>1. \A n \in NS : AtLeast(dur, txn[n].new)'
      BY <1>2, <1>7, <2>2 DEF AtLeast
    <3>2. \A n \in NS : dur.journal[n] # NoRecord => ~Waiting(dur, n)'
      BY <1>5, <1>6, <1>7, <2>2 DEF Waiting, Armed, NextAnywhere
    <3>3. QED BY <1>2, <1>6, <1>7, <2>2, <3>1, <3>2 DEF Installed
  <2>3. QED BY <1>6, <2>1, <2>2
<1>11. QED BY <1>8, <1>9, <1>10 DEF CommitInv

(* The callers, the guest and the faults keep the commit records honest. *)
LEMMA EnvironmentCommits == ASSUME InstallInv, Environment PROVE CommitInv'
<1>1. TypeOK /\ CommitInv /\ IInv
  BY DEF InstallInv, FullInv, IInv
<1>2. CASE UNCHANGED <<fs, dur, gen, txn>>
  BY <1>1, <1>2, CommitInert
<1>3. ASSUME NEW n \in NS, BeginBuild(n) PROVE CommitInv'
  BY <1>1, <1>3, CommitInert, Fields DEF BeginBuild, Begin, history, Disarmed, FS
<1>4. ASSUME NEW n \in NS, BeginApp(n) PROVE CommitInv'
  BY <1>2, <1>4 DEF BeginApp, Begin, history, disk
<1>5. CASE GuestWrite
  BY <1>5, GuestWriteCommits
<1>6. CASE Suspend
  BY <1>1, <1>6, CommitInert, Fields DEF Suspend, Return, history, FS
<1>7. CASE IoFailure
  BY <1>1, <1>7, CommitInert, Fields DEF IoFailure, Fault, FS
<1>8. CASE Stop \/ CleanupFailure \/ Kill
  BY <1>2, <1>8 DEF Stop, Return, history, CleanupFailure, Kill, Fault, disk
<1>9. CASE PowerLoss
  BY <1>1, <1>9, CommitPowerLoss DEF PowerLoss, Fault
<1>10. ASSUME NEW n \in NS, LoseStage(n) PROVE CommitInv'
  <2>1. /\ fs' = [fs EXCEPT !.next[n] = Absent, !.stage[n] = 0]
        /\ dur' = [dur EXCEPT !.next[n] = Absent, !.stage[n] = 0]
        /\ UNCHANGED <<gen, txn>>
    BY <1>10 DEF LoseStage, Fault
  <2>2. /\ fs'.live = fs.live /\ fs'.backup = fs.backup /\ fs'.marker = fs.marker
        /\ fs'.journal = fs.journal /\ dur'.live = dur.live /\ dur'.backup = dur.backup
        /\ dur'.marker = dur.marker /\ dur'.journal = dur.journal
        /\ \A m \in NS : /\ fs'.next[m] \in {fs.next[m], Absent}
                         /\ dur'.next[m] \in {dur.next[m], Absent}
    BY <1>1, <2>1, Fields DEF FS
  <2>3. \A m \in NS : NextAnywhere(m)' => NextAnywhere(m)
    BY <2>2 DEF NextAnywhere
  <2>4. \A m \in NS : /\ Waiting(fs, m)' => Waiting(fs, m)
                      /\ Waiting(dur, m)' => Waiting(dur, m)
    BY <2>2, <2>3 DEF Waiting
  <2>5. Installed(fs)'
    BY <1>1, <2>1, <2>2, <2>4 DEF CommitInv, Installed, AtLeast, AtMost, Holds
  <2>6. Installed(dur)'
    BY <1>1, <2>1, <2>2, <2>4 DEF CommitInv, Installed, AtLeast, AtMost, Holds
  <2>7. Numbered(fs)' /\ Numbered(dur)'
    BY <1>1, <2>1, <2>2, Numbers DEF CommitInv, Numbered, Absent
  <2>8. QED BY <1>1, <2>1, <2>5, <2>6, <2>7 DEF CommitInv
<1>11. ASSUME NEW n \in NS, LoseJournal(n) PROVE CommitInv'
  <2>1. /\ fs' = [fs EXCEPT !.journal[n] = NoRecord]
        /\ dur' = [dur EXCEPT !.journal[n] = NoRecord] /\ UNCHANGED <<gen, txn>>
    BY <1>11 DEF LoseJournal, Fault
  <2>2. /\ fs'.live = fs.live /\ fs'.backup = fs.backup /\ fs'.marker = fs.marker
        /\ fs'.next = fs.next /\ dur'.live = dur.live /\ dur'.backup = dur.backup
        /\ dur'.marker = dur.marker /\ dur'.next = dur.next
        /\ \A m \in NS : /\ fs'.journal[m] \in {fs.journal[m], NoRecord}
                         /\ dur'.journal[m] \in {dur.journal[m], NoRecord}
    BY <1>1, <2>1, Fields DEF FS
  <2>3. Installed(fs)'
    BY <1>1, <2>1, <2>2
    DEF CommitInv, Installed, AtLeast, AtMost, Waiting, Holds, NextAnywhere
  <2>4. Installed(dur)'
    BY <1>1, <2>1, <2>2
    DEF CommitInv, Installed, AtLeast, AtMost, Waiting, Holds, NextAnywhere
  <2>5. QED BY <1>1, <2>1, <2>2, <2>3, <2>4 DEF CommitInv, Numbered
<1>12. QED
  BY <1>3, <1>4, <1>5, <1>6, <1>7, <1>8, <1>9, <1>10, <1>11 DEF Environment

(* A call outside the construction of an image knows nothing of it. *)
LEMMA ImageElsewhere ==
  ASSUME op'.pc \notin Fresh \cup Made
  PROVE  ImageInv'
BY DEF ImageInv, Fresh

(* The construction makes the newest image, and makes its name durable before  *)
(* the journal speaks of it.                                                   *)
LEMMA ReplacementImages == ASSUME InstallInv, Replacement PROVE ImageInv'
<1>1. TypeOK /\ CommitInv /\ ImageInv /\ StageHolds /\ StageKnows
  BY DEF InstallInv, FullInv, IInv, OpInv
<1>2. CASE op'.pc \notin Fresh \cup Made
  BY <1>2, ImageElsewhere
<1> USE DEF ImageInv, Fresh, Made, Journalling
<1>3. CASE StageSync
  <2>1. op'.pc = "construct" /\ op'.cur = op.cur /\ UNCHANGED fs /\ op.pc = "stSync"
    BY <1>1, <1>3, GotoFields DEF StageSync
  <2>2. dur'.next[op.cur] = Absent
    BY <1>1, <1>3, <2>1, SyncedWorkFields, Fields DEF StageSync, StageKnows, SameStage
  <2>3. QED BY <2>1, <2>2
<1>4. CASE Construct
  BY <1>1, <1>4, GotoFields DEF Construct, disk
<1>5. CASE BuildTmp \/ BuildUnlink
  BY <1>1, <1>5, Fields, GotoFields DEF BuildTmp, BuildUnlink, FS
<1>6. CASE BuildLink \/ CopyEnd
  <2>1. /\ op'.pc = IF op.pc = "buildLink" THEN "buildSync" ELSE "copySync"
        /\ op'.cur = op.cur /\ op.pc \in {"buildLink", "copyEnd"} /\ UNCHANGED dur
    BY <1>1, <1>6 DEF BuildLink, CopyEnd, NextImage, TypeOK, Operation
  <2>2. fs'.live = fs.live /\ fs'.next[op.cur] = gen + 1
    BY <1>1, <1>6, Fields DEF BuildLink, CopyEnd, NextImage, FS
  <2>3. fs.live <= gen + 1
    BY <1>1, Numbers DEF CommitInv, Numbered
  <2>4. QED BY <1>1, <2>1, <2>2, <2>3
<1>7. CASE BuildSync \/ BuildDone \/ CopySync
  <2>1. /\ op'.pc = IF op.pc = "buildSync" THEN "buildUnlink"
                    ELSE IF op.pc = "buildDone" THEN "publish" ELSE "repair"
        /\ op'.cur = op.cur /\ op.pc \in {"buildSync", "buildDone", "copySync"}
        /\ UNCHANGED fs
    BY <1>1, <1>7, GotoFields DEF BuildSync, BuildDone, CopySync
  <2>2. SameStage(op.cur)
    BY <1>1, <2>1 DEF StageHolds, SameStage
  <2>3. dur'.next[op.cur] = fs.next[op.cur]
    BY <1>1, <1>7, <2>2, SyncedStageFields, Fields DEF BuildSync, BuildDone, CopySync
  <2>4. QED BY <1>1, <2>1, <2>3
<1>8. CASE CopyBegin
  BY <1>1, <1>2, <1>8, Fields, GotoFields DEF CopyBegin, FS, Operation
<1>9. CASE RepairClone
  BY <1>1, <1>9, GotoFields DEF RepairClone
<1>10. CASE FsyncNext \/ JournalTmp
  BY <1>1, <1>10, Fields, GotoFields DEF FsyncNext, JournalTmp, FS
<1>11. CASE Publish
  <2>1. CASE op' = [op EXCEPT !.pc = "fsyncNext", !.goal = "published"]
    <3>1. op'.pc = "fsyncNext" /\ op'.cur = op.cur
      BY <1>1, <2>1 DEF TypeOK, Operation
    <3>2. UNCHANGED <<fs, dur>> /\ op.pc = "publish"
      BY <1>11 DEF Publish, disk
    <3>3. QED BY <1>1, <3>1, <3>2
  <2>2. CASE op' = [op EXCEPT !.pc = "recover", !.todo = <<op.cur>>, !.goal = "published"]
    <3> DEFINE t == <<op.cur>>
    <3>1. op' = [op EXCEPT !.pc = "recover", !.todo = t, !.goal = "published"]
      BY <2>2
    <3> HIDE DEF t
    <3>2. op'.pc = "recover"
      BY <1>1, <3>1 DEF TypeOK, Operation
    <3>3. QED BY <1>2, <3>2
  <2>3. op' = Idle => op'.pc = "idle"
    BY DEF Idle
  <2>4. QED BY <1>2, <1>11, <2>1, <2>2, <2>3 DEF Publish, Return
<1>12. CASE \/ GateReplace \/ GateConfirm \/ GateRefuse \/ BeginRepair \/ SkipRepair
            \/ Prepare \/ Published \/ Repaired \/ \E m \in Permanent : ConfirmNext(m)
  <2>1. op'.pc \in {"idle", "maint", "recover", "restoreOnce"}
    BY <1>1, <1>12, CallerPlace
  <2>2. QED BY <1>2, <2>1
<1>13. ASSUME NEW s, Return(s) PROVE op'.pc = "idle"
  BY <1>13 DEF Return, Idle
<1>14. CASE PrepareStage \/ StageTmp \/ StageNext \/ StageRmdir \/ StageMkdir \/ BuildRefuse
            \/ CopyFails
  <2>1. op'.pc \in {"idle", "stTmp", "stMk", "stNext", "stRmdir", "stSync", "discard"}
    BY <1>1, <1>13, <1>14, GotoFields
    DEF PrepareStage, StageTmp, StageNext, StageRmdir, StageMkdir, BuildRefuse, CopyFails,
        TypeOK, Operation
  <2>2. QED BY <1>2, <2>1
<1>15. CASE Discard \/ DiscardNext \/ DiscardRmdir \/ DiscardSync \/ Discarded
            \/ JournalRename \/ JournalSync
  <2>1. op'.pc \in {"idle", "disNext", "disRmdir", "disSync", "discarded", "restoreOnce",
                    "jrnSync", "continue"}
    BY <1>1, <1>13, <1>15, GotoFields
    DEF Discard, DiscardNext, DiscardRmdir, DiscardSync, Discarded, JournalRename,
        JournalSync, TypeOK, Operation
  <2>2. QED BY <1>2, <2>1
<1>16. CASE Confirm \/ ConfirmTmp \/ ConfirmRename \/ ConfirmSync
  <2>1. op'.pc \in {"idle", "published", "cfTmp", "cfRen", "cfSync"}
    BY <1>1, <1>13, <1>16, GotoFields
    DEF Confirm, ConfirmTmp, ConfirmRename, ConfirmSync, TypeOK, Operation
  <2>2. QED BY <1>2, <2>1
<1>17. QED
  BY <1>3, <1>4, <1>5, <1>6, <1>7, <1>8, <1>9, <1>10, <1>11, <1>12, <1>14, <1>15, <1>16
  DEF Replacement

(* Every step keeps the commit records honest. *)
LEMMA InstallInvStep == InstallInv /\ [Next]_vars => InstallInv'
<1> SUFFICES ASSUME InstallInv, [Next]_vars PROVE InstallInv'
  OBVIOUS
<1>1. TypeOK /\ FullInv' /\ CommitInv /\ ImageInv
  BY FullInvStep DEF InstallInv, FullInv, IInv
<1> USE DEF Swapping, Removing, Fresh, Made, Journalling
<1>2. CASE Recovery
  <2>1. op'.pc \notin Fresh \cup Made
    BY <1>1, <1>2, RecoveryPlace DEF TypeOK, Operation, Goals
  <2>2. QED BY <1>1, <1>2, <2>1, RecoveryCommits, ImageElsewhere DEF InstallInv
<1>3. CASE Replacement
  BY <1>1, <1>3, ReplacementCommits, ReplacementImages DEF InstallInv
<1>4. CASE Environment
  <2>1. CleanupFailure /\ op'.pc = CleanupSuccessor[op.pc] => op'.pc \notin Fresh \cup Made
    BY DEF CleanupFailure, CleanupCalls, CleanupSuccessor
  <2>2. op'.pc \notin Fresh \cup Made
    BY <1>1, <1>4, <2>1, EnvironmentPlace
  <2>3. QED BY <1>1, <1>4, <2>2, EnvironmentCommits, ImageElsewhere DEF InstallInv
<1>5. CASE Boot
  <2>1. UNCHANGED <<dur, gen, txn>> /\ UNCHANGED fs
    BY <1>5 DEF Boot, Begin, history, disk
  <2>2. op'.pc = "maint"
    BY <1>1, <1>5 DEF Boot, Begin, TypeOK, Operation
  <2>3. QED BY <1>1, <2>1, <2>2, CommitInert, ImageElsewhere DEF InstallInv
<1>6. CASE RestoreOnce
  <2>1. /\ fs'.live = fs.live /\ fs'.backup = fs.backup /\ fs'.marker = fs.marker
        /\ fs'.journal = fs.journal /\ fs'.next = fs.next /\ UNCHANGED <<dur, gen, txn>>
    BY <1>1, <1>6, Fields DEF RestoreOnce, Disarmed, FS, Goto, history
  <2>2. op'.pc = "running"
    BY <1>1, <1>6, GotoFields DEF RestoreOnce
  <2>3. QED BY <1>1, <2>1, <2>2, CommitInert, ImageElsewhere DEF InstallInv
<1>7. CASE UNCHANGED vars
  <2>1. UNCHANGED <<fs, dur, op, gen, txn>>
    BY <1>7 DEF vars
  <2>2. ImageInv'
    BY <1>1, <2>1 DEF ImageInv
  <2>3. QED BY <1>1, <2>1, <2>2, CommitInert DEF InstallInv
<1>8. QED BY <1>2, <1>3, <1>4, <1>5, <1>6, <1>7 DEF Next, Step

(* A freshly imported machine has no commit record. *)
LEMMA InstallInvInit == Init => InstallInv
<1> SUFFICES ASSUME Init PROVE InstallInv
  OBVIOUS
<1>1. FullInv
  BY FullInvInit
<1>2. /\ fs = dur /\ op.pc = "idle" /\ gen = 1 /\ fs.live = 1
      /\ \A n \in NS : /\ fs.backup[n] = 0 /\ fs.next[n] = 0 /\ txn[n].new = 0
                       /\ fs.journal[n] = NoRecord
  BY DEF Init, FreshFS, Empty, Idle, NoTxn, Absent, NoRecord
<1>3. CommitInv
  BY <1>2 DEF CommitInv, Numbered, Installed
<1>4. ImageInv
  BY <1>2 DEF ImageInv, Fresh, Made, Journalling
<1>5. QED BY <1>1, <1>3, <1>4 DEF InstallInv

(* What a loss of power leaves of the commit records is honest, too. *)
LEMMA InstallInvHonest == InstallInv => CommitMeansInstalled
<1> SUFFICES ASSUME InstallInv, NEW d \in Possible, NEW n \in NS,
                    d.marker[n] # NoRecord, d.journal[n] # NoRecord
             PROVE  Current(d) >= txn[n].new
  BY DEF CommitMeansInstalled
<1>1. TypeOK /\ CommitInv /\ DiskInv
  BY DEF InstallInv, FullInv, IInv
<1>2. \E base : /\ base = fs \/ base = dur
               /\ d.live = base.live /\ d.backup = base.backup
               /\ d.marker = base.marker /\ d.journal = base.journal
  <2>1. CASE d = fs
    BY <2>1
  <2>2. ASSUME NEW W \in BOOLEAN, NEW K \in SUBSET NS, d = AfterPowerLoss(W, K)
        PROVE  \E base : /\ base = fs \/ base = dur
                         /\ d.live = base.live /\ d.backup = base.backup
                         /\ d.marker = base.marker /\ d.journal = base.journal
    <3>1. PICK base : base = IF W THEN fs ELSE dur
      OBVIOUS
    <3>2. /\ d.live = base.live /\ d.backup = base.backup
          /\ d.marker = base.marker /\ d.journal = base.journal
      BY <1>1, <2>2, <3>1, AfterPowerLossFields
    <3>3. QED BY <3>1, <3>2
  <2>3. QED BY <2>1, <2>2 DEF Possible
<1>3. PICK base : /\ base = fs \/ base = dur
                  /\ d.live = base.live /\ d.backup = base.backup
                  /\ d.marker = base.marker /\ d.journal = base.journal
  BY <1>2
<1>4. AtLeast(base, txn[n].new) /\ Keeps(base)
  BY <1>1, <1>3 DEF CommitInv, Installed, DiskInv
<1>5. CASE d.live # Absent
  BY <1>3, <1>4, <1>5 DEF Current, AtLeast
<1>6. CASE d.live = Absent
  <2>1. \E m \in NS : Holds(d, m)
    BY <1>3, <1>4, <1>6, Images DEF Keeps, Holds
  <2>2. PICK m \in NS : Holds(d, m) /\ Current(d) = d.backup[m]
    BY <1>6, <2>1 DEF Current
  <2>3. d.backup[m] >= txn[n].new
    BY <1>3, <1>4, <1>6, <2>2 DEF AtLeast, Holds
  <2>4. QED BY <2>2, <2>3
<1>7. QED BY <1>5, <1>6

(* CommitMeansInstalled: where a journal and a commit record of one namespace *)
(* are found together, also after a loss of power, the machine has the image  *)
(* that transaction installed or a later one (guest_publish_record comes      *)
(* after the swap is durable, and guest_remove_committed_artifacts before the  *)
(* next transaction).                                                         *)
THEOREM CommitsAreInstalled == Spec => []CommitMeansInstalled
<1>1. Init => InstallInv
  BY InstallInvInit
<1>2. InstallInv /\ [Next]_vars => InstallInv'
  BY InstallInvStep
<1>3. InstallInv => CommitMeansInstalled
  BY InstallInvHonest
<1>4. QED BY <1>1, <1>2, <1>3, PTL DEF Spec

-----------------------------------------------------------------------------
(* The inductive invariant behind ResumeMatchesDisk.  While the power holds,  *)
(* a resume request is for the live disk, or for the backup that has its      *)
(* bytes while the live name is free, or the swap is under way that           *)
(* invalidates it before its commit record.                                   *)
ResumeKnown ==
  fs.resume # Absent =>
    \/ fs.live = fs.resume
    \/ fs.live = Absent /\ \A n \in NS : Holds(fs, n) => fs.backup[n] = fs.resume
    \/ fs.live # Absent /\ \E n \in NS : Holds(fs, n)

Spent == {"invSync", "markTmp", "markRen", "running"}
ResumeSpent == op.pc \in Spent => fs.resume = Absent

ResumeInv == FullInv /\ ResumeKnown /\ ResumeSpent

(* The request stays known while the disk and its backups stay.               *)
LEMMA ResumeInert ==
  ASSUME ResumeKnown, fs'.live = fs.live, fs'.resume \in {fs.resume, Absent},
         \A n \in NS : /\ Holds(fs, n)' <=> Holds(fs, n)
                       /\ Holds(fs, n) => fs'.backup[n] = fs.backup[n]
  PROVE  ResumeKnown'
BY DEF ResumeKnown

(* A step that leaves the visible directory keeps the request known. *)
LEMMA ResumeSameFs == ASSUME ResumeKnown, UNCHANGED fs PROVE ResumeKnown'
BY DEF ResumeKnown, Holds

(* So does one that leaves its disk and its backups. *)
LEMMA ResumeSameDisk ==
  ASSUME ResumeKnown, fs'.live = fs.live, fs'.resume \in {fs.resume, Absent},
         fs'.backup = fs.backup, fs'.marker = fs.marker
  PROVE  ResumeKnown'
BY ResumeInert DEF Holds

(* The calls of the recovery that follow the invalidation of the request. *)
LEMMA RecoverySpends ==
  ASSUME TypeOK, Recovery, op'.pc \in Spent
  PROVE  InvalidateResume \/ InvalidateResumeSync \/ MarkTmp
<1> USE DEF Spent
<1>1. ASSUME NEW p, Goto(p) PROVE op'.pc = p
  BY <1>1, GotoFields
<1>2. ASSUME NEW s, Return(s) PROVE op'.pc = "idle"
  BY <1>2 DEF Return, Idle
<1>3. CASE RecoverFor
  <2> DEFINE n == Head(op.todo)
  <2>1. ASSUME NEW p \in {"inv", "rmBackup", "continue", "recover"}, NEW r, NEW c,
               RecoverAt(n, p, r, c)
        PROVE  op'.pc \in {"inv", "rmBackup", "continue", "recover"}
    BY <2>1, RecoverAtKeeps
  <2> HIDE DEF n
  <2>2. RecoverCommitted(n) => op'.pc \in {"idle", "inv", "rmBackup"}
    BY <1>2, <2>1 DEF RecoverCommitted
  <2>3. RecoverJournal(n) => op'.pc \in {"inv", "rmBackup", "continue", "recover"}
    BY <2>1 DEF RecoverJournal
  <2>4. RecoverOrphan(n) => op'.pc \in {"idle", "inv", "rmBackup", "continue", "recover"}
    BY <1>2, <2>1 DEF RecoverOrphan
  <2>5. QED BY <1>3, <2>2, <2>3, <2>4 DEF RecoverFor, n
<1>4. CASE Continue
  <2>1. CASE op' = [op EXCEPT !.pc = Branch(op.cur), !.ret = "markTmp"]
             /\ Branch(op.cur) # "contradictory"
    <3>1. op'.pc \in {"swapOut", "swapIn", "inv", "restore"}
      BY <2>1 DEF Branch, ContinueBranch, TypeOK, Operation
    <3>2. QED BY <3>1
  <2>2. QED BY <1>2, <1>4, <2>1 DEF Continue
<1>5. CASE MaintenanceRecover
  <2>1. ASSUME NEW t, op' = [op EXCEPT !.pc = "recover", !.dirty = {}, !.todo = t]
        PROVE  op'.pc = "recover"
    BY <2>1 DEF TypeOK, Operation
  <2>2. ASSUME NEW i \in Owners,
               op' = [op EXCEPT !.pc = "recover", !.dirty = {},
                                !.todo = OwnerFirst(i) \o op.todo]
        PROVE  op'.pc = "recover"
    BY <2>1, <2>2
  <2>3. op' = [op EXCEPT !.pc = "recover", !.dirty = {}, !.todo = MaintTable \o op.todo]
          => op'.pc = "recover"
    BY <2>1
  <2>4. QED BY <1>2, <1>5, <2>2, <2>3 DEF MaintenanceRecover
<1>6. CASE RecoveryOver
  BY <1>1, <1>6 DEF RecoveryOver, TypeOK, Operation, Goals
<1>7. CASE SwapOut \/ SwapOutSync \/ SwapIn \/ SwapInStage \/ SwapInWork \/ MarkRename
           \/ RestoreBackup \/ RestoreSync
  BY <1>1, <1>7
  DEF SwapOut, SwapOutSync, SwapIn, SwapInStage, SwapInWork, MarkRename, RestoreBackup,
      RestoreSync
<1>8. CASE MarkSync \/ RemoveStage \/ RemoveSync
  <2>1. op'.pc \in {"rmBackup", "rmSync", "rmMarker", "recover"}
    BY <1>1, <1>8 DEF MarkSync, RemoveStage, RemoveSync, TypeOK, Operation
  <2>2. QED BY <2>1
<1>9. CASE RemoveBackup \/ RemoveJournal \/ RemoveTmp \/ RemoveNext \/ RemoveMarker
           \/ RemoveMarkerSync
  BY <1>1, <1>9
  DEF RemoveBackup, RemoveJournal, RemoveTmp, RemoveNext, RemoveMarker, RemoveMarkerSync
<1>10. QED
  BY <1>3, <1>4, <1>5, <1>6, <1>7, <1>8, <1>9 DEF Recovery

(* Every call of the recovery keeps the request known, and invalidates it     *)
(* before a commit.                                                           *)
LEMMA RecoveryResumes == ASSUME ResumeInv, Recovery PROVE ResumeKnown' /\ ResumeSpent'
<1>1. /\ TypeOK /\ ClaimInv /\ SwapKnows /\ SwapHolds /\ CleanupKnows /\ ResumeKnown
      /\ ResumeSpent
  BY DEF ResumeInv, FullInv, IInv, OpInv
<1>2. PICK c \in NS : c = op.cur
  BY <1>1, Fields
<1> DEFINE Others(m) == \A n \in NS \ {m} : fs'.backup[n] = fs.backup[n]
<1>3. ResumeKnown'
  <2>1. CASE UNCHANGED fs
    BY <1>1, <2>1, ResumeSameFs
  <2>2. CASE SwapOut
    <3>1. /\ fs' = [fs EXCEPT !.live = Absent, !.backup[c] = fs.live]
          /\ fs.live # Absent /\ Armed(fs, c)
      BY <1>1, <1>2, <2>2, Images
      DEF SwapOut, SwapKnows, SwapHolds, Armed, NextAnywhere
    <3>2. \A n \in NS : ~Holds(fs, n)
      BY <1>1, <3>1 DEF ClaimInv, SoleClaim, Claims, Armed, Holds
    <3>3. /\ fs'.live = Absent /\ fs'.marker = fs.marker /\ fs'.resume = fs.resume
          /\ fs'.backup[c] = fs.live /\ Others(c)
      BY <1>1, <3>1, Fields DEF FS
    <3>4. \A n \in NS : Holds(fs, n)' => n = c
      BY <3>2, <3>3 DEF Holds
    <3>5. QED BY <1>1, <3>1, <3>2, <3>3, <3>4 DEF ResumeKnown
  <2>3. CASE SwapIn
    <3>1. /\ fs' = [fs EXCEPT !.live = fs.next[c], !.next[c] = Absent]
          /\ fs.next[c] # Absent /\ Holds(fs, c)
      BY <1>1, <1>2, <2>3, Images DEF SwapIn, SwapKnows, SwapHolds, Holds
    <3>2. /\ fs'.live # Absent /\ fs'.marker = fs.marker /\ fs'.backup = fs.backup
      BY <1>1, <3>1, Fields DEF FS
    <3>3. Holds(fs, c)'
      BY <3>1, <3>2 DEF Holds
    <3>4. QED BY <3>2, <3>3 DEF ResumeKnown
  <2>4. CASE RestoreBackup
    <3>1. /\ fs' = [fs EXCEPT !.live = fs.backup[c], !.backup[c] = Absent]
          /\ fs.live = Absent /\ Holds(fs, c)
      BY <1>1, <1>2, <2>4, Images DEF RestoreBackup, SwapKnows, SwapHolds, Holds
    <3>2. fs'.live = fs.backup[c] /\ fs'.resume = fs.resume
      BY <1>1, <3>1, Fields DEF FS
    <3>3. QED BY <1>1, <3>1, <3>2 DEF ResumeKnown
  <2>5. CASE MarkRename
    <3>1. fs.resume = Absent
      BY <1>1, <2>5 DEF MarkRename, ResumeSpent, Spent
    <3>2. fs'.resume = fs.resume
      BY <1>1, <2>5, Fields DEF MarkRename, FS
    <3>3. QED BY <3>1, <3>2 DEF ResumeKnown
  <2>6. CASE RemoveBackup
    <3>1. fs' = [fs EXCEPT !.backup[c] = Absent] /\ fs.marker[c] # NoRecord
      BY <1>1, <1>2, <2>6 DEF RemoveBackup, SwapKnows
    <3>2. /\ fs'.live = fs.live /\ fs'.marker = fs.marker /\ fs'.resume = fs.resume
          /\ fs'.backup[c] = Absent /\ Others(c)
      BY <1>1, <3>1, Fields DEF FS
    <3>3. QED BY <1>1, <3>1, <3>2, ResumeInert DEF Holds
  <2>7. CASE RemoveMarker
    <3>1. fs' = [fs EXCEPT !.marker[c] = NoRecord] /\ fs.backup[c] = Absent
      BY <1>1, <1>2, <2>7 DEF RemoveMarker, CleanupKnows
    <3>2. /\ fs'.live = fs.live /\ fs'.backup = fs.backup /\ fs'.resume = fs.resume
          /\ \A n \in NS \ {c} : fs'.marker[n] = fs.marker[n]
      BY <1>1, <3>1, Fields DEF FS
    <3>3. QED BY <1>1, <3>1, <3>2, ResumeInert DEF Holds
  <2>8. CASE InvalidateResume \/ MarkTmp \/ RemoveJournal \/ RemoveTmp \/ RemoveNext
             \/ RemoveStage
    BY <1>1, <2>8, ResumeSameDisk, Fields
    DEF InvalidateResume, MarkTmp, RemoveJournal, RemoveTmp, RemoveNext, RemoveStage, FS
  <2>9. QED
    BY <2>1, <2>2, <2>3, <2>4, <2>5, <2>6, <2>7, <2>8
    DEF Recovery, disk, MaintenanceRecover, RecoverFor, RecoveryOver, Continue, SwapOutSync,
        SwapInStage, SwapInWork, InvalidateResumeSync, MarkSync, RemoveSync,
        RemoveMarkerSync, RestoreSync
<1>4. ResumeSpent'
  <2>1. CASE InvalidateResume
    BY <1>1, <2>1, Fields, GotoFields DEF InvalidateResume, FS, ResumeSpent
  <2>2. CASE InvalidateResumeSync \/ MarkTmp
    <3>1. fs.resume = Absent /\ fs'.resume = fs.resume
      BY <1>1, <2>2, Fields DEF InvalidateResumeSync, MarkTmp, FS, ResumeSpent, Spent
    <3>2. QED BY <3>1 DEF ResumeSpent
  <2>3. op'.pc \in Spent => InvalidateResume \/ InvalidateResumeSync \/ MarkTmp
    BY <1>1, RecoverySpends
  <2>4. QED BY <2>1, <2>2, <2>3 DEF ResumeSpent
<1>5. QED BY <1>3, <1>4

(* Every call of a replacement keeps the request known. *)
LEMMA ReplacementResumes == ASSUME ResumeInv, Replacement PROVE ResumeKnown' /\ ResumeSpent'
<1>1. TypeOK /\ StageHolds /\ ResumeKnown
  BY DEF ResumeInv, FullInv, IInv
<1>2. ResumeKnown'
  <2>1. CASE UNCHANGED fs
    BY <1>1, <2>1, ResumeSameFs
  <2>2. CASE ConfirmRename
    <3>1. PICK c \in NS : c = op.cur
      BY <1>1, Fields
    <3>2. /\ fs' = [fs EXCEPT !.tmp[c] = FALSE, !.marker[c] = op.dig]
          /\ fs.backup[c] = Absent
      BY <1>1, <2>2, <3>1 DEF ConfirmRename, StageHolds
    <3>3. /\ fs'.live = fs.live /\ fs'.backup = fs.backup /\ fs'.resume = fs.resume
          /\ \A n \in NS \ {c} : fs'.marker[n] = fs.marker[n]
      BY <1>1, <3>2, Fields DEF FS
    <3>4. QED BY <1>1, <3>2, <3>3, ResumeInert DEF Holds
  <2>3. CASE GateReplace \/ StageTmp \/ StageNext \/ StageRmdir \/ StageMkdir
    BY <1>1, <2>3, ResumeSameDisk, Fields
    DEF GateReplace, GateResume, Disarmed, StageTmp, StageNext, StageRmdir, StageMkdir, FS
  <2>4. CASE BuildTmp \/ BuildLink \/ BuildUnlink \/ BuildRefuse \/ CopyBegin \/ CopyEnd
             \/ CopyFails
    BY <1>1, <2>4, ResumeSameDisk, Fields
    DEF BuildTmp, BuildLink, BuildUnlink, BuildRefuse, CopyBegin, CopyEnd, CopyFails,
        NextImage, FS
  <2>5. CASE DiscardNext \/ DiscardRmdir \/ JournalTmp \/ JournalRename \/ ConfirmTmp
    BY <1>1, <2>5, ResumeSameDisk, Fields
    DEF DiscardNext, DiscardRmdir, JournalTmp, JournalRename, ConfirmTmp, FS
  <2>6. QED
    BY <2>1, <2>2, <2>3, <2>4, <2>5
    DEF Replacement, disk, GateConfirm, GateRefuse, BeginRepair, SkipRepair, Prepare,
        PrepareStage, StageSync, Construct, BuildSync, BuildDone, CopySync, RepairClone,
        Discard, DiscardSync, Discarded, Publish, FsyncNext, JournalSync, Published,
        Repaired, ConfirmNext, Confirm, ConfirmSync
<1>3. op'.pc \notin Spent
  BY <1>1, ReplacementPlace DEF Spent, Swapping
<1>4. QED BY <1>2, <1>3 DEF ResumeSpent

(* The callers, the guest and the faults keep the request known, unless the   *)
(* power is lost.                                                             *)
LEMMA EnvironmentResumes ==
  ASSUME ~POWER, ResumeInv, Environment
  PROVE  ResumeKnown' /\ ResumeSpent'
<1>1. TypeOK /\ ResumeKnown /\ ResumeSpent
  BY DEF ResumeInv, FullInv, IInv
<1>2. ResumeKnown'
  <2>1. CASE UNCHANGED fs
    BY <1>1, <2>1, ResumeSameFs
  <2>2. ASSUME NEW n \in NS, BeginBuild(n) PROVE ResumeKnown'
    BY <1>1, <2>2, ResumeSameDisk, Fields DEF BeginBuild, Disarmed, FS
  <2>3. CASE GuestWrite
    <3>1. fs.resume = Absent /\ fs'.resume = fs.resume
      BY <1>1, <2>3, Fields DEF GuestWrite, FS, ResumeSpent, Spent
    <3>2. QED BY <3>1 DEF ResumeKnown
  <2>4. CASE Suspend
    <3>1. fs'.resume = fs.live /\ fs'.live = fs.live
      BY <1>1, <2>4, Fields DEF Suspend, FS
    <3>2. QED BY <3>1 DEF ResumeKnown
  <2>5. CASE IoFailure
    BY <1>1, <2>5, ResumeSameDisk, Fields DEF IoFailure, FS
  <2>6. ASSUME NEW n \in NS, LoseStage(n) \/ LoseJournal(n) PROVE ResumeKnown'
    BY <1>1, <2>6, ResumeSameDisk, Fields DEF LoseStage, LoseJournal, FS
  <2>7. QED
    BY <2>1, <2>2, <2>3, <2>4, <2>5, <2>6
    DEF Environment, BeginApp, Stop, CleanupFailure, Kill, PowerLoss, disk
<1>3. ResumeSpent'
  <2>1. CASE GuestWrite
    BY <1>1, <2>1, Fields DEF GuestWrite, FS, ResumeSpent, Spent
  <2>2. CASE ~GuestWrite
    <3>1. op'.pc \notin Spent
      <4>1. CASE op' = Idle
        BY <4>1 DEF Idle, Spent
      <4>2. ASSUME NEW n \in NS, LoseStage(n) \/ LoseJournal(n) PROVE op'.pc = "idle"
        BY <4>2 DEF LoseStage, LoseJournal
      <4>3. ASSUME NEW n \in NS, NEW t, NEW g, Begin(n, t, g) PROVE op'.pc = "maint"
        BY <1>1, <4>3 DEF Begin, TypeOK, Operation
      <4>4. ASSUME NEW n \in NS, BeginBuild(n) \/ BeginApp(n) PROVE op'.pc = "maint"
        BY <4>3, <4>4 DEF BeginBuild, BeginApp
      <4>5. CASE CleanupFailure
        <5>1. op'.pc = CleanupSuccessor[op.pc] /\ op.pc \in CleanupCalls
          BY <1>1, <4>5 DEF CleanupFailure, TypeOK, Operation
        <5>2. QED BY <5>1 DEF CleanupCalls, CleanupSuccessor, Spent
      <4>6. QED
        BY <2>2, <4>1, <4>2, <4>4, <4>5
        DEF Environment, Suspend, Stop, Return, IoFailure, Kill, PowerLoss, Spent
    <3>2. QED BY <3>1 DEF ResumeSpent
  <2>3. QED BY <2>1, <2>2
<1>4. QED BY <1>2, <1>3

(* Every step keeps the request known, unless the power is lost. *)
LEMMA ResumeInvStep == ASSUME ~POWER PROVE ResumeInv /\ [Next]_vars => ResumeInv'
<1> SUFFICES ASSUME ResumeInv, [Next]_vars PROVE ResumeInv'
  OBVIOUS
<1>1. TypeOK /\ FullInv' /\ ResumeKnown /\ ResumeSpent
  BY FullInvStep DEF ResumeInv, FullInv, IInv
<1>2. CASE Recovery
  BY <1>1, <1>2, RecoveryResumes DEF ResumeInv
<1>3. CASE Replacement
  BY <1>1, <1>3, ReplacementResumes DEF ResumeInv
<1>4. CASE Environment
  BY <1>1, <1>4, EnvironmentResumes DEF ResumeInv
<1>5. CASE Boot
  <2>1. UNCHANGED fs /\ op'.pc = "maint"
    BY <1>1, <1>5 DEF Boot, Begin, disk, TypeOK, Operation
  <2>2. QED BY <1>1, <2>1, ResumeSameFs DEF ResumeInv, ResumeSpent, Spent
<1>6. CASE RestoreOnce
  <2>1. fs'.resume = Absent
    BY <1>1, <1>6, Fields DEF RestoreOnce, Disarmed, FS
  <2>2. QED BY <1>1, <2>1 DEF ResumeInv, ResumeKnown, ResumeSpent
<1>7. CASE UNCHANGED vars
  <2>1. UNCHANGED <<fs, op>>
    BY <1>7 DEF vars
  <2>2. QED BY <1>1, <2>1, ResumeSameFs DEF ResumeInv, ResumeSpent
<1>8. QED BY <1>2, <1>3, <1>4, <1>5, <1>6, <1>7 DEF Next, Step

(* A boot that restores has nobody else's backup to fear. *)
LEMMA ResumeInvMatches == ResumeInv => ResumeMatchesDisk
<1> SUFFICES ASSUME ResumeInv, op.pc = "restoreOnce", fs.resume # Absent
             PROVE  fs.resume = fs.live
  BY DEF ResumeMatchesDisk
<1>1. FullInv /\ SettleInv /\ Keeps(fs) /\ ResumeKnown
  BY DEF ResumeInv, FullInv, IInv, DiskInv
<1>2. \A n \in NS : ~Claims(fs, n)
  BY <1>1, NobodyClaims DEF SettleInv, Settled, Swapping
<1>3. QED BY <1>1, <1>2, Images DEF Claims, Holds, Keeps, ResumeKnown

(* ResumeMatchesDisk: while the power holds, the resume request a boot is      *)
(* about to restore (restore_once) was saved against the disk that is live,    *)
(* whichever replacements were killed, refused or rolled back in between       *)
(* (guest_invalidate_resume comes before every commit record).                 *)
THEOREM ResumesItsOwnDisk == ASSUME ~POWER PROVE Spec => []ResumeMatchesDisk
<1>1. Init => ResumeInv
  <2> SUFFICES ASSUME Init PROVE ResumeInv
    OBVIOUS
  <2>1. FullInv
    BY FullInvInit
  <2>2. fs.resume = Absent
    BY DEF Init, FreshFS
  <2>3. QED BY <2>1, <2>2 DEF ResumeInv, ResumeKnown, ResumeSpent
<1>2. ResumeInv /\ [Next]_vars => ResumeInv'
  BY ResumeInvStep
<1>3. ResumeInv => ResumeMatchesDisk
  BY ResumeInvMatches
<1>4. QED BY <1>1, <1>2, <1>3, PTL DEF Spec
=============================================================================
