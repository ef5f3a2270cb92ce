------------------------------ MODULE SnapshotCow ------------------------------
(***************************************************************************)
(* The copy-on-write overlays that keep old snapshots restorable           *)
(* (app/Sources/VMSnapshotCow.c) and the boot owner that arms, flushes and *)
(* closes them (app/Sources/VMFirmwareBoot.c).  One work image is written  *)
(* for the whole life of a machine; the overlay of the newest snapshot     *)
(* receives the previous contents of a block before the first write to it. *)
(* Restoring a snapshot replays the overlays from the newest to its own.   *)
(*                                                                         *)
(* A block's contents are a value.  An overlay file is the sequence of its *)
(* records; it is "bad" when it ends inside its header or a record, which  *)
(* every reader refuses.  The stdio buffer of an overlay is shorter than a *)
(* record, so what it holds back is a part of the last record: the adapter *)
(* is then "pending".                                                      *)
(***************************************************************************)
EXTENDS Integers, Sequences

CONSTANTS
  LastBlock,   \* blocks are numbered 0 .. LastBlock
  Values,      \* what a block may contain
  MaxSnaps,    \* bound: snapshots in the list
  MaxFaults,   \* bound: terminations, failing calls and losses of power
  Fails,       \* calls of the host may fail
  PowerLosses, \* the host may lose power
  LiveRearm,   \* a snapshot is taken while the machine runs
  Transient    \* opening an existing file may fail once

ASSUME CowAssumption ==
  /\ LastBlock \in Nat /\ MaxSnaps \in Nat /\ MaxFaults \in Nat
  /\ {Fails, PowerLosses, LiveRearm, Transient} \subseteq BOOLEAN

VARIABLES
  disk,     \* the work image, as the host's page cache has it
  ov,       \* the overlay files of the snapshots, oldest first
  frozen,   \* what each snapshot has to bring back
  cow,      \* the open adapter: its bitmap and its stdio buffer
  device,   \* what the machine was started on: "none", "bare" or "facade"
  op,       \* the write in progress
  rp,       \* the restore in progress
  flushed,  \* nothing was written since the last flush
  faults

vars == <<disk, ov, frozen, cow, device, op, rp, flushed, faults>>

Blocks == 0 .. LastBlock
Image == [Blocks -> Values]
Snaps == 1 .. Len(ov)

Absent == [st |-> "absent", recs |-> <<>>]
Closed == [open |-> FALSE, saved |-> {}, poisoned |-> FALSE, pending |-> FALSE]
NoOp == [pc |-> "idle", first |-> 0, at |-> 0, last |-> 0]
NoReplay == [on |-> FALSE, goal |-> 0, k |-> 0, i |-> 1]

(* The blocks an overlay holds, and the record replay applies last. *)
Recorded(o) == {o.recs[i].b : i \in DOMAIN o.recs}
LastRecord(o, b) ==
  CHOOSE i \in DOMAIN o.recs :
    /\ o.recs[i].b = b
    /\ \A j \in DOMAIN o.recs : o.recs[j].b = b => j <= i

----------------------------------------------------------------------------
(* The adapter *)

(* vm_cow_open: a fresh overlay gets a header, which the final seek hands  *)
(* to the host, an existing one is indexed so that no block of it is       *)
(* recorded twice; a bad one is refused.                                   *)
Opened(blocks) == [Closed EXCEPT !.open = TRUE, !.saved = blocks]
(* Mutant: the bitmap of an existing overlay starts empty. *)
CowOpenUnindexed(s) ==
  /\ ~cow.open /\ ov[s].st # "bad"
  /\ cow' = Opened({})
  /\ ov' = [ov EXCEPT ![s].st = "ok"]
  /\ UNCHANGED faults
CowOpen(s) ==
  /\ ~cow.open /\ ov[s].st # "bad"
  /\ cow' = Opened(Recorded(ov[s]))
  /\ ov' = [ov EXCEPT ![s].st = "ok"]
  /\ UNCHANGED faults

(* Every failure to open an existing file, not only its absence, is taken  *)
(* for a fresh overlay: the file is created again, empty.                  *)
CowOpenAnew(s) ==
  /\ Transient /\ faults < MaxFaults /\ ~cow.open /\ ov[s].st # "absent"
  /\ cow' = Opened({})
  /\ ov' = [ov EXCEPT ![s] = [st |-> "ok", recs |-> <<>>]]
  /\ faults' = faults + 1

(* What the file is once its buffer is lost. *)
(* Mutant: a trailing partial record is taken for the end of the file. *)
CutUnnoticed(o, pending) ==
  IF ~pending THEN o
  ELSE [o EXCEPT !.recs = SubSeq(@, 1, Len(@) - 1)]
Cut(o, pending) ==
  IF ~pending THEN o
  ELSE [st |-> "bad", recs |-> SubSeq(o.recs, 1, Len(o.recs) - 1)]

(* vm_cow_close flushes; a flush that fails leaves the file cut. *)
CowClose ==
  /\ cow' = Closed
  /\ IF cow.open
     THEN \/ UNCHANGED <<ov, faults>>
          \/ /\ Fails /\ cow.pending /\ faults < MaxFaults
             /\ ov' = [ov EXCEPT ![Len(ov)] = Cut(@, TRUE)]
             /\ faults' = faults + 1
     ELSE UNCHANGED <<ov, faults>>

(* cow_write_at: every block of the range that has no record yet is read   *)
(* and appended to the overlay, then the range is written.  A machine that *)
(* was started without an overlay writes to the image itself.              *)
BeginWrite ==
  /\ op.pc = "idle" /\ device # "none"
  /\ device = "facade" => ~cow.poisoned
  /\ \E first \in Blocks : \E last \in first .. LastBlock :
       op' = [pc |-> IF device = "facade" THEN "save" ELSE "write",
              first |-> first, at |-> first, last |-> last]
  /\ flushed' = FALSE
  /\ UNCHANGED <<disk, ov, frozen, cow, device, rp, faults>>

(* Mutant: the loop over the blocks goes one too far. *)
FollowingPastEnd(next) ==
  IF op.at <= op.last THEN [op EXCEPT !.at = @ + 1] ELSE next
(* The block after this one, or the next part of the call. *)
Following(next) ==
  IF op.at < op.last THEN [op EXCEPT !.at = @ + 1] ELSE next

SaveBlock ==
  /\ op.pc = "save"
  /\ IF op.at \in cow.saved
     THEN UNCHANGED <<ov, cow>>
     ELSE /\ ov' = [ov EXCEPT ![Len(ov)].recs =
                      Append(@, [b |-> op.at, v |-> disk[op.at]])]
          /\ \E p \in BOOLEAN :
               cow' = [cow EXCEPT !.saved = @ \cup {op.at}, !.pending = p]
  /\ op' = Following([op EXCEPT !.pc = "write", !.at = op.first])
  /\ UNCHANGED <<disk, frozen, device, rp, flushed, faults>>

(* A block that cannot be read or recorded stops the write and all later   *)
(* ones; a record may be left incomplete.                                  *)
SaveFails ==
  /\ op.pc = "save" /\ op.at \notin cow.saved
  /\ Fails /\ faults < MaxFaults
  /\ faults' = faults + 1
  /\ cow' = [cow EXCEPT !.poisoned = TRUE]
  /\ op' = NoOp
  /\ \/ UNCHANGED ov
     \/ ov' = [ov EXCEPT ![Len(ov)].st = "bad"]
  /\ UNCHANGED <<disk, frozen, device, rp, flushed>>

WriteBlock ==
  /\ op.pc = "write"
  /\ \E v \in Values : disk' = [disk EXCEPT ![op.at] = v]
  /\ op' = Following(NoOp)
  /\ UNCHANGED <<ov, frozen, cow, device, rp, flushed, faults>>

(* The image refuses the rest of the range. *)
WriteFails ==
  /\ op.pc = "write"
  /\ Fails /\ faults < MaxFaults
  /\ faults' = faults + 1
  /\ op' = NoOp
  /\ UNCHANGED <<disk, ov, frozen, cow, device, rp, flushed>>

(* cow_flush: the overlay leaves its buffer, the image is synced. *)
CowFlush ==
  /\ op.pc = "idle" /\ device # "none" /\ ~flushed
  /\ cow' = [cow EXCEPT !.pending = FALSE]
  /\ flushed' = TRUE
  /\ UNCHANGED <<disk, ov, frozen, device, op, rp, faults>>

----------------------------------------------------------------------------
(* The boot owner and its caller *)

(* vm_firmware_boot_start arms the newest snapshot's overlay; if that is   *)
(* refused the machine does not start.                                     *)
Start ==
  /\ device = "none" /\ rp = NoReplay
  /\ \/ /\ ov = <<>> /\ device' = "bare" /\ UNCHANGED <<ov, cow, faults>>
     \/ /\ ov # <<>> /\ device' = "facade"
        /\ CowOpen(Len(ov)) \/ CowOpenAnew(Len(ov))
  /\ UNCHANGED <<disk, frozen, op, rp, flushed>>

(* Creating an overlay is cut short, by a termination or a failing call,   *)
(* between the creation of the file and the end of its header.             *)
CreateCutShort ==
  /\ device = "none" /\ rp = NoReplay /\ ov # <<>> /\ ov[Len(ov)].st = "absent"
  /\ faults < MaxFaults /\ faults' = faults + 1
  /\ ov' = [ov EXCEPT ![Len(ov)].st = "bad"]
  /\ UNCHANGED <<disk, frozen, cow, device, op, rp, flushed>>

(* vm_firmware_boot_destroy, and the first half of a guest restart. *)
Stop ==
  /\ device # "none" /\ op.pc = "idle"
  /\ device' = "none"
  /\ flushed' = TRUE
  /\ CowClose
  /\ UNCHANGED <<disk, frozen, op, rp>>

(* A new snapshot of the machine.  Its overlay is opened when the machine  *)
(* is started, or by vm_firmware_boot_rearm_overlay while it runs: that    *)
(* opens an adapter and leaves the machine on the device it was given.     *)
TakeSnapshot ==
  /\ Len(ov) < MaxSnaps /\ rp = NoReplay /\ op.pc = "idle"
  /\ frozen' = Append(frozen, disk)
  /\ \/ /\ device = "none"
        /\ ov' = Append(ov, Absent) /\ UNCHANGED cow
     \/ /\ LiveRearm /\ device = "bare" /\ ~cow.open
        /\ ov' = Append(ov, [Absent EXCEPT !.st = "ok"])
        /\ cow' = Opened({})
  /\ UNCHANGED <<disk, device, op, rp, flushed, faults>>

(* The owner restores snapshot s: the overlays from the newest to that of  *)
(* s are replayed onto the raw image.  A restore that was interrupted is   *)
(* begun again, for the same snapshot or an older one.                     *)
(* Mutant: only the overlay of the snapshot itself is replayed. *)
BeginRestoreOwnOnly ==
  /\ device = "none" /\ ~rp.on
  /\ \E s \in Snaps :
       /\ rp.goal # 0 => s <= rp.goal
       /\ rp' = [on |-> TRUE, goal |-> s, k |-> s, i |-> 1]
  /\ UNCHANGED <<disk, ov, frozen, cow, device, op, flushed, faults>>
BeginRestore ==
  /\ device = "none" /\ ~rp.on
  /\ \E s \in Snaps :
       /\ rp.goal # 0 => s <= rp.goal
       /\ rp' = [on |-> TRUE, goal |-> s, k |-> Len(ov), i |-> 1]
  /\ UNCHANGED <<disk, ov, frozen, cow, device, op, flushed, faults>>

Replaying == rp.on /\ rp.k >= rp.goal

(* vm_cow_replay: one record, then the next, then the next older overlay. *)
ReplayRecord ==
  /\ Replaying /\ ov[rp.k].st = "ok" /\ rp.i <= Len(ov[rp.k].recs)
  /\ LET r == ov[rp.k].recs[rp.i]
     IN disk' = [disk EXCEPT ![r.b] = r.v]
  /\ rp' = [rp EXCEPT !.i = @ + 1]
  /\ UNCHANGED <<ov, frozen, cow, device, op, flushed, faults>>
ReplayOlder ==
  /\ Replaying /\ ov[rp.k].st = "ok" /\ rp.i > Len(ov[rp.k].recs)
  /\ rp' = [rp EXCEPT !.k = @ - 1, !.i = 1]
  /\ UNCHANGED <<disk, ov, frozen, cow, device, op, flushed, faults>>

(* A missing or bad overlay, or a failing call, ends the replay. *)
ReplayFails ==
  /\ Replaying
  /\ \/ ov[rp.k].st # "ok" /\ UNCHANGED faults
     \/ Fails /\ faults < MaxFaults /\ faults' = faults + 1
  /\ rp' = [rp EXCEPT !.on = FALSE]
  /\ UNCHANGED <<disk, ov, frozen, cow, device, op, flushed>>

(* The machine goes on from the restored snapshot; newer ones are dropped. *)
Restored ==
  /\ rp.on /\ rp.k < rp.goal
  /\ ov' = SubSeq(ov, 1, rp.goal)
  /\ frozen' = SubSeq(frozen, 1, rp.goal)
  /\ rp' = NoReplay
  /\ UNCHANGED <<disk, cow, device, op, flushed, faults>>

----------------------------------------------------------------------------
(* Faults *)

Abandoned ==
  /\ faults < MaxFaults /\ faults' = faults + 1
  /\ device' = "none" /\ op' = NoOp /\ cow' = Closed
  /\ rp' = [rp EXCEPT !.on = FALSE]
  /\ UNCHANGED <<disk, frozen, flushed>>

(* The process is terminated: the stdio buffer is lost. *)
Kill ==
  /\ Abandoned
  /\ ov' = IF cow.open THEN [ov EXCEPT ![Len(ov)] = Cut(@, cow.pending)] ELSE ov

(* A loss of power after a flush: the image was synced, the overlay was    *)
(* only handed to the host, which may have kept any beginning of it.       *)
PowerLoss ==
  /\ PowerLosses /\ flushed /\ ov # <<>>
  /\ Abandoned
  /\ \/ \E n \in 0 .. Len(ov[Len(ov)].recs) :
          ov' = [ov EXCEPT ![Len(ov)].recs = SubSeq(@, 1, n)]
     \/ ov' = [ov EXCEPT ![Len(ov)].st = IF @ = "absent" THEN @ ELSE "bad"]

----------------------------------------------------------------------------
Init ==
  /\ disk \in Image
  /\ ov = <<>> /\ frozen = <<>>
  /\ cow = Closed /\ device = "none"
  /\ op = NoOp /\ rp = NoReplay
  /\ flushed = TRUE /\ faults = 0

Next ==
  \/ BeginWrite \/ SaveBlock \/ SaveFails \/ WriteBlock \/ WriteFails \/ CowFlush
  \/ Start \/ CreateCutShort \/ Stop \/ TakeSnapshot
  \/ BeginRestore \/ ReplayRecord \/ ReplayOlder \/ ReplayFails \/ Restored
  \/ Kill \/ PowerLoss

Spec == Init /\ [][Next]_vars

----------------------------------------------------------------------------
Overlays == [st : {"absent", "ok", "bad"}, recs : Seq([b : Blocks, v : Values])]
TypeOK ==
  /\ disk \in Image
  /\ ov \in Seq(Overlays) /\ frozen \in Seq(Image)
  /\ Len(frozen) = Len(ov) /\ Len(ov) <= MaxSnaps
  /\ cow \in [open : BOOLEAN, saved : SUBSET Blocks, poisoned : BOOLEAN, pending : BOOLEAN]
  /\ device \in {"none", "bare", "facade"}
  /\ op \in [pc : {"idle", "save", "write"}, first : Blocks, at : Blocks, last : Blocks]
  /\ rp \in [on : BOOLEAN, goal : Nat, k : Nat, i : Nat \ {0}]
  /\ rp.goal <= Len(ov) /\ rp.k <= Len(ov)
  /\ flushed \in BOOLEAN
  /\ faults \in 0 .. MaxFaults

(* The bitmap of the adapter is what the file holds, and no block is held  *)
(* twice: replay would apply the second copy, the newer one, last.         *)
OnceRecorded ==
  /\ \A s \in Snaps : \A i, j \in DOMAIN ov[s].recs :
       ov[s].recs[i].b = ov[s].recs[j].b => i = j
  /\ cow.open /\ ov[Len(ov)].st # "bad" => cow.saved = Recorded(ov[Len(ov)])

(* What a replay of the overlays from the newest to that of s makes of a   *)
(* block: the oldest overlay that holds it decides.                        *)
Holders(s, b) == {k \in s .. Len(ov) : b \in Recorded(ov[k])}
Replayed(s, b) ==
  IF Holders(s, b) = {} THEN disk[b]
  ELSE LET k == CHOOSE k \in Holders(s, b) : \A j \in Holders(s, b) : k <= j
       IN ov[k].recs[LastRecord(ov[k], b)].v

(* The snapshots that can still be asked for, and those no reader refuses. *)
Wanted == 1 .. (IF rp.goal = 0 THEN Len(ov) ELSE rp.goal)
Readable(s) == \A k \in s .. Len(ov) : ov[k].st # "bad"

(* Every way of half-recording a snapshot is refused rather than replayed: *)
(* at every instant, whatever the guest wrote and wherever the process was *)
(* terminated or a call failed, replaying the overlays of a snapshot that  *)
(* no reader refuses brings back the disk of that snapshot (cow_write_at,  *)
(* index_existing, vm_cow_replay).                                         *)
Restorable ==
  \A s \in Wanted : Readable(s) => \A b \in Blocks : Replayed(s, b) = frozen[s][b]

(* A restore that reported success for every overlay, after any number of  *)
(* interrupted ones, has put back exactly the disk of its snapshot.        *)
RestoreExact == rp.on /\ rp.k < rp.goal => disk = frozen[rp.goal]
=============================================================================
