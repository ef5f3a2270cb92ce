---------------------------- MODULE SnapshotCowProof ----------------------------
(***************************************************************************)
(* Proofs about SnapshotCow: for any number of blocks, contents and        *)
(* snapshots, and any mixture of terminations and failing calls, the       *)
(* overlays bring back every snapshot that no reader refuses.              *)
(***************************************************************************)
EXTENDS SnapshotCow, SequenceTheorems, WellFoundedInduction, TLAPS

Newest == ov[Len(ov)]

(* The machine runs on the facade exactly while the adapter is open; an    *)
(* adapter over a file that went bad refuses writes.                       *)
Modes ==
  /\ device = "facade" <=> cow.open
  /\ device = "bare" => ov = <<>>
  /\ device # "none" => rp = NoReplay
  /\ device = "none" \/ op.pc = "idle" => op = NoOp
  /\ cow.open => ov # <<>> /\ Newest.st # "absent"
  /\ cow.open /\ Newest.st = "bad" => cow.poisoned
  /\ cow.poisoned => op = NoOp
  /\ ~cow.open => ~cow.poisoned /\ ~cow.pending
  /\ \A s \in Snaps : ov[s].st = "absent" => ov[s].recs = <<>>

(* How far the write in progress has recorded what it will overwrite. *)
Saved ==
  /\ op.pc = "save" => /\ device = "facade"
                       /\ op.first <= op.at /\ op.at <= op.last
                       /\ op.first .. (op.at - 1) \subseteq cow.saved
  /\ op.pc = "write" => /\ op.first <= op.at /\ op.at <= op.last
                        /\ cow.open => op.first .. op.last \subseteq cow.saved

(* No overlay from that of s to the one before k, or to the newest, holds a block. *)
First(O, s, k, b) == \A j \in s .. Len(O) : j < k => b \notin Recorded(O[j])
Clear(O, s, b) == \A j \in s .. Len(O) : b \notin Recorded(O[j])

(* The oldest record of a block at or after a snapshot holds what the      *)
(* snapshot had, and so does the image where there is no such record.      *)
Matches(O, d, f, s) ==
  /\ \A k \in s .. Len(O) : \A i \in DOMAIN O[k].recs :
       First(O, s, k, O[k].recs[i].b) => O[k].recs[i].v = f[O[k].recs[i].b]
  /\ \A b \in Blocks : Clear(O, s, b) => d[b] = f[b]
Match == \A s \in Wanted : Readable(s) => Matches(ov, disk, frozen[s], s)

(* What the replay has put back so far. *)
Done(p, h, x) == h > p.k \/ (h = p.k /\ x < p.i)
Oldest(O, p, h, b) ==
  \A g \in 1 .. Len(O) : \A y \in DOMAIN O[g].recs :
    g < h /\ Done(p, g, y) => O[g].recs[y].b # b
PutBack(O, d, p) ==
  \A h \in 1 .. Len(O) : \A x \in DOMAIN O[h].recs :
    Done(p, h, x) /\ Oldest(O, p, h, O[h].recs[x].b)
      => d[O[h].recs[x].b] = O[h].recs[x].v
Progress ==
  rp.on =>
    /\ rp.goal >= 1 /\ rp.goal <= rp.k + 1
    /\ \A h \in (rp.k + 1) .. Len(ov) : ov[h].st = "ok"
    /\ rp.k < rp.goal => rp.i = 1
    /\ PutBack(ov, disk, rp)

IInv == TypeOK /\ OnceRecorded /\ Modes /\ Saved /\ Match /\ Progress

----------------------------------------------------------------------------
(* The elements of the two sequences. *)
LEMMA Elements ==
  ASSUME TypeOK, NEW s \in Snaps
  PROVE  /\ ov[s].st \in {"absent", "ok", "bad"}
         /\ ov[s].recs \in Seq([b : Blocks, v : Values])
         /\ frozen[s] \in Image
         /\ \A i \in DOMAIN ov[s].recs :
              ov[s].recs[i].b \in Blocks /\ ov[s].recs[i].v \in Values
         /\ Recorded(ov[s]) \subseteq Blocks
<1>1. ov[s] \in Overlays /\ frozen[s] \in Image
  BY DEF TypeOK, Snaps
<1>2. /\ ov[s].st \in {"absent", "ok", "bad"}
      /\ ov[s].recs \in Seq([b : Blocks, v : Values])
  BY <1>1 DEF Overlays
<1>3. \A i \in DOMAIN ov[s].recs : ov[s].recs[i] \in [b : Blocks, v : Values]
  <2>. DEFINE R == ov[s].recs
             S == [b : Blocks, v : Values]
  <2>1. R \in Seq(S)
    BY <1>2
  <2>. HIDE DEF R, S
  <2>2. \A i \in DOMAIN R : R[i] \in S
    BY <2>1
  <2>. QED BY <2>2 DEF R, S
<1>. QED BY <1>1, <1>2, <1>3 DEF Recorded

LEMMA InitInv == Init => IInv
<1>. SUFFICES ASSUME Init PROVE IInv
  OBVIOUS
<1>1. TypeOK
  BY CowAssumption DEF Init, TypeOK, Closed, NoOp, NoReplay, Blocks
<1>2. OnceRecorded
  BY DEF Init, OnceRecorded, Snaps, Closed
<1>3. Modes /\ Saved
  BY DEF Init, Modes, Saved, Closed, NoOp, NoReplay, Snaps
<1>4. Match /\ Progress
  BY DEF Init, Match, Progress, Wanted, NoReplay
<1>. QED BY <1>1, <1>2, <1>3, <1>4 DEF IInv

(* Steps that touch neither image, overlays nor replay. *)
LEMMA BeginWriteStep == IInv /\ BeginWrite => IInv'
<1>. SUFFICES ASSUME IInv, BeginWrite PROVE IInv'
  OBVIOUS
<1>. USE CowAssumption
<1>1. PICK first \in Blocks : \E last \in first .. LastBlock :
        op' = [pc |-> IF device = "facade" THEN "save" ELSE "write",
               first |-> first, at |-> first, last |-> last]
  BY DEF BeginWrite
<1>2. PICK last \in first .. LastBlock :
        op' = [pc |-> IF device = "facade" THEN "save" ELSE "write",
               first |-> first, at |-> first, last |-> last]
  BY <1>1
<1>3. last \in Blocks /\ first <= last /\ first \in Int
  BY DEF Blocks
<1>4. TypeOK'
  BY <1>2, <1>3 DEF IInv, TypeOK, BeginWrite
<1>5. OnceRecorded' /\ Match' /\ Progress'
  BY DEF IInv, OnceRecorded, Match, Progress, BeginWrite, Snaps, Wanted, Readable, Done, Recorded
<1>6. Modes'
  BY <1>2 DEF IInv, Modes, BeginWrite, Snaps, Newest, TypeOK, Closed
<1>7. Saved'
  BY <1>2, <1>3 DEF IInv, Saved, Modes, BeginWrite, TypeOK
<1>. QED BY <1>4, <1>5, <1>6, <1>7 DEF IInv

LEMMA WriteFailsStep == IInv /\ WriteFails => IInv'
<1>. SUFFICES ASSUME IInv, WriteFails PROVE IInv'
  OBVIOUS
<1>. USE CowAssumption
<1>1. TypeOK'
  BY DEF IInv, TypeOK, WriteFails, NoOp, Blocks
<1>2. OnceRecorded' /\ Match' /\ Progress'
  BY DEF IInv, OnceRecorded, Match, Progress, WriteFails, Snaps, Wanted, Readable, Done, Recorded
<1>3. Modes' /\ Saved'
  BY DEF IInv, Modes, Saved, WriteFails, Snaps, Newest, NoOp
<1>. QED BY <1>1, <1>2, <1>3 DEF IInv

LEMMA CowFlushStep == IInv /\ CowFlush => IInv'
<1>. SUFFICES ASSUME IInv, CowFlush PROVE IInv'
  OBVIOUS
<1>1. cow' = [cow EXCEPT !.pending = FALSE] /\ UNCHANGED <<disk, ov, frozen, device, op, rp, faults>>
      /\ flushed' = TRUE
  BY DEF CowFlush
<1>2. /\ cow'.open = cow.open /\ cow'.saved = cow.saved /\ cow'.poisoned = cow.poisoned
      /\ cow'.pending = FALSE
      /\ cow' \in [open : BOOLEAN, saved : SUBSET Blocks, poisoned : BOOLEAN, pending : BOOLEAN]
  BY <1>1 DEF IInv, TypeOK
<1>3. TypeOK'
  BY <1>1, <1>2 DEF IInv, TypeOK
<1>4. OnceRecorded' /\ Match' /\ Progress'
  BY <1>1, <1>2 DEF IInv, OnceRecorded, Match, Progress, Snaps, Wanted, Readable, Done, Recorded
<1>6. Modes' /\ Saved'
  BY <1>1, <1>2 DEF IInv, Modes, Saved, Snaps, Newest
<1>. QED BY <1>3, <1>4, <1>6 DEF IInv

(* A save that fails only ever makes the newest file unreadable. *)
LEMMA SaveFailsStep == IInv /\ SaveFails => IInv'
<1>. SUFFICES ASSUME IInv, SaveFails PROVE IInv'
  OBVIOUS
<1>. USE CowAssumption
<1>1. /\ device = "facade" /\ cow.open /\ ov # <<>> /\ rp = NoReplay
      /\ Len(ov) \in Snaps
  BY DEF IInv, TypeOK, Modes, Saved, SaveFails, Snaps
<1>2. /\ cow'.open = cow.open /\ cow'.saved = cow.saved /\ cow'.poisoned = TRUE
      /\ cow' \in [open : BOOLEAN, saved : SUBSET Blocks, poisoned : BOOLEAN, pending : BOOLEAN]
  BY DEF IInv, TypeOK, SaveFails
<1>3. /\ UNCHANGED <<disk, frozen, device, rp, flushed>> /\ op' = NoOp
      /\ faults' \in 0 .. MaxFaults
  BY DEF IInv, TypeOK, SaveFails
<1>4. CASE UNCHANGED ov
  <2>1. TypeOK'
    BY <1>2, <1>3, <1>4 DEF IInv, TypeOK, NoOp, Blocks
  <2>2. OnceRecorded' /\ Match' /\ Progress'
    BY <1>2, <1>3, <1>4 DEF IInv, OnceRecorded, Match, Progress, Snaps, Wanted, Readable, Done, Recorded
  <2>3. Modes' /\ Saved'
    BY <1>1, <1>2, <1>3, <1>4 DEF IInv, Modes, Saved, Snaps, Newest, NoOp
  <2>. QED BY <2>1, <2>2, <2>3 DEF IInv
<1>5. CASE ov' = [ov EXCEPT ![Len(ov)].st = "bad"]
  <2>. DEFINE n == Len(ov)
             o == [ov[n] EXCEPT !.st = "bad"]
  <2>1. ov[n] \in Overlays
    BY <1>1 DEF IInv, TypeOK, Snaps
  <2>2. o \in Overlays /\ o.st = "bad" /\ o.recs = ov[n].recs
    BY <2>1 DEF Overlays
  <2>3. ov' = [ov EXCEPT ![n] = o]
    BY <1>5
  <2>. HIDE DEF o
  <2>4. /\ Len(ov') = n /\ ov' \in Seq(Overlays)
        /\ \A s \in Snaps : s # n => ov'[s] = ov[s]
        /\ ov'[n] = o
    BY <2>2, <2>3, <1>1 DEF IInv, TypeOK, Snaps
  <2>5. TypeOK'
    BY <1>2, <1>3, <2>4 DEF IInv, TypeOK, NoOp, Blocks
  <2>6. OnceRecorded'
    BY <1>2, <1>3, <2>2, <2>4 DEF IInv, OnceRecorded, Snaps
  <2>7. Modes' /\ Saved'
    BY <1>1, <1>2, <1>3, <2>2, <2>4 DEF IInv, Modes, Saved, Snaps, Newest, NoOp
  <2>8. \A s \in Wanted' : ~Readable(s)'
    BY <1>1, <1>3, <2>2, <2>4 DEF Wanted, Readable, NoReplay, Snaps
  <2>9. Match' /\ Progress'
    BY <1>1, <1>3, <2>8 DEF Match, Progress, NoReplay
  <2>. QED BY <2>5, <2>6, <2>7, <2>9 DEF IInv
<1>. QED BY <1>4, <1>5 DEF SaveFails

(* A written block has a record in the newest overlay, or there is no      *)
(* snapshot.                                                               *)
LEMMA WriteBlockStep == IInv /\ WriteBlock => IInv'
<1>. SUFFICES ASSUME IInv, WriteBlock PROVE IInv'
  OBVIOUS
<1>. USE CowAssumption
<1>1. PICK v \in Values : disk' = [disk EXCEPT ![op.at] = v]
  BY DEF WriteBlock
<1>2. /\ UNCHANGED <<ov, frozen, cow, device, rp, flushed, faults>>
      /\ op.at \in op.first .. op.last /\ op.at \in Blocks /\ op.last \in Blocks
      /\ rp = NoReplay /\ device # "none"
  BY DEF IInv, TypeOK, Modes, Saved, WriteBlock, NoOp, Blocks
<1>3. /\ disk' \in Image
      /\ \A b \in Blocks : b # op.at => disk'[b] = disk[b]
  BY <1>1, <1>2 DEF IInv, TypeOK, Image
<1>4. /\ op' \in [pc : {"idle", "save", "write"}, first : Blocks, at : Blocks, last : Blocks]
      /\ op'.pc # "save" /\ (op'.pc = "idle" => op' = NoOp)
      /\ op'.pc = "write" => /\ op.at < op.last /\ op'.at = op.at + 1
                             /\ op'.first = op.first /\ op'.last = op.last
  <2>1. op \in [pc : {"idle", "save", "write"}, first : Blocks, at : Blocks, last : Blocks]
    BY DEF IInv, TypeOK
  <2>2. op.pc = "write" /\ op' = IF op.at < op.last THEN [op EXCEPT !.at = op.at + 1] ELSE NoOp
    BY DEF WriteBlock, Following
  <2>3. op.at < op.last => op.at + 1 \in Blocks
    BY <1>2 DEF Blocks
  <2>4. NoOp \in [pc : {"idle", "save", "write"}, first : Blocks, at : Blocks, last : Blocks]
        /\ NoOp.pc = "idle"
    BY DEF NoOp, Blocks
  <2>. QED BY <2>1, <2>2, <2>3, <2>4
<1>5. TypeOK'
  BY <1>2, <1>3, <1>4 DEF IInv, TypeOK
<1>6. OnceRecorded'
  BY <1>2 DEF IInv, OnceRecorded, Snaps, Recorded
<1>7. Modes'
  BY <1>2, <1>4 DEF IInv, Modes, Snaps, Newest, WriteBlock, NoOp
<1>8. Saved'
  BY <1>2, <1>4 DEF IInv, TypeOK, Saved, Blocks, WriteBlock
<1>9. Match'
  <2>. SUFFICES ASSUME NEW s \in Wanted, Readable(s)
               PROVE  Matches(ov, disk', frozen[s], s)
    <3>1. ov' = ov /\ frozen' = frozen /\ rp' = rp
      BY <1>2
    <3>. QED BY <3>1 DEF Match, Wanted, Readable
  <2>1. s \in Snaps /\ Len(ov) \in s .. Len(ov)
    BY <1>2 DEF Wanted, NoReplay, Snaps, IInv, TypeOK
  <2>2. device = "facade" /\ cow.open
    BY <1>2, <2>1 DEF IInv, TypeOK, Modes, Snaps
  <2>3. op.at \in Recorded(ov[Len(ov)])
    BY <1>2, <2>1, <2>2 DEF IInv, Saved, OnceRecorded, Readable, WriteBlock
  <2>4. ~Clear(ov, s, op.at)
    BY <2>1, <2>3 DEF Clear
  <2>5. Matches(ov, disk, frozen[s], s)
    BY DEF IInv, Match
  <2>. QED BY <1>3, <2>4, <2>5 DEF Matches
<1>10. Progress'
  BY <1>2 DEF Progress, NoReplay
<1>. QED BY <1>5, <1>6, <1>7, <1>8, <1>9, <1>10 DEF IInv

(* Replacing the newest overlay. *)
LEMMA Replaced ==
  ASSUME TypeOK, ov # <<>>, NEW o \in Overlays, ov' = [ov EXCEPT ![Len(ov)] = o]
  PROVE  /\ Len(ov) \in Snaps /\ ov[Len(ov)] \in Overlays
         /\ Len(ov') = Len(ov) /\ Snaps' = Snaps /\ ov' \in Seq(Overlays)
         /\ \A s \in Snaps : s # Len(ov) => ov'[s] = ov[s]
         /\ ov'[Len(ov)] = o
BY DEF TypeOK, Snaps

(* A record is appended before the block is written: it holds what the     *)
(* image held since the oldest snapshot that has no other record of it.    *)
LEMMA SaveBlockStep == IInv /\ SaveBlock => IInv'
<1>. SUFFICES ASSUME IInv, SaveBlock PROVE IInv'
  OBVIOUS
<1>. USE CowAssumption
<1>1. /\ UNCHANGED <<disk, frozen, device, rp, flushed, faults>>
      /\ op.pc = "save" /\ device = "facade" /\ cow.open /\ ov # <<>> /\ rp = NoReplay
      /\ Newest.st = "ok" /\ ~cow.poisoned
      /\ op.at \in op.first .. op.last /\ {op.first, op.at, op.last} \subseteq Blocks
      /\ op.first .. (op.at - 1) \subseteq cow.saved
  <2>1. /\ UNCHANGED <<disk, frozen, device, rp, flushed, faults>>
        /\ op.pc = "save" /\ device = "facade" /\ cow.open /\ ov # <<>> /\ rp = NoReplay
        /\ op.at \in op.first .. op.last /\ {op.first, op.at, op.last} \subseteq Blocks
        /\ op.first .. (op.at - 1) \subseteq cow.saved
    <3>1. op.pc = "save" /\ UNCHANGED <<disk, frozen, device, rp, flushed, faults>>
      BY DEF SaveBlock
    <3>2. /\ device = "facade" /\ op.first <= op.at /\ op.at <= op.last
          /\ op.first .. (op.at - 1) \subseteq cow.saved
      BY <3>1 DEF IInv, Saved
    <3>3. op.first \in Blocks /\ op.at \in Blocks /\ op.last \in Blocks
      BY DEF IInv, TypeOK
    <3>4. cow.open /\ ov # <<>> /\ rp = NoReplay
      BY <3>2 DEF IInv, Modes
    <3>5. op.at \in op.first .. op.last
      BY <3>2, <3>3 DEF Blocks
    <3>. QED BY <3>1, <3>2, <3>3, <3>4, <3>5
  <2>2. ~cow.poisoned
    BY <2>1 DEF IInv, Modes, NoOp
  <2>3. Len(ov) \in Snaps
    BY <2>1 DEF IInv, TypeOK, Snaps
  <2>4. Newest.st = "ok"
    BY <2>1, <2>2, <2>3, Elements DEF IInv, Modes, Newest
  <2>. QED BY <2>1, <2>2, <2>4
<1>2. /\ op' \in [pc : {"idle", "save", "write"}, first : Blocks, at : Blocks, last : Blocks]
      /\ op'.first = op.first /\ op'.last = op.last
      /\ \/ op.at < op.last /\ op'.pc = "save" /\ op'.at = op.at + 1
         \/ op.at = op.last /\ op'.pc = "write" /\ op'.at = op.first
  <2>1. op \in [pc : {"idle", "save", "write"}, first : Blocks, at : Blocks, last : Blocks]
    BY DEF IInv, TypeOK
  <2>2. op.first \in Blocks /\ op.at \in Blocks /\ op.last \in Blocks /\ op.at <= op.last
        /\ op.at \in Int /\ op.last \in Int
    BY <1>1 DEF Blocks
  <2>3. CASE op.at < op.last
    <3>1. op' = [op EXCEPT !.at = op.at + 1]
      BY <2>3 DEF SaveBlock, Following
    <3>2. op.at + 1 \in Blocks
      BY <2>2, <2>3 DEF Blocks
    <3>. QED BY <1>1, <2>1, <2>3, <3>1, <3>2
  <2>4. CASE op.at = op.last
    <3>. DEFINE next == [op EXCEPT !.pc = "write", !.at = op.first]
    <3>0. op' = Following(next)
      BY DEF SaveBlock
    <3>. HIDE DEF next
    <3>1. op' = next
      BY <2>2, <2>4, <3>0 DEF Following
    <3>2. /\ op' \in [pc : {"idle", "save", "write"}, first : Blocks, at : Blocks, last : Blocks]
          /\ op'.pc = "write" /\ op'.at = op.first /\ op'.first = op.first /\ op'.last = op.last
      BY <2>1, <2>2, <3>1 DEF next
    <3>. QED BY <2>4, <3>2
  <2>. QED BY <2>2, <2>3, <2>4
<1>3. ASSUME cow'.saved = cow.saved \cup {op.at}
      PROVE  Saved'
  BY <1>1, <1>2, <1>3 DEF Saved, Blocks
<1>4. CASE op.at \in cow.saved
  <2>1. ov' = ov /\ cow' = cow /\ disk' = disk /\ frozen' = frozen /\ rp' = rp
    BY <1>1, <1>4 DEF SaveBlock
  <2>2. TypeOK'
    BY <1>1, <1>2, <2>1 DEF IInv, TypeOK
  <2>3. OnceRecorded' /\ Match' /\ Progress'
    BY <2>1 DEF IInv, OnceRecorded, Match, Progress, Snaps, Wanted, Readable, Done, Recorded
  <2>4. Modes'
    BY <1>1, <1>2, <2>1 DEF IInv, Modes, Snaps, Newest
  <2>5. Saved'
    BY <1>3, <1>4, <2>1
  <2>. QED BY <2>2, <2>3, <2>4, <2>5 DEF IInv
<1>5. CASE op.at \notin cow.saved
  <2>. DEFINE n == Len(ov)
             r == [b |-> op.at, v |-> disk[op.at]]
             R == ov[n].recs
             o == [ov[n] EXCEPT !.recs = Append(@, r)]
  <2>1. n \in Snaps
    BY <1>1 DEF IInv, TypeOK, Snaps
  <2>2. ov[n] \in Overlays /\ R \in Seq([b : Blocks, v : Values])
    <3>1. ov[n] \in Overlays
      BY <2>1 DEF IInv, TypeOK, Snaps
    <3>. QED BY <3>1, <2>1, Elements DEF IInv
  <2>3. r \in [b : Blocks, v : Values] /\ r.b = op.at /\ r.v = disk[op.at]
    BY <1>1 DEF IInv, TypeOK, Image
  <2>. HIDE DEF r
  <2>4. Append(R, r) \in Seq([b : Blocks, v : Values])
    <3>. DEFINE S == [b : Blocks, v : Values]
    <3>. HIDE DEF R, S
    <3>1. r \in S /\ R \in Seq(S) => Append(R, r) \in Seq(S)
      OBVIOUS
    <3>. QED BY <2>2, <2>3, <3>1 DEF S
  <2>5. o \in Overlays /\ o.st = "ok" /\ o.recs = Append(R, r)
    BY <1>1, <2>2, <2>4 DEF Overlays, Newest
  <2>6. ov' = [ov EXCEPT ![n] = o]
    BY <1>5 DEF SaveBlock, r
  <2>7. PICK p \in BOOLEAN : cow' = [cow EXCEPT !.saved = @ \cup {op.at}, !.pending = p]
    BY <1>5 DEF SaveBlock
  <2>8. /\ cow'.open = cow.open /\ cow'.saved = cow.saved \cup {op.at}
        /\ cow'.poisoned = cow.poisoned /\ cow'.pending = p
        /\ cow' \in [open : BOOLEAN, saved : SUBSET Blocks, poisoned : BOOLEAN, pending : BOOLEAN]
    BY <1>1, <2>7 DEF IInv, TypeOK
  <2>. HIDE DEF o
  <2>9. /\ Len(ov') = n /\ Snaps' = Snaps /\ ov' \in Seq(Overlays)
        /\ \A s \in Snaps : s # n => ov'[s] = ov[s]
        /\ ov'[n] = o
    BY <1>1, <2>5, <2>6, Replaced DEF IInv
  <2>. HIDE DEF R
  <2>10. /\ DOMAIN o.recs = 1 .. (Len(R) + 1) /\ DOMAIN R = 1 .. Len(R) /\ Len(R) \in Nat
         /\ \A i \in DOMAIN R : o.recs[i] = R[i]
         /\ o.recs[Len(R) + 1] = r
    BY <2>2, <2>5
  <2>11. /\ Recorded(ov[n]) = {R[i].b : i \in DOMAIN R}
         /\ Recorded(o) = Recorded(ov[n]) \cup {op.at}
    <3>1. Recorded(ov[n]) = {R[i].b : i \in DOMAIN R}
      BY DEF Recorded, R
    <3>2. Recorded(o) = {o.recs[i].b : i \in DOMAIN o.recs}
      BY DEF Recorded
    <3>3. ASSUME NEW x \in Recorded(o) PROVE x \in Recorded(ov[n]) \cup {op.at}
      BY <3>1, <3>2, <2>3, <2>10
    <3>4. ASSUME NEW x \in Recorded(ov[n]) PROVE x \in Recorded(o)
      <4>1. PICK i \in DOMAIN R : x = R[i].b
        BY <3>1
      <4>. QED BY <4>1, <3>2, <2>10
    <3>5. op.at \in Recorded(o)
      <4>1. Len(R) + 1 \in DOMAIN o.recs
        BY <2>10
      <4>. QED BY <4>1, <3>2, <2>3, <2>10
    <3>. QED BY <3>1, <3>3, <3>4, <3>5
  <2>12. cow.saved = Recorded(ov[n])
    BY <1>1 DEF IInv, OnceRecorded, Newest
  <2>13. TypeOK'
    BY <1>1, <1>2, <2>8, <2>9 DEF IInv, TypeOK
  <2>14. OnceRecorded'
    <3>1. \A i, j \in DOMAIN R : R[i].b = R[j].b => i = j
      BY <2>1 DEF IInv, OnceRecorded, R
    <3>2. \A i, j \in DOMAIN o.recs : o.recs[i].b = o.recs[j].b => i = j
      BY <3>1, <2>3, <2>10, <2>11, <2>12, <1>5
    <3>3. \A s \in Snaps : \A i, j \in DOMAIN ov'[s].recs :
            ov'[s].recs[i].b = ov'[s].recs[j].b => i = j
      BY <3>2, <2>9 DEF IInv, OnceRecorded
    <3>4. cow'.saved = Recorded(ov'[Len(ov')])
      BY <2>8, <2>9, <2>11, <2>12
    <3>. QED BY <3>3, <3>4, <2>9 DEF OnceRecorded
  <2>15. Modes'
    BY SMTT(30), <1>1, <1>2, <2>5, <2>8, <2>9 DEF IInv, Modes, Newest
  <2>16. Saved'
    BY <1>3, <2>8
  <2>17. Match'
    <3>1. disk' = disk /\ frozen' = frozen /\ rp' = rp
      BY <1>1
    <3>2. Wanted' = 1 .. n /\ Wanted = 1 .. n
      BY <1>1, <2>9, <3>1 DEF Wanted, NoReplay
    <3>. SUFFICES ASSUME NEW s \in 1 .. n, Readable(s)'
                 PROVE  Matches(ov', disk, frozen[s], s)
      BY <3>1, <3>2 DEF Match
    <3>3. n \in Nat /\ s \in Nat /\ s >= 1 /\ s <= n /\ Snaps = 1 .. n
      BY DEF IInv, TypeOK, Snaps
    <3>4. Readable(s)
      <4>1. ASSUME NEW k \in s .. n PROVE ov[k].st # "bad"
        <5>1. CASE k = n
          BY <5>1, <1>1 DEF Newest
        <5>2. CASE k # n
          <6>1. k \in Snaps
            BY <3>3
          <6>. QED BY <5>2, <6>1, <2>9 DEF Readable
        <5>. QED BY <5>1, <5>2
      <4>. QED BY <4>1 DEF Readable
    <3>5. Matches(ov, disk, frozen[s], s)
      BY <3>2, <3>4 DEF IInv, Match
    <3>6. \A k \in s .. n : k \in Snaps
      BY <3>3
    <3>7. \A k \in s .. n : Recorded(ov[k]) \subseteq Recorded(ov'[k])
      BY <2>9, <2>11, <3>6
    <3>8. \A k, b : First(ov', s, k, b) => First(ov, s, k, b)
      BY <2>9, <3>7 DEF First
    <3>9. \A b : Clear(ov', s, b) => Clear(ov, s, b)
      BY <2>9, <3>7 DEF Clear
    <3>10. ASSUME NEW k \in s .. n, NEW i \in DOMAIN ov'[k].recs,
                  First(ov', s, k, ov'[k].recs[i].b)
           PROVE  ov'[k].recs[i].v = frozen[s][ov'[k].recs[i].b]
      <4>1. CASE k # n
        <5>1. ov'[k] = ov[k]
          BY <4>1, <3>6, <2>9
        <5>. QED BY <5>1, <3>5, <3>8, <3>10 DEF Matches
      <4>2. CASE k = n /\ i \in DOMAIN R
        <5>1. ov'[k].recs[i] = ov[k].recs[i] /\ i \in DOMAIN ov[k].recs
          BY <4>2, <2>9, <2>10 DEF R
        <5>. QED BY <5>1, <3>5, <3>8, <3>10 DEF Matches
      <4>3. CASE k = n /\ i = Len(R) + 1
        <5>1. ov'[k].recs[i].b = op.at /\ ov'[k].recs[i].v = disk[op.at]
          BY <4>3, <2>3, <2>9, <2>10
        <5>2. First(ov, s, n, op.at)
          BY <5>1, <4>3, <3>8, <3>10
        <5>3. Clear(ov, s, op.at)
          <6>. SUFFICES ASSUME NEW j \in s .. n PROVE op.at \notin Recorded(ov[j])
            BY DEF Clear
          <6>1. CASE j = n
            BY <6>1, <1>5, <2>12
          <6>2. CASE j < n
            BY <6>2, <5>2 DEF First
          <6>. QED BY <6>1, <6>2, <3>3
        <5>. QED BY <5>1, <5>3, <3>5, <1>1 DEF Matches
      <4>. QED BY <4>1, <4>2, <4>3, <2>9, <2>10
    <3>. QED BY <3>5, <3>9, <3>10, <2>9 DEF Matches
  <2>18. Progress'
    BY <1>1 DEF Progress, NoReplay
  <2>. QED BY <2>13, <2>14, <2>15, <2>16, <2>17, <2>18 DEF IInv
<1>. QED BY <1>4, <1>5

(* Only the records matter to a replay. *)
LEMMA SameRecords ==
  ASSUME NEW O, NEW P, Len(O) \in Nat, Len(P) = Len(O),
         \A k \in 1 .. Len(O) : P[k].recs = O[k].recs,
         NEW d, NEW f, NEW s \in Nat, s >= 1, Matches(O, d, f, s)
  PROVE  Matches(P, d, f, s)
<1>1. \A k \in s .. Len(O) : P[k].recs = O[k].recs /\ Recorded(P[k]) = Recorded(O[k])
  BY DEF Recorded
<1>2. \A k, b : First(P, s, k, b) => First(O, s, k, b)
  BY <1>1 DEF First
<1>3. \A b : Clear(P, s, b) => Clear(O, s, b)
  BY <1>1 DEF Clear
<1>. QED BY SMTT(30), <1>1, <1>2, <1>3 DEF Matches

(* A fresh overlay gets its header, an existing one its bitmap. *)
LEMMA StartStep == ~Transient /\ IInv /\ Start => IInv'
<1>. SUFFICES ASSUME ~Transient, IInv, Start PROVE IInv'
  OBVIOUS
<1>. USE CowAssumption
<1>1. /\ disk' = disk /\ frozen' = frozen /\ op' = op /\ rp' = rp
      /\ flushed' = flushed
      /\ device = "none" /\ rp = NoReplay /\ op = NoOp /\ ~cow.open /\ ~cow.poisoned
  BY DEF IInv, Modes, Start
<1>2. Progress' /\ Saved'
  BY <1>1 DEF Progress, Saved, NoReplay, NoOp
<1>3. CASE ov = <<>> /\ device' = "bare" /\ ov' = ov /\ cow' = cow /\ faults' = faults
  <2>1. TypeOK'
    BY <1>1, <1>3 DEF IInv, TypeOK
  <2>2. OnceRecorded' /\ Match'
    BY <1>1, <1>3 DEF IInv, OnceRecorded, Match, Snaps, Wanted, Readable
  <2>3. Modes'
    BY <1>1, <1>3 DEF IInv, Modes, Snaps
  <2>. QED BY <1>2, <2>1, <2>2, <2>3 DEF IInv
<1>4. CASE ov # <<>> /\ device' = "facade" /\ CowOpen(Len(ov))
  <2>. DEFINE n == Len(ov)
             o == [ov[n] EXCEPT !.st = "ok"]
  <2>1. n \in Snaps /\ n \in Nat /\ Snaps = 1 .. n
    BY <1>4 DEF IInv, TypeOK, Snaps
  <2>2. ov[n] \in Overlays /\ Recorded(ov[n]) \subseteq Blocks
    <3>1. ov[n] \in Overlays
      BY <2>1 DEF IInv, TypeOK, Snaps
    <3>. QED BY <3>1, <2>1, Elements DEF IInv
  <2>3. o \in Overlays /\ o.st = "ok" /\ o.recs = ov[n].recs
    BY <2>2 DEF Overlays
  <2>4. ov' = [ov EXCEPT ![n] = o] /\ ov[n].st # "bad"
    BY <1>4 DEF CowOpen
  <2>5. /\ cow'.open /\ cow'.saved = Recorded(ov[n]) /\ ~cow'.poisoned
        /\ cow' \in [open : BOOLEAN, saved : SUBSET Blocks, poisoned : BOOLEAN, pending : BOOLEAN]
    BY <1>4, <2>2 DEF CowOpen, Opened, Closed
  <2>. HIDE DEF o
  <2>6. /\ Len(ov') = n /\ Snaps' = Snaps /\ ov' \in Seq(Overlays)
        /\ \A s \in Snaps : s # n => ov'[s] = ov[s]
        /\ ov'[n] = o
    BY <1>4, <2>3, <2>4, Replaced DEF IInv
  <2>7. \A s \in Snaps : ov'[s].recs = ov[s].recs
    BY <2>3, <2>6
  <2>8. Recorded(ov'[n]) = Recorded(ov[n])
    BY <2>1, <2>7 DEF Recorded
  <2>9. TypeOK'
    BY <1>1, <1>4, <2>5, <2>6 DEF IInv, TypeOK, CowOpen
  <2>10. OnceRecorded'
    BY <2>5, <2>6, <2>7, <2>8 DEF IInv, OnceRecorded
  <2>11. Modes'
    <3>1. ov' # <<>>
      BY <2>1, <2>6
    <3>2. Newest' = o
      BY <2>6 DEF Newest
    <3>3. \A s \in Snaps : ov'[s].st = "absent" => ov'[s].recs = <<>>
      BY <2>3, <2>6 DEF IInv, Modes
    <3>. QED BY <1>1, <1>4, <2>3, <2>5, <2>6, <3>1, <3>2, <3>3 DEF Modes
  <2>12. Match'
    <3>1. Wanted' = 1 .. n /\ Wanted = 1 .. n
      BY <1>1, <2>6 DEF Wanted, NoReplay
    <3>. SUFFICES ASSUME NEW s \in 1 .. n, Readable(s)'
                 PROVE  Matches(ov', disk, frozen[s], s)
      BY <1>1, <3>1 DEF Match
    <3>2. Readable(s)
      <4>1. \A k \in s .. n : k \in Snaps
        BY <2>1
      <4>. QED BY <4>1, <2>4, <2>6 DEF Readable
    <3>3. Matches(ov, disk, frozen[s], s)
      BY <3>1, <3>2 DEF IInv, Match
    <3>. QED BY <3>3, <2>1, <2>6, <2>7, SameRecords
  <2>. QED BY <1>2, <2>9, <2>10, <2>11, <2>12 DEF IInv
<1>. QED BY <1>3, <1>4 DEF Start, CowOpenAnew

(* An overlay that was not created to the end is refused. *)
LEMMA CreateCutShortStep == IInv /\ CreateCutShort => IInv'
<1>. SUFFICES ASSUME IInv, CreateCutShort PROVE IInv'
  OBVIOUS
<1>. USE CowAssumption
<1>. DEFINE n == Len(ov)
           o == [ov[n] EXCEPT !.st = "bad"]
<1>1. /\ disk' = disk /\ frozen' = frozen /\ op' = op /\ rp' = rp /\ cow' = cow
      /\ flushed' = flushed /\ device' = device /\ device = "none" /\ rp = NoReplay
      /\ ov # <<>> /\ faults < MaxFaults /\ faults' = faults + 1
      /\ ov' = [ov EXCEPT ![n] = o]
  BY DEF CreateCutShort
<1>2. n \in Snaps /\ n \in Nat /\ Snaps = 1 .. n /\ ov[n] \in Overlays /\ ~cow.open
  BY <1>1 DEF IInv, TypeOK, Snaps, Modes
<1>3. o \in Overlays /\ o.st = "bad" /\ o.recs = ov[n].recs
  BY <1>2 DEF Overlays
<1>. HIDE DEF o
<1>4. /\ Len(ov') = n /\ Snaps' = Snaps /\ ov' \in Seq(Overlays)
      /\ \A s \in Snaps : s # n => ov'[s] = ov[s]
      /\ ov'[n] = o
  BY <1>1, <1>3, Replaced DEF IInv
<1>5. TypeOK'
  BY <1>1, <1>4 DEF IInv, TypeOK
<1>6. OnceRecorded'
  <2>1. \A s \in Snaps : ov'[s].recs = ov[s].recs
    BY <1>3, <1>4
  <2>2. \A s \in Snaps : \A i, j \in DOMAIN ov'[s].recs :
          ov'[s].recs[i].b = ov'[s].recs[j].b => i = j
    <3>. SUFFICES ASSUME NEW s \in Snaps
                 PROVE  \A i, j \in DOMAIN ov'[s].recs :
                          ov'[s].recs[i].b = ov'[s].recs[j].b => i = j
      OBVIOUS
    <3>1. \A i, j \in DOMAIN ov[s].recs : ov[s].recs[i].b = ov[s].recs[j].b => i = j
      BY DEF IInv, OnceRecorded
    <3>. QED BY <2>1, <3>1
  <2>. QED BY <2>2, <1>1, <1>2, <1>4 DEF OnceRecorded
<1>7. Modes' /\ Saved'
  BY <1>1, <1>2, <1>3, <1>4 DEF IInv, Modes, Saved, NoOp
<1>8. \A s \in Wanted' : ~Readable(s)'
  <2>1. Wanted' = 1 .. n
    BY <1>1, <1>4 DEF Wanted, NoReplay
  <2>2. \A s \in 1 .. n : n \in s .. n
    BY <1>2
  <2>. QED BY <2>1, <2>2, <1>3, <1>4 DEF Readable
<1>9. Match' /\ Progress'
  BY <1>1, <1>8 DEF Match, Progress, NoReplay
<1>. QED BY <1>5, <1>6, <1>7, <1>9 DEF IInv

(* A file that ends inside its last record is refused; what is left of it  *)
(* is a beginning of what was there.                                       *)
LEMMA CutShort ==
  ASSUME NEW o \in Overlays
  PROVE  /\ Cut(o, TRUE) \in Overlays /\ Cut(o, TRUE).st = "bad"
         /\ DOMAIN Cut(o, TRUE).recs \subseteq DOMAIN o.recs
         /\ \A i \in DOMAIN Cut(o, TRUE).recs : Cut(o, TRUE).recs[i] = o.recs[i]
<1>. DEFINE R == o.recs
           S == [b : Blocks, v : Values]
           Q == SubSeq(R, 1, Len(R) - 1)
           c == Cut(o, TRUE)
<1>1. R \in Seq(S)
  BY DEF Overlays
<1>. HIDE DEF R, S
<1>2. /\ Q \in Seq(S)
      /\ DOMAIN Q \subseteq DOMAIN R
      /\ \A i \in DOMAIN Q : Q[i] = R[i]
  BY <1>1
<1>3. c = [st |-> "bad", recs |-> Q]
  BY DEF Cut, R
<1>. HIDE DEF Q, c
<1>4. c.st = "bad" /\ c.recs = Q
  BY <1>3
<1>5. c \in Overlays
  BY <1>2, <1>3 DEF Overlays, S
<1>6. c.st = "bad" /\ DOMAIN c.recs \subseteq DOMAIN o.recs /\ \A i \in DOMAIN c.recs : c.recs[i] = o.recs[i]
  BY <1>2, <1>4 DEF R
<1>. QED BY <1>5, <1>6 DEF c

(* Losing a buffer cuts the newest overlay, and no snapshot is readable.   *)
LEMMA Lost ==
  ASSUME IInv, ov # <<>>, rp.goal = 0, rp'.goal = 0,
         ov' = [ov EXCEPT ![Len(ov)] = Cut(@, TRUE)], cow' = Closed
  PROVE  /\ ov' \in Seq(Overlays) /\ Len(ov') = Len(ov) /\ Snaps' = Snaps
         /\ OnceRecorded' /\ Match'
         /\ \A s \in Snaps : ov'[s].st = "absent" => ov'[s].recs = <<>>
<1>. DEFINE n == Len(ov)
           o == Cut(ov[n], TRUE)
<1>1. n \in Snaps /\ ov[n] \in Overlays /\ n \in Nat /\ Snaps = 1 .. n
  BY DEF IInv, TypeOK, Snaps
<1>2. /\ o \in Overlays /\ o.st = "bad"
      /\ DOMAIN o.recs \subseteq DOMAIN ov[n].recs
      /\ \A i \in DOMAIN o.recs : o.recs[i] = ov[n].recs[i]
  BY <1>1, CutShort
<1>3. ov' = [ov EXCEPT ![n] = o]
  OBVIOUS
<1>. HIDE DEF o
<1>4. /\ Len(ov') = n /\ Snaps' = Snaps /\ ov' \in Seq(Overlays)
      /\ \A s \in Snaps : s # n => ov'[s] = ov[s]
      /\ ov'[n] = o
  BY <1>2, <1>3, Replaced DEF IInv
<1>5. OnceRecorded'
  <2>1. \A i, j \in DOMAIN o.recs : o.recs[i].b = o.recs[j].b => i = j
    BY <1>1, <1>2 DEF IInv, OnceRecorded
  <2>2. \A s \in Snaps : \A i, j \in DOMAIN ov'[s].recs :
          ov'[s].recs[i].b = ov'[s].recs[j].b => i = j
    <3>. SUFFICES ASSUME NEW s \in Snaps
                 PROVE  \A i, j \in DOMAIN ov'[s].recs :
                          ov'[s].recs[i].b = ov'[s].recs[j].b => i = j
      OBVIOUS
    <3>1. CASE s = n
      <4>1. ov'[s] = o
        BY <3>1, <1>4
      <4>. QED BY <4>1, <2>1
    <3>2. CASE s # n
      <4>1. ov'[s] = ov[s]
        BY <3>2, <1>4
      <4>2. \A i, j \in DOMAIN ov[s].recs : ov[s].recs[i].b = ov[s].recs[j].b => i = j
        BY DEF IInv, OnceRecorded
      <4>. QED BY <4>1, <4>2
    <3>. QED BY <3>1, <3>2
  <2>3. ~cow'.open
    BY DEF Closed
  <2>. QED BY <2>2, <2>3, <1>4 DEF OnceRecorded
<1>6. Match'
  <2>1. Wanted' = 1 .. n
    BY <1>4 DEF Wanted
  <2>2. \A s \in 1 .. n : ~Readable(s)'
    <3>1. \A s \in 1 .. n : n \in s .. n
      BY <1>1
    <3>2. ov'[n].st = "bad" /\ Len(ov') = n
      BY <1>2, <1>4
    <3>. QED BY <3>1, <3>2 DEF Readable
  <2>. QED BY <2>1, <2>2 DEF Match
<1>7. \A s \in Snaps : ov'[s].st = "absent" => ov'[s].recs = <<>>
  BY <1>2, <1>4 DEF IInv, Modes
<1>. QED BY <1>4, <1>5, <1>6, <1>7

(* The adapter is closed and the overlays are as they were. *)
LEMMA Detached ==
  ASSUME IInv, ov' = ov, disk' = disk, frozen' = frozen, rp'.goal = rp.goal, cow' = Closed
  PROVE  OnceRecorded' /\ Match'
BY DEF IInv, OnceRecorded, Match, Snaps, Wanted, Readable, Closed

LEMMA StopStep == IInv /\ Stop => IInv'
<1>. SUFFICES ASSUME IInv, Stop PROVE IInv'
  OBVIOUS
<1>. USE CowAssumption
<1>1. /\ disk' = disk /\ frozen' = frozen /\ op' = op /\ rp' = rp /\ cow' = Closed
      /\ flushed' = TRUE /\ device' = "none" /\ device # "none" /\ op.pc = "idle"
  BY DEF Stop, CowClose
<1>2. rp = NoReplay /\ rp.goal = 0 /\ op = NoOp
  BY <1>1 DEF IInv, Modes, NoReplay
<1>3. /\ faults' \in 0 .. MaxFaults
      /\ \/ ov' = ov
         \/ cow.open /\ ov' = [ov EXCEPT ![Len(ov)] = Cut(@, TRUE)]
  <2>1. faults \in 0 .. MaxFaults
    BY DEF IInv, TypeOK
  <2>2. \/ ov' = ov /\ faults' = faults
        \/ /\ faults < MaxFaults /\ faults' = faults + 1
           /\ cow.open /\ ov' = [ov EXCEPT ![Len(ov)] = Cut(@, TRUE)]
    BY DEF Stop, CowClose
  <2>3. faults' = faults \/ (faults < MaxFaults /\ faults' = faults + 1)
    BY <2>2
  <2>4. faults' \in 0 .. MaxFaults
    BY <2>1, <2>3
  <2>. QED BY <2>2, <2>4
<1>4. /\ ov' \in Seq(Overlays) /\ Len(ov') = Len(ov) /\ Snaps' = Snaps
      /\ OnceRecorded' /\ Match'
      /\ \A s \in Snaps : ov'[s].st = "absent" => ov'[s].recs = <<>>
  <2>1. CASE ov' = ov
    BY <2>1, <1>1, Detached DEF IInv, TypeOK, Modes, Snaps
  <2>2. CASE cow.open /\ ov' = [ov EXCEPT ![Len(ov)] = Cut(@, TRUE)]
    <3>1. ov # <<>>
      BY <2>2 DEF IInv, Modes
    <3>. QED BY <2>2, <3>1, <1>1, <1>2, Lost
  <2>. QED BY <1>3, <2>1, <2>2
<1>5. TypeOK'
  BY <1>1, <1>3, <1>4 DEF IInv, TypeOK, Closed
<1>6. Modes' /\ Saved' /\ Progress'
  BY <1>1, <1>2, <1>4 DEF Modes, Saved, Progress, Closed, NoReplay, NoOp
<1>. QED BY <1>4, <1>5, <1>6 DEF IInv

LEMMA KillStep == IInv /\ Kill => IInv'
<1>. SUFFICES ASSUME IInv, Kill PROVE IInv'
  OBVIOUS
<1>. USE CowAssumption
<1>1. /\ disk' = disk /\ frozen' = frozen /\ op' = NoOp /\ cow' = Closed
      /\ rp' = [rp EXCEPT !.on = FALSE] /\ flushed' = flushed /\ device' = "none"
      /\ faults < MaxFaults /\ faults' = faults + 1
  BY DEF Kill, Abandoned
<1>2. /\ rp' \in [on : BOOLEAN, goal : Nat, k : Nat, i : Nat \ {0}]
      /\ ~rp'.on /\ rp'.goal = rp.goal /\ rp'.k = rp.k
  BY <1>1 DEF IInv, TypeOK
<1>3. /\ ov' \in Seq(Overlays) /\ Len(ov') = Len(ov) /\ Snaps' = Snaps
      /\ OnceRecorded' /\ Match'
      /\ \A s \in Snaps : ov'[s].st = "absent" => ov'[s].recs = <<>>
  <2>1. CASE ~cow.open \/ ~cow.pending
    <3>1. ~cow.open => ov' = ov
      BY DEF Kill
    <3>2. cow.open /\ ~cow.pending => ov' = [ov EXCEPT ![Len(ov)] = ov[Len(ov)]]
      BY DEF Kill, Cut
    <3>3. ov' = ov
      BY <2>1, <3>1, <3>2 DEF IInv, TypeOK
    <3>. QED BY <3>3, <1>1, <1>2, Detached DEF IInv, TypeOK, Modes, Snaps
  <2>2. CASE cow.open /\ cow.pending
    <3>1. ov # <<>> /\ rp = NoReplay /\ rp.goal = 0
      BY <2>2 DEF IInv, Modes, NoReplay
    <3>2. ov' = [ov EXCEPT ![Len(ov)] = Cut(@, TRUE)]
      BY <2>2 DEF Kill, IInv, TypeOK
    <3>. QED BY <3>1, <3>2, <1>1, <1>2, Lost
  <2>. QED BY <2>1, <2>2
<1>5. TypeOK'
  BY SMTT(30), <1>1, <1>2, <1>3 DEF IInv, TypeOK, Closed, NoOp, Blocks
<1>6. Modes' /\ Saved' /\ Progress'
  BY <1>1, <1>2, <1>3 DEF Modes, Saved, Progress, Closed, NoOp
<1>. QED BY <1>3, <1>5, <1>6 DEF IInv

(* The new snapshot describes the image as it is; its overlay is empty. *)
LEMMA TakeSnapshotStep == ~LiveRearm /\ IInv /\ TakeSnapshot => IInv'
<1>. SUFFICES ASSUME ~LiveRearm, IInv, TakeSnapshot PROVE IInv'
  OBVIOUS
<1>. USE CowAssumption
<1>. DEFINE n == Len(ov)
<1>1. /\ disk' = disk /\ device' = device /\ op' = op /\ rp' = rp /\ flushed' = flushed
      /\ faults' = faults /\ cow' = cow /\ device = "none" /\ rp = NoReplay
      /\ frozen' = Append(frozen, disk) /\ ov' = Append(ov, Absent) /\ n < MaxSnaps
  BY DEF TakeSnapshot
<1>2. ov \in Seq(Overlays) /\ frozen \in Seq(Image) /\ Len(frozen) = n /\ n \in Nat /\ disk \in Image
  BY DEF IInv, TypeOK
<1>3. Absent \in Overlays /\ Absent.recs = <<>> /\ Recorded(Absent) = {}
  <2>. DEFINE S == [b : Blocks, v : Values]
  <2>. HIDE DEF S
  <2>1. <<>> \in Seq(S)
    OBVIOUS
  <2>2. Absent \in Overlays
    BY <2>1 DEF Absent, Overlays, S
  <2>3. Absent.recs = <<>>
    BY DEF Absent
  <2>. QED BY <2>2, <2>3 DEF Recorded
<1>. HIDE DEF n
<1>4. /\ ov' \in Seq(Overlays) /\ Len(ov') = n + 1
      /\ \A s \in 1 .. n : ov'[s] = ov[s]
      /\ ov'[n + 1] = Absent
  BY <1>1, <1>2, <1>3 DEF n
<1>5. /\ frozen' \in Seq(Image) /\ Len(frozen') = n + 1
      /\ \A s \in 1 .. n : frozen'[s] = frozen[s]
      /\ frozen'[n + 1] = disk
  BY <1>1, <1>2 DEF n
<1>6. Snaps = 1 .. n /\ Snaps' = 1 .. (n + 1) /\ ~cow.open
  BY <1>1, <1>4 DEF Snaps, n, IInv, Modes
<1>7. TypeOK'
  BY <1>1, <1>2, <1>4, <1>5 DEF IInv, TypeOK, n
<1>8. ASSUME NEW s \in 1 .. (n + 1) PROVE s \in 1 .. n \/ s = n + 1
  BY <1>2
<1>9. OnceRecorded'
  <2>. SUFFICES ASSUME NEW s \in 1 .. (n + 1)
               PROVE  \A i, j \in DOMAIN ov'[s].recs :
                        ov'[s].recs[i].b = ov'[s].recs[j].b => i = j
    BY <1>1, <1>6 DEF OnceRecorded
  <2>1. CASE s = n + 1
    BY <2>1, <1>3, <1>4
  <2>2. CASE s \in 1 .. n
    <3>1. ov'[s] = ov[s] /\ s \in Snaps
      BY <2>2, <1>4, <1>6
    <3>. QED BY <3>1 DEF IInv, OnceRecorded
  <2>. QED BY <2>1, <2>2, <1>8
<1>10. Modes'
  <2>1. \A s \in Snaps' : ov'[s].st = "absent" => ov'[s].recs = <<>>
    BY <1>3, <1>4, <1>6, <1>8 DEF IInv, Modes
  <2>. QED BY <2>1, <1>1, <1>6 DEF IInv, Modes
<1>11. Saved' /\ Progress'
  BY <1>1 DEF IInv, Saved, Modes, Progress, NoReplay, NoOp
<1>12. Match'
  <2>1. Wanted' = 1 .. (n + 1) /\ Wanted = 1 .. n
    BY <1>1, <1>4 DEF Wanted, NoReplay, n
  <2>. SUFFICES ASSUME NEW s \in 1 .. (n + 1), Readable(s)'
               PROVE  Matches(ov', disk, frozen'[s], s)
    BY <1>1, <2>1 DEF Match
  <2>2. CASE s = n + 1
    <3>1. \A k \in s .. Len(ov') : DOMAIN ov'[k].recs = {}
      BY <2>2, <1>2, <1>3, <1>4
    <3>. QED BY <3>1, <2>2, <1>5 DEF Matches
  <2>3. CASE s \in 1 .. n
    <3>1. Readable(s)
      <4>1. \A k \in s .. n : k \in s .. (n + 1) /\ k \in 1 .. n
        BY <2>3, <1>2
      <4>. QED BY <4>1, <1>4 DEF Readable, n
    <3>2. Matches(ov, disk, frozen[s], s)
      BY <2>1, <2>3, <3>1 DEF IInv, Match
    <3>3. ASSUME NEW k \in s .. (n + 1) PROVE (k \in s .. n /\ k \in 1 .. n) \/ k = n + 1
      BY <2>3, <1>2
    <3>4. \A k \in s .. n : k \in s .. (n + 1) /\ k \in 1 .. n
      BY <2>3, <1>2
    <3>5. \A k, b : First(ov', s, k, b) => First(ov, s, k, b)
      BY <3>4, <1>4 DEF First, n
    <3>6. \A b : Clear(ov', s, b) => Clear(ov, s, b)
      BY <3>4, <1>4 DEF Clear, n
    <3>7. \A k \in s .. (n + 1) : \A i \in DOMAIN ov'[k].recs :
            First(ov', s, k, ov'[k].recs[i].b)
              => ov'[k].recs[i].v = frozen[s][ov'[k].recs[i].b]
      <4>. SUFFICES ASSUME NEW k \in s .. (n + 1), NEW i \in DOMAIN ov'[k].recs,
                          First(ov', s, k, ov'[k].recs[i].b)
                   PROVE  ov'[k].recs[i].v = frozen[s][ov'[k].recs[i].b]
        OBVIOUS
      <4>1. k \in s .. n /\ k \in 1 .. n
        BY <3>3, <1>3, <1>4
      <4>2. ov'[k] = ov[k]
        BY <4>1, <1>4
      <4>. QED BY <4>1, <4>2, <3>2, <3>5 DEF Matches, n
    <3>. QED BY <2>3, <3>2, <3>6, <3>7, <1>4, <1>5 DEF Matches
  <2>. QED BY <2>2, <2>3, <1>8
<1>. QED BY <1>7, <1>9, <1>10, <1>11, <1>12 DEF IInv

(* Restoring only narrows what can still be asked for. *)
LEMMA Narrowed ==
  ASSUME Match, Wanted' \subseteq Wanted, ov' = ov, disk' = disk, frozen' = frozen
  PROVE  Match'
BY DEF Match, Readable

LEMMA BeginRestoreStep == IInv /\ BeginRestore => IInv'
<1>. SUFFICES ASSUME IInv, BeginRestore PROVE IInv'
  OBVIOUS
<1>. USE CowAssumption
<1>1. /\ disk' = disk /\ ov' = ov /\ frozen' = frozen /\ cow' = cow /\ device' = device
      /\ op' = op /\ flushed' = flushed /\ faults' = faults /\ device = "none"
  BY DEF BeginRestore
<1>2. PICK s \in Snaps : /\ rp.goal # 0 => s <= rp.goal
                         /\ rp' = [on |-> TRUE, goal |-> s, k |-> Len(ov), i |-> 1]
  BY DEF BeginRestore
<1>3. /\ s \in Nat /\ s >= 1 /\ s <= Len(ov) /\ Len(ov) \in Nat /\ rp.goal \in Nat
      /\ rp.goal <= Len(ov)
  BY DEF IInv, TypeOK, Snaps
<1>4. rp'.goal = s /\ rp'.k = Len(ov) /\ rp'.i = 1 /\ rp'.on
  BY <1>2
<1>5. TypeOK'
  BY <1>1, <1>2, <1>3, <1>4 DEF IInv, TypeOK
<1>6. OnceRecorded' /\ Modes' /\ Saved'
  BY <1>1 DEF IInv, OnceRecorded, Modes, Saved, Snaps, Newest
<1>7. Wanted' \subseteq Wanted
  BY <1>2, <1>3, <1>4 DEF Wanted
<1>8. Match'
  BY <1>1, <1>7, Narrowed DEF IInv
<1>9. Progress'
  <2>1. \A h \in Snaps : \A x \in DOMAIN ov[h].recs : ~(h > Len(ov) \/ (h = Len(ov) /\ x < 1))
    <3>1. \A h \in Snaps : ov[h].recs \in Seq([b : Blocks, v : Values])
      BY Elements DEF IInv
    <3>2. \A h \in Snaps : \A x \in DOMAIN ov[h].recs : x \in Nat /\ x >= 1
      BY <3>1
    <3>. QED BY <3>2, <1>3 DEF Snaps
  <2>. QED BY <2>1, <1>1, <1>3, <1>4 DEF Progress, PutBack, Done, Snaps
<1>. QED BY <1>5, <1>6, <1>8, <1>9 DEF IInv

(* While a replay is on, the machine is off and the position is in range. *)
LEMMA WhileReplaying ==
  ASSUME IInv, rp.on
  PROVE  /\ device = "none" /\ ~cow.open
         /\ rp.goal \in Nat /\ rp.k \in Nat /\ rp.i \in Nat /\ Len(ov) \in Nat
         /\ rp.goal >= 1 /\ rp.goal <= Len(ov) /\ rp.k <= Len(ov) /\ rp.goal <= rp.k + 1
         /\ rp.i >= 1 /\ Wanted = 1 .. rp.goal
<1>1. device = "none" /\ ~cow.open
  BY DEF IInv, Modes, NoReplay, TypeOK
<1>2. /\ rp.goal \in Nat /\ rp.k \in Nat /\ rp.i \in Nat \ {0} /\ Len(ov) \in Nat
      /\ rp.goal <= Len(ov) /\ rp.k <= Len(ov)
  BY DEF IInv, TypeOK
<1>3. rp.goal >= 1 /\ rp.goal <= rp.k + 1
  BY DEF IInv, Progress
<1>. QED BY <1>1, <1>2, <1>3 DEF Wanted

(* A replayed record only touches a block that its overlay holds, and no   *)
(* older overlay that was replayed.                                        *)
LEMMA ReplayRecordStep == IInv /\ ReplayRecord => IInv'
<1>. SUFFICES ASSUME IInv, ReplayRecord PROVE IInv'
  OBVIOUS
<1>. USE CowAssumption
<1>. DEFINE r == ov[rp.k].recs[rp.i]
<1>1. /\ ov' = ov /\ frozen' = frozen /\ cow' = cow /\ device' = device /\ op' = op
      /\ flushed' = flushed /\ faults' = faults
      /\ disk' = [disk EXCEPT ![r.b] = r.v] /\ rp' = [rp EXCEPT !.i = rp.i + 1]
      /\ rp.on /\ rp.k >= rp.goal /\ rp.i <= Len(ov[rp.k].recs)
  BY DEF ReplayRecord, Replaying
<1>2. /\ device = "none" /\ ~cow.open
      /\ rp.goal \in Nat /\ rp.k \in Nat /\ rp.i \in Nat /\ Len(ov) \in Nat
      /\ rp.goal >= 1 /\ rp.goal <= Len(ov) /\ rp.k <= Len(ov)
      /\ rp.i >= 1 /\ Wanted = 1 .. rp.goal
  BY <1>1, WhileReplaying
<1>3. /\ rp' \in [on : BOOLEAN, goal : Nat, k : Nat, i : Nat \ {0}]
      /\ rp'.on /\ rp'.goal = rp.goal /\ rp'.k = rp.k /\ rp'.i = rp.i + 1
  <2>1. rp \in [on : BOOLEAN, goal : Nat, k : Nat, i : Nat \ {0}]
    BY DEF IInv, TypeOK
  <2>2. rp.i + 1 \in Nat \ {0}
    BY <1>2
  <2>. QED BY <2>1, <2>2, <1>1
<1>4. rp.k \in Snaps /\ rp.i \in DOMAIN ov[rp.k].recs
  <2>1. rp.k \in Snaps
    BY <1>1, <1>2 DEF Snaps
  <2>2. ov[rp.k].recs \in Seq([b : Blocks, v : Values])
    BY <2>1, Elements DEF IInv
  <2>. QED BY <2>1, <2>2, <1>1, <1>2
<1>5. r.b \in Blocks /\ r.v \in Values /\ r.b \in Recorded(ov[rp.k])
  BY <1>4, Elements DEF IInv, Recorded
<1>. HIDE DEF r
<1>6. /\ disk' \in Image /\ disk'[r.b] = r.v
      /\ \A b \in Blocks : b # r.b => disk'[b] = disk[b]
  BY <1>1, <1>5 DEF IInv, TypeOK, Image
<1>7. TypeOK'
  BY <1>1, <1>3, <1>6 DEF IInv, TypeOK
<1>8. OnceRecorded' /\ Modes' /\ Saved'
  BY <1>1, <1>2 DEF IInv, OnceRecorded, Modes, Saved, Snaps, Newest
<1>9. Match'
  <2>1. Wanted' = Wanted
    BY <1>1, <1>3 DEF Wanted
  <2>. SUFFICES ASSUME NEW s \in 1 .. rp.goal, Readable(s)
               PROVE  Matches(ov, disk', frozen[s], s)
    BY <1>1, <1>2, <2>1 DEF Match, Readable
  <2>2. Matches(ov, disk, frozen[s], s)
    BY <1>2 DEF IInv, Match
  <2>3. rp.k \in s .. Len(ov)
    BY <1>1, <1>2
  <2>4. ~Clear(ov, s, r.b)
    BY <2>3, <1>5 DEF Clear
  <2>. QED BY <2>2, <2>4, <1>6 DEF Matches
<1>10. Progress'
  <2>1. \A h \in Snaps : \A x \in DOMAIN ov[h].recs : h \in Nat /\ x \in Nat
    <3>1. \A h \in Snaps : ov[h].recs \in Seq([b : Blocks, v : Values])
      BY Elements DEF IInv
    <3>. QED BY <3>1 DEF Snaps
  <2>2. \A h \in Snaps : \A x \in DOMAIN ov[h].recs :
          Done(rp', h, x) <=> Done(rp, h, x) \/ (h = rp.k /\ x = rp.i)
    BY <2>1, <1>2, <1>3 DEF Done
  <2>3. PutBack(ov, disk', rp')
    <3>. SUFFICES ASSUME NEW h \in Snaps, NEW x \in DOMAIN ov[h].recs,
                        Done(rp', h, x), Oldest(ov, rp', h, ov[h].recs[x].b)
                 PROVE  disk'[ov[h].recs[x].b] = ov[h].recs[x].v
      BY DEF PutBack, Snaps
    <3>1. CASE h = rp.k /\ x = rp.i
      BY <3>1, <1>6 DEF r
    <3>2. CASE ~(h = rp.k /\ x = rp.i)
      <4>1. Done(rp, h, x)
        BY <3>2, <2>2
      <4>2. Oldest(ov, rp, h, ov[h].recs[x].b)
        BY <2>2 DEF Oldest, Snaps
      <4>3. disk[ov[h].recs[x].b] = ov[h].recs[x].v
        BY <4>1, <4>2 DEF IInv, Progress, PutBack, Snaps, ReplayRecord, Replaying
      <4>4. ov[h].recs[x].b # r.b
        <5>1. CASE h = rp.k
          BY <5>1, <3>2, <1>4 DEF IInv, OnceRecorded, r
        <5>2. CASE h > rp.k
          <6>1. Done(rp', rp.k, rp.i)
            BY <1>4, <2>2
          <6>2. rp.k < h
            BY <5>2, <2>1, <1>2
          <6>. QED BY <6>1, <6>2, <1>4 DEF Oldest, r, Snaps
        <5>. QED BY <4>1, <5>1, <5>2 DEF Done
      <4>5. ov[h].recs[x].b \in Blocks
        BY Elements DEF IInv
      <4>. QED BY <4>3, <4>4, <4>5, <1>6
    <3>. QED BY <3>1, <3>2
  <2>4. PutBack(ov, disk, rp) /\ \A h \in (rp.k + 1) .. Len(ov) : ov[h].st = "ok"
    BY <1>1 DEF IInv, Progress
  <2>. QED BY <2>3, <2>4, <1>1, <1>2, <1>3 DEF Progress
<1>. QED BY <1>7, <1>8, <1>9, <1>10 DEF IInv

LEMMA ReplayOlderStep == IInv /\ ReplayOlder => IInv'
<1>. SUFFICES ASSUME IInv, ReplayOlder PROVE IInv'
  OBVIOUS
<1>. USE CowAssumption
<1>1. /\ disk' = disk /\ ov' = ov /\ frozen' = frozen /\ cow' = cow /\ device' = device /\ op' = op
      /\ flushed' = flushed /\ faults' = faults
      /\ rp' = [rp EXCEPT !.k = rp.k - 1, !.i = 1]
      /\ rp.on /\ rp.k >= rp.goal /\ rp.i > Len(ov[rp.k].recs) /\ ov[rp.k].st = "ok"
  BY DEF ReplayOlder, Replaying
<1>2. /\ device = "none" /\ ~cow.open
      /\ rp.goal \in Nat /\ rp.k \in Nat /\ rp.i \in Nat /\ Len(ov) \in Nat
      /\ rp.goal >= 1 /\ rp.goal <= Len(ov) /\ rp.k <= Len(ov)
      /\ rp.i >= 1 /\ Wanted = 1 .. rp.goal
  BY <1>1, WhileReplaying
<1>3. /\ rp' \in [on : BOOLEAN, goal : Nat, k : Nat, i : Nat \ {0}]
      /\ rp'.on /\ rp'.goal = rp.goal /\ rp'.k = rp.k - 1 /\ rp'.i = 1
  <2>1. rp \in [on : BOOLEAN, goal : Nat, k : Nat, i : Nat \ {0}]
    BY DEF IInv, TypeOK
  <2>2. rp.k - 1 \in Nat /\ 1 \in Nat \ {0}
    BY <1>1, <1>2
  <2>3. rp' = [on |-> TRUE, goal |-> rp.goal, k |-> rp.k - 1, i |-> 1]
    BY <2>1, <1>1
  <2>. QED BY <2>2, <2>3, <1>2
<1>4. TypeOK'
  BY <1>1, <1>2, <1>3 DEF IInv, TypeOK
<1>5. OnceRecorded' /\ Modes' /\ Saved'
  BY <1>1, <1>2 DEF IInv, OnceRecorded, Modes, Saved, Snaps, Newest
<1>6. Wanted' = Wanted
  BY <1>1, <1>3 DEF Wanted
<1>7. Match'
  BY <1>1, <1>6, Narrowed DEF IInv
<1>8. Progress'
  <2>1. \A h \in Snaps : ov[h].recs \in Seq([b : Blocks, v : Values])
    BY Elements DEF IInv
  <2>2. \A h \in Snaps : \A x \in DOMAIN ov[h].recs :
          h \in Nat /\ x \in Nat /\ x >= 1 /\ x <= Len(ov[h].recs) /\ Len(ov[h].recs) \in Nat
    BY <2>1 DEF Snaps
  <2>3. \A h \in Snaps : \A x \in DOMAIN ov[h].recs : Done(rp', h, x) <=> Done(rp, h, x)
    <3>. SUFFICES ASSUME NEW h \in Snaps, NEW x \in DOMAIN ov[h].recs
                 PROVE  Done(rp', h, x) <=> Done(rp, h, x)
      OBVIOUS
    <3>1. h \in Nat /\ x \in Nat /\ x >= 1 /\ x <= Len(ov[h].recs) /\ Len(ov[h].recs) \in Nat
      BY <2>2
    <3>2. h = rp.k => x < rp.i
      BY <3>1, <1>1, <1>2
    <3>. QED BY <3>1, <3>2, <1>2, <1>3 DEF Done
  <2>4. PutBack(ov, disk, rp) /\ \A h \in (rp.k + 1) .. Len(ov) : ov[h].st = "ok"
    BY <1>1 DEF IInv, Progress
  <2>5. \A h, b : Oldest(ov, rp', h, b) => Oldest(ov, rp, h, b)
    BY <2>3 DEF Oldest, Snaps
  <2>6. PutBack(ov, disk, rp')
    BY <2>3, <2>4, <2>5 DEF PutBack, Snaps
  <2>7. \A h \in (rp'.k + 1) .. Len(ov) : ov[h].st = "ok"
    <3>1. ASSUME NEW h \in (rp'.k + 1) .. Len(ov) PROVE h = rp.k \/ h \in (rp.k + 1) .. Len(ov)
      BY <1>2, <1>3
    <3>. QED BY <3>1, <2>4, <1>1
  <2>. QED BY <2>6, <2>7, <1>1, <1>2, <1>3 DEF Progress
<1>. QED BY <1>4, <1>5, <1>7, <1>8 DEF IInv

LEMMA ReplayFailsStep == IInv /\ ReplayFails => IInv'
<1>. SUFFICES ASSUME IInv, ReplayFails PROVE IInv'
  OBVIOUS
<1>. USE CowAssumption
<1>1. /\ disk' = disk /\ ov' = ov /\ frozen' = frozen /\ cow' = cow /\ device' = device /\ op' = op
      /\ flushed' = flushed /\ rp' = [rp EXCEPT !.on = FALSE] /\ rp.on
      /\ faults' = faults \/ (faults < MaxFaults /\ faults' = faults + 1)
  BY DEF ReplayFails, Replaying
<1>2. device = "none" /\ ~cow.open
  BY <1>1, WhileReplaying
<1>3. /\ rp' \in [on : BOOLEAN, goal : Nat, k : Nat, i : Nat \ {0}]
      /\ ~rp'.on /\ rp'.goal = rp.goal /\ rp'.k = rp.k
  BY <1>1 DEF IInv, TypeOK
<1>4. TypeOK'
  BY <1>1, <1>3 DEF IInv, TypeOK
<1>5. OnceRecorded' /\ Modes' /\ Saved'
  BY <1>1, <1>2 DEF IInv, OnceRecorded, Modes, Saved, Snaps, Newest
<1>6. Wanted' = Wanted
  BY <1>1, <1>3 DEF Wanted
<1>7. Match'
  BY <1>1, <1>6, Narrowed DEF IInv
<1>8. Progress'
  BY <1>3 DEF Progress
<1>. QED BY <1>4, <1>5, <1>7, <1>8 DEF IInv

(* A set of numbers that is not empty has a least element. *)
LEMMA Least ==
  ASSUME NEW T, T \subseteq Nat, T # {}
  PROVE  \E m \in T : \A j \in T : m <= j
<1>. DEFINE R == OpToRel(<, Nat)
<1>1. \A j, m \in Nat : j < m => <<j, m>> \in R
  BY DEF OpToRel
<1>2. IsWellFoundedOn(R, Nat)
  BY NatLessThanWellFounded, Zenon
<1>. HIDE DEF R
<1>3. PICK m \in T : \A j \in T : ~(<<j, m>> \in R)
  BY <1>2, WFMin, Zenon
<1>4. \A j \in T : m <= j
  <2>1. ASSUME NEW j \in T PROVE m <= j
    <3>1. j \in Nat /\ m \in Nat /\ ~(j < m)
      BY <1>1, <1>3
    <3>. QED BY <3>1
  <2>. QED BY <2>1
<1>. QED BY <1>4

(* Once every overlay was replayed, a block that no overlay between those  *)
(* of s and of the goal holds is what it was in snapshot s.                *)
LEMMA Back ==
  ASSUME IInv, rp.on, rp.k < rp.goal, NEW s \in 1 .. rp.goal, Readable(s), NEW b \in Blocks,
         \A j \in s .. Len(ov) : j < rp.goal => b \notin Recorded(ov[j])
  PROVE  disk[b] = frozen[s][b]
<1>1. /\ rp.goal \in Nat /\ rp.k \in Nat /\ Len(ov) \in Nat /\ rp.goal = rp.k + 1
      /\ rp.goal >= 1 /\ rp.goal <= Len(ov) /\ Wanted = 1 .. rp.goal /\ rp.i = 1
      /\ s \in Nat /\ s >= 1 /\ s <= rp.goal
  <2>1. rp.i = 1
    BY DEF IInv, Progress
  <2>. QED BY <2>1, WhileReplaying
<1>2. Matches(ov, disk, frozen[s], s)
  BY <1>1 DEF IInv, Match
<1>. DEFINE T == {h \in s .. Len(ov) : b \in Recorded(ov[h])}
<1>3. CASE T = {}
  BY <1>2, <1>3 DEF Matches, Clear
<1>4. CASE T # {}
  <2>1. PICK h \in T : \A j \in T : h <= j
    <3>1. T \subseteq Nat
      BY <1>1
    <3>. HIDE DEF T
    <3>. QED BY <3>1, <1>4, Least
  <2>2. h \in s .. Len(ov) /\ h \in Nat /\ h >= rp.goal /\ h <= Len(ov) /\ h \in Snaps
    BY <1>1 DEF Snaps
  <2>3. PICK x \in DOMAIN ov[h].recs : ov[h].recs[x].b = b
    BY <2>1 DEF Recorded
  <2>4. First(ov, s, h, b)
    <3>. SUFFICES ASSUME NEW j \in s .. Len(ov), j < h PROVE b \notin Recorded(ov[j])
      BY DEF First
    <3>1. j \in T => h <= j
      BY <2>1
    <3>. QED BY <3>1, <1>1, <2>2
  <2>5. ov[h].recs[x].v = frozen[s][b]
    BY <1>2, <2>2, <2>3, <2>4 DEF Matches
  <2>6. Done(rp, h, x)
    BY <1>1, <2>2 DEF Done
  <2>7. Oldest(ov, rp, h, b)
    <3>. SUFFICES ASSUME NEW g \in 1 .. Len(ov), NEW y \in DOMAIN ov[g].recs, g < h, Done(rp, g, y),
                        ov[g].recs[y].b = b
                 PROVE  FALSE
      BY DEF Oldest
    <3>1. ov[g].recs \in Seq([b : Blocks, v : Values])
      BY Elements DEF IInv, Snaps
    <3>2. y \in Nat /\ y >= 1
      BY <3>1
    <3>3. g > rp.k
      BY <3>2, <1>1 DEF Done
    <3>4. g \in s .. Len(ov)
      BY <3>3, <1>1
    <3>5. b \in Recorded(ov[g])
      BY DEF Recorded
    <3>. QED BY <3>4, <3>5, <2>4 DEF First
  <2>8. disk[ov[h].recs[x].b] = ov[h].recs[x].v
    BY <2>2, <2>3, <2>6, <2>7 DEF IInv, Progress, PutBack, Snaps
  <2>. QED BY <2>3, <2>5, <2>8
<1>. QED BY <1>3, <1>4

LEMMA RestoredStep == IInv /\ Restored => IInv'
<1>. SUFFICES ASSUME IInv, Restored PROVE IInv'
  OBVIOUS
<1>. USE CowAssumption
<1>. DEFINE q == rp.goal
<1>1. /\ disk' = disk /\ cow' = cow /\ device' = device /\ op' = op
      /\ flushed' = flushed /\ faults' = faults /\ rp' = NoReplay
      /\ ov' = SubSeq(ov, 1, q) /\ frozen' = SubSeq(frozen, 1, q)
      /\ rp.on /\ rp.k < q
  BY DEF Restored
<1>2. /\ device = "none" /\ ~cow.open /\ q \in Nat /\ q >= 1 /\ q <= Len(ov)
      /\ rp.k \in Nat /\ rp.k + 1 = q /\ Wanted = 1 .. q /\ Len(ov) \in Nat
  BY <1>1, WhileReplaying
<1>3. ov \in Seq(Overlays) /\ frozen \in Seq(Image) /\ Len(frozen) = Len(ov) /\ Len(ov) <= MaxSnaps
  BY DEF IInv, TypeOK
<1>4. rp'.goal = 0 /\ rp'.k = 0 /\ rp'.i = 1 /\ ~rp'.on
      /\ rp' \in [on : BOOLEAN, goal : Nat, k : Nat, i : Nat \ {0}]
  BY <1>1 DEF NoReplay
<1>. HIDE DEF q
<1>5. /\ ov' \in Seq(Overlays) /\ Len(ov') = q /\ \A s \in 1 .. q : ov'[s] = ov[s]
      /\ frozen' \in Seq(Image) /\ Len(frozen') = q /\ \A s \in 1 .. q : frozen'[s] = frozen[s]
  BY <1>1, <1>2, <1>3
<1>6. Snaps' = 1 .. q /\ \A s \in 1 .. q : s \in Snaps
  BY <1>2, <1>5 DEF Snaps
<1>7. TypeOK'
  BY <1>1, <1>2, <1>3, <1>4, <1>5 DEF IInv, TypeOK
<1>8. OnceRecorded'
  <2>1. \A s \in 1 .. q : \A i, j \in DOMAIN ov'[s].recs :
          ov'[s].recs[i].b = ov'[s].recs[j].b => i = j
    <3>. SUFFICES ASSUME NEW s \in 1 .. q
                 PROVE  \A i, j \in DOMAIN ov'[s].recs :
                          ov'[s].recs[i].b = ov'[s].recs[j].b => i = j
      OBVIOUS
    <3>1. ov'[s] = ov[s] /\ s \in Snaps
      BY <1>5, <1>6
    <3>. QED BY <3>1 DEF IInv, OnceRecorded
  <2>. QED BY <2>1, <1>1, <1>2, <1>6 DEF OnceRecorded
<1>9. Modes' /\ Saved'
  <2>1. \A s \in Snaps' : ov'[s].st = "absent" => ov'[s].recs = <<>>
    BY <1>5, <1>6 DEF IInv, Modes
  <2>. QED BY <2>1, <1>1, <1>2 DEF IInv, Modes, Saved, NoOp
<1>10. Progress'
  BY <1>4 DEF Progress
<1>11. Match'
  <2>1. Wanted' = 1 .. q
    BY <1>4, <1>5 DEF Wanted
  <2>. SUFFICES ASSUME NEW s \in 1 .. q, Readable(s)'
               PROVE  Matches(ov', disk, frozen[s], s)
    BY <1>1, <1>5, <2>1 DEF Match
  <2>2. \A k \in s .. q : k \in 1 .. q /\ k \in s .. Len(ov)
    BY <1>2
  <2>3. Readable(s)
    <3>1. \A k \in (rp.k + 1) .. Len(ov) : ov[k].st = "ok"
      BY <1>1 DEF IInv, Progress
    <3>2. \A k \in s .. q : ov[k].st # "bad"
      BY <2>2, <1>5 DEF Readable
    <3>3. \A k \in s .. Len(ov) : k \in s .. q \/ k \in (rp.k + 1) .. Len(ov)
      BY <1>2
    <3>. QED BY <3>1, <3>2, <3>3 DEF Readable
  <2>4. Matches(ov, disk, frozen[s], s)
    BY <1>2, <2>3 DEF IInv, Match
  <2>5. \A k \in s .. q : \A b : First(ov', s, k, b) => First(ov, s, k, b)
    <3>1. \A k \in s .. q : \A j \in s .. Len(ov) : j < k => j \in s .. q /\ j \in 1 .. q
      BY <1>2
    <3>. QED BY <3>1, <1>5 DEF First
  <2>6. ASSUME NEW b \in Blocks, Clear(ov', s, b) PROVE disk[b] = frozen[s][b]
    <3>1. \A j \in s .. Len(ov) : j < q => b \notin Recorded(ov[j])
      <4>1. \A j \in s .. Len(ov) : j < q => j \in s .. q /\ j \in 1 .. q
        BY <1>2
      <4>. QED BY <4>1, <2>6, <1>5 DEF Clear
    <3>. QED BY <3>1, <2>3, <1>1, Back DEF q
  <2>7. ASSUME NEW k \in s .. q, NEW i \in DOMAIN ov'[k].recs,
               First(ov', s, k, ov'[k].recs[i].b)
        PROVE  ov'[k].recs[i].v = frozen[s][ov'[k].recs[i].b]
    <3>1. ov'[k] = ov[k] /\ k \in s .. Len(ov)
      BY <2>2, <1>5
    <3>. QED BY <3>1, <2>4, <2>5, <2>7 DEF Matches
  <2>. QED BY <2>6, <2>7, <1>5 DEF Matches
<1>. QED BY <1>7, <1>8, <1>9, <1>10, <1>11 DEF IInv

----------------------------------------------------------------------------
(* The hosts and callers the theorems are about: a host that does not lose *)
(* power and opens the files it has, and snapshots of a machine that does  *)
(* not run.                                                                *)
Sheltered == ~PowerLosses /\ ~LiveRearm /\ ~Transient

LEMMA NextInv == Sheltered /\ IInv /\ [Next]_vars => IInv'
<1>. SUFFICES ASSUME Sheltered, IInv, [Next]_vars PROVE IInv'
  OBVIOUS
<1>1. CASE UNCHANGED vars
  <2>1. /\ disk' = disk /\ ov' = ov /\ frozen' = frozen /\ cow' = cow /\ device' = device
        /\ op' = op /\ rp' = rp /\ flushed' = flushed /\ faults' = faults
    BY <1>1 DEF vars
  <2>2. TypeOK' /\ OnceRecorded'
    BY <2>1 DEF IInv, TypeOK, OnceRecorded, Snaps
  <2>3. Modes' /\ Saved'
    BY <2>1 DEF IInv, Modes, Saved, Newest, Snaps
  <2>4. Match' /\ Progress'
    BY <2>1 DEF IInv, Match, Wanted, Readable, Progress
  <2>. QED BY <2>2, <2>3, <2>4 DEF IInv
<1>2. ~PowerLoss
  BY DEF Sheltered, PowerLoss
<1>. QED
  BY <1>1, <1>2, BeginWriteStep, SaveBlockStep, SaveFailsStep, WriteBlockStep, WriteFailsStep,
     CowFlushStep, StartStep, CreateCutShortStep, StopStep, TakeSnapshotStep, BeginRestoreStep, ReplayRecordStep,
     ReplayOlderStep, ReplayFailsStep, RestoredStep, KillStep
  DEF Next, Sheltered

LEMMA Inductive == Sheltered /\ Spec => []IInv
<1>. SUFFICES ASSUME Sheltered PROVE Spec => []IInv
  OBVIOUS
<1>1. Init => IInv
  BY InitInv
<1>2. IInv /\ [Next]_vars => IInv'
  BY NextInv
<1>. QED BY <1>1, <1>2, PTL DEF Spec

(* On a sheltered host the state keeps its types, and the restore stays    *)
(* within the list of snapshots: newer overlays are dropped with their     *)
(* snapshots (vm_cow_replay and its caller).                               *)
THEOREM TypeCorrect == Sheltered /\ Spec => []TypeOK
<1>1. IInv => TypeOK
  BY DEF IInv
<1>. QED BY <1>1, Inductive, PTL

(* On a sheltered host no overlay ever holds a block twice, and the bitmap *)
(* of the open adapter is what the file holds (cow_write_at,               *)
(* index_existing).                                                        *)
THEOREM NothingTwice == Sheltered /\ Spec => []OnceRecorded
<1>1. IInv => OnceRecorded
  BY DEF IInv
<1>. QED BY <1>1, Inductive, PTL

(* What a replay would make of a block is what the snapshot had. *)
LEMMA ReplayedMatches == IInv => Restorable
<1>. SUFFICES ASSUME IInv, NEW s \in Wanted, Readable(s), NEW b \in Blocks
             PROVE  Replayed(s, b) = frozen[s][b]
  BY DEF Restorable
<1>1. Matches(ov, disk, frozen[s], s)
  BY DEF IInv, Match
<1>2. s \in Nat /\ s >= 1 /\ Len(ov) \in Nat
  BY DEF Wanted, IInv, TypeOK
<1>3. CASE Holders(s, b) = {}
  <2>1. Clear(ov, s, b)
    BY <1>3 DEF Holders, Clear
  <2>. QED BY <1>1, <1>3, <2>1 DEF Matches, Replayed
<1>4. CASE Holders(s, b) # {}
  <2>. DEFINE T == Holders(s, b)
             k == CHOOSE k \in T : \A j \in T : k <= j
             o == ov[k]
             i == LastRecord(o, b)
  <2>1. T \subseteq Nat
    BY <1>2 DEF Holders
  <2>2. Replayed(s, b) = o.recs[i].v
    BY <1>4 DEF Replayed
  <2>3. k \in T /\ \A j \in T : k <= j
    <3>. HIDE DEF T
    <3>1. \E m \in T : \A j \in T : m <= j
      BY <2>1, <1>4, Least DEF T
    <3>. QED BY <3>1
  <2>. HIDE DEF k
  <2>4. k \in s .. Len(ov) /\ b \in Recorded(o) /\ k \in Snaps
    BY <2>3, <1>2 DEF Holders, Snaps
  <2>5. First(ov, s, k, b)
    <3>. SUFFICES ASSUME NEW j \in s .. Len(ov), j < k PROVE b \notin Recorded(ov[j])
      BY DEF First
    <3>1. j \in T => k <= j
      BY <2>3
    <3>. QED BY <3>1, <1>2, <2>4 DEF Holders
  <2>6. PICK x \in DOMAIN o.recs : o.recs[x].b = b
    BY <2>4 DEF Recorded
  <2>7. \A y \in DOMAIN o.recs : o.recs[y].b = b => y = x
    BY <2>4, <2>6 DEF IInv, OnceRecorded
  <2>8. x \in Nat
    <3>1. o.recs \in Seq([b : Blocks, v : Values])
      BY <2>4, Elements DEF IInv
    <3>. QED BY <3>1, <2>6
  <2>9. i \in DOMAIN o.recs /\ o.recs[i].b = b
    BY <2>6, <2>7, <2>8 DEF LastRecord
  <2>. HIDE DEF i
  <2>. QED BY <1>1, <2>2, <2>4, <2>5, <2>9 DEF Matches
<1>. QED BY <1>3, <1>4

(* On a sheltered host, whatever the guest writes and wherever the process *)
(* is terminated or a call fails, the overlays of a snapshot that no       *)
(* reader refuses bring back the disk of that snapshot (cow_write_at,      *)
(* vm_cow_replay).                                                         *)
THEOREM SnapshotsKept == Sheltered /\ Spec => []Restorable
BY ReplayedMatches, Inductive, PTL

(* A restore on a sheltered host that reported success for every overlay,  *)
(* however many were interrupted before it, has put back the disk of its   *)
(* snapshot (vm_cow_replay).                                               *)
THEOREM RestoresExactly == Sheltered /\ Spec => []RestoreExact
<1>1. IInv => RestoreExact
  <2>. SUFFICES ASSUME IInv, rp.on, rp.k < rp.goal PROVE disk = frozen[rp.goal]
    BY DEF RestoreExact
  <2>1. /\ rp.goal \in Nat /\ rp.k \in Nat /\ rp.k + 1 = rp.goal /\ Len(ov) \in Nat
        /\ rp.goal >= 1 /\ rp.goal <= Len(ov)
    BY WhileReplaying
  <2>2. rp.goal \in 1 .. rp.goal /\ rp.goal \in Snaps
    BY <2>1 DEF Snaps
  <2>3. Readable(rp.goal)
    <3>1. \A h \in (rp.k + 1) .. Len(ov) : ov[h].st = "ok"
      BY DEF IInv, Progress
    <3>. QED BY <3>1, <2>1 DEF Readable
  <2>4. \A j \in rp.goal .. Len(ov) : ~(j < rp.goal)
    BY <2>1
  <2>5. \A b \in Blocks : disk[b] = frozen[rp.goal][b]
    BY <2>2, <2>3, <2>4, Back
  <2>6. disk \in Image /\ frozen[rp.goal] \in Image
    BY <2>2, Elements DEF IInv, TypeOK
  <2>. QED BY <2>5, <2>6 DEF Image
<1>. QED BY <1>1, Inductive, PTL
=============================================================================
