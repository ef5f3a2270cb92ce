--------------------------- MODULE MdRawBridgeProof ---------------------------
(***************************************************************************)
(* Proofs about MdRawBridge: for any number of threads and slots, any size *)
(* of the medium and of a transfer, and any mixture of faulting pages,     *)
(* failing transfers, checkpoints and reboots, the continuations are sound *)
(* and the two bridges together implement the memory disk of MemoryDisk.   *)
(***************************************************************************)
EXTENDS MdRawBridge, TLAPS

USE BridgeAssumption

Directions == {"read", "write"}
UserSegments == {"user", "user32", "user64"}
PhysicalSegments == {"phys", "phys32", "phys64"}

Continuation ==
  [active : {TRUE}, sp : Threads, rw : Directions, seg : Segments,
   phys : PhysicalSegments, off : Nat, resid : 1 .. MAX_TRANSFER, media : Nat]

ThreadRecord ==
  [pc : {"idle", "raw", "strategy", "uiomove", "completion"},
   ask : {NoRequest} \cup Requests, off : Nat, resid : Nat,
   seg : UserSegments \cup PhysicalSegments, was : UserSegments,
   buf : Seq({Zero} \cup (Nat \X Nat)), slot : 0 .. SLOTS, err : {"0", "EFAULT"}]

InUiomove(th) == th.pc \in {"uiomove", "completion"}

Types ==
  /\ disk \in [0 .. MEDIA - 1 -> Blocks]
  /\ guard \in [0 .. MAX_TRANSFER - 1 -> Blocks]
  /\ pending \in [Slots -> {Free} \cup Continuation]
  /\ \A s \in Slots : pending[s].active =>
       /\ pending[s].off + pending[s].resid <= guarded_media_end
       /\ pending[s].media <= pending[s].resid
  /\ DOMAIN bounce = Slots
  /\ \A s \in Slots : bounce[s] \in UNION {[1 .. n -> Blocks] : n \in 0 .. MAX_TRANSFER}
  /\ thr \in [Threads -> ThreadRecord]
  /\ answer.ok \in BOOLEAN /\ answer.moved \in 0 .. MAX_TRANSFER
  /\ machine \in {"runs", "io"}
  /\ budget \in [calls : 0 .. MaxCalls, faults : 0 .. MaxFaults]

(* What a thread holds outside of uiomove: nothing between two calls, and   *)
(* at an entry the request as it was asked.                                 *)
AtEntry(t) ==
  LET th == thr[t] IN
  /\ th.pc = "idle" <=> th.ask = NoRequest
  /\ th.pc # "idle" => th.was \in Segments
  /\ machine = "runs" /\ ~InUiomove(th) => th.seg = th.was
  /\ th.pc \in {"raw", "strategy"} =>
       th.off = th.ask.off /\ th.resid = th.ask.len /\ th.buf = th.ask.data
  /\ th.pc = "strategy" => th.off < MEDIA /\ th.resid = 1
  /\ th.pc \in {"raw", "strategy", "uiomove"} => th.err = "0"
  /\ th.pc = "completion" => (th.err = "0" <=> th.resid = 0)

(* A thread in uiomove: its slot is its own and describes its request, and  *)
(* the user's buffer and the bounce buffer agree as far as it has come.     *)
Underway(t) ==
  LET th == thr[t]
      p == pending[th.slot]
      b == bounce[th.slot]
  IN machine = "runs" /\ InUiomove(th) =>
       /\ th.slot \in Slots
       /\ p.active /\ p.sp = t
       /\ p.rw = th.ask.rw /\ p.off = th.ask.off /\ p.resid = th.ask.len
       /\ p.phys = th.seg /\ p.seg = th.was
       /\ th.resid <= th.ask.len
       /\ th.off = th.ask.off + (th.ask.len - th.resid)
       /\ b \in [1 .. th.ask.len -> Blocks]
       /\ th.ask.rw = "read" =>
            /\ Len(th.buf) = th.ask.len - th.resid
            /\ \A i \in 1 .. Len(th.buf) : th.buf[i] = b[i]
       /\ th.ask.rw = "write" =>
            /\ th.buf = th.ask.data
            /\ \A i \in 1 .. th.ask.len - th.resid : b[i] = th.buf[i]

(* An active slot is held by a thread in uiomove. *)
Held(s) ==
  machine = "runs" /\ pending[s].active =>
    InUiomove(thr[pending[s].sp]) /\ thr[pending[s].sp].slot = s

IInv ==
  /\ Types
  /\ \A t \in Threads : AtEntry(t) /\ Underway(t)
  /\ \A s \in Slots : Held(s)

-----------------------------------------------------------------------------
(* The helpers of the bridges. *)

(* A request has a direction, a place and, to write, its data. *)
LEMMA RequestFields ==
  ASSUME NEW r \in Requests
  PROVE  /\ r.rw \in Directions /\ r.off \in Nat /\ r.len \in Nat
         /\ r # NoRequest
         /\ r.data \in Seq(Nat \X Nat)
         /\ r.rw = "read" => r.data = <<>>
         /\ r.rw = "write" => /\ Len(r.data) = r.len
                              /\ \A i \in 1 .. r.len : i <= MAX_TRANSFER => r.data[i] \in Blocks
<1>1. ASSUME NEW n \in 1 .. MaxCalls, NEW len \in Nat
      PROVE  /\ Data(n, len) \in Seq(Nat \X Nat) /\ Len(Data(n, len)) = len
             /\ \A i \in 1 .. len : i <= MAX_TRANSFER => Data(n, len)[i] \in Blocks
  BY DEF Data, Blocks
<1>2. \A s \in Shapes \cup Pages : s[1] \in Nat /\ s[2] \in Nat
  BY DEF Pages
<1>3. CASE \E s \in Shapes \cup Pages :
             r = [rw |-> "read", off |-> s[1], len |-> s[2], data |-> <<>>]
  BY <1>2, <1>3 DEF Directions, NoRequest
<1>4. CASE \E n \in 1 .. MaxCalls : \E s \in Shapes \cup Pages :
             r = [rw |-> "write", off |-> s[1], len |-> s[2], data |-> Data(n, s[2])]
  <2>1. PICK n \in 1 .. MaxCalls, s \in Shapes \cup Pages :
             r = [rw |-> "write", off |-> s[1], len |-> s[2], data |-> Data(n, s[2])]
    BY <1>4
  <2>2. s[1] \in Nat /\ s[2] \in Nat
    BY <1>2
  <2>. QED BY <1>1, <2>1, <2>2 DEF Directions, NoRequest
<1>. QED BY <1>3, <1>4 DEF Requests

(* The prefix of a transfer that lies on the medium is a prefix. *)
LEMMA PrefixIsPrefix ==
  ASSUME NEW offset \in Nat, NEW n \in Nat
  PROVE  /\ media_prefix_length(offset, n) \in 0 .. n
         /\ media_prefix_length(offset, n) <= MEDIA
         /\ media_prefix_length(offset, n) > 0 => offset + media_prefix_length(offset, n) <= MEDIA
         /\ offset + n <= MEDIA => media_prefix_length(offset, n) = n
         /\ offset <= MEDIA /\ MEDIA < offset + n => offset + media_prefix_length(offset, n) = MEDIA
         /\ MEDIA < offset => media_prefix_length(offset, n) = 0
         /\ guard_tail_offset(offset) \in Nat
BY DEF media_prefix_length, guard_tail_offset

(* What a transfer inside the aperture finds, and what it leaves. *)
LEMMA StoredType ==
  ASSUME Types, NEW offset \in Nat, NEW n \in 0 .. MAX_TRANSFER,
         offset + n <= guarded_media_end
  PROVE  Stored(offset, n) \in [1 .. n -> Blocks]
<1>. DEFINE media == media_prefix_length(offset, n)
            start == guard_tail_offset(offset)
<1>0. n \in Nat
  OBVIOUS
<1>1. /\ disk \in [0 .. MEDIA - 1 -> Blocks] /\ guard \in [0 .. MAX_TRANSFER - 1 -> Blocks]
      /\ media \in 0 .. n /\ start \in Nat
  BY <1>0, PrefixIsPrefix DEF Types
<1>2. ASSUME NEW i \in 1 .. n, i <= media PROVE disk[offset + i - 1] \in Blocks
  <2>1. offset + i - 1 \in 0 .. MEDIA - 1
    BY <1>2 DEF media_prefix_length
  <2>. QED BY <1>1, <2>1
<1>3. ASSUME NEW i \in 1 .. n, ~(i <= media)
      PROVE  guard[start + i - media - 1] \in Blocks
  <2>1. start + i - media - 1 \in 0 .. MAX_TRANSFER - 1
    BY <1>3 DEF guard_tail_offset, guarded_media_end, media_prefix_length
  <2>. QED BY <1>1, <2>1
<1>. HIDE DEF media, start
<1>4. [i \in 1 .. n |-> IF i <= media THEN disk[offset + i - 1] ELSE guard[start + i - media - 1]]
        \in [1 .. n -> Blocks]
  BY <1>2, <1>3
<1>. QED BY <1>4 DEF Stored, media, start

LEMMA DiskWithType ==
  ASSUME Types, NEW offset \in Nat, NEW n \in Nat, NEW s,
         \A i \in 1 .. n : s[i] \in Blocks
  PROVE  DiskWith(offset, s, n) \in [0 .. MEDIA - 1 -> Blocks]
<1>. DEFINE media == media_prefix_length(offset, n)
<1>1. disk \in [0 .. MEDIA - 1 -> Blocks] /\ media \in 0 .. n
  BY PrefixIsPrefix DEF Types
<1>2. ASSUME NEW a \in 0 .. MEDIA - 1, a >= offset /\ a < offset + media
      PROVE  s[a - offset + 1] \in Blocks
  <2>1. a - offset + 1 \in 1 .. n
    BY <1>1, <1>2
  <2>. QED BY <2>1
<1>. HIDE DEF media
<1>3. [a \in 0 .. MEDIA - 1 |->
         IF a >= offset /\ a < offset + media THEN s[a - offset + 1] ELSE disk[a]]
        \in [0 .. MEDIA - 1 -> Blocks]
  BY <1>1, <1>2
<1>. QED BY <1>3 DEF DiskWith, media

LEMMA GuardWithType ==
  ASSUME Types, NEW offset \in Nat, NEW n \in Nat, NEW s,
         \A i \in 1 .. n : s[i] \in Blocks
  PROVE  GuardWith(offset, s, n) \in [0 .. MAX_TRANSFER - 1 -> Blocks]
<1>. DEFINE media == media_prefix_length(offset, n)
            start == guard_tail_offset(offset)
<1>1. /\ guard \in [0 .. MAX_TRANSFER - 1 -> Blocks]
      /\ media \in 0 .. n /\ start \in Nat
  BY PrefixIsPrefix DEF Types
<1>2. ASSUME NEW g \in 0 .. MAX_TRANSFER - 1, g >= start /\ g < start + n - media
      PROVE  s[media + g - start + 1] \in Blocks
  <2>1. media + g - start + 1 \in 1 .. n
    BY <1>1, <1>2
  <2>. QED BY <2>1
<1>. HIDE DEF media, start
<1>3. [g \in 0 .. MAX_TRANSFER - 1 |->
         IF g >= start /\ g < start + n - media THEN s[media + g - start + 1] ELSE guard[g]]
        \in [0 .. MAX_TRANSFER - 1 -> Blocks]
  BY <1>1, <1>2
<1>. QED BY <1>3 DEF GuardWith, media, start

(* A thread in uiomove has one slot, every other thread none. *)
LEMMA FindPending ==
  ASSUME IInv, machine = "runs", NEW t \in Threads
  PROVE  find_pending(t) = IF InUiomove(thr[t]) THEN {thr[t].slot} ELSE {}
<1>1. \A s \in find_pending(t) : InUiomove(thr[t]) /\ thr[t].slot = s
  BY DEF IInv, Held, find_pending
<1>2. InUiomove(thr[t]) => thr[t].slot \in find_pending(t)
  BY DEF IInv, Underway, find_pending
<1>. QED BY <1>1, <1>2

-----------------------------------------------------------------------------
(* The steps of a thread. *)

(* The request of a thread that is inside a call. *)
LEMMA ThreadFields ==
  ASSUME IInv, NEW t \in Threads
  PROVE  /\ thr[t] \in ThreadRecord
         /\ DOMAIN thr = Threads
         /\ thr[t].pc # "idle" =>
              /\ thr[t].ask \in Requests
              /\ thr[t].ask.rw \in Directions
              /\ thr[t].ask.off \in Nat /\ thr[t].ask.len \in Nat
<1>1. thr[t] \in ThreadRecord /\ DOMAIN thr = Threads
  BY DEF IInv, Types
<1>2. thr[t].pc # "idle" => thr[t].ask \in Requests
  BY <1>1 DEF IInv, AtEntry, ThreadRecord
<1>. QED BY <1>1, <1>2, RequestFields

(* The continuation in an active slot. *)
LEMMA SlotFields ==
  ASSUME IInv, NEW s \in Slots
  PROVE  /\ DOMAIN pending = Slots /\ DOMAIN bounce = Slots
         /\ pending[s] = Free \/ pending[s] \in Continuation
         /\ pending[s].active \in BOOLEAN
         /\ pending[s].active =>
              /\ pending[s] \in Continuation
              /\ pending[s].sp \in Threads
              /\ pending[s].off + pending[s].resid <= guarded_media_end
         /\ ~pending[s].active => pending[s] = Free
<1>1. /\ DOMAIN pending = Slots /\ DOMAIN bounce = Slots
      /\ pending[s] = Free \/ pending[s] \in Continuation
      /\ pending[s].active => pending[s].off + pending[s].resid <= guarded_media_end
  BY DEF IInv, Types
<1>2. pending[s] = Free => pending[s].active = FALSE
  BY DEF Free
<1>3. pending[s] \in Continuation => pending[s].active = TRUE /\ pending[s].sp \in Threads
  BY DEF Continuation
<1>. QED BY <1>1, <1>2, <1>3

(* A step of one thread leaves the others what they hold. *)
LEMMA OtherThreads ==
  ASSUME IInv, machine = "runs", NEW t \in Threads,
         \A u \in Threads : u # t => thr'[u] = thr[u],
         \A s \in Slots : pending[s].active /\ pending[s].sp # t
                            => pending'[s] = pending[s] /\ bounce'[s] = bounce[s]
  PROVE  \A u \in Threads : u # t => AtEntry(u)' /\ Underway(u)'
<1>. SUFFICES ASSUME NEW u \in Threads, u # t
              PROVE  AtEntry(u)' /\ Underway(u)'
  OBVIOUS
<1>1. thr'[u] = thr[u] /\ AtEntry(u) /\ Underway(u)
  BY DEF IInv
<1>2. AtEntry(u)'
  BY <1>1 DEF AtEntry
<1>3. ASSUME InUiomove(thr[u])
      PROVE  /\ pending'[thr[u].slot] = pending[thr[u].slot]
             /\ bounce'[thr[u].slot] = bounce[thr[u].slot]
  BY <1>1, <1>3 DEF Underway
<1>4. Underway(u)'
  BY <1>1, <1>3 DEF Underway, InUiomove
<1>. QED BY <1>2, <1>4

(* The slots of the others stay held. *)
LEMMA OtherSlots ==
  ASSUME IInv, machine = "runs", NEW t \in Threads, NEW s \in Slots,
         \A u \in Threads : u # t => thr'[u] = thr[u],
         pending'[s] = pending[s], pending[s].active => pending[s].sp # t
  PROVE  Held(s)'
<1>1. pending[s].active => pending[s].sp \in Threads
  BY SlotFields
<1>. QED BY <1>1 DEF IInv, Held, InUiomove

(* A call that returns leaves its thread between two calls. *)
LEMMA ReturnsThread ==
  ASSUME IInv, machine = "runs", NEW t \in Threads, NEW th, NEW err,
         Returns(t, th, err),
         th.seg \in UserSegments, th.was = th.seg,
         th.ask.len - th.resid \in 0 .. MAX_TRANSFER
  PROVE  /\ thr' \in [Threads -> ThreadRecord]
         /\ AtEntry(t)' /\ Underway(t)'
         /\ \A u \in Threads : u # t => thr'[u] = thr[u]
         /\ answer'.ok \in BOOLEAN /\ answer'.moved \in 0 .. MAX_TRANSFER
<1>1. /\ thr'[t] = Idle(th.seg, th.was)
      /\ \A u \in Threads : u # t => thr'[u] = thr[u]
      /\ thr' = [thr EXCEPT ![t] = Idle(th.seg, th.was)]
  BY ThreadFields DEF Returns
<1>2. Idle(th.seg, th.was) \in ThreadRecord
  BY DEF Idle, ThreadRecord
<1>3. thr' \in [Threads -> ThreadRecord]
  BY <1>1, <1>2 DEF IInv, Types
<1>4. AtEntry(t)' /\ Underway(t)'
  BY <1>1 DEF AtEntry, Underway, InUiomove, Idle
<1>5. answer'.ok \in BOOLEAN /\ answer'.moved \in 0 .. MAX_TRANSFER
  BY DEF Returns
<1>. QED BY <1>1, <1>3, <1>4, <1>5

LEMMA GuestCallsStep ==
  ASSUME IInv, NEW t \in Threads, GuestCalls(t)
  PROVE  IInv'
<1>1. PICK rw \in Directions, seg \in Segments, door \in {"raw", "strategy"} :
        \E q \in IF door = "raw" THEN Shapes ELSE Pages :
          LET data == IF rw = "write" THEN Data(budget.calls + 1, q[2]) ELSE <<>>
          IN thr' = [thr EXCEPT ![t] =
               [pc |-> door, off |-> q[1], resid |-> q[2], seg |-> seg, was |-> seg,
                ask |-> [rw |-> rw, off |-> q[1], len |-> q[2], data |-> data],
                buf |-> data, slot |-> 0, err |-> "0"]]
  BY DEF GuestCalls, Directions
<1>2. PICK q \in IF door = "raw" THEN Shapes ELSE Pages :
          thr' = [thr EXCEPT ![t] =
               [pc |-> door, off |-> q[1], resid |-> q[2], seg |-> seg, was |-> seg,
                ask |-> [rw |-> rw, off |-> q[1], len |-> q[2],
                         data |-> IF rw = "write" THEN Data(budget.calls + 1, q[2]) ELSE <<>>],
                buf |-> IF rw = "write" THEN Data(budget.calls + 1, q[2]) ELSE <<>>,
                slot |-> 0, err |-> "0"]]
  BY <1>1
<1>. DEFINE data == IF rw = "write" THEN Data(budget.calls + 1, q[2]) ELSE <<>>
            ask == [rw |-> rw, off |-> q[1], len |-> q[2], data |-> data]
            new == [pc |-> door, off |-> q[1], resid |-> q[2], seg |-> seg, was |-> seg,
                    ask |-> ask, buf |-> data, slot |-> 0, err |-> "0"]
<1>3. budget.calls + 1 \in 1 .. MaxCalls
  <2>1. budget.calls \in 0 .. MaxCalls
    BY DEF IInv, Types
  <2>2. budget.calls < MaxCalls
    BY DEF GuestCalls
  <2>. QED BY <2>1, <2>2
<1>4. /\ q \in Shapes \cup Pages /\ q[1] \in Nat /\ q[2] \in Nat
      /\ door = "strategy" => q[1] < MEDIA /\ q[2] = 1
  BY DEF Pages
<1>5. ask \in Requests
  <2>1. CASE rw = "read"
    <3>1. ask = [rw |-> "read", off |-> q[1], len |-> q[2], data |-> <<>>]
      BY <2>1
    <3>. QED BY <1>4, <3>1 DEF Requests
  <2>2. CASE rw = "write"
    <3>1. ask = [rw |-> "write", off |-> q[1], len |-> q[2], data |-> Data(budget.calls + 1, q[2])]
      BY <2>2
    <3>. HIDE DEF ask
    <3>2. ask \in {[rw |-> "write", off |-> x[1], len |-> x[2], data |-> Data(budget.calls + 1, x[2])] :
                      x \in Shapes \cup Pages}
      BY <1>4, <3>1
    <3>. QED BY <1>3, <3>2 DEF Requests
  <2>. QED BY <2>1, <2>2 DEF Directions
<1>6. data \in Seq({Zero} \cup (Nat \X Nat)) /\ seg \in UserSegments
  BY <1>3, <1>4 DEF Data, UserSegments
<1>7. /\ thr'[t] = new
      /\ \A u \in Threads : u # t => thr'[u] = thr[u]
      /\ thr' = [thr EXCEPT ![t] = new]
  BY <1>2, ThreadFields
<1>. HIDE DEF ask, data
<1>8. new \in ThreadRecord
  BY <1>4, <1>5, <1>6 DEF ThreadRecord, UserSegments, PhysicalSegments
<1>9. /\ machine = "runs" /\ ~InUiomove(thr[t])
      /\ UNCHANGED <<disk, guard, pending, bounce, answer, machine>>
      /\ budget' \in [calls : 0 .. MaxCalls, faults : 0 .. MaxFaults]
  <2>1. budget \in [calls : 0 .. MaxCalls, faults : 0 .. MaxFaults]
    BY DEF IInv, Types
  <2>. QED BY <1>3, <2>1 DEF GuestCalls, InUiomove
<1>10. Types'
  BY <1>7, <1>8, <1>9 DEF IInv, Types
<1>11. AtEntry(t)' /\ Underway(t)'
  <2>1. ask # NoRequest /\ ask.off = q[1] /\ ask.len = q[2] /\ ask.data = data
    BY DEF ask, NoRequest
  <2>. QED BY <1>4, <1>7, <1>9, <2>1 DEF AtEntry, Underway, InUiomove
<1>12. \A u \in Threads : u # t => AtEntry(u)' /\ Underway(u)'
  BY <1>7, <1>9, OtherThreads
<1>13. \A s \in Slots : Held(s)'
  <2>1. \A s \in Slots : pending[s].active => pending[s].sp # t
    BY <1>9 DEF IInv, Held
  <2>. QED BY <1>7, <1>9, <2>1, OtherSlots
<1>. QED BY <1>10, <1>11, <1>12, <1>13 DEF IInv

(* What a thread in uiomove can rely on. *)
LEMMA UnderwayFields ==
  ASSUME IInv, machine = "runs", NEW t \in Threads, InUiomove(thr[t])
  PROVE  /\ thr[t].pc # "idle"
         /\ thr[t].slot \in Slots
         /\ pending[thr[t].slot].active /\ pending[thr[t].slot].sp = t
         /\ thr[t].ask.len \in 1 .. MAX_TRANSFER
         /\ thr[t].ask.off + thr[t].ask.len <= guarded_media_end
         /\ thr[t].resid \in 0 .. thr[t].ask.len
         /\ bounce[thr[t].slot] \in [1 .. thr[t].ask.len -> Blocks]
         /\ \A s \in Slots : pending[s].active => (pending[s].sp = t <=> s = thr[t].slot)
<1>1. Underway(t) /\ \A s \in Slots : Held(s)
  BY DEF IInv
<1>2. /\ thr[t].slot \in Slots
      /\ pending[thr[t].slot].active /\ pending[thr[t].slot].sp = t
      /\ thr[t].resid <= thr[t].ask.len
      /\ pending[thr[t].slot].resid = thr[t].ask.len
      /\ pending[thr[t].slot].off = thr[t].ask.off
      /\ bounce[thr[t].slot] \in [1 .. thr[t].ask.len -> Blocks]
  BY <1>1 DEF Underway
<1>3. /\ pending[thr[t].slot].resid \in 1 .. MAX_TRANSFER
      /\ pending[thr[t].slot].off + pending[thr[t].slot].resid <= guarded_media_end
  BY <1>2, SlotFields DEF Continuation
<1>4. thr[t].resid \in Nat
  BY ThreadFields DEF ThreadRecord
<1>5. \A s \in Slots : pending[s].active => (pending[s].sp = t <=> s = thr[t].slot)
  BY <1>1, <1>2 DEF Held
<1>. QED BY <1>2, <1>3, <1>4, <1>5 DEF InUiomove

(* A uio that has moved one block. *)
Advance(th, buf) == [th EXCEPT !.buf = buf, !.off = th.off + 1, !.resid = th.resid - 1]

LEMMA AdvanceFields ==
  ASSUME NEW th \in ThreadRecord, th.resid > 0,
         NEW buf \in Seq({Zero} \cup (Nat \X Nat))
  PROVE  LET new == Advance(th, buf) IN
         /\ new \in ThreadRecord
         /\ new.slot = th.slot /\ new.pc = th.pc /\ new.ask = th.ask /\ new.seg = th.seg
         /\ new.was = th.was /\ new.err = th.err
         /\ new.off = th.off + 1 /\ new.resid = th.resid - 1 /\ new.buf = buf
<1>1. th.off + 1 \in Nat /\ th.resid - 1 \in Nat
  BY DEF ThreadRecord
<1>. QED BY <1>1 DEF ThreadRecord, Advance

LEMMA UioMoveStep ==
  ASSUME IInv, NEW t \in Threads, UioMove(t)
  PROVE  IInv'
<1>. DEFINE th == thr[t]
            len == th.ask.len
            i == len - th.resid + 1
            b == bounce[th.slot]
<1>1. /\ machine = "runs" /\ th.pc = "uiomove" /\ th.resid > 0 /\ InUiomove(th)
      /\ UNCHANGED <<disk, guard, pending, answer, machine, budget>>
  BY DEF UioMove, InUiomove
<1>2. /\ th \in ThreadRecord /\ th.ask \in Requests
      /\ th.slot \in Slots /\ pending[th.slot].active /\ pending[th.slot].sp = t
      /\ len \in 1 .. MAX_TRANSFER /\ th.resid \in 1 .. len /\ i \in 1 .. len
      /\ b \in [1 .. len -> Blocks]
      /\ Underway(t) /\ AtEntry(t)
  BY <1>1, ThreadFields, UnderwayFields DEF IInv
<1>3. /\ th.off \in Nat /\ th.resid \in Nat /\ th.buf \in Seq({Zero} \cup (Nat \X Nat))
      /\ th.ask.off \in Nat /\ len \in Nat
  <2>1. th.off \in Nat /\ th.resid \in Nat /\ th.buf \in Seq({Zero} \cup (Nat \X Nat))
    BY <1>2 DEF ThreadRecord
  <2>. QED BY <1>2, <2>1, RequestFields
<1>4. Blocks \subseteq {Zero} \cup (Nat \X Nat)
  BY DEF Blocks
<1>5. \A s \in Slots : pending[s].active /\ pending[s].sp # t => s # th.slot
  BY <1>2
<1>6. ASSUME NEW new \in ThreadRecord, thr' = [thr EXCEPT ![t] = new], new.slot = th.slot,
             new.pc = th.pc, Underway(t)', AtEntry(t)',
             DOMAIN bounce' = Slots, \A s \in Slots : s # th.slot => bounce'[s] = bounce[s],
             bounce'[th.slot] \in [1 .. len -> Blocks]
      PROVE  IInv'
  <2>1. /\ thr' \in [Threads -> ThreadRecord] /\ thr'[t] = new
        /\ \A u \in Threads : u # t => thr'[u] = thr[u]
    BY <1>6 DEF IInv, Types
  <2>2. \A s \in Slots : bounce'[s] \in UNION {[1 .. n -> Blocks] : n \in 0 .. MAX_TRANSFER}
    <3>1. bounce'[th.slot] \in UNION {[1 .. n -> Blocks] : n \in 0 .. MAX_TRANSFER}
      BY <1>2, <1>6
    <3>. QED BY <1>6, <3>1 DEF IInv, Types
  <2>3. Types'
    BY <1>1, <1>6, <2>1, <2>2 DEF IInv, Types
  <2>4. \A u \in Threads : u # t => AtEntry(u)' /\ Underway(u)'
    BY <1>1, <1>5, <1>6, <2>1, OtherThreads
  <2>5. \A s \in Slots : Held(s)'
    <3>1. ASSUME NEW s \in Slots, pending[s].active => pending[s].sp # t PROVE Held(s)'
      BY <1>1, <2>1, <3>1, OtherSlots
    <3>2. ASSUME NEW s \in Slots, pending[s].active, pending[s].sp = t PROVE Held(s)'
      <4>1. s = th.slot
        BY <1>1, <3>2, UnderwayFields
      <4>. QED BY <1>1, <1>6, <2>1, <3>2, <4>1 DEF Held, InUiomove
    <3>. QED BY <3>1, <3>2
  <2>. QED BY <1>6, <2>3, <2>4, <2>5 DEF IInv
<1>7. CASE th.ask.rw = "read"
  <2>. DEFINE new == [th EXCEPT !.buf = Append(@, b[i]), !.off = @ + 1, !.resid = @ - 1]
  <2>1. thr' = [thr EXCEPT ![t] = new] /\ UNCHANGED bounce
    BY <1>7 DEF UioMove
  <2>2. b[i] \in {Zero} \cup (Nat \X Nat)
    BY <1>2, <1>4
  <2>3. Append(th.buf, b[i]) \in Seq({Zero} \cup (Nat \X Nat))
    BY <1>3, <2>2
  <2>4. /\ new \in ThreadRecord
        /\ new.slot = th.slot /\ new.pc = th.pc /\ new.ask = th.ask /\ new.seg = th.seg
        /\ new.was = th.was /\ new.err = th.err
        /\ new.off = th.off + 1 /\ new.resid = th.resid - 1 /\ new.buf = Append(th.buf, b[i])
    <3>1. new = Advance(th, Append(th.buf, b[i]))
      BY DEF Advance
    <3>2. th \in ThreadRecord /\ th.resid > 0
      BY <1>1, <1>2
    <3>. HIDE DEF new, th, b, i
    <3>. QED BY <2>3, <3>1, <3>2, AdvanceFields
  <2>5. thr'[t] = new
    BY <2>1, ThreadFields
  <2>. HIDE DEF new
  <2>6. /\ Len(th.buf) = len - th.resid
        /\ \A j \in 1 .. Len(th.buf) : th.buf[j] = b[j]
    BY <1>1, <1>2, <1>7 DEF Underway
  <2>7. /\ Len(new.buf) = len - new.resid
        /\ \A j \in 1 .. Len(new.buf) : new.buf[j] = b[j]
    <3>. HIDE DEF th, b
    <3>1. Len(new.buf) = Len(th.buf) + 1
      BY <1>3, <2>2, <2>4
    <3>2. Len(new.buf) = i
      BY <1>2, <1>3, <2>6, <3>1
    <3>3. \A j \in 1 .. Len(new.buf) : new.buf[j] = IF j = Len(th.buf) + 1 THEN b[i] ELSE th.buf[j]
      BY <1>3, <2>2, <2>4, <3>1
    <3>4. new.resid = th.resid - 1
      BY <2>4
    <3>5. len - new.resid = i
      BY <1>3, <3>4
    <3>6. ASSUME NEW j \in 1 .. Len(new.buf) PROVE new.buf[j] = b[j]
      <4>1. CASE j = i
        BY <3>1, <3>2, <3>3, <4>1
      <4>2. CASE j # i
        <5>1. j \in 1 .. Len(th.buf)
          BY <1>2, <1>3, <3>1, <3>2, <4>2
        <5>. QED BY <2>6, <3>1, <3>2, <3>3, <4>2, <5>1
      <4>. QED BY <4>1, <4>2
    <3>. QED BY <3>2, <3>5, <3>6
  <2>8. Underway(t)'
    <3>1. /\ pending[th.slot].rw = th.ask.rw /\ pending[th.slot].off = th.ask.off
          /\ pending[th.slot].resid = th.ask.len
          /\ pending[th.slot].phys = th.seg /\ pending[th.slot].seg = th.was
          /\ th.off = th.ask.off + (len - th.resid)
      BY <1>1, <1>2 DEF Underway
    <3>2. thr'[t].off = thr'[t].ask.off + (thr'[t].ask.len - thr'[t].resid)
      <4>1. /\ thr'[t].ask = th.ask /\ thr'[t].off = th.off + 1
            /\ thr'[t].resid = th.resid - 1
        BY <2>4, <2>5
      <4>2. th.off + 1 = th.ask.off + (len - (th.resid - 1))
        BY <1>3, <3>1
      <4>. QED BY <4>1, <4>2
    <3>3. /\ thr'[t].slot = th.slot /\ thr'[t].ask = th.ask /\ thr'[t].seg = th.seg
          /\ thr'[t].was = th.was /\ thr'[t].resid <= th.ask.len
      BY <1>2, <2>4, <2>5
    <3>4. /\ pending' = pending /\ bounce' = bounce /\ b \in [1 .. len -> Blocks]
          /\ th.slot \in Slots /\ pending[th.slot].active /\ pending[th.slot].sp = t
      BY <1>1, <1>2, <2>1
    <3>5. /\ Len(thr'[t].buf) = len - thr'[t].resid
          /\ \A j \in 1 .. Len(thr'[t].buf) : thr'[t].buf[j] = b[j]
      BY <2>5, <2>7
    <3>. HIDE DEF th
    <3>. QED BY <1>7, <3>1, <3>2, <3>3, <3>4, <3>5 DEF Underway
  <2>9. AtEntry(t)'
    BY <1>1, <1>2, <2>4, <2>5 DEF AtEntry, InUiomove
  <2>. QED BY <1>2, <1>6, <2>1, <2>4, <2>8, <2>9 DEF IInv, Types
<1>8. CASE th.ask.rw = "write"
  <2>. DEFINE new == [th EXCEPT !.off = @ + 1, !.resid = @ - 1]
  <2>1. thr' = [thr EXCEPT ![t] = new] /\ bounce' = [bounce EXCEPT ![th.slot][i] = th.buf[i]]
    BY <1>8 DEF UioMove
  <2>2. /\ new \in ThreadRecord
        /\ new.slot = th.slot /\ new.pc = th.pc /\ new.ask = th.ask /\ new.seg = th.seg
        /\ new.was = th.was /\ new.err = th.err /\ new.buf = th.buf
        /\ new.off = th.off + 1 /\ new.resid = th.resid - 1
    <3>1. new = Advance(th, th.buf)
      BY <1>2 DEF ThreadRecord, Advance
    <3>2. th \in ThreadRecord /\ th.resid > 0
      BY <1>1, <1>2
    <3>. HIDE DEF new, th
    <3>. QED BY <1>3, <3>1, <3>2, AdvanceFields
  <2>3. thr'[t] = new
    BY <2>1, ThreadFields
  <2>. HIDE DEF new
  <2>4. /\ th.buf = th.ask.data
        /\ \A j \in 1 .. len - th.resid : b[j] = th.buf[j]
    BY <1>1, <1>2, <1>8 DEF Underway
  <2>5. th.buf[i] \in Blocks
    <3>1. i \in 1 .. th.ask.len /\ i <= MAX_TRANSFER
      BY <1>2
    <3>. HIDE DEF th, i
    <3>. QED BY <1>2, <1>8, <2>4, <3>1, RequestFields
  <2>6. /\ DOMAIN bounce' = Slots
        /\ \A s \in Slots : s # th.slot => bounce'[s] = bounce[s]
        /\ bounce'[th.slot] = [b EXCEPT ![i] = th.buf[i]]
    BY <1>2, <2>1, SlotFields
  <2>7. /\ bounce'[th.slot] \in [1 .. len -> Blocks]
        /\ \A j \in 1 .. len - new.resid : bounce'[th.slot][j] = th.buf[j]
    <3>1. len - new.resid = i
      BY <1>2, <1>3, <2>2
    <3>2. \A j \in 1 .. i : j = i \/ j \in 1 .. len - th.resid
      BY <1>2, <1>3
    <3>. HIDE DEF th, b, i
    <3>. QED BY <1>2, <2>4, <2>5, <2>6, <3>1, <3>2
  <2>8. Underway(t)'
    <3>1. /\ pending[th.slot].rw = th.ask.rw /\ pending[th.slot].off = th.ask.off
          /\ pending[th.slot].resid = th.ask.len
          /\ pending[th.slot].phys = th.seg /\ pending[th.slot].seg = th.was
          /\ th.off = th.ask.off + (len - th.resid)
      BY <1>1, <1>2 DEF Underway
    <3>2. thr'[t].off = thr'[t].ask.off + (thr'[t].ask.len - thr'[t].resid)
      <4>1. /\ thr'[t].ask = th.ask /\ thr'[t].off = th.off + 1
            /\ thr'[t].resid = th.resid - 1
        BY <2>2, <2>3
      <4>2. th.off + 1 = th.ask.off + (len - (th.resid - 1))
        BY <1>3, <3>1
      <4>. QED BY <4>1, <4>2
    <3>3. /\ thr'[t].slot = th.slot /\ thr'[t].ask = th.ask /\ thr'[t].seg = th.seg
          /\ thr'[t].was = th.was /\ thr'[t].resid <= th.ask.len /\ thr'[t].buf = th.buf
      BY <1>2, <2>2, <2>3
    <3>4. /\ pending' = pending
          /\ th.slot \in Slots /\ pending[th.slot].active /\ pending[th.slot].sp = t
      BY <1>1, <1>2
    <3>5. \A j \in 1 .. len - thr'[t].resid : bounce'[th.slot][j] = th.buf[j]
      BY <2>3, <2>7
    <3>. HIDE DEF th
    <3>. QED BY <1>8, <2>4, <2>7, <3>1, <3>2, <3>3, <3>4, <3>5 DEF Underway
  <2>9. AtEntry(t)'
    BY <1>1, <1>2, <2>2, <2>3 DEF AtEntry, InUiomove
  <2>. QED BY <1>2, <1>6, <2>1, <2>2, <2>6, <2>7, <2>8, <2>9
<1>. QED BY <1>7, <1>8 DEF UioMove

LEMMA UioReturnsStep ==
  ASSUME IInv, NEW t \in Threads, UioReturns(t)
  PROVE  IInv'
<1>. DEFINE th == thr[t]
            new == [th EXCEPT !.pc = "completion", !.err = IF th.resid = 0 THEN "0" ELSE "EFAULT"]
<1>1. /\ machine = "runs" /\ th.pc = "uiomove" /\ InUiomove(th)
      /\ UNCHANGED <<disk, guard, pending, bounce, answer, machine, budget>>
      /\ thr' = [thr EXCEPT ![t] = new]
  BY DEF UioReturns, InUiomove
<1>2. th \in ThreadRecord /\ AtEntry(t) /\ Underway(t)
  BY ThreadFields DEF IInv
<1>3. /\ new \in ThreadRecord
      /\ new.pc = "completion" /\ new.err = IF th.resid = 0 THEN "0" ELSE "EFAULT"
      /\ new.slot = th.slot /\ new.ask = th.ask /\ new.seg = th.seg /\ new.was = th.was
      /\ new.buf = th.buf /\ new.off = th.off /\ new.resid = th.resid
  BY <1>2 DEF ThreadRecord
<1>4. /\ thr' \in [Threads -> ThreadRecord] /\ thr'[t] = new
      /\ \A u \in Threads : u # t => thr'[u] = thr[u]
  BY <1>1, <1>3 DEF IInv, Types
<1>. HIDE DEF new
<1>5. Types'
  BY <1>1, <1>4 DEF IInv, Types
<1>6. AtEntry(t)' /\ Underway(t)'
  BY <1>1, <1>2, <1>3, <1>4 DEF AtEntry, Underway, InUiomove
<1>7. \A u \in Threads : u # t => AtEntry(u)' /\ Underway(u)'
  BY <1>1, <1>4, OtherThreads
<1>8. \A s \in Slots : Held(s)'
  <2>1. ASSUME NEW s \in Slots, pending[s].active => pending[s].sp # t PROVE Held(s)'
    BY <1>1, <1>4, <2>1, OtherSlots
  <2>2. ASSUME NEW s \in Slots, pending[s].active, pending[s].sp = t PROVE Held(s)'
    <3>1. s = th.slot
      BY <1>1, <2>2, UnderwayFields
    <3>. QED BY <1>1, <1>3, <1>4, <2>2, <3>1 DEF Held, InUiomove
  <2>. QED BY <2>1, <2>2
<1>. QED BY <1>5, <1>6, <1>7, <1>8 DEF IInv

(* A call of a thread that held no slot returns. *)
LEMMA ReturnsStep ==
  ASSUME IInv, machine = "runs", NEW t \in Threads, ~InUiomove(thr[t]),
         NEW th, NEW err, Returns(t, th, err),
         th.seg \in UserSegments, th.was = th.seg,
         th.ask.len - th.resid \in 0 .. MAX_TRANSFER,
         disk' \in [0 .. MEDIA - 1 -> Blocks], guard' \in [0 .. MAX_TRANSFER - 1 -> Blocks],
         UNCHANGED <<pending, bounce, machine, budget>>
  PROVE  IInv'
<1>1. /\ thr' \in [Threads -> ThreadRecord]
      /\ AtEntry(t)' /\ Underway(t)'
      /\ \A u \in Threads : u # t => thr'[u] = thr[u]
      /\ answer'.ok \in BOOLEAN /\ answer'.moved \in 0 .. MAX_TRANSFER
  BY ReturnsThread
<1>2. Types'
  BY <1>1 DEF IInv, Types
<1>3. \A u \in Threads : u # t => AtEntry(u)' /\ Underway(u)'
  BY <1>1, OtherThreads
<1>4. \A s \in Slots : pending[s].active => pending[s].sp # t
  BY DEF IInv, Held
<1>5. \A s \in Slots : Held(s)'
  BY <1>1, <1>4, OtherSlots
<1>. QED BY <1>1, <1>2, <1>3, <1>5 DEF IInv

(* A request at its entry. *)
LEMMA EntryFields ==
  ASSUME IInv, machine = "runs", NEW t \in Threads, thr[t].pc \in {"raw", "strategy"}
  PROVE  /\ ~InUiomove(thr[t]) /\ find_pending(t) = {}
         /\ thr[t] \in ThreadRecord /\ thr[t].ask \in Requests
         /\ thr[t].seg \in Segments /\ thr[t].seg \in UserSegments /\ thr[t].was = thr[t].seg
         /\ thr[t].off \in Nat /\ thr[t].resid \in Nat
         /\ thr[t].off = thr[t].ask.off /\ thr[t].resid = thr[t].ask.len
         /\ thr[t].buf = thr[t].ask.data
         /\ thr[t].pc = "strategy" => thr[t].off < MEDIA /\ thr[t].resid = 1
<1>1. ~InUiomove(thr[t]) /\ thr[t].pc # "idle"
  BY DEF InUiomove
<1>2. thr[t] \in ThreadRecord /\ thr[t].ask \in Requests /\ AtEntry(t)
  BY <1>1, ThreadFields DEF IInv
<1>3. thr[t].off \in Nat /\ thr[t].resid \in Nat
  BY <1>2 DEF ThreadRecord
<1>4. find_pending(t) = {}
  BY <1>1, FindPending
<1>5. /\ thr[t].was \in Segments /\ thr[t].seg = thr[t].was
      /\ thr[t].off = thr[t].ask.off /\ thr[t].resid = thr[t].ask.len
      /\ thr[t].buf = thr[t].ask.data
      /\ thr[t].pc = "strategy" => thr[t].off < MEDIA /\ thr[t].resid = 1
  BY <1>1, <1>2 DEF AtEntry
<1>6. Segments \subseteq UserSegments
  BY DEF UserSegments
<1>. QED BY <1>1, <1>2, <1>3, <1>4, <1>5, <1>6

LEMMA AnswerStep ==
  ASSUME IInv, NEW t \in Threads, machine = "runs", thr[t].pc = "raw",
         NEW place, Answer(t, place)
  PROVE  IInv'
<1>1. /\ Returns(t, thr[t], Decision(t, place))
      /\ UNCHANGED <<disk, guard, pending, bounce, machine, budget>>
  BY DEF Answer
<1>2. /\ ~InUiomove(thr[t]) /\ thr[t].seg \in UserSegments /\ thr[t].was = thr[t].seg
      /\ thr[t].ask.len - thr[t].resid \in 0 .. MAX_TRANSFER
  <2>1. thr[t].resid = thr[t].ask.len /\ thr[t].resid \in Nat
    BY EntryFields
  <2>. QED BY <2>1, EntryFields
<1>3. disk \in [0 .. MEDIA - 1 -> Blocks] /\ guard \in [0 .. MAX_TRANSFER - 1 -> Blocks]
  BY DEF IInv, Types
<1>. QED BY <1>1, <1>2, <1>3, ReturnsStep

(* A request that is not refused lies in the aperture. *)
LEMMA DecisionFits ==
  ASSUME IInv, NEW t \in Threads, machine = "runs", thr[t].pc = "raw",
         NEW place, Decision(t, place) \in {"direct", "redirect"}
  PROVE  /\ thr[t].resid \in 1 .. MAX_TRANSFER
         /\ thr[t].off + thr[t].resid <= guarded_media_end
         /\ Decision(t, place) = "redirect" => allocate_pending(t) # {}
<1>1. find_pending(t) = {} /\ thr[t].off \in Nat /\ thr[t].resid \in Nat
  BY EntryFields
<1>2. guarded_media_end \in Nat
  BY DEF guarded_media_end
<1>. QED BY <1>1, <1>2 DEF Decision

(* The data of a write, whole or in part, are blocks. *)
LEMMA WriteData ==
  ASSUME NEW r \in Requests, r.rw = "write", r.len <= MAX_TRANSFER
  PROVE  \A i \in 1 .. r.len : r.data[i] \in Blocks
<1>1. r.len \in Nat /\ \A i \in 1 .. r.len : i <= MAX_TRANSFER => r.data[i] \in Blocks
  BY RequestFields
<1>2. \A i \in 1 .. r.len : i <= MAX_TRANSFER
  BY <1>1
<1>. QED BY <1>1, <1>2

(* A uio that is done. *)
LEMMA MovedFields ==
  ASSUME NEW th \in ThreadRecord, NEW buf
  PROVE  LET new == [Moved(th) EXCEPT !.buf = buf] IN
         /\ Moved(th).seg = th.seg /\ Moved(th).was = th.was
         /\ Moved(th).ask = th.ask /\ Moved(th).resid = 0 /\ Moved(th).buf = th.buf
         /\ new.seg = th.seg /\ new.was = th.was
         /\ new.ask = th.ask /\ new.resid = 0 /\ new.buf = buf
BY DEF Moved, ThreadRecord

LEMMA DirectTransferStep ==
  ASSUME IInv, NEW t \in Threads, machine = "runs", thr[t].pc = "raw", DirectTransfer(t)
  PROVE  IInv'
<1>. DEFINE th == thr[t]
<1>1. /\ th.resid \in 1 .. MAX_TRANSFER
      /\ th.off + th.resid <= guarded_media_end
  BY DecisionFits DEF DirectTransfer
<1>2. /\ ~InUiomove(th) /\ th \in ThreadRecord /\ th.ask \in Requests
      /\ th.seg \in UserSegments /\ th.was = th.seg /\ th.off \in Nat
      /\ th.resid = th.ask.len /\ th.buf = th.ask.data
  BY EntryFields
<1>3. th.ask.len - 0 \in 0 .. MAX_TRANSFER
  BY <1>1, <1>2
<1>4. Types /\ disk \in [0 .. MEDIA - 1 -> Blocks] /\ guard \in [0 .. MAX_TRANSFER - 1 -> Blocks]
  BY DEF IInv, Types
<1>5. UNCHANGED <<pending, bounce, machine, budget>>
  BY DEF DirectTransfer
<1>6. ASSUME NEW new, Returns(t, new, "0"), new.seg = th.seg, new.was = th.was,
             new.ask = th.ask, new.resid = 0,
             disk' \in [0 .. MEDIA - 1 -> Blocks], guard' \in [0 .. MAX_TRANSFER - 1 -> Blocks]
      PROVE  IInv'
  <2>1. new.seg \in UserSegments /\ new.was = new.seg /\ new.ask.len - new.resid \in 0 .. MAX_TRANSFER
    BY <1>2, <1>3, <1>6
  <2>. QED BY <1>2, <1>5, <1>6, <2>1, ReturnsStep
<1>7. CASE th.ask.rw = "read"
  <2>. DEFINE new == [Moved(th) EXCEPT !.buf = Stored(th.off, th.resid)]
  <2>1. Returns(t, new, "0") /\ UNCHANGED <<disk, guard>>
    BY <1>7 DEF DirectTransfer
  <2>2. new.seg = th.seg /\ new.was = th.was /\ new.ask = th.ask /\ new.resid = 0
    BY <1>2, MovedFields
  <2>. QED BY <1>4, <1>6, <2>1, <2>2
<1>8. CASE th.ask.rw = "write"
  <2>1. /\ Returns(t, Moved(th), "0")
        /\ disk' = DiskWith(th.off, th.buf, th.resid) /\ guard' = GuardWith(th.off, th.buf, th.resid)
    BY <1>8 DEF DirectTransfer
  <2>2. /\ Moved(th).seg = th.seg /\ Moved(th).was = th.was
        /\ Moved(th).ask = th.ask /\ Moved(th).resid = 0
    BY <1>2, MovedFields
  <2>3. \A i \in 1 .. th.resid : th.buf[i] \in Blocks
    BY <1>1, <1>2, <1>8, WriteData
  <2>4. th.resid \in Nat
    BY <1>1
  <2>. HIDE DEF th
  <2>5. disk' \in [0 .. MEDIA - 1 -> Blocks] /\ guard' \in [0 .. MAX_TRANSFER - 1 -> Blocks]
    BY <1>2, <1>4, <2>1, <2>3, <2>4, DiskWithType, GuardWithType
  <2>. QED BY <1>6, <2>1, <2>2, <2>5
<1>. QED BY <1>7, <1>8 DEF DirectTransfer

(* A new continuation is put into a free slot. *)
LEMMA AllocatePending ==
  ASSUME IInv, NEW t \in Threads, NEW s \in allocate_pending(t)
  PROVE  s \in Slots /\ ~pending[s].active
BY DEF allocate_pending

LEMMA start_uiomoveStep ==
  ASSUME IInv, NEW t \in Threads, machine = "runs", thr[t].pc = "raw", start_uiomove(t)
  PROVE  IInv'
<1>. DEFINE th == thr[t]
            media == media_prefix_length(th.off, th.resid)
            phys == physical_user_segment(th.seg)
            P(s) == [active |-> TRUE, sp |-> t, rw |-> th.ask.rw, seg |-> th.seg,
                     phys |-> phys, off |-> th.off, resid |-> th.resid, media |-> media]
            b == IF th.ask.rw = "read" THEN Stored(th.off, th.resid)
                 ELSE [i \in 1 .. th.resid |-> Zero]
            T(s) == [th EXCEPT !.pc = "uiomove", !.slot = s, !.seg = phys]
<1>1. PICK s \in allocate_pending(t) :
        /\ pending' = [pending EXCEPT ![s] = P(s)]
        /\ bounce' = [bounce EXCEPT ![s] = b]
        /\ thr' = [thr EXCEPT ![t] = T(s)]
  BY DEF start_uiomove
<1>2. s \in Slots /\ ~pending[s].active
  BY AllocatePending
<1>3. /\ th.resid \in 1 .. MAX_TRANSFER
      /\ th.off + th.resid <= guarded_media_end
  BY DecisionFits DEF start_uiomove
<1>4. /\ ~InUiomove(th) /\ th \in ThreadRecord /\ th.ask \in Requests
      /\ th.seg \in Segments /\ th.was = th.seg /\ th.off \in Nat /\ th.resid \in Nat
      /\ th.off = th.ask.off /\ th.resid = th.ask.len /\ th.buf = th.ask.data
  BY EntryFields
<1>5. media \in Nat /\ media <= th.resid /\ phys \in PhysicalSegments
  <2>1. phys \in PhysicalSegments
    BY DEF physical_user_segment, PhysicalSegments
  <2>. QED BY <1>4, <2>1, PrefixIsPrefix
<1>6. th.ask.rw \in Directions /\ (th.ask.rw = "read" => th.ask.data = <<>>)
  BY <1>4, RequestFields
<1>7. b \in [1 .. th.resid -> Blocks]
  <2>1. CASE th.ask.rw = "read"
    <3>1. Types /\ th.resid \in 0 .. MAX_TRANSFER
      BY <1>3 DEF IInv
    <3>. QED BY <1>3, <1>4, <2>1, <3>1, StoredType
  <2>2. CASE th.ask.rw # "read"
    BY <2>2 DEF Blocks
  <2>. QED BY <2>1, <2>2
<1>8. UNCHANGED <<disk, guard, answer, machine, budget>>
  BY DEF start_uiomove
<1>9. /\ P(s) \in Continuation /\ P(s).active /\ P(s).sp = t /\ P(s).rw = th.ask.rw
      /\ P(s).seg = th.seg /\ P(s).phys = phys /\ P(s).off = th.off /\ P(s).resid = th.resid
      /\ P(s).media = media
  BY <1>3, <1>4, <1>5, <1>6 DEF Continuation
<1>10. /\ T(s) \in ThreadRecord /\ T(s).pc = "uiomove" /\ T(s).slot = s /\ T(s).seg = phys
       /\ T(s).was = th.was /\ T(s).ask = th.ask /\ T(s).off = th.off /\ T(s).resid = th.resid
       /\ T(s).buf = th.buf /\ T(s).err = th.err
  <2>1. s \in 0 .. SLOTS /\ phys \in UserSegments \cup PhysicalSegments
    BY <1>2, <1>5 DEF Slots
  <2>. HIDE DEF th, phys
  <2>. QED BY <1>4, <2>1 DEF ThreadRecord
<1>. HIDE DEF P, T, b, media, phys
<1>11. /\ DOMAIN pending' = Slots /\ pending'[s] = P(s)
       /\ \A r \in Slots : r # s => pending'[r] = pending[r]
       /\ DOMAIN bounce' = Slots /\ bounce'[s] = b
       /\ \A r \in Slots : r # s => bounce'[r] = bounce[r]
  BY <1>1, <1>2, SlotFields
<1>12. /\ thr' \in [Threads -> ThreadRecord] /\ thr'[t] = T(s)
       /\ \A u \in Threads : u # t => thr'[u] = thr[u]
  BY <1>1, <1>10 DEF IInv, Types
<1>13. Types'
  <2>1. pending' \in [Slots -> {Free} \cup Continuation]
    BY <1>1, <1>2, <1>9 DEF IInv, Types
  <2>2. \A r \in Slots : pending'[r].active =>
          /\ pending'[r].off + pending'[r].resid <= guarded_media_end
          /\ pending'[r].media <= pending'[r].resid
    BY <1>3, <1>5, <1>9, <1>11 DEF IInv, Types
  <2>3. \A r \in Slots : bounce'[r] \in UNION {[1 .. n -> Blocks] : n \in 0 .. MAX_TRANSFER}
    <3>1. th.resid \in 0 .. MAX_TRANSFER
      BY <1>3
    <3>2. bounce'[s] \in UNION {[1 .. n -> Blocks] : n \in 0 .. MAX_TRANSFER}
      BY <1>7, <1>11, <3>1
    <3>. QED BY <1>11, <3>2 DEF IInv, Types
  <2>4. guarded_media_end' = guarded_media_end
    BY DEF guarded_media_end
  <2>. QED BY <1>8, <1>11, <1>12, <2>1, <2>2, <2>3, <2>4 DEF IInv, Types
<1>14. AtEntry(t)'
  <2>1. AtEntry(t) /\ th.ask # NoRequest
    BY <1>4, RequestFields DEF IInv
  <2>2. th.err = "0"
    BY <2>1 DEF AtEntry
  <2>. HIDE DEF th
  <2>. QED BY <1>4, <1>10, <1>12, <2>1, <2>2 DEF AtEntry, InUiomove
<1>15. Underway(t)'
  <2>1. th.resid - th.resid = 0 /\ th.off = th.off + 0 /\ th.resid <= th.resid
    BY <1>4
  <2>2. th.ask.rw = "read" => Len(th.buf) = 0
    BY <1>4, <1>6
  <2>. HIDE DEF th
  <2>3. /\ thr'[t].slot = s /\ thr'[t].ask = th.ask /\ thr'[t].seg = phys /\ thr'[t].was = th.was
        /\ thr'[t].off = th.off /\ thr'[t].resid = th.resid /\ thr'[t].buf = th.buf
    BY <1>10, <1>12
  <2>4. /\ pending'[s].active /\ pending'[s].sp = t /\ pending'[s].rw = th.ask.rw
        /\ pending'[s].seg = th.seg /\ pending'[s].phys = phys
        /\ pending'[s].off = th.off /\ pending'[s].resid = th.resid
    BY <1>9, <1>11
  <2>. QED BY <1>2, <1>4, <1>7, <1>11, <2>1, <2>2, <2>3, <2>4 DEF Underway
<1>16. \A u \in Threads : u # t => AtEntry(u)' /\ Underway(u)'
  <2>1. \A r \in Slots : pending[r].active /\ pending[r].sp # t
          => pending'[r] = pending[r] /\ bounce'[r] = bounce[r]
    BY <1>2, <1>11
  <2>. QED BY <1>12, <2>1, OtherThreads
<1>17. \A r \in Slots : Held(r)'
  <2>1. \A r \in Slots : pending[r].active => pending[r].sp # t
    BY <1>4 DEF IInv, Held
  <2>2. ASSUME NEW r \in Slots, r # s PROVE Held(r)'
    BY <1>11, <1>12, <2>1, <2>2, OtherSlots
  <2>3. Held(s)'
    BY <1>9, <1>10, <1>11, <1>12 DEF Held, InUiomove
  <2>. QED BY <2>2, <2>3
<1>. QED BY <1>13, <1>14, <1>15, <1>16, <1>17 DEF IInv

(* A medium that fails stops the machine; nothing is expected of the slots *)
(* after it.                                                                *)
LEMMA StopStep ==
  ASSUME IInv, machine = "runs", machine' = "io",
         disk' \in [0 .. MEDIA - 1 -> Blocks],
         pending' \in [Slots -> {Free} \cup Continuation],
         \A s \in Slots : pending'[s] = pending[s] \/ pending'[s] = Free,
         thr' \in [Threads -> ThreadRecord],
         \A t \in Threads :
            /\ thr'[t].pc = thr[t].pc /\ thr'[t].ask = thr[t].ask /\ thr'[t].was = thr[t].was
            /\ thr'[t].off = thr[t].off /\ thr'[t].resid = thr[t].resid
            /\ thr'[t].buf = thr[t].buf /\ thr'[t].err = thr[t].err,
         budget' = [budget EXCEPT !.faults = @ + 1], CanFail,
         UNCHANGED <<guard, bounce, answer>>
  PROVE  IInv'
<1>1. \A s \in Slots : pending'[s].active =>
        /\ pending'[s].off + pending'[s].resid <= guarded_media_end
        /\ pending'[s].media <= pending'[s].resid
  BY DEF IInv, Types, Free
<1>2. budget' \in [calls : 0 .. MaxCalls, faults : 0 .. MaxFaults]
  <2>1. budget \in [calls : 0 .. MaxCalls, faults : 0 .. MaxFaults]
    BY DEF IInv, Types
  <2>. QED BY <2>1 DEF CanFail
<1>3. guarded_media_end' = guarded_media_end
  BY DEF guarded_media_end
<1>4. Types'
  BY <1>1, <1>2, <1>3 DEF IInv, Types
<1>5. \A t \in Threads : AtEntry(t)' /\ Underway(t)'
  <2>. SUFFICES ASSUME NEW t \in Threads PROVE AtEntry(t)' /\ Underway(t)'
    OBVIOUS
  <2>1. AtEntry(t)
    BY DEF IInv
  <2>2. AtEntry(t)'
    BY <2>1 DEF AtEntry
  <2>3. Underway(t)'
    BY DEF Underway
  <2>. QED BY <2>2, <2>3
<1>6. \A s \in Slots : Held(s)'
  BY DEF Held
<1>. QED BY <1>4, <1>5, <1>6 DEF IInv

LEMMA EntryFailsStep ==
  ASSUME IInv, NEW t \in Threads, machine = "runs", thr[t].pc = "raw",
         NEW place, EntryFails(t, place)
  PROVE  IInv'
<1>. DEFINE th == thr[t]
            media == media_prefix_length(th.off, th.resid)
<1>1. /\ CanFail /\ machine' = "io" /\ budget' = [budget EXCEPT !.faults = @ + 1]
      /\ UNCHANGED <<guard, pending, bounce, thr, answer>>
      /\ Decision(t, place) \in {"direct", "redirect"}
  BY DEF EntryFails, Fault
<1>2. PICK n \in 0 .. media :
        disk' = IF th.ask.rw = "write" THEN DiskWith(th.off, th.buf, n) ELSE disk
  BY DEF EntryFails
<1>3. /\ th.resid \in 1 .. MAX_TRANSFER
      /\ th \in ThreadRecord /\ th.ask \in Requests
      /\ th.off \in Nat /\ th.resid \in Nat /\ th.resid = th.ask.len /\ th.buf = th.ask.data
  BY <1>1, DecisionFits, EntryFields
<1>4. n \in Nat /\ n <= th.resid
  <2>1. media \in 0 .. th.resid
    BY <1>3, PrefixIsPrefix
  <2>. HIDE DEF media, th
  <2>. QED BY <1>3, <2>1
<1>5. Types /\ disk \in [0 .. MEDIA - 1 -> Blocks]
      /\ pending \in [Slots -> {Free} \cup Continuation] /\ thr \in [Threads -> ThreadRecord]
  BY DEF IInv, Types
<1>6. disk' \in [0 .. MEDIA - 1 -> Blocks]
  <2>1. CASE th.ask.rw = "write"
    <3>1. \A i \in 1 .. th.resid : th.buf[i] \in Blocks
      BY <1>3, <2>1, WriteData
    <3>2. \A i \in 1 .. n : th.buf[i] \in Blocks
      BY <1>3, <1>4, <3>1
    <3>. HIDE DEF th
    <3>. QED BY <1>2, <1>3, <1>4, <1>5, <2>1, <3>2, DiskWithType
  <2>2. CASE th.ask.rw # "write"
    BY <1>2, <1>5, <2>2
  <2>. QED BY <2>1, <2>2
<1>. QED BY <1>1, <1>5, <1>6, StopStep

LEMMA md_raw_bridge_handle_svcStep ==
  ASSUME IInv, NEW t \in Threads, md_raw_bridge_handle_svc(t)
  PROVE  IInv'
BY AnswerStep, DirectTransferStep, start_uiomoveStep, EntryFailsStep
   DEF md_raw_bridge_handle_svc

(* No completion has anything to complain of. *)
LEMMA NoComplaint ==
  ASSUME IInv, NEW t \in Threads, machine = "runs", thr[t].pc = "completion"
  PROVE  ~Complaint(t, thr[t].slot)
<1>. DEFINE th == thr[t]
            p == pending[th.slot]
            done == p.resid - th.resid
<1>1. InUiomove(th)
  BY DEF InUiomove
<1>2. th \in ThreadRecord /\ AtEntry(t) /\ Underway(t)
  BY ThreadFields DEF IInv
<1>3. /\ p.rw = th.ask.rw /\ p.off = th.ask.off /\ p.resid = th.ask.len /\ p.phys = th.seg
      /\ th.off = th.ask.off + (th.ask.len - th.resid)
  BY <1>1, <1>2 DEF Underway
<1>4. th.ask.len \in 1 .. MAX_TRANSFER /\ th.resid \in 0 .. th.ask.len
  BY <1>1, UnderwayFields
<1>5. th.err \in {"0", "EFAULT"} /\ (th.err = "0" <=> th.resid = 0)
  BY <1>2 DEF AtEntry, ThreadRecord
<1>. HIDE DEF th, p
<1>6. done = th.ask.len - th.resid /\ th.resid <= p.resid
  BY <1>3, <1>4
<1>7. done = p.resid <=> th.resid = 0
  BY <1>3, <1>4
<1>8. th.off = p.off + done
  BY <1>3, <1>6
<1>. HIDE DEF done
<1>9. ~(\/ th.err \notin {"0", "EFAULT"}
        \/ th.seg # p.phys
        \/ th.ask.rw # p.rw
        \/ th.resid > p.resid
        \/ th.off # p.off + done
        \/ th.err = "0" /\ done # p.resid
        \/ th.err # "0" /\ done = p.resid)
  BY <1>3, <1>4, <1>5, <1>6, <1>7, <1>8
<1>. QED BY <1>9 DEF Complaint, th, p, done

LEMMA CompleteStep ==
  ASSUME IInv, NEW t \in Threads, machine = "runs", thr[t].pc = "completion", Complete(t)
  PROVE  IInv'
<1>. DEFINE th == thr[t]
            s == th.slot
            p == pending[s]
            done == p.resid - th.resid
            new == restore_pending_segment(th, p)
<1>1. InUiomove(th) /\ find_pending(t) = {s}
  BY FindPending DEF InUiomove
<1>2. /\ Returns(t, new, th.err)
      /\ disk' = IF p.rw = "write" THEN DiskWith(p.off, bounce[s], done) ELSE disk
      /\ guard' = IF p.rw = "write" THEN GuardWith(p.off, bounce[s], done) ELSE guard
      /\ pending' = [pending EXCEPT ![s] = Free]
      /\ bounce' = [bounce EXCEPT ![s] = <<>>]
      /\ UNCHANGED <<machine, budget>>
  BY <1>1 DEF Complete, Freed
<1>3. /\ th \in ThreadRecord /\ th.ask \in Requests /\ Underway(t) /\ AtEntry(t)
      /\ s \in Slots /\ p.active /\ p.sp = t
      /\ th.ask.len \in 1 .. MAX_TRANSFER /\ th.resid \in 0 .. th.ask.len
      /\ bounce[s] \in [1 .. th.ask.len -> Blocks]
      /\ \A r \in Slots : pending[r].active => (pending[r].sp = t <=> r = s)
  BY <1>1, ThreadFields, UnderwayFields DEF IInv
<1>4. /\ p.seg = th.was /\ p.resid = th.ask.len /\ p.off = th.ask.off
      /\ th.was \in UserSegments
  BY <1>1, <1>3 DEF Underway, ThreadRecord
<1>5. new.seg = th.was /\ new.was = th.was /\ new.ask = th.ask /\ new.resid = th.resid
  BY <1>3, <1>4 DEF restore_pending_segment, ThreadRecord
<1>. HIDE DEF new
<1>6. new.ask.len - new.resid \in 0 .. MAX_TRANSFER /\ done \in 0 .. th.ask.len
  BY <1>3, <1>4, <1>5
<1>7. /\ thr' \in [Threads -> ThreadRecord]
      /\ AtEntry(t)' /\ Underway(t)'
      /\ \A u \in Threads : u # t => thr'[u] = thr[u]
      /\ answer'.ok \in BOOLEAN /\ answer'.moved \in 0 .. MAX_TRANSFER
  BY <1>2, <1>4, <1>5, <1>6, ReturnsThread
<1>8. /\ DOMAIN pending' = Slots /\ pending'[s] = Free
      /\ \A r \in Slots : r # s => pending'[r] = pending[r]
      /\ DOMAIN bounce' = Slots /\ bounce'[s] = <<>>
      /\ \A r \in Slots : r # s => bounce'[r] = bounce[r]
  BY <1>2, <1>3, SlotFields
<1>9. disk' \in [0 .. MEDIA - 1 -> Blocks] /\ guard' \in [0 .. MAX_TRANSFER - 1 -> Blocks]
  <2>1. Types /\ disk \in [0 .. MEDIA - 1 -> Blocks] /\ guard \in [0 .. MAX_TRANSFER - 1 -> Blocks]
    BY DEF IInv, Types
  <2>2. p.off \in Nat /\ done \in Nat
    BY <1>3, <1>4, <1>6, RequestFields
  <2>3. \A i \in 1 .. done : bounce[s][i] \in Blocks
    BY <1>3, <1>6
  <2>. HIDE DEF p, s, done
  <2>4. /\ DiskWith(p.off, bounce[s], done) \in [0 .. MEDIA - 1 -> Blocks]
        /\ GuardWith(p.off, bounce[s], done) \in [0 .. MAX_TRANSFER - 1 -> Blocks]
    BY <2>1, <2>2, <2>3, DiskWithType, GuardWithType
  <2>. QED BY <1>2, <2>1, <2>4
<1>10. Types'
  <2>1. pending' \in [Slots -> {Free} \cup Continuation]
    BY <1>2 DEF IInv, Types
  <2>2. \A r \in Slots : pending'[r].active =>
          /\ pending'[r].off + pending'[r].resid <= guarded_media_end
          /\ pending'[r].media <= pending'[r].resid
    BY <1>8 DEF IInv, Types, Free
  <2>3. \A r \in Slots : bounce'[r] \in UNION {[1 .. n -> Blocks] : n \in 0 .. MAX_TRANSFER}
    <3>1. bounce'[s] \in [1 .. 0 -> Blocks]
      BY <1>8
    <3>2. bounce'[s] \in UNION {[1 .. n -> Blocks] : n \in 0 .. MAX_TRANSFER}
      BY <3>1
    <3>. QED BY <1>8, <3>2 DEF IInv, Types
  <2>4. guarded_media_end' = guarded_media_end
    BY DEF guarded_media_end
  <2>. QED BY <1>2, <1>7, <1>8, <1>9, <2>1, <2>2, <2>3, <2>4 DEF IInv, Types
<1>11. \A u \in Threads : u # t => AtEntry(u)' /\ Underway(u)'
  <2>1. \A r \in Slots : pending[r].active /\ pending[r].sp # t
          => pending'[r] = pending[r] /\ bounce'[r] = bounce[r]
    BY <1>3, <1>8
  <2>. QED BY <1>7, <2>1, OtherThreads
<1>12. \A r \in Slots : Held(r)'
  <2>1. ASSUME NEW r \in Slots, r # s PROVE Held(r)'
    BY <1>3, <1>7, <1>8, <2>1, OtherSlots
  <2>2. ASSUME NEW r \in Slots, r = s PROVE Held(r)'
    BY <1>8, <2>2 DEF Held, Free
  <2>. QED BY <2>1, <2>2
<1>. QED BY <1>7, <1>10, <1>11, <1>12 DEF IInv

(* The only reason a completion has to stop the machine is the medium. *)
LEMMA CompletionReasons ==
  ASSUME IInv, NEW t \in Threads, machine = "runs", thr[t].pc = "completion"
  PROVE  /\ Reasons(t) \subseteq {"io"}
         /\ Reasons(t) # {} => CanFail /\ pending[thr[t].slot].rw = "write"
<1>1. find_pending(t) = {thr[t].slot}
  BY FindPending DEF InUiomove
<1>2. ~Complaint(t, thr[t].slot)
  BY NoComplaint
<1>. QED BY <1>1, <1>2 DEF Reasons

LEMMA CompletionFailsStep ==
  ASSUME IInv, NEW t \in Threads, machine = "runs", thr[t].pc = "completion", CompletionFails(t)
  PROVE  IInv'
<1>. DEFINE th == thr[t]
            s == th.slot
            p == pending[s]
            new == restore_pending_segment(th, p)
<1>1. InUiomove(th) /\ find_pending(t) = {s}
  BY FindPending DEF InUiomove
<1>2. machine' = "io" /\ CanFail
  BY CompletionReasons DEF CompletionFails
<1>3. (CHOOSE r \in {s} : TRUE) = s
  OBVIOUS
<1>4. /\ thr' = [thr EXCEPT ![t] = new]
      /\ \E n \in 0 .. th.ask.len - th.resid : disk' = DiskWith(p.off, bounce[s], n)
      /\ pending' = [r \in Slots |-> IF r \in {s} THEN Free ELSE pending[r]]
      /\ budget' = [budget EXCEPT !.faults = @ + 1]
      /\ UNCHANGED <<guard, bounce, answer>>
  <2>1. thr' = [thr EXCEPT ![t] = restore_pending_segment(thr[t], pending[CHOOSE r \in {s} : TRUE])]
    BY <1>1 DEF CompletionFails
  <2>2. thr' = [thr EXCEPT ![t] = new]
    BY <1>3, <2>1
  <2>3. disk' \in {DiskWith(pending[r].off, bounce[r], n) :
                        r \in find_pending(t), n \in 0 .. th.ask.len - th.resid}
    BY <1>2 DEF CompletionFails
  <2>4. PICK k \in find_pending(t), n \in 0 .. th.ask.len - th.resid :
          disk' = DiskWith(pending[k].off, bounce[k], n)
    BY <2>3
  <2>5. disk' = DiskWith(p.off, bounce[s], n)
    <3>1. k = s
      BY <1>1
    <3>. QED BY <2>4, <3>1
  <2>6. pending' = [r \in Slots |-> IF r \in {s} THEN Free ELSE pending[r]]
    BY <1>1 DEF CompletionFails
  <2>7. budget' = [budget EXCEPT !.faults = @ + 1] /\ UNCHANGED <<guard, bounce, answer>>
    BY <1>2 DEF CompletionFails
  <2>. QED BY <2>2, <2>5, <2>6, <2>7
<1>5. /\ th \in ThreadRecord /\ th.ask \in Requests /\ Underway(t)
      /\ s \in Slots /\ p.active /\ p.sp = t
      /\ th.ask.len \in 1 .. MAX_TRANSFER /\ th.resid \in 0 .. th.ask.len
      /\ bounce[s] \in [1 .. th.ask.len -> Blocks]
  BY <1>1, ThreadFields, UnderwayFields DEF IInv
<1>6. p.seg = th.was /\ p.off = th.ask.off /\ p.off \in Nat /\ th.was \in UserSegments
  <2>1. p.seg = th.was /\ p.off = th.ask.off /\ th.was \in UserSegments
    BY <1>1, <1>5 DEF Underway, ThreadRecord
  <2>. QED BY <1>5, <2>1, RequestFields
<1>7. /\ new \in ThreadRecord
      /\ new.pc = th.pc /\ new.ask = th.ask /\ new.was = th.was /\ new.off = th.off
      /\ new.resid = th.resid /\ new.buf = th.buf /\ new.err = th.err
  <2>. HIDE DEF th, p
  <2>. QED BY <1>5, <1>6 DEF restore_pending_segment, ThreadRecord
<1>. HIDE DEF new
<1>8. /\ thr' \in [Threads -> ThreadRecord] /\ thr'[t] = new
      /\ \A u \in Threads : u # t => thr'[u] = thr[u]
  BY <1>4, <1>7 DEF IInv, Types
<1>9. \A u \in Threads :
            /\ thr'[u].pc = thr[u].pc /\ thr'[u].ask = thr[u].ask /\ thr'[u].was = thr[u].was
            /\ thr'[u].off = thr[u].off /\ thr'[u].resid = thr[u].resid
            /\ thr'[u].buf = thr[u].buf /\ thr'[u].err = thr[u].err
  BY <1>7, <1>8
<1>10. /\ pending' \in [Slots -> {Free} \cup Continuation]
       /\ \A r \in Slots : pending'[r] = pending[r] \/ pending'[r] = Free
  BY <1>4 DEF IInv, Types
<1>11. disk' \in [0 .. MEDIA - 1 -> Blocks]
  <2>1. PICK n \in 0 .. th.ask.len - th.resid : disk' = DiskWith(p.off, bounce[s], n)
    BY <1>4
  <2>2. n \in Nat /\ \A i \in 1 .. n : bounce[s][i] \in Blocks
    BY <1>5
  <2>3. Types
    BY DEF IInv
  <2>. HIDE DEF p, s, th
  <2>. QED BY <1>6, <2>1, <2>2, <2>3, DiskWithType
<1>. QED BY <1>2, <1>4, <1>8, <1>9, <1>10, <1>11, StopStep

LEMMA handle_completionStep ==
  ASSUME IInv, NEW t \in Threads, handle_completion(t)
  PROVE  IInv'
BY CompleteStep, CompletionFailsStep DEF handle_completion

LEMMA md_bridge_handle_svcStep ==
  ASSUME IInv, NEW t \in Threads, md_bridge_handle_svc(t)
  PROVE  IInv'
<1>. DEFINE th == thr[t]
<1>1. machine = "runs" /\ th.pc = "strategy" /\ UNCHANGED <<guard, pending, bounce>>
  BY DEF md_bridge_handle_svc
<1>2. /\ ~InUiomove(th) /\ th \in ThreadRecord /\ th.ask \in Requests
      /\ th.seg \in UserSegments /\ th.was = th.seg /\ th.off \in Nat
      /\ th.resid = th.ask.len /\ th.buf = th.ask.data /\ th.resid = 1
  BY <1>1, EntryFields
<1>3. /\ Types /\ disk \in [0 .. MEDIA - 1 -> Blocks] /\ guard \in [0 .. MAX_TRANSFER - 1 -> Blocks]
      /\ pending \in [Slots -> {Free} \cup Continuation] /\ thr \in [Threads -> ThreadRecord]
  BY DEF IInv, Types
<1>4. th.ask.rw = "write" => \A i \in 1 .. 1 : th.buf[i] \in Blocks
  <2>1. th.ask.len = 1 /\ th.ask.len <= MAX_TRANSFER
    BY <1>2
  <2>. QED BY <1>2, <2>1, WriteData
<1>5. \A n \in {0, 1} : th.ask.rw = "write"
        => DiskWith(th.off, th.buf, n) \in [0 .. MEDIA - 1 -> Blocks]
  <2>1. ASSUME NEW n \in {0, 1}, th.ask.rw = "write"
        PROVE  n \in Nat /\ \A i \in 1 .. n : th.buf[i] \in Blocks
    BY <1>4, <2>1
  <2>. HIDE DEF th
  <2>. QED BY <1>2, <1>3, <2>1, DiskWithType
<1>6. ASSUME NEW new, Returns(t, new, "0"), new.seg = th.seg, new.was = th.was,
             new.ask = th.ask, new.resid = 0,
             disk' \in [0 .. MEDIA - 1 -> Blocks], UNCHANGED <<machine, budget>>
      PROVE  IInv'
  <2>1. new.seg \in UserSegments /\ new.was = new.seg /\ new.ask.len - new.resid \in 0 .. MAX_TRANSFER
    <3>1. th.ask.len - 0 \in 0 .. MAX_TRANSFER
      BY <1>2
    <3>. QED BY <1>2, <1>6, <3>1
  <2>. QED BY <1>1, <1>2, <1>3, <1>6, <2>1, ReturnsStep
<1>7. CASE /\ th.ask.rw = "read"
           /\ Returns(t, [Moved(th) EXCEPT !.buf = Stored(th.off, th.resid)], "0")
           /\ UNCHANGED <<disk, machine, budget>>
  <2>. DEFINE new == [Moved(th) EXCEPT !.buf = Stored(th.off, th.resid)]
  <2>1. new.seg = th.seg /\ new.was = th.was /\ new.ask = th.ask /\ new.resid = 0
    BY <1>2, MovedFields
  <2>2. Returns(t, new, "0")
    BY <1>7
  <2>. HIDE DEF new
  <2>. QED BY <1>3, <1>6, <1>7, <2>1, <2>2
<1>8. CASE /\ th.ask.rw = "write"
           /\ disk' = DiskWith(th.off, th.buf, th.resid)
           /\ Returns(t, Moved(th), "0")
           /\ UNCHANGED <<machine, budget>>
  <2>1. /\ Moved(th).seg = th.seg /\ Moved(th).was = th.was
        /\ Moved(th).ask = th.ask /\ Moved(th).resid = 0
    BY <1>2, MovedFields
  <2>. QED BY <1>2, <1>5, <1>6, <1>8, <2>1
<1>9. CASE /\ CanFail
           /\ machine' = "io" /\ Fault
           /\ \E n \in {0, th.resid} :
                disk' = IF th.ask.rw = "write" THEN DiskWith(th.off, th.buf, n) ELSE disk
           /\ UNCHANGED <<thr, answer>>
  <2>1. disk' \in [0 .. MEDIA - 1 -> Blocks]
    BY <1>2, <1>3, <1>5, <1>9
  <2>2. budget' = [budget EXCEPT !.faults = @ + 1]
    BY <1>9 DEF Fault
  <2>. QED BY <1>1, <1>3, <1>9, <2>1, <2>2, StopStep
<1>. QED BY <1>7, <1>8, <1>9 DEF md_bridge_handle_svc

(* New bridges, with or without the threads of the machine that was there. *)
LEMMA FreshTypes ==
  /\ [s \in Slots |-> Free] \in [Slots -> {Free} \cup Continuation]
  /\ \A s \in Slots : ~[r \in Slots |-> Free][s].active
  /\ [t \in Threads |-> Fresh] \in [Threads -> ThreadRecord]
  /\ \A t \in Threads : Fresh.pc = "idle" /\ Fresh.ask = NoRequest /\ Fresh.seg = Fresh.was
  /\ <<>> \in UNION {[1 .. n -> Blocks] : n \in 0 .. MAX_TRANSFER}
  /\ Zero \in Blocks
<1>1. Fresh \in ThreadRecord /\ Fresh.pc = "idle" /\ Fresh.ask = NoRequest /\ Fresh.seg = Fresh.was
  BY DEF Fresh, Idle, ThreadRecord, UserSegments
<1>2. <<>> \in [1 .. 0 -> Blocks]
  OBVIOUS
<1>3. <<>> \in UNION {[1 .. n -> Blocks] : n \in 0 .. MAX_TRANSFER}
  BY <1>2
<1>. QED BY <1>1, <1>3 DEF Blocks, Free

LEMMA CheckpointStep ==
  ASSUME IInv, Checkpoint
  PROVE  IInv'
<1>1. pending' = pending
  <2>1. \A s \in Slots : pending[s] = Free
    BY SlotFields DEF Checkpoint, NoContinuation
  <2>2. pending = [s \in Slots |-> pending[s]]
    BY DEF IInv, Types
  <2>. QED BY <2>1, <2>2 DEF Checkpoint
<1>2. budget' \in [calls : 0 .. MaxCalls, faults : 0 .. MaxFaults]
  <2>1. budget \in [calls : 0 .. MaxCalls, faults : 0 .. MaxFaults]
    BY DEF IInv, Types
  <2>. QED BY <2>1 DEF Checkpoint, CanFail, Fault
<1>3. UNCHANGED <<disk, guard, bounce, thr, answer, machine>>
  BY DEF Checkpoint
<1>4. Types'
  BY <1>1, <1>2, <1>3 DEF IInv, Types, guarded_media_end
<1>5. \A t \in Threads : AtEntry(t)' /\ Underway(t)'
  BY <1>1, <1>3 DEF IInv, AtEntry, Underway
<1>6. \A s \in Slots : Held(s)'
  BY <1>1, <1>3 DEF IInv, Held
<1>. QED BY <1>4, <1>5, <1>6 DEF IInv

LEMMA RebootStep ==
  ASSUME IInv, Reboot
  PROVE  IInv'
<1>1. /\ machine' = "runs" /\ guard' = [g \in 0 .. MAX_TRANSFER - 1 |-> Zero]
      /\ pending' = [s \in Slots |-> Free] /\ bounce' = [s \in Slots |-> <<>>]
      /\ thr' = [t \in Threads |-> Fresh] /\ answer' = NoAnswer /\ disk' = disk
  BY DEF Reboot
<1>2. budget' \in [calls : 0 .. MaxCalls, faults : 0 .. MaxFaults]
  <2>1. budget \in [calls : 0 .. MaxCalls, faults : 0 .. MaxFaults]
    BY DEF IInv, Types
  <2>. QED BY <2>1 DEF Reboot, CanFail
<1>3. answer'.ok \in BOOLEAN /\ answer'.moved \in 0 .. MAX_TRANSFER
  BY <1>1 DEF NoAnswer
<1>4. \A s \in Slots : ~pending'[s].active
  BY <1>1, FreshTypes
<1>5. Types'
  BY <1>1, <1>2, <1>3, <1>4, FreshTypes DEF IInv, Types
<1>6. \A t \in Threads : AtEntry(t)' /\ Underway(t)'
  BY <1>1, FreshTypes DEF AtEntry, Underway, InUiomove
<1>7. \A s \in Slots : Held(s)'
  BY <1>4 DEF Held
<1>. QED BY <1>5, <1>6, <1>7 DEF IInv

LEMMA InitIInv == Init => IInv
<1>. SUFFICES ASSUME Init PROVE IInv
  OBVIOUS
<1>1. /\ machine = "runs" /\ guard = [g \in 0 .. MAX_TRANSFER - 1 |-> Zero]
      /\ pending = [s \in Slots |-> Free] /\ bounce = [s \in Slots |-> <<>>]
      /\ thr = [t \in Threads |-> Fresh] /\ answer = NoAnswer
      /\ disk = [a \in 0 .. MEDIA - 1 |-> Zero] /\ budget = [calls |-> 0, faults |-> 0]
  BY DEF Init
<1>2. answer.ok \in BOOLEAN /\ answer.moved \in 0 .. MAX_TRANSFER
  BY <1>1 DEF NoAnswer
<1>3. \A s \in Slots : ~pending[s].active
  BY <1>1, FreshTypes
<1>4. Types
  <2>1. \A s \in Slots : bounce[s] \in UNION {[1 .. n -> Blocks] : n \in 0 .. MAX_TRANSFER}
    BY <1>1, FreshTypes
  <2>2. budget \in [calls : 0 .. MaxCalls, faults : 0 .. MaxFaults]
    BY <1>1
  <2>3. disk \in [0 .. MEDIA - 1 -> Blocks] /\ guard \in [0 .. MAX_TRANSFER - 1 -> Blocks]
    BY <1>1, FreshTypes
  <2>4. pending \in [Slots -> {Free} \cup Continuation] /\ thr \in [Threads -> ThreadRecord]
    BY <1>1, FreshTypes
  <2>. QED BY <1>1, <1>2, <1>3, <2>1, <2>2, <2>3, <2>4 DEF Types
<1>5. \A t \in Threads : AtEntry(t) /\ Underway(t)
  BY <1>1, FreshTypes DEF AtEntry, Underway, InUiomove
<1>6. \A s \in Slots : Held(s)
  BY <1>3 DEF Held
<1>. QED BY <1>4, <1>5, <1>6 DEF IInv

LEMMA NextIInv == IInv /\ [Next]_vars => IInv'
<1>. SUFFICES ASSUME IInv, [Next]_vars PROVE IInv'
  OBVIOUS
<1>1. CASE UNCHANGED vars
  <2>1. /\ Types' <=> Types
        /\ \A t \in Threads : (AtEntry(t)' <=> AtEntry(t)) /\ (Underway(t)' <=> Underway(t))
        /\ \A s \in Slots : Held(s)' <=> Held(s)
    BY <1>1 DEF vars, Types, AtEntry, Underway, Held
  <2>. QED BY <2>1 DEF IInv
<1>. QED
  BY <1>1, GuestCallsStep, UioMoveStep, UioReturnsStep, md_raw_bridge_handle_svcStep,
     handle_completionStep, md_bridge_handle_svcStep, CheckpointStep, RebootStep
  DEF Next, ThreadStep

(* The inductive invariant says at least what is checked. *)
LEMMA IInvBridgeSound == IInv => BridgeSound
<1>. SUFFICES ASSUME IInv PROVE BridgeSound
  OBVIOUS
<1>1. TypeOK
  <2>1. \A s \in Slots :
        pending[s] = Free \/
        /\ pending[s].active = TRUE /\ pending[s].sp \in Threads
        /\ pending[s].rw \in {"read", "write"}
        /\ pending[s].seg \in Segments /\ pending[s].phys \in {"phys", "phys32", "phys64"}
        /\ pending[s].off + pending[s].resid <= MEDIA + MAX_TRANSFER
        /\ pending[s].resid \in 1 .. MAX_TRANSFER /\ pending[s].media \in 0 .. pending[s].resid
    <3>. SUFFICES ASSUME NEW s \in Slots, pending[s] \in Continuation
                  PROVE  /\ pending[s].active = TRUE /\ pending[s].sp \in Threads
                         /\ pending[s].rw \in {"read", "write"}
                         /\ pending[s].seg \in Segments
                         /\ pending[s].phys \in {"phys", "phys32", "phys64"}
                         /\ pending[s].off + pending[s].resid <= MEDIA + MAX_TRANSFER
                         /\ pending[s].resid \in 1 .. MAX_TRANSFER
                         /\ pending[s].media \in 0 .. pending[s].resid
      BY SlotFields
    <3>1. /\ pending[s].active = TRUE /\ pending[s].sp \in Threads
          /\ pending[s].rw \in {"read", "write"}
          /\ pending[s].seg \in Segments /\ pending[s].phys \in {"phys", "phys32", "phys64"}
          /\ pending[s].resid \in 1 .. MAX_TRANSFER /\ pending[s].media \in Nat
      BY DEF Continuation, Directions, PhysicalSegments
    <3>2. /\ pending[s].off + pending[s].resid <= guarded_media_end
          /\ pending[s].media <= pending[s].resid
      BY <3>1 DEF IInv, Types
    <3>. QED BY <3>1, <3>2 DEF guarded_media_end
  <2>2. \A t \in Threads :
        /\ thr[t].pc \in {"idle", "raw", "strategy", "uiomove", "completion"}
        /\ thr[t].slot \in 0 .. SLOTS
        /\ thr[t].err \in {"0", "EFAULT"}
    BY ThreadFields DEF ThreadRecord
  <2>. QED BY <2>1, <2>2 DEF IInv, Types, TypeOK
<1>2. SlotsAreOwned
  <2>. SUFFICES ASSUME machine = "runs" PROVE SlotsAreOwned
    BY DEF SlotsAreOwned
  <2>1. ASSUME NEW s \in Slots, pending[s].active
        PROVE  {t \in Threads : thr[t].pc \in {"uiomove", "completion"} /\ thr[t].slot = s}
                 = {pending[s].sp}
    <3>1. pending[s].sp \in Threads /\ InUiomove(thr[pending[s].sp]) /\ thr[pending[s].sp].slot = s
      BY <2>1, SlotFields DEF IInv, Held
    <3>2. ASSUME NEW t \in Threads, InUiomove(thr[t]), thr[t].slot = s
          PROVE  t = pending[s].sp
      BY <3>2, UnderwayFields
    <3>. QED BY <3>1, <3>2 DEF InUiomove
  <2>2. ASSUME NEW t \in Threads, InUiomove(thr[t])
        PROVE  \E s \in find_pending(t) :
                 thr[t].slot = s /\ thr[t].seg = pending[s].phys /\ thr[t].was = pending[s].seg
    BY <2>2, FindPending DEF IInv, Underway
  <2>3. ASSUME NEW t \in Threads, ~InUiomove(thr[t])
        PROVE  thr[t].seg = thr[t].was /\ find_pending(t) = {}
    BY <2>3, FindPending DEF IInv, AtEntry
  <2>. QED BY <2>1, <2>2, <2>3 DEF SlotsAreOwned, InUiomove
<1>3. OnlyTheMediumStops
  BY DEF IInv, Types, OnlyTheMediumStops
<1>. QED BY <1>1, <1>2, <1>3 DEF BridgeSound

(* Every continuation belongs to the thread that will complete it, and     *)
(* only a failing medium stops the machine: md_raw_bridge_handle_svc and   *)
(* its completion, for any number of threads and slots.                    *)
THEOREM BridgeIsSound == Spec => []BridgeSound
<1>1. Init /\ [][Next]_vars => []IInv
  BY InitIInv, NextIInv, PTL
<1>. QED BY <1>1, IInvBridgeSound, PTL DEF Spec

-----------------------------------------------------------------------------
(* The refinement of MemoryDisk. *)

(* The store, the requests and what the reads have looked at, as the        *)
(* refinement mapping of Disk gives them.                                   *)
Store == [a \in 0 .. MEDIA + MAX_TRANSFER - 1 |->
            IF a < MEDIA THEN disk[a] ELSE guard[a - MEDIA]]
Asked == [t \in Threads |-> thr[t].ask]
Looked == [t \in Threads |->
             IF thr[t].pc \in {"uiomove", "completion"} /\ thr[t].ask.rw = "read"
             THEN bounce[thr[t].slot] ELSE <<>>]

(* A store with n blocks of data in place from an offset. *)
StoreWith(offset, data, n) ==
  [a \in 0 .. MEDIA + MAX_TRANSFER - 1 |->
     IF a >= offset /\ a < offset + n THEN data[a - offset + 1] ELSE Store[a]]

(* A transfer that crosses the end of the medium is one transfer of the store. *)
LEMMA StoredIsStore ==
  ASSUME NEW offset \in Nat, NEW n \in 0 .. MAX_TRANSFER, offset + n <= guarded_media_end
  PROVE  Stored(offset, n) = [i \in 1 .. n |-> Store[offset + i - 1]]
<1>. DEFINE media == media_prefix_length(offset, n)
            start == guard_tail_offset(offset)
<1>1. ASSUME NEW i \in 1 .. n
      PROVE  (IF i <= media THEN disk[offset + i - 1] ELSE guard[start + i - media - 1])
               = Store[offset + i - 1]
  <2>1. offset + i - 1 \in 0 .. MEDIA + MAX_TRANSFER - 1
    BY DEF guarded_media_end
  <2>2. Store[offset + i - 1] = IF offset + i - 1 < MEDIA THEN disk[offset + i - 1]
                                ELSE guard[offset + i - 1 - MEDIA]
    BY <2>1 DEF Store
  <2>3. i <= media <=> offset + i - 1 < MEDIA
    BY DEF media_prefix_length
  <2>4. ~(i <= media) => start + i - media - 1 = offset + i - 1 - MEDIA
    BY DEF media_prefix_length, guard_tail_offset
  <2>. HIDE DEF media, start
  <2>. QED BY <2>2, <2>3, <2>4
<1>. QED BY <1>1 DEF Stored

LEMMA WrittenIsStore ==
  ASSUME NEW offset \in Nat, NEW n \in Nat, NEW s, NEW data,
         \A i \in 1 .. n : s[i] = data[i],
         disk' = DiskWith(offset, s, n), guard' = GuardWith(offset, s, n)
  PROVE  Store' = StoreWith(offset, data, n)
<1>. DEFINE media == media_prefix_length(offset, n)
            start == guard_tail_offset(offset)
<1>1. ASSUME NEW a \in 0 .. MEDIA + MAX_TRANSFER - 1
      PROVE  (IF a < MEDIA THEN disk'[a] ELSE guard'[a - MEDIA])
               = IF a >= offset /\ a < offset + n THEN data[a - offset + 1] ELSE Store[a]
  <2>0. Store[a] = IF a < MEDIA THEN disk[a] ELSE guard[a - MEDIA]
    BY DEF Store
  <2>d. a >= offset /\ a < offset + n => s[a - offset + 1] = data[a - offset + 1]
    <3>1. a >= offset /\ a < offset + n => a - offset + 1 \in 1 .. n
      OBVIOUS
    <3>. QED BY <3>1
  <2>1. CASE a < MEDIA
    <3>1. a >= offset /\ a < offset + media <=> a >= offset /\ a < offset + n
      BY <2>1 DEF media_prefix_length
    <3>2. disk'[a] = IF a >= offset /\ a < offset + media THEN s[a - offset + 1] ELSE disk[a]
      BY <2>1 DEF DiskWith
    <3>. HIDE DEF media
    <3>. QED BY <2>0, <2>1, <2>d, <3>1, <3>2
  <2>2. CASE ~(a < MEDIA)
    <3>. DEFINE g == a - MEDIA
    <3>0. g \in 0 .. MAX_TRANSFER - 1
      BY <2>2
    <3>1. g >= start /\ g < start + n - media <=> a >= offset /\ a < offset + n
      BY <2>2 DEF media_prefix_length, guard_tail_offset
    <3>2. a >= offset /\ a < offset + n => media + g - start + 1 = a - offset + 1
      BY <2>2 DEF media_prefix_length, guard_tail_offset
    <3>3. guard'[g] = IF g >= start /\ g < start + n - media THEN s[media + g - start + 1]
                      ELSE guard[g]
      BY <3>0 DEF GuardWith
    <3>. HIDE DEF media, start
    <3>. QED BY <2>0, <2>2, <2>d, <3>1, <3>2, <3>3
  <2>. QED BY <2>1, <2>2
<1>2. Store' = [a \in 0 .. MEDIA + MAX_TRANSFER - 1 |->
                  IF a < MEDIA THEN disk'[a] ELSE guard'[a - MEDIA]]
  BY DEF Store
<1>. QED BY <1>1, <1>2 DEF StoreWith

(* A write that tears on the medium has its blocks there in place up to     *)
(* some length, and none in the guard.                                      *)
LEMMA TornIsStore ==
  ASSUME NEW offset \in Nat, NEW n \in Nat, NEW s, NEW data,
         \A i \in 1 .. n : s[i] = data[i],
         disk' = DiskWith(offset, s, n), guard' = guard
  PROVE  Store' = StoreWith(offset, data, media_prefix_length(offset, n))
<1>. DEFINE media == media_prefix_length(offset, n)
<1>1. ASSUME NEW a \in 0 .. MEDIA + MAX_TRANSFER - 1
      PROVE  (IF a < MEDIA THEN disk'[a] ELSE guard'[a - MEDIA])
               = IF a >= offset /\ a < offset + media THEN data[a - offset + 1] ELSE Store[a]
  <2>0. Store[a] = IF a < MEDIA THEN disk[a] ELSE guard[a - MEDIA]
    BY DEF Store
  <2>1. media \in 0 .. n /\ (media > 0 => offset + media <= MEDIA)
    BY PrefixIsPrefix
  <2>. HIDE DEF media
  <2>2. a >= offset /\ a < offset + media => a < MEDIA /\ s[a - offset + 1] = data[a - offset + 1]
    <3>1. a >= offset /\ a < offset + media => a < MEDIA /\ a - offset + 1 \in 1 .. n
      BY <2>1
    <3>. QED BY <3>1
  <2>3. a < MEDIA => disk'[a] = IF a >= offset /\ a < offset + media
                                THEN s[a - offset + 1] ELSE disk[a]
    BY DEF DiskWith, media
  <2>. QED BY <2>0, <2>2, <2>3
<1>2. Store' = [a \in 0 .. MEDIA + MAX_TRANSFER - 1 |->
                  IF a < MEDIA THEN disk'[a] ELSE guard'[a - MEDIA]]
  BY DEF Store
<1>. QED BY <1>1, <1>2 DEF StoreWith

(* The actions of MemoryDisk, said of the mapped variables. *)
Up == machine = "runs"
Fits(r) == r.len <= MAX_TRANSFER /\ r.off + r.len <= MEDIA + MAX_TRANSFER

AbstractReturn(t, moved, got) ==
  /\ answer' = [to |-> t, ok |-> moved = Asked[t].len, moved |-> moved, got |-> got]
  /\ Asked' = [Asked EXCEPT ![t] = NoRequest]
  /\ Looked' = [Looked EXCEPT ![t] = <<>>]
  /\ Up /\ Up' = Up

LEMMA ToAsk ==
  ASSUME NEW t \in Threads, NEW r \in Requests,
         Up, Up' = Up, Asked[t] = NoRequest, Asked' = [Asked EXCEPT ![t] = r],
         Store' = Store, Looked' = Looked, answer' = answer
  PROVE  Disk!Next
<1>1. Disk!Ask(t, r)
  BY DEF Disk!Ask, Disk!NoRequest, NoRequest, Up, Asked, Store, Looked
<1>. QED BY <1>1 DEF Disk!Next

LEMMA ToRefuse ==
  ASSUME NEW t \in Threads, Asked[t] # NoRequest, Looked[t] = <<>>,
         answer' = [to |-> t, ok |-> FALSE, moved |-> 0, got |-> <<>>],
         Asked' = [Asked EXCEPT ![t] = NoRequest],
         Up, Up' = Up, Store' = Store, Looked' = Looked
  PROVE  Disk!Next
<1>1. Disk!Refuse(t)
  BY DEF Disk!Refuse, Disk!NoRequest, Disk!Unseen, NoRequest, Up, Asked, Store, Looked
<1>. QED BY <1>1 DEF Disk!Next

LEMMA ToRead ==
  ASSUME NEW t \in Threads, Asked[t].rw = "read", Looked[t] = <<>>,
         Asked[t].len = 0 \/ Fits(Asked[t]),
         AbstractReturn(t, Asked[t].len, [i \in 1 .. Asked[t].len |-> Store[Asked[t].off + i - 1]]),
         Store' = Store
  PROVE  Disk!Next
<1>1. Disk!Read(t)
  BY DEF Disk!Read, Disk!Return, Disk!Contents, Disk!Fits, Disk!NoRequest, Disk!Unseen,
         NoRequest, AbstractReturn, Fits, Up, Asked, Store, Looked
<1>. QED BY <1>1 DEF Disk!Next

LEMMA ToLook ==
  ASSUME NEW t \in Threads, Up, Up' = Up, Asked[t].rw = "read", Looked[t] = <<>>,
         Fits(Asked[t]), Asked' = Asked, Store' = Store, answer' = answer,
         Looked' = [Looked EXCEPT ![t] = [i \in 1 .. Asked[t].len |-> Store[Asked[t].off + i - 1]]]
  PROVE  Disk!Next
<1>1. Disk!Look(t)
  BY DEF Disk!Look, Disk!Contents, Disk!Fits, Disk!Unseen, Fits, Up, Asked, Store, Looked
<1>. QED BY <1>1 DEF Disk!Next

LEMMA ToDeliver ==
  ASSUME NEW t \in Threads, NEW n \in 0 .. MAX_TRANSFER,
         Asked[t].rw = "read", Looked[t] # <<>>, n <= Asked[t].len,
         AbstractReturn(t, n, SubSeq(Looked[t], 1, n)), Store' = Store
  PROVE  Disk!Next
<1>1. Disk!Deliver(t, n)
  BY DEF Disk!Deliver, Disk!Return, Disk!NoRequest, Disk!Unseen,
         NoRequest, AbstractReturn, Up, Asked, Store, Looked
<1>. QED BY <1>1 DEF Disk!Next

LEMMA ToWrite ==
  ASSUME NEW t \in Threads, NEW n \in 0 .. MAX_TRANSFER,
         Asked[t].rw = "write", n <= Asked[t].len, n = 0 \/ Fits(Asked[t]),
         AbstractReturn(t, n, <<>>), Store' = StoreWith(Asked[t].off, Asked[t].data, n)
  PROVE  Disk!Next
<1>1. Disk!Write(t, n)
  BY DEF Disk!Write, Disk!Written, Disk!Addresses, Disk!Return, Disk!Fits, Disk!NoRequest, Disk!Unseen,
         NoRequest, AbstractReturn, Fits, StoreWith, Up, Asked, Store, Looked
<1>. QED BY <1>1 DEF Disk!Next

LEMMA ToHalt ==
  ASSUME NEW t \in Threads, NEW n \in 0 .. MAX_TRANSFER,
         Up, Up' = FALSE, Asked[t] # NoRequest,
         Store' = IF Asked[t].rw = "write" /\ n <= Asked[t].len
                  THEN StoreWith(Asked[t].off, Asked[t].data, n) ELSE Store,
         Asked' = Asked, Looked' = Looked, answer' = answer
  PROVE  Disk!Next
<1>1. Disk!Halt(t, n)
  BY DEF Disk!Halt, Disk!Written, Disk!Addresses, Disk!NoRequest,
         NoRequest, StoreWith, Up, Asked, Store, Looked
<1>. QED BY <1>1 DEF Disk!Next

LEMMA ToStutter ==
  ASSUME Up' = Up, Store' = Store, Asked' = Asked, Looked' = Looked, answer' = answer
  PROVE  UNCHANGED Disk!vars
BY DEF Disk!vars, Up, Asked, Store, Looked

(* The mapped variables are functions on the threads. *)
LEMMA MappedFunctions ==
  /\ Asked = [u \in Threads |-> Asked[u]] /\ Asked' = [u \in Threads |-> Asked'[u]]
  /\ Looked = [u \in Threads |-> Looked[u]] /\ Looked' = [u \in Threads |-> Looked'[u]]
BY DEF Asked, Looked

LEMMA UnchangedFunctions ==
  ASSUME NEW t \in Threads, NEW x, NEW y,
         Asked' = [Asked EXCEPT ![t] = x], Looked' = [Looked EXCEPT ![t] = y],
         Asked[t] = x, Looked[t] = y
  PROVE  Asked' = Asked /\ Looked' = Looked
BY MappedFunctions

(* What one thread does to the requests and to what the reads looked at. *)
LEMMA MapThread ==
  ASSUME IInv, Up, NEW t \in Threads, DOMAIN thr' = Threads,
         \A u \in Threads : u # t => thr'[u] = thr[u],
         \A s \in Slots : pending[s].active /\ pending[s].sp # t => bounce'[s] = bounce[s]
  PROVE  /\ Asked' = [Asked EXCEPT ![t] = thr'[t].ask]
         /\ Looked' = [Looked EXCEPT ![t] =
              IF InUiomove(thr'[t]) /\ thr'[t].ask.rw = "read" THEN bounce'[thr'[t].slot] ELSE <<>>]
<1>1. \A u \in Threads : u # t => Asked'[u] = Asked[u]
  BY DEF Asked
<1>2. ASSUME NEW u \in Threads, u # t PROVE Looked'[u] = Looked[u]
  <2>1. InUiomove(thr[u]) => bounce'[thr[u].slot] = bounce[thr[u].slot]
    BY <1>2, UnderwayFields DEF Up
  <2>. QED BY <1>2, <2>1 DEF Looked, InUiomove
<1>3. /\ Asked'[t] = thr'[t].ask
      /\ Looked'[t] = IF InUiomove(thr'[t]) /\ thr'[t].ask.rw = "read"
                      THEN bounce'[thr'[t].slot] ELSE <<>>
  BY DEF Asked, Looked, InUiomove
<1>. QED BY <1>1, <1>2, <1>3, MappedFunctions

(* A call that returns. *)
LEMMA MapReturns ==
  ASSUME IInv, Up, Up' = Up, NEW t \in Threads, NEW th, NEW err, Returns(t, th, err),
         \A s \in Slots : pending[s].active /\ pending[s].sp # t => bounce'[s] = bounce[s]
  PROVE  /\ Asked' = [Asked EXCEPT ![t] = NoRequest]
         /\ Looked' = [Looked EXCEPT ![t] = <<>>]
         /\ answer' = [to |-> t, ok |-> err = "0", moved |-> th.ask.len - th.resid,
                       got |-> IF th.ask.rw = "read" THEN th.buf ELSE <<>>]
<1>1. /\ DOMAIN thr' = Threads /\ \A u \in Threads : u # t => thr'[u] = thr[u]
      /\ thr'[t] = Idle(th.seg, th.was)
  BY ThreadFields DEF Returns
<1>2. thr'[t].ask = NoRequest /\ ~InUiomove(thr'[t])
  BY <1>1 DEF Idle, InUiomove
<1>3. /\ Asked' = [Asked EXCEPT ![t] = thr'[t].ask]
      /\ Looked' = [Looked EXCEPT ![t] =
           IF InUiomove(thr'[t]) /\ thr'[t].ask.rw = "read" THEN bounce'[thr'[t].slot] ELSE <<>>]
  BY <1>1, MapThread
<1>4. answer' = [to |-> t, ok |-> err = "0", moved |-> th.ask.len - th.resid,
                 got |-> IF th.ask.rw = "read" THEN th.buf ELSE <<>>]
  BY DEF Returns
<1>. QED BY <1>2, <1>3, <1>4

(* What is mapped of a thread at its entry. *)
LEMMA MapEntry ==
  ASSUME IInv, Up, NEW t \in Threads, thr[t].pc \in {"raw", "strategy"}
  PROVE  /\ Asked[t] = thr[t].ask /\ Asked[t] \in Requests /\ Asked[t] # NoRequest
         /\ Looked[t] = <<>> /\ Looked = [Looked EXCEPT ![t] = <<>>]
         /\ \A s \in Slots : pending[s].active => pending[s].sp # t
<1>1. ~InUiomove(thr[t]) /\ thr[t].ask \in Requests
  BY EntryFields DEF Up
<1>2. Asked[t] = thr[t].ask /\ Looked[t] = <<>> /\ Looked = [Looked EXCEPT ![t] = <<>>]
  BY <1>1 DEF Asked, Looked, InUiomove
<1>3. \A s \in Slots : pending[s].active => pending[s].sp # t
  BY <1>1 DEF IInv, Held, Up
<1>. QED BY <1>1, <1>2, <1>3, RequestFields

LEMMA GuestCallsMaps ==
  ASSUME IInv, NEW t \in Threads, GuestCalls(t), IInv'
  PROVE  Disk!Next
<1>1. /\ Up /\ thr[t].pc = "idle" /\ ~InUiomove(thr[t])
      /\ UNCHANGED <<disk, guard, pending, bounce, answer, machine>>
  BY DEF GuestCalls, Up, InUiomove
<1>2. /\ DOMAIN thr' = Threads /\ \A u \in Threads : u # t => thr'[u] = thr[u]
      /\ thr'[t].pc \in {"raw", "strategy"} /\ ~InUiomove(thr'[t])
  <2>1. PICK rw \in Directions, seg \in Segments, door \in {"raw", "strategy"} :
          \E q \in IF door = "raw" THEN Shapes ELSE Pages :
            \E ask, data : thr' = [thr EXCEPT ![t] =
                 [pc |-> door, off |-> q[1], resid |-> q[2], seg |-> seg, was |-> seg,
                  ask |-> ask, buf |-> data, slot |-> 0, err |-> "0"]]
    BY DEF GuestCalls, Directions
  <2>. QED BY <2>1, ThreadFields DEF InUiomove
<1>3. thr'[t].ask \in Requests
  <2>1. thr'[t] \in ThreadRecord /\ thr'[t].ask # NoRequest
    BY <1>2 DEF IInv, Types, AtEntry
  <2>. QED BY <2>1 DEF ThreadRecord
<1>4. Asked' = [Asked EXCEPT ![t] = thr'[t].ask] /\ Looked' = [Looked EXCEPT ![t] = <<>>]
  BY <1>1, <1>2, MapThread
<1>5. Asked[t] = NoRequest /\ Looked' = Looked
  <2>1. thr[t].ask = NoRequest
    BY <1>1 DEF IInv, AtEntry
  <2>2. Looked[t] = <<>>
    BY <1>1 DEF Looked, InUiomove
  <2>. QED BY <1>4, <2>1, <2>2 DEF Asked, Looked
<1>6. Store' = Store /\ Up' = Up
  BY <1>1 DEF Store, Up
<1>. QED BY <1>1, <1>3, <1>4, <1>5, <1>6, ToAsk

LEMMA UioMoveMaps ==
  ASSUME IInv, NEW t \in Threads, UioMove(t)
  PROVE  UNCHANGED Disk!vars
<1>. DEFINE th == thr[t]
<1>1. /\ Up /\ InUiomove(th) /\ UNCHANGED <<disk, guard, pending, answer, machine, budget>>
  BY DEF UioMove, Up, InUiomove
<1>2. th \in ThreadRecord /\ th.slot \in Slots /\ pending[th.slot].sp = t /\ DOMAIN bounce = Slots
  BY <1>1, ThreadFields, UnderwayFields, SlotFields DEF Up
<1>3. /\ DOMAIN thr' = Threads /\ \A u \in Threads : u # t => thr'[u] = thr[u]
      /\ thr'[t].pc = th.pc /\ thr'[t].ask = th.ask /\ thr'[t].slot = th.slot
  <2>. DEFINE i == th.ask.len - th.resid + 1
              x == [th EXCEPT !.buf = Append(@, bounce[th.slot][i]), !.off = @ + 1, !.resid = @ - 1]
              y == [th EXCEPT !.off = @ + 1, !.resid = @ - 1]
  <2>1. thr' = [thr EXCEPT ![t] = x] \/ thr' = [thr EXCEPT ![t] = y]
    BY DEF UioMove
  <2>2. /\ x.pc = th.pc /\ x.ask = th.ask /\ x.slot = th.slot
        /\ y.pc = th.pc /\ y.ask = th.ask /\ y.slot = th.slot
    BY <1>2 DEF ThreadRecord
  <2>. HIDE DEF x, y
  <2>. QED BY <2>1, <2>2, ThreadFields
<1>4. /\ \A s \in Slots : s # th.slot => bounce'[s] = bounce[s]
      /\ th.ask.rw = "read" => bounce' = bounce
  BY <1>2 DEF UioMove
<1>5. /\ Asked' = [Asked EXCEPT ![t] = thr'[t].ask]
      /\ Looked' = [Looked EXCEPT ![t] =
           IF InUiomove(thr'[t]) /\ thr'[t].ask.rw = "read" THEN bounce'[thr'[t].slot] ELSE <<>>]
  BY <1>1, <1>2, <1>3, <1>4, MapThread
<1>6. Asked' = Asked /\ Looked' = Looked
  <2>1. Asked[t] = thr'[t].ask
    BY <1>3 DEF Asked
  <2>2. Looked[t] = IF InUiomove(thr'[t]) /\ thr'[t].ask.rw = "read"
                    THEN bounce'[thr'[t].slot] ELSE <<>>
    BY <1>1, <1>3, <1>4 DEF Looked, InUiomove
  <2>. QED BY <1>5, <2>1, <2>2, UnchangedFunctions
<1>. QED BY <1>1, <1>6, ToStutter DEF Store, Up

LEMMA UioReturnsMaps ==
  ASSUME IInv, NEW t \in Threads, UioReturns(t)
  PROVE  UNCHANGED Disk!vars
<1>. DEFINE th == thr[t]
<1>1. /\ Up /\ th.pc = "uiomove"
      /\ UNCHANGED <<disk, guard, pending, bounce, answer, machine, budget>>
  BY DEF UioReturns, Up
<1>2. /\ DOMAIN thr' = Threads /\ \A u \in Threads : u # t => thr'[u] = thr[u]
      /\ thr'[t].pc = "completion" /\ thr'[t].ask = th.ask /\ thr'[t].slot = th.slot
  BY ThreadFields DEF UioReturns, ThreadRecord
<1>3. /\ Asked' = [Asked EXCEPT ![t] = thr'[t].ask]
      /\ Looked' = [Looked EXCEPT ![t] =
           IF InUiomove(thr'[t]) /\ thr'[t].ask.rw = "read" THEN bounce'[thr'[t].slot] ELSE <<>>]
  BY <1>1, <1>2, MapThread
<1>4. Asked' = Asked /\ Looked' = Looked
  BY <1>1, <1>2, <1>3 DEF Asked, Looked, InUiomove
<1>. QED BY <1>1, <1>4, ToStutter DEF Store, Up

(* A whole transfer is one read or one write of the store. *)
LEMMA TransferMaps ==
  ASSUME IInv, Up, Up' = Up, NEW t \in Threads, thr[t].pc \in {"raw", "strategy"},
         thr[t].resid \in 1 .. MAX_TRANSFER,
         thr[t].off + thr[t].resid <= guarded_media_end,
         UNCHANGED <<pending, bounce>>,
         \/ /\ thr[t].ask.rw = "read"
            /\ Returns(t, [Moved(thr[t]) EXCEPT !.buf = Stored(thr[t].off, thr[t].resid)], "0")
            /\ UNCHANGED <<disk, guard>>
         \/ /\ thr[t].ask.rw = "write"
            /\ disk' = DiskWith(thr[t].off, thr[t].buf, thr[t].resid)
            /\ guard' = GuardWith(thr[t].off, thr[t].buf, thr[t].resid)
            /\ Returns(t, Moved(thr[t]), "0")
  PROVE  Disk!Next
<1>. DEFINE th == thr[t]
<1>1. /\ th \in ThreadRecord /\ th.ask \in Requests
      /\ th.off \in Nat /\ th.resid \in Nat
      /\ th.off = th.ask.off /\ th.resid = th.ask.len /\ th.buf = th.ask.data
  BY EntryFields DEF Up
<1>2. /\ Asked[t] = th.ask /\ Looked[t] = <<>>
  BY MapEntry
<1>3. Fits(Asked[t])
  <2>1. th.resid <= MAX_TRANSFER
    OBVIOUS
  <2>. QED BY <1>1, <1>2, <2>1 DEF Fits, guarded_media_end
<1>4. th.ask.len - 0 = th.ask.len
  BY <1>1
<1>5. CASE th.ask.rw = "read"
  <2>. DEFINE new == [Moved(th) EXCEPT !.buf = Stored(th.off, th.resid)]
  <2>1. Returns(t, new, "0") /\ UNCHANGED <<disk, guard>>
    BY <1>5
  <2>2. new.ask = th.ask /\ new.resid = 0 /\ new.buf = Stored(th.off, th.resid)
    BY <1>1, MovedFields
  <2>. HIDE DEF new
  <2>3. /\ Asked' = [Asked EXCEPT ![t] = NoRequest]
        /\ Looked' = [Looked EXCEPT ![t] = <<>>]
        /\ answer' = [to |-> t, ok |-> "0" = "0", moved |-> new.ask.len - new.resid,
                      got |-> IF new.ask.rw = "read" THEN new.buf ELSE <<>>]
    BY <2>1, MapReturns
  <2>4. new.buf = [i \in 1 .. Asked[t].len |-> Store[Asked[t].off + i - 1]]
    <3>1. th.resid \in 0 .. MAX_TRANSFER
      OBVIOUS
    <3>. HIDE DEF th
    <3>2. th.off + th.resid <= guarded_media_end
      BY DEF th
    <3>3. Stored(th.off, th.resid) = [i \in 1 .. th.resid |-> Store[th.off + i - 1]]
      BY <1>1, <3>1, <3>2, StoredIsStore
    <3>. QED BY <1>1, <1>2, <2>2, <3>3
  <2>5. answer' = [to |-> t, ok |-> Asked[t].len = Asked[t].len, moved |-> Asked[t].len,
                   got |-> [i \in 1 .. Asked[t].len |-> Store[Asked[t].off + i - 1]]]
    BY <1>2, <1>4, <1>5, <2>2, <2>3, <2>4
  <2>6. Store' = Store
    BY <2>1 DEF Store
  <2>. QED BY <1>2, <1>3, <1>5, <2>3, <2>5, <2>6, ToRead DEF AbstractReturn
<1>6. CASE th.ask.rw = "write"
  <2>1. Returns(t, Moved(th), "0")
    BY <1>6
  <2>2. Moved(th).ask = th.ask /\ Moved(th).resid = 0
    BY <1>1, MovedFields
  <2>3. /\ Asked' = [Asked EXCEPT ![t] = NoRequest]
        /\ Looked' = [Looked EXCEPT ![t] = <<>>]
        /\ answer' = [to |-> t, ok |-> "0" = "0", moved |-> Moved(th).ask.len - Moved(th).resid,
                      got |-> IF Moved(th).ask.rw = "read" THEN Moved(th).buf ELSE <<>>]
    BY <2>1, MapReturns
  <2>4. Store' = StoreWith(Asked[t].off, Asked[t].data, Asked[t].len)
    <3>1. disk' = DiskWith(th.off, th.buf, th.resid) /\ guard' = GuardWith(th.off, th.buf, th.resid)
      BY <1>6
    <3>. HIDE DEF th
    <3>2. Store' = StoreWith(th.off, th.buf, th.resid)
      BY <1>1, <3>1, WrittenIsStore
    <3>. QED BY <1>1, <1>2, <3>2
  <2>5. answer' = [to |-> t, ok |-> Asked[t].len = Asked[t].len, moved |-> Asked[t].len, got |-> <<>>]
    BY <1>2, <1>4, <1>6, <2>2, <2>3
  <2>6. Asked[t].len \in 0 .. MAX_TRANSFER /\ Asked[t].len <= Asked[t].len
    BY <1>1, <1>2
  <2>. QED BY <1>2, <1>3, <1>6, <2>3, <2>4, <2>5, <2>6, ToWrite DEF AbstractReturn
<1>. QED BY <1>5, <1>6

(* An answer without a transfer: nothing was asked for, or a refusal. *)
LEMMA AnswerMaps ==
  ASSUME IInv, NEW t \in Threads, machine = "runs", thr[t].pc = "raw",
         NEW place, Answer(t, place)
  PROVE  Disk!Next
<1>. DEFINE th == thr[t]
            err == Decision(t, place)
<1>1. /\ Up /\ Up' = Up /\ Store' = Store
      /\ Returns(t, th, err) /\ UNCHANGED <<pending, bounce>>
      /\ err \in {"0", "EBUSY", "EINVAL", "EFAULT"}
  BY DEF Answer, Up, Store
<1>2. /\ th.ask \in Requests /\ th.resid \in Nat
      /\ th.resid = th.ask.len /\ th.buf = th.ask.data /\ find_pending(t) = {}
  BY EntryFields
<1>3. Asked[t] = th.ask /\ Asked[t] # NoRequest /\ Looked[t] = <<>>
      /\ Looked = [Looked EXCEPT ![t] = <<>>]
  BY <1>1, MapEntry
<1>4. th.ask.len - th.resid = 0 /\ (IF th.ask.rw = "read" THEN th.buf ELSE <<>>) = <<>>
  BY <1>2, RequestFields
<1>5. /\ Asked' = [Asked EXCEPT ![t] = NoRequest]
      /\ Looked' = [Looked EXCEPT ![t] = <<>>]
      /\ answer' = [to |-> t, ok |-> err = "0", moved |-> 0, got |-> <<>>]
  <2>. HIDE DEF th, err
  <2>1. /\ Asked' = [Asked EXCEPT ![t] = NoRequest]
        /\ Looked' = [Looked EXCEPT ![t] = <<>>]
        /\ answer' = [to |-> t, ok |-> err = "0", moved |-> th.ask.len - th.resid,
                      got |-> IF th.ask.rw = "read" THEN th.buf ELSE <<>>]
    BY <1>1, MapReturns
  <2>. QED BY <1>4, <2>1
<1>6. CASE err # "0"
  <2>1. answer' = [to |-> t, ok |-> FALSE, moved |-> 0, got |-> <<>>]
    BY <1>5, <1>6
  <2>. QED BY <1>1, <1>3, <1>5, <2>1, ToRefuse
<1>7. CASE err = "0"
  <2>1. th.resid = 0
    BY <1>2, <1>7 DEF Decision
  <2>2. Asked[t].len = 0 /\ Asked[t].rw \in Directions
    BY <1>2, <1>3, <2>1, RequestFields
  <2>3. answer' = [to |-> t, ok |-> 0 = Asked[t].len, moved |-> 0, got |-> <<>>]
    BY <1>5, <1>7, <2>2
  <2>4. CASE Asked[t].rw = "read"
    <3>1. [i \in 1 .. Asked[t].len |-> Store[Asked[t].off + i - 1]] = <<>>
      BY <2>2
    <3>2. AbstractReturn(t, Asked[t].len, [i \in 1 .. Asked[t].len |-> Store[Asked[t].off + i - 1]])
      BY <1>1, <1>5, <2>2, <2>3, <3>1 DEF AbstractReturn
    <3>. QED BY <1>1, <1>3, <2>2, <2>4, <3>2, ToRead
  <2>5. CASE Asked[t].rw = "write"
    <3>1. Store' = StoreWith(Asked[t].off, Asked[t].data, 0)
      <4>1. Asked[t].off \in Nat
        BY <1>2, <1>3, RequestFields
      <4>2. \A a \in 0 .. MEDIA + MAX_TRANSFER - 1 : ~(a >= Asked[t].off /\ a < Asked[t].off + 0)
        BY <4>1
      <4>3. Store = [a \in 0 .. MEDIA + MAX_TRANSFER - 1 |-> Store[a]]
        BY DEF Store
      <4>. QED BY <1>1, <4>2, <4>3 DEF StoreWith
    <3>2. AbstractReturn(t, 0, <<>>)
      BY <1>1, <1>5, <2>3 DEF AbstractReturn
    <3>. QED BY <2>2, <2>5, <3>1, <3>2, ToWrite
  <2>. QED BY <2>2, <2>4, <2>5 DEF Directions
<1>. QED BY <1>6, <1>7

LEMMA DirectTransferMaps ==
  ASSUME IInv, NEW t \in Threads, machine = "runs", thr[t].pc = "raw", DirectTransfer(t)
  PROVE  Disk!Next
<1>1. /\ thr[t].resid \in 1 .. MAX_TRANSFER
      /\ thr[t].off + thr[t].resid <= guarded_media_end
  BY DecisionFits DEF DirectTransfer
<1>2. Up /\ Up' = Up
  BY DEF Up, DirectTransfer
<1>. QED BY <1>1, <1>2, TransferMaps DEF DirectTransfer

LEMMA start_uiomoveMaps ==
  ASSUME IInv, NEW t \in Threads, machine = "runs", thr[t].pc = "raw", start_uiomove(t)
  PROVE  Disk!Next \/ UNCHANGED Disk!vars
<1>. DEFINE th == thr[t]
            b == IF th.ask.rw = "read" THEN Stored(th.off, th.resid)
                 ELSE [i \in 1 .. th.resid |-> Zero]
            T(s) == [th EXCEPT !.pc = "uiomove", !.slot = s, !.seg = physical_user_segment(th.seg)]
<1>1. PICK s \in allocate_pending(t) :
        bounce' = [bounce EXCEPT ![s] = b] /\ thr' = [thr EXCEPT ![t] = T(s)]
  BY DEF start_uiomove
<1>2. /\ Up /\ Up' = Up /\ Store' = Store /\ answer' = answer
      /\ s \in Slots /\ ~pending[s].active
  BY AllocatePending DEF start_uiomove, Up, Store
<1>3. /\ th.resid \in 1 .. MAX_TRANSFER
      /\ th.off + th.resid <= guarded_media_end
  BY DecisionFits DEF start_uiomove
<1>4. /\ th \in ThreadRecord /\ th.ask \in Requests /\ th.off \in Nat
      /\ th.off = th.ask.off /\ th.resid = th.ask.len
  BY EntryFields
<1>5. Asked[t] = th.ask /\ Looked[t] = <<>> /\ Looked = [Looked EXCEPT ![t] = <<>>]
  BY <1>2, MapEntry
<1>6. T(s).pc = "uiomove" /\ T(s).slot = s /\ T(s).ask = th.ask
  BY <1>4 DEF ThreadRecord
<1>. HIDE DEF T, b
<1>7. /\ DOMAIN thr' = Threads /\ \A u \in Threads : u # t => thr'[u] = thr[u]
      /\ thr'[t] = T(s) /\ bounce'[s] = b
      /\ \A r \in Slots : r # s => bounce'[r] = bounce[r]
  BY <1>1, <1>2, ThreadFields, SlotFields
<1>8. /\ Asked' = [Asked EXCEPT ![t] = thr'[t].ask]
      /\ Looked' = [Looked EXCEPT ![t] =
           IF InUiomove(thr'[t]) /\ thr'[t].ask.rw = "read" THEN bounce'[thr'[t].slot] ELSE <<>>]
  BY <1>2, <1>7, MapThread
<1>9. /\ Asked' = [Asked EXCEPT ![t] = Asked[t]]
      /\ Looked' = [Looked EXCEPT ![t] = IF th.ask.rw = "read" THEN b ELSE <<>>]
  BY <1>5, <1>6, <1>7, <1>8 DEF InUiomove
<1>10. Asked' = Asked
  BY <1>9, MappedFunctions
<1>11. CASE th.ask.rw = "read"
  <2>1. b = [i \in 1 .. Asked[t].len |-> Store[Asked[t].off + i - 1]]
    <3>1. th.resid \in 0 .. MAX_TRANSFER
      BY <1>3
    <3>. HIDE DEF th
    <3>2. Stored(th.off, th.resid) = [i \in 1 .. th.resid |-> Store[th.off + i - 1]]
      BY <1>3, <1>4, <3>1, StoredIsStore
    <3>. QED BY <1>4, <1>5, <1>11, <3>2 DEF b
  <2>2. Fits(Asked[t])
    <3>1. th.resid <= MAX_TRANSFER
      BY <1>3
    <3>. QED BY <1>3, <1>4, <1>5, <3>1 DEF Fits, guarded_media_end
  <2>. QED BY <1>2, <1>5, <1>9, <1>10, <1>11, <2>1, <2>2, ToLook
<1>12. CASE th.ask.rw # "read"
  BY <1>2, <1>5, <1>9, <1>10, <1>12, ToStutter
<1>. QED BY <1>11, <1>12

(* A transfer that fails tears at most the write that met it. *)
LEMMA HaltMaps ==
  ASSUME IInv, Up, machine' = "io", NEW t \in Threads, thr[t].pc # "idle",
         \A u \in Threads : /\ thr'[u].pc = thr[u].pc /\ thr'[u].ask = thr[u].ask
                            /\ thr'[u].slot = thr[u].slot,
         UNCHANGED <<guard, bounce, answer>>,
         \/ disk' = disk /\ thr[t].ask.rw = "read"
         \/ \E n \in 0 .. thr[t].ask.len : \E s :
              /\ thr[t].ask.rw = "write" /\ thr[t].ask.len <= MAX_TRANSFER
              /\ \A i \in 1 .. n : s[i] = thr[t].ask.data[i]
              /\ disk' = DiskWith(thr[t].ask.off, s, n)
  PROVE  Disk!Next
<1>. DEFINE r == thr[t].ask
<1>1. r \in Requests /\ r.off \in Nat /\ r.len \in Nat /\ r # NoRequest
  BY ThreadFields, RequestFields
<1>2. Asked' = Asked /\ Looked' = Looked /\ Asked[t] = r
  BY DEF Asked, Looked
<1>3. Up' = FALSE
  BY DEF Up
<1>4. CASE disk' = disk /\ r.rw = "read"
  <2>1. Store' = Store /\ 0 \in 0 .. MAX_TRANSFER
    BY <1>4 DEF Store
  <2>. QED BY <1>1, <1>2, <1>3, <1>4, <2>1, ToHalt
<1>5. CASE \E n \in 0 .. r.len : \E s :
              /\ r.rw = "write" /\ r.len <= MAX_TRANSFER
              /\ \A i \in 1 .. n : s[i] = r.data[i]
              /\ disk' = DiskWith(r.off, s, n)
  <2>1. PICK n \in 0 .. r.len : \E s :
              /\ r.rw = "write" /\ r.len <= MAX_TRANSFER
              /\ \A i \in 1 .. n : s[i] = r.data[i]
              /\ disk' = DiskWith(r.off, s, n)
    BY <1>5
  <2>2. PICK s : /\ r.rw = "write" /\ r.len <= MAX_TRANSFER
                 /\ \A i \in 1 .. n : s[i] = r.data[i]
                 /\ disk' = DiskWith(r.off, s, n)
    BY <2>1
  <2>. DEFINE m == media_prefix_length(r.off, n)
  <2>3. n \in Nat /\ n <= r.len
    BY <1>1
  <2>. HIDE DEF r
  <2>4. m \in 0 .. n
    BY <1>1, <2>3, PrefixIsPrefix
  <2>5. Store' = StoreWith(r.off, r.data, m)
    BY <1>1, <2>2, <2>3, TornIsStore
  <2>. HIDE DEF m
  <2>6. m \in 0 .. MAX_TRANSFER /\ m <= r.len
    BY <1>1, <2>2, <2>3, <2>4
  <2>. QED BY <1>1, <1>2, <1>3, <2>2, <2>5, <2>6, ToHalt
<1>. QED BY <1>4, <1>5

LEMMA EntryFailsMaps ==
  ASSUME IInv, NEW t \in Threads, machine = "runs", thr[t].pc = "raw",
         NEW place, EntryFails(t, place)
  PROVE  Disk!Next
<1>. DEFINE th == thr[t]
            media == media_prefix_length(th.off, th.resid)
<1>1. /\ Up /\ machine' = "io" /\ UNCHANGED <<guard, pending, bounce, thr, answer>>
      /\ Decision(t, place) \in {"direct", "redirect"}
  BY DEF EntryFails, Up
<1>2. PICK n \in 0 .. media :
        disk' = IF th.ask.rw = "write" THEN DiskWith(th.off, th.buf, n) ELSE disk
  BY DEF EntryFails
<1>3. /\ th.resid \in 1 .. MAX_TRANSFER /\ th.ask \in Requests
      /\ th.off \in Nat /\ th.resid \in Nat
      /\ th.off = th.ask.off /\ th.resid = th.ask.len /\ th.buf = th.ask.data
  BY <1>1, DecisionFits, EntryFields
<1>4. n \in 0 .. th.ask.len /\ th.ask.len <= MAX_TRANSFER
  <2>1. media \in 0 .. th.resid
    BY <1>3, PrefixIsPrefix
  <2>. HIDE DEF media, th
  <2>. QED BY <1>3, <2>1
<1>5. th.ask.rw \in Directions
  BY <1>3, RequestFields
<1>6. \/ disk' = disk /\ th.ask.rw = "read"
      \/ \E k \in 0 .. th.ask.len : \E s :
              /\ th.ask.rw = "write" /\ th.ask.len <= MAX_TRANSFER
              /\ \A i \in 1 .. k : s[i] = th.ask.data[i]
              /\ disk' = DiskWith(th.ask.off, s, k)
  <2>1. CASE th.ask.rw = "read"
    BY <1>2, <2>1
  <2>2. CASE th.ask.rw = "write"
    <3>1. disk' = DiskWith(th.ask.off, th.ask.data, n)
      BY <1>2, <1>3, <2>2
    <3>. HIDE DEF th
    <3>. QED BY <1>4, <2>2, <3>1
  <2>. QED BY <1>5, <2>1, <2>2 DEF Directions
<1>. QED BY <1>1, <1>6, HaltMaps

(* What uiomove has moved is the beginning of what was looked at. *)
LEMMA PrefixOfLook ==
  ASSUME NEW len \in Nat, NEW n \in 0 .. len, NEW B, NEW b \in [1 .. len -> B],
         NEW D, NEW buf \in Seq(D), Len(buf) = n, \A i \in 1 .. n : buf[i] = b[i]
  PROVE  buf = SubSeq(b, 1, n)
<1>1. b \in Seq(B) /\ Len(b) = len
  OBVIOUS
<1>2. /\ SubSeq(b, 1, n) \in Seq(B) /\ Len(SubSeq(b, 1, n)) = n
      /\ \A i \in 1 .. n : SubSeq(b, 1, n)[i] = b[i]
  BY <1>1
<1>. QED BY <1>2

LEMMA CompleteMaps ==
  ASSUME IInv, NEW t \in Threads, machine = "runs", thr[t].pc = "completion", Complete(t)
  PROVE  Disk!Next
<1>. DEFINE th == thr[t]
            s == th.slot
            p == pending[s]
            done == p.resid - th.resid
            new == restore_pending_segment(th, p)
<1>1. InUiomove(th) /\ find_pending(t) = {s} /\ Up
  BY FindPending DEF InUiomove, Up
<1>2. /\ Returns(t, new, th.err)
      /\ disk' = IF p.rw = "write" THEN DiskWith(p.off, bounce[s], done) ELSE disk
      /\ guard' = IF p.rw = "write" THEN GuardWith(p.off, bounce[s], done) ELSE guard
      /\ bounce' = [bounce EXCEPT ![s] = <<>>]
      /\ Up' = Up
  BY <1>1 DEF Complete, Up
<1>3. /\ th \in ThreadRecord /\ th.ask \in Requests /\ Underway(t) /\ AtEntry(t)
      /\ s \in Slots /\ p.active /\ p.sp = t
      /\ th.ask.len \in 1 .. MAX_TRANSFER /\ th.resid \in 0 .. th.ask.len
      /\ th.ask.off + th.ask.len <= guarded_media_end
      /\ bounce[s] \in [1 .. th.ask.len -> Blocks]
      /\ \A r \in Slots : pending[r].active => (pending[r].sp = t <=> r = s)
  BY <1>1, ThreadFields, UnderwayFields DEF IInv
<1>4. /\ p.resid = th.ask.len /\ p.off = th.ask.off /\ p.rw = th.ask.rw
      /\ th.ask.rw = "read" => /\ Len(th.buf) = th.ask.len - th.resid
                               /\ \A i \in 1 .. Len(th.buf) : th.buf[i] = bounce[s][i]
      /\ th.ask.rw = "write" => /\ th.buf = th.ask.data
                                /\ \A i \in 1 .. th.ask.len - th.resid : bounce[s][i] = th.buf[i]
  BY <1>1, <1>3 DEF Underway, Up
<1>5. /\ new.ask = th.ask /\ new.resid = th.resid /\ new.buf = th.buf
      /\ th.buf \in Seq({Zero} \cup (Nat \X Nat))
  BY <1>3 DEF restore_pending_segment, ThreadRecord
<1>6. th.err = "0" <=> th.resid = 0
  BY <1>3 DEF AtEntry
<1>. HIDE DEF new
<1>7. /\ done = th.ask.len - th.resid /\ done \in 0 .. th.ask.len /\ done \in 0 .. MAX_TRANSFER
      /\ done <= th.ask.len /\ (th.err = "0" <=> done = th.ask.len)
      /\ new.ask.len - new.resid = done
  BY <1>3, <1>4, <1>5, <1>6
<1>8. \A r \in Slots : pending[r].active /\ pending[r].sp # t => bounce'[r] = bounce[r]
  BY <1>2, <1>3, SlotFields
<1>9. /\ Asked' = [Asked EXCEPT ![t] = NoRequest]
      /\ Looked' = [Looked EXCEPT ![t] = <<>>]
      /\ answer' = [to |-> t, ok |-> th.err = "0", moved |-> new.ask.len - new.resid,
                    got |-> IF new.ask.rw = "read" THEN new.buf ELSE <<>>]
  BY <1>1, <1>2, <1>8, MapReturns
<1>10. /\ Asked[t] = th.ask
       /\ Looked[t] = IF th.ask.rw = "read" THEN bounce[s] ELSE <<>>
  BY <1>1 DEF Asked, Looked, InUiomove
<1>. HIDE DEF th, s, p, done
<1>11. /\ th.ask.rw \in Directions /\ th.ask.len \in Nat /\ th.ask.off \in Nat
  BY <1>3, RequestFields
<1>12. (th.err = "0") = (done = Asked[t].len)
  BY <1>7, <1>10
<1>13. CASE th.ask.rw = "read"
  <2>1. Store' = Store
    BY <1>2, <1>4, <1>13 DEF Store
  <2>2. th.buf = SubSeq(bounce[s], 1, done)
    <3>1. Len(th.buf) = done /\ \A i \in 1 .. done : th.buf[i] = bounce[s][i]
      BY <1>4, <1>7, <1>13
    <3>. QED BY <1>3, <1>5, <1>7, <1>11, <3>1, PrefixOfLook
  <2>3. Looked[t] # <<>>
    BY <1>3, <1>10, <1>13
  <2>4. AbstractReturn(t, done, SubSeq(Looked[t], 1, done))
    <3>1. answer' = [to |-> t, ok |-> done = Asked[t].len, moved |-> done,
                     got |-> SubSeq(Looked[t], 1, done)]
      BY <1>5, <1>7, <1>9, <1>10, <1>12, <1>13, <2>2
    <3>. QED BY <1>1, <1>2, <1>9, <3>1 DEF AbstractReturn
  <2>. QED BY <1>7, <1>10, <1>13, <2>1, <2>3, <2>4, ToDeliver
<1>14. CASE th.ask.rw = "write"
  <2>1. Store' = StoreWith(Asked[t].off, Asked[t].data, done)
    <3>1. \A i \in 1 .. done : bounce[s][i] = th.ask.data[i]
      BY <1>4, <1>7, <1>14
    <3>2. disk' = DiskWith(th.ask.off, bounce[s], done) /\ guard' = GuardWith(th.ask.off, bounce[s], done)
      BY <1>2, <1>4, <1>14
    <3>3. done \in Nat
      BY <1>7, <1>11
    <3>4. th.ask.off \in Nat
      BY <1>11
    <3>5. Store' = StoreWith(th.ask.off, th.ask.data, done)
      BY <3>1, <3>2, <3>3, <3>4, WrittenIsStore
    <3>. QED BY <1>10, <3>5
  <2>2. AbstractReturn(t, done, <<>>)
    <3>1. answer' = [to |-> t, ok |-> done = Asked[t].len, moved |-> done, got |-> <<>>]
      BY <1>5, <1>7, <1>9, <1>12, <1>14
    <3>. QED BY <1>1, <1>2, <1>9, <3>1 DEF AbstractReturn
  <2>3. Fits(Asked[t])
    <3>1. th.ask.len <= MAX_TRANSFER
      BY <1>3
    <3>. QED BY <1>3, <1>10, <3>1 DEF Fits, guarded_media_end
  <2>. QED BY <1>7, <1>10, <1>14, <2>1, <2>2, <2>3, ToWrite
<1>. QED BY <1>11, <1>13, <1>14 DEF Directions

LEMMA CompletionFailsMaps ==
  ASSUME IInv, NEW t \in Threads, machine = "runs", thr[t].pc = "completion", CompletionFails(t)
  PROVE  Disk!Next
<1>. DEFINE th == thr[t]
            s == th.slot
            p == pending[s]
<1>1. InUiomove(th) /\ find_pending(t) = {s} /\ Up
  BY FindPending DEF InUiomove, Up
<1>2. machine' = "io" /\ p.rw = "write"
  BY CompletionReasons DEF CompletionFails
<1>3. UNCHANGED <<guard, bounce, answer>>
  BY DEF CompletionFails
<1>4. /\ th \in ThreadRecord /\ th.ask \in Requests /\ Underway(t)
      /\ th.ask.len \in 1 .. MAX_TRANSFER /\ th.resid \in 0 .. th.ask.len
  BY <1>1, ThreadFields, UnderwayFields DEF IInv
<1>5. /\ p.off = th.ask.off /\ p.rw = th.ask.rw
      /\ th.ask.rw = "write" => /\ th.buf = th.ask.data
                                /\ \A i \in 1 .. th.ask.len - th.resid : bounce[s][i] = th.buf[i]
  BY <1>1, <1>4 DEF Underway, Up
<1>6. \A u \in Threads : /\ thr'[u].pc = thr[u].pc /\ thr'[u].ask = thr[u].ask
                         /\ thr'[u].slot = thr[u].slot
  <2>1. \E x : thr' = [thr EXCEPT ![t] = restore_pending_segment(th, x)]
    BY <1>1 DEF CompletionFails
  <2>2. \A x : LET new == restore_pending_segment(th, x) IN
               new.pc = th.pc /\ new.ask = th.ask /\ new.slot = th.slot
    BY <1>4 DEF restore_pending_segment, ThreadRecord
  <2>. QED BY <2>1, <2>2, ThreadFields
<1>7. PICK r \in {s}, n \in 0 .. th.ask.len - th.resid :
          disk' = DiskWith(pending[r].off, bounce[r], n)
  <2>1. disk' \in {DiskWith(pending[r].off, bounce[r], n) :
                        r \in find_pending(t), n \in 0 .. th.ask.len - th.resid}
    BY <1>2 DEF CompletionFails
  <2>2. \E r \in find_pending(t), n \in 0 .. th.ask.len - th.resid :
          disk' = DiskWith(pending[r].off, bounce[r], n)
    BY <2>1
  <2>. QED BY <1>1, <2>2
<1>8. r = s
  BY <1>1
<1>9. disk' = DiskWith(th.ask.off, bounce[s], n)
  BY <1>5, <1>7, <1>8
<1>. HIDE DEF th, s, p
<1>10. n \in 0 .. th.ask.len /\ th.ask.len <= MAX_TRANSFER
  BY <1>4
<1>11. \A i \in 1 .. n : bounce[s][i] = th.ask.data[i]
  <2>1. \A i \in 1 .. n : i \in 1 .. th.ask.len - th.resid
    BY <1>4
  <2>. QED BY <1>2, <1>5, <2>1
<1>12. \E k \in 0 .. th.ask.len : \E b :
              /\ th.ask.rw = "write" /\ th.ask.len <= MAX_TRANSFER
              /\ \A i \in 1 .. k : b[i] = th.ask.data[i]
              /\ disk' = DiskWith(th.ask.off, b, k)
  BY <1>2, <1>5, <1>9, <1>10, <1>11
<1>. QED BY <1>1, <1>2, <1>3, <1>6, <1>12, HaltMaps DEF th

LEMMA md_bridge_handle_svcMaps ==
  ASSUME IInv, NEW t \in Threads, md_bridge_handle_svc(t)
  PROVE  Disk!Next
<1>. DEFINE th == thr[t]
<1>1. /\ machine = "runs" /\ Up /\ th.pc = "strategy" /\ UNCHANGED <<guard, pending, bounce>>
  BY DEF md_bridge_handle_svc, Up
<1>2. /\ th.ask \in Requests /\ th.off \in Nat /\ th.off = th.ask.off
      /\ th.resid = th.ask.len /\ th.buf = th.ask.data /\ th.resid = 1 /\ th.off < MEDIA
  BY <1>1, EntryFields
<1>3. th.resid \in 1 .. MAX_TRANSFER /\ th.off + th.resid <= guarded_media_end
  BY <1>2 DEF guarded_media_end
<1>4. GuardWith(th.off, th.buf, th.resid) = guard
  <2>1. guard = [g \in 0 .. MAX_TRANSFER - 1 |-> guard[g]]
    BY DEF IInv, Types
  <2>2. media_prefix_length(th.off, th.resid) = 1 /\ guard_tail_offset(th.off) = 0
    BY <1>2 DEF media_prefix_length, guard_tail_offset
  <2>3. \A g \in 0 .. MAX_TRANSFER - 1 : ~(g >= 0 /\ g < 0 + 1 - 1)
    OBVIOUS
  <2>. HIDE DEF th
  <2>. QED BY <1>2, <2>1, <2>2, <2>3 DEF GuardWith
<1>5. CASE /\ machine' = "io"
           /\ \E n \in {0, th.resid} :
                disk' = IF th.ask.rw = "write" THEN DiskWith(th.off, th.buf, n) ELSE disk
           /\ UNCHANGED <<thr, answer>>
  <2>1. th.ask.rw \in Directions
    BY <1>2, RequestFields
  <2>2. \/ disk' = disk /\ th.ask.rw = "read"
        \/ \E k \in 0 .. th.ask.len : \E s :
                /\ th.ask.rw = "write" /\ th.ask.len <= MAX_TRANSFER
                /\ \A i \in 1 .. k : s[i] = th.ask.data[i]
                /\ disk' = DiskWith(th.ask.off, s, k)
    <3>1. CASE th.ask.rw = "read"
      BY <1>5, <3>1
    <3>2. CASE th.ask.rw = "write"
      <4>1. PICK n \in {0, th.resid} : disk' = DiskWith(th.off, th.buf, n)
        BY <1>5, <3>2
      <4>2. n \in 0 .. th.ask.len /\ th.ask.len <= MAX_TRANSFER
        BY <1>2
      <4>. HIDE DEF th
      <4>. QED BY <1>2, <3>2, <4>1, <4>2
    <3>. QED BY <2>1, <3>1, <3>2 DEF Directions
  <2>. QED BY <1>1, <1>5, <2>2, HaltMaps
<1>6. CASE machine' = machine
  <2>1. Up' = Up
    BY <1>6 DEF Up
  <2>2. \/ /\ th.ask.rw = "read"
           /\ Returns(t, [Moved(th) EXCEPT !.buf = Stored(th.off, th.resid)], "0")
           /\ UNCHANGED <<disk, guard>>
        \/ /\ th.ask.rw = "write"
           /\ disk' = DiskWith(th.off, th.buf, th.resid)
           /\ guard' = GuardWith(th.off, th.buf, th.resid)
           /\ Returns(t, Moved(th), "0")
    BY <1>1, <1>4, <1>6 DEF md_bridge_handle_svc
  <2>. QED BY <1>1, <1>3, <2>1, <2>2, TransferMaps
<1>. QED BY <1>5, <1>6 DEF md_bridge_handle_svc

LEMMA CheckpointMaps ==
  ASSUME IInv, Checkpoint
  PROVE  UNCHANGED Disk!vars
BY ToStutter DEF Checkpoint, Up, Store, Asked, Looked

LEMMA RebootMaps ==
  ASSUME IInv, Reboot
  PROVE  Disk!Next
<1>1. /\ machine' = "runs" /\ guard' = [g \in 0 .. MAX_TRANSFER - 1 |-> Zero]
      /\ thr' = [t \in Threads |-> Fresh] /\ answer' = NoAnswer /\ disk' = disk
  BY DEF Reboot
<1>2. Store' = [a \in 0 .. MEDIA + MAX_TRANSFER - 1 |-> IF a < MEDIA THEN Store[a] ELSE Zero]
  <2>1. ASSUME NEW a \in 0 .. MEDIA + MAX_TRANSFER - 1
        PROVE  (IF a < MEDIA THEN disk'[a] ELSE guard'[a - MEDIA])
                 = IF a < MEDIA THEN Store[a] ELSE Zero
    BY <1>1 DEF Store
  <2>. QED BY <2>1 DEF Store
<1>3. Asked' = [t \in Threads |-> NoRequest] /\ Looked' = [t \in Threads |-> <<>>]
  BY <1>1, FreshTypes DEF Asked, Looked
<1>4. Disk!Reboot
  BY <1>1, <1>2, <1>3
     DEF Disk!Reboot, Disk!Addresses, Disk!NoRequest, Disk!Unseen, Disk!NoAnswer,
         NoRequest, NoAnswer, Store, Asked, Looked
<1>. QED BY <1>4 DEF Disk!Next

LEMMA InitMaps == Init => Disk!Init
<1>. SUFFICES ASSUME Init PROVE Disk!Init
  OBVIOUS
<1>1. /\ machine = "runs" /\ guard = [g \in 0 .. MAX_TRANSFER - 1 |-> Zero]
      /\ disk = [a \in 0 .. MEDIA - 1 |-> Zero]
      /\ thr = [t \in Threads |-> Fresh] /\ answer = NoAnswer
  BY DEF Init
<1>2. Store \in [0 .. MEDIA + MAX_TRANSFER - 1 -> {Zero}]
  BY <1>1 DEF Store
<1>3. Asked = [t \in Threads |-> NoRequest] /\ Looked = [t \in Threads |-> <<>>]
  BY <1>1, FreshTypes DEF Asked, Looked
<1>. QED BY <1>1, <1>2, <1>3
     DEF Disk!Init, Disk!Addresses, Disk!NoRequest, Disk!Unseen, Disk!NoAnswer,
         NoRequest, NoAnswer, Store, Asked, Looked

LEMMA NextMaps == IInv /\ IInv' /\ [Next]_vars => [Disk!Next]_(Disk!vars)
<1>. SUFFICES ASSUME IInv, IInv', [Next]_vars PROVE Disk!Next \/ UNCHANGED Disk!vars
  OBVIOUS
<1>1. CASE UNCHANGED vars
  BY <1>1 DEF vars, Disk!vars
<1>2. ASSUME NEW t \in Threads, md_raw_bridge_handle_svc(t)
      PROVE  Disk!Next \/ UNCHANGED Disk!vars
  BY <1>2, DirectTransferMaps, start_uiomoveMaps, AnswerMaps, EntryFailsMaps
     DEF md_raw_bridge_handle_svc
<1>3. ASSUME NEW t \in Threads, handle_completion(t) PROVE Disk!Next
  BY <1>3, CompleteMaps, CompletionFailsMaps DEF handle_completion
<1>. QED
  BY <1>1, <1>2, <1>3, GuestCallsMaps, UioMoveMaps, UioReturnsMaps, md_bridge_handle_svcMaps,
     CheckpointMaps, RebootMaps
  DEF Next, ThreadStep

(* The two bridges implement the memory disk: each request takes effect at *)
(* one instant between its call and its return, on the medium and in the   *)
(* guard, whatever the other threads do while its uiomove sleeps.          *)
THEOREM BridgeImplementsDisk == Spec => ImplementsDisk
<1>1. Init /\ [][Next]_vars => []IInv
  BY InitIInv, NextIInv, PTL
<1>2. Init /\ [][Next]_vars => Disk!Init /\ [][Disk!Next]_(Disk!vars)
  BY <1>1, InitMaps, NextMaps, PTL
<1>. QED BY <1>2, PTL DEF Spec, ImplementsDisk, Disk!Spec

=============================================================================
