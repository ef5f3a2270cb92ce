----------------------------- MODULE MdRawBridge -----------------------------
(* The two bridges that serve the guest's memory disk from a file: the raw   *)
(* character device (md_raw_bridge.c), which moves a resident user buffer at *)
(* once and sends a request whose pages fault through the guest's own        *)
(* uiomove, and the block strategy (md_bridge.c), which moves one page at    *)
(* once.  A redirected request keeps a slot, keyed by the stack of its       *)
(* thread, and a bounce buffer from its entry call to its completion call;   *)
(* any other thread may run in between.                                      *)
EXTENDS Integers, Sequences

CONSTANTS
    THREADS,        \* the kernel threads that call the disk
    SLOTS,          \* bounce_slot_count
    MEDIA,          \* blocks of the medium
    MAX_TRANSFER,   \* MD_RAW_BRIDGE_MAX_TRANSFER, in blocks
    Zero,           \* the contents of a cleared block
    Shapes,         \* the pairs <<offset, length>> asked of the raw device
    Segments,       \* the user segments of its requests
    MaxCalls,       \* bound: requests
    MaxFaults       \* bound: failing transfers, reboots and checkpoints

ASSUME BridgeAssumption ==
    /\ THREADS \in Nat \ {0} /\ SLOTS \in Nat \ {0} /\ MEDIA \in Nat \ {0} /\ MAX_TRANSFER \in Nat \ {0}
    /\ Shapes \subseteq Nat \X Nat
    /\ Segments \subseteq {"user", "user32", "user64"}
    /\ MaxCalls \in Nat /\ MaxFaults \in Nat

VARIABLES
    disk,       \* the medium, block by block
    guard,      \* guard_tail
    pending,    \* the continuations, slot by slot
    bounce,     \* what a request can reach of the bounce buffer of its slot
    thr,        \* the kernel threads with their uio
    answer,     \* the last answer a bridge gave
    machine,    \* "runs", or why a bridge stopped it
    budget      \* requests and faults so far

vars == <<disk, guard, pending, bounce, thr, answer, machine, budget>>

Threads == 1 .. THREADS
Slots == 1 .. SLOTS
Free == [active |-> FALSE]

(* The user's data of the n-th request: no two blocks ever written are the  *)
(* same.                                                                    *)
Data(n, len) == [i \in 1 .. len |-> <<n, i>>]

(* What is asked of the strategy: a page of the medium.                     *)
Pages == (0 .. MEDIA - 1) \X {1}

Requests ==
    {[rw |-> "read", off |-> s[1], len |-> s[2], data |-> <<>>] : s \in Shapes \cup Pages}
    \cup UNION {{[rw |-> "write", off |-> s[1], len |-> s[2], data |-> Data(n, s[2])] :
                    s \in Shapes \cup Pages} : n \in 1 .. MaxCalls}

NoRequest == [rw |-> "none"]

NoAnswer == [to |-> 0, ok |-> FALSE, moved |-> 0, got |-> <<>>]

(* A thread between two calls: the segment of its last uio and the one its    *)
(* caller had put there.                                                      *)
Idle(seg, was) ==
    [pc |-> "idle", ask |-> NoRequest, off |-> 0, resid |-> 0, seg |-> seg,
     was |-> was, buf |-> <<>>, slot |-> 0, err |-> "0"]

Fresh == Idle("user", "user")

-----------------------------------------------------------------------------
(* The layout of the aperture *)

guarded_media_end == MEDIA + MAX_TRANSFER

media_prefix_length(offset, requested) ==
    IF offset >= MEDIA THEN 0
    ELSE IF MEDIA - offset < requested THEN MEDIA - offset ELSE requested

guard_tail_offset(offset) == IF offset <= MEDIA THEN 0 ELSE offset - MEDIA

(* Mutant: the segment is left as it was.                                   *)
physical_user_segment_same(segment) == segment

physical_user_segment(segment) ==
    CASE segment = "user64" -> "phys64"
      [] segment = "user32" -> "phys32"
      [] OTHER -> "phys"

(* What a transfer of length blocks from an offset finds.                   *)
Stored(offset, length) ==
    LET media == media_prefix_length(offset, length) IN
    [i \in 1 .. length |->
        IF i <= media THEN disk[offset + i - 1]
        ELSE guard[guard_tail_offset(offset) + i - media - 1]]

(* The medium and the guard with the first n blocks of s in place.          *)
DiskWith(offset, s, n) ==
    LET media == media_prefix_length(offset, n) IN
    [a \in 0 .. MEDIA - 1 |->
        IF a >= offset /\ a < offset + media THEN s[a - offset + 1] ELSE disk[a]]

GuardWith(offset, s, n) ==
    LET media == media_prefix_length(offset, n)
        start == guard_tail_offset(offset)
    IN [g \in 0 .. MAX_TRANSFER - 1 |->
            IF g >= start /\ g < start + n - media THEN s[media + g - start + 1]
            ELSE guard[g]]

-----------------------------------------------------------------------------
(* The continuations *)

find_pending(t) == {s \in Slots : pending[s].active /\ pending[s].sp = t}

(* Mutant: the slots of other threads are not looked at.                    *)
allocate_pending_first(t) == {1}

allocate_pending(t) ==
    LET free == {s \in Slots : ~pending[s].active}
    IN {s \in free : \A r \in free : s <= r}

(* Mutant: the caller's segment is not put back.                            *)
restore_pending_segment_not(th, p) == th

restore_pending_segment(th, p) == [th EXCEPT !.seg = p.seg]

(* The call of a thread returns: the error number, what its uio says has      *)
(* moved, and what a read has put into the user's buffer.                     *)
Returns(t, th, err) ==
    /\ thr' = [thr EXCEPT ![t] = Idle(th.seg, th.was)]
    /\ answer' = [to |-> t, ok |-> err = "0", moved |-> th.ask.len - th.resid,
                  got |-> IF th.ask.rw = "read" THEN th.buf ELSE <<>>]

Moved(th) == [th EXCEPT !.off = th.off + th.resid, !.resid = 0]

CanFail == budget.faults < MaxFaults
Fault == budget' = [budget EXCEPT !.faults = @ + 1]

-----------------------------------------------------------------------------
(* The guest *)

(* A thread prepares a request and calls the raw device, or the strategy for *)
(* a page of the medium.  What is idle has no state the code could tell       *)
(* apart, so the idle thread with the least number is the one that calls.    *)
GuestCalls(t) ==
    /\ machine = "runs" /\ thr[t].pc = "idle"
    /\ \A u \in 1 .. t - 1 : thr[u].pc # "idle"
    /\ budget.calls < MaxCalls
    /\ budget' = [budget EXCEPT !.calls = @ + 1]
    /\ \E rw \in {"read", "write"}, seg \in Segments, door \in {"raw", "strategy"} :
       \E s \in IF door = "raw" THEN Shapes ELSE Pages :
           LET data == IF rw = "write" THEN Data(budget.calls + 1, s[2]) ELSE <<>>
           IN thr' = [thr EXCEPT ![t] =
                [pc |-> door, off |-> s[1], resid |-> s[2], seg |-> seg, was |-> seg,
                 ask |-> [rw |-> rw, off |-> s[1], len |-> s[2], data |-> data],
                 buf |-> data, slot |-> 0, err |-> "0"]]
    /\ UNCHANGED <<disk, guard, pending, bounce, answer, machine>>

(* The guest's uiomove moves the next block between the user's buffer, whose *)
(* page it brings in, and the bounce buffer it was given.                    *)
UioMove(t) ==
    LET th == thr[t]
        i == th.ask.len - th.resid + 1
    IN /\ machine = "runs" /\ th.pc = "uiomove" /\ th.resid > 0 /\ th.err = "0"
       /\ \/ /\ th.ask.rw = "read"
             /\ thr' = [thr EXCEPT ![t] =
                    [th EXCEPT !.buf = Append(@, bounce[th.slot][i]),
                               !.off = @ + 1, !.resid = @ - 1]]
             /\ UNCHANGED bounce
          \/ /\ th.ask.rw = "write"
             /\ bounce' = [bounce EXCEPT ![th.slot][i] = th.buf[i]]
             /\ thr' = [thr EXCEPT ![t] = [th EXCEPT !.off = @ + 1, !.resid = @ - 1]]
       /\ UNCHANGED <<disk, guard, pending, answer, machine, budget>>

(* It returns to the completion call: the whole moved, or EFAULT before its  *)
(* end.                                                                      *)
UioReturns(t) ==
    LET th == thr[t]
    IN /\ machine = "runs" /\ th.pc = "uiomove"
       /\ thr' = [thr EXCEPT ![t] =
            [th EXCEPT !.pc = "completion", !.err = IF th.resid = 0 THEN "0" ELSE "EFAULT"]]
       /\ UNCHANGED <<disk, guard, pending, bounce, answer, machine, budget>>

-----------------------------------------------------------------------------
(* The entry call *)

(* How md_raw_bridge_handle_svc decides, for a buffer that is resident, that *)
(* faults, or that is no user memory.                                        *)
Decision(t, place) ==
    LET th == thr[t] IN
    IF find_pending(t) # {} THEN "EBUSY"
    ELSE IF th.resid = 0 THEN "0"
    ELSE IF \/ th.resid > MAX_TRANSFER
            \/ th.off > guarded_media_end
            \/ th.resid > guarded_media_end - th.off THEN "EINVAL"
    ELSE IF place = "invalid" THEN "EFAULT"
    ELSE IF place = "resident" THEN "direct"
    ELSE IF allocate_pending(t) = {} THEN "EBUSY"
    ELSE "redirect"

(* The request is answered without a transfer.                              *)
Answer(t, place) ==
    /\ Decision(t, place) \in {"0", "EBUSY", "EINVAL", "EFAULT"}
    /\ Returns(t, thr[t], Decision(t, place))
    /\ UNCHANGED <<disk, guard, pending, bounce, machine, budget>>

DirectTransfer(t) ==
    LET th == thr[t] IN
    /\ Decision(t, "resident") = "direct"
    /\ \/ /\ th.ask.rw = "read"
          /\ Returns(t, [Moved(th) EXCEPT !.buf = Stored(th.off, th.resid)], "0")
          /\ UNCHANGED <<disk, guard>>
       \/ /\ th.ask.rw = "write"
          /\ disk' = DiskWith(th.off, th.buf, th.resid)
          /\ guard' = GuardWith(th.off, th.buf, th.resid)
          /\ Returns(t, Moved(th), "0")
    /\ UNCHANGED <<pending, bounce, machine, budget>>

(* A request whose pages fault gets a slot.  A read fills the bounce buffer   *)
(* here, a write empties it at the completion.                               *)
start_uiomove(t) ==
    LET th == thr[t]
        media == media_prefix_length(th.off, th.resid)
    IN /\ Decision(t, "faulting") = "redirect"
       /\ \E s \in allocate_pending(t) :
            /\ pending' = [pending EXCEPT ![s] =
                    [active |-> TRUE, sp |-> t, rw |-> th.ask.rw, seg |-> th.seg,
                     phys |-> physical_user_segment(th.seg), off |-> th.off,
                     resid |-> th.resid, media |-> media]]
            /\ bounce' = [bounce EXCEPT ![s] =
                    IF th.ask.rw = "read" THEN Stored(th.off, th.resid)
                    ELSE [i \in 1 .. th.resid |-> Zero]]
            /\ thr' = [thr EXCEPT ![t] =
                    [th EXCEPT !.pc = "uiomove", !.slot = s,
                               !.seg = physical_user_segment(th.seg)]]
       /\ UNCHANGED <<disk, guard, answer, machine, budget>>

(* The medium fails under the transfer of an entry call: bridge_fail stops    *)
(* the machine.  A write may be in place up to any block.                     *)
EntryFails(t, place) ==
    LET th == thr[t]
        media == media_prefix_length(th.off, th.resid)
    IN /\ CanFail /\ media > 0
       /\ \/ Decision(t, place) = "direct"
          \/ Decision(t, place) = "redirect" /\ th.ask.rw = "read"
       /\ machine' = "io"
       /\ \E n \in 0 .. media :
            disk' = IF th.ask.rw = "write" THEN DiskWith(th.off, th.buf, n) ELSE disk
       /\ Fault
       /\ UNCHANGED <<guard, pending, bounce, thr, answer>>

md_raw_bridge_handle_svc(t) ==
    /\ machine = "runs" /\ thr[t].pc = "raw"
    /\ \/ DirectTransfer(t)
       \/ start_uiomove(t)
       \/ \E place \in {"resident", "faulting", "invalid"} : Answer(t, place)
       \/ \E place \in {"resident", "faulting"} : EntryFails(t, place)

-----------------------------------------------------------------------------
(* The completion call *)

(* What the completion finds wrong with its uio and its slot.               *)
Complaint(t, s) ==
    LET th == thr[t]
        p == pending[s]
        done == p.resid - th.resid
    IN \/ th.err \notin {"0", "EFAULT"}
       \/ th.seg # p.phys
       \/ th.ask.rw # p.rw
       \/ th.resid > p.resid
       \/ th.off # p.off + done
       \/ th.err = "0" /\ done # p.resid
       \/ th.err # "0" /\ done = p.resid

(* Mutant: a failed uiomove keeps its slot.                                 *)
FreedOnSuccess(t, s) ==
    IF thr[t].err = "0" THEN [pending EXCEPT ![s] = Free] ELSE pending

Freed(t, s) == [pending EXCEPT ![s] = Free]

(* The segment is restored, a write goes out of the bounce buffer as far as  *)
(* uiomove came, the slot is given back and the call returns.                *)
Complete(t) ==
    \E s \in find_pending(t) :
        LET p == pending[s]
            done == p.resid - thr[t].resid
        IN /\ ~Complaint(t, s)
           /\ Returns(t, restore_pending_segment(thr[t], p), thr[t].err)
           /\ disk' = IF p.rw = "write" THEN DiskWith(p.off, bounce[s], done) ELSE disk
           /\ guard' = IF p.rw = "write" THEN GuardWith(p.off, bounce[s], done) ELSE guard
           /\ pending' = Freed(t, s)
           /\ bounce' = [bounce EXCEPT ![s] = <<>>]
           /\ UNCHANGED <<machine, budget>>

(* Why a completion stops the machine: there is no continuation of this       *)
(* thread, the uio is not what uiomove leaves, or the medium fails.           *)
Reasons(t) ==
    IF find_pending(t) = {} THEN {"stale"}
    ELSE IF \E s \in find_pending(t) : Complaint(t, s) THEN {"malformed"}
    ELSE IF /\ CanFail
            /\ \E s \in find_pending(t) :
                /\ pending[s].rw = "write"
                /\ media_prefix_length(pending[s].off, pending[s].resid - thr[t].resid) > 0
         THEN {"io"} ELSE {}

CompletionFails(t) ==
    LET mine == find_pending(t) IN
    /\ machine' \in Reasons(t)
    /\ thr' = [thr EXCEPT ![t] =
            IF mine = {} THEN @
            ELSE restore_pending_segment(@, pending[CHOOSE s \in mine : TRUE])]
    /\ disk' \in IF machine' # "io" THEN {disk}
                 ELSE {DiskWith(pending[s].off, bounce[s], n) :
                        s \in mine, n \in 0 .. thr[t].ask.len - thr[t].resid}
    /\ pending' = [s \in Slots |-> IF s \in mine THEN Free ELSE pending[s]]
    /\ budget' = [budget EXCEPT !.faults = IF machine' = "io" THEN @ + 1 ELSE @]
    /\ UNCHANGED <<guard, bounce, answer>>

handle_completion(t) ==
    /\ machine = "runs" /\ thr[t].pc = "completion"
    /\ Complete(t) \/ CompletionFails(t)

-----------------------------------------------------------------------------
(* The strategy bridge: one page of the medium and a resident page of RAM *)

md_bridge_handle_svc(t) ==
    LET th == thr[t] IN
    /\ machine = "runs" /\ th.pc = "strategy"
    /\ \/ /\ th.ask.rw = "read"
          /\ Returns(t, [Moved(th) EXCEPT !.buf = Stored(th.off, th.resid)], "0")
          /\ UNCHANGED <<disk, machine, budget>>
       \/ /\ th.ask.rw = "write"
          /\ disk' = DiskWith(th.off, th.buf, th.resid)
          /\ Returns(t, Moved(th), "0")
          /\ UNCHANGED <<machine, budget>>
       \/ /\ CanFail
          /\ machine' = "io" /\ Fault
          /\ \E n \in {0, th.resid} :
                disk' = IF th.ask.rw = "write" THEN DiskWith(th.off, th.buf, n) ELSE disk
          /\ UNCHANGED <<thr, answer>>
    /\ UNCHANGED <<guard, pending, bounce>>

-----------------------------------------------------------------------------
(* Checkpoints and reboots *)

(* Mutant: a checkpoint does not ask for the slots.                         *)
NoContinuationAsked == TRUE

NoContinuation == \A s \in Slots : ~pending[s].active

(* A checkpoint is saved and restored into a new process.  The state file    *)
(* has the RAM, the sidecar the guard; the continuations are not kept.       *)
Checkpoint ==
    /\ machine = "runs" /\ NoContinuation
    /\ CanFail /\ Fault
    /\ pending' = [s \in Slots |-> Free]
    /\ UNCHANGED <<disk, guard, bounce, thr, answer, machine>>

(* The guest's watchdog resets the machine, or the owner starts it again     *)
(* after it stopped: a cold boot with new bridges.                           *)
Reboot ==
    /\ CanFail \/ machine # "runs"
    /\ budget' = [budget EXCEPT !.faults = IF machine = "runs" THEN @ + 1 ELSE @]
    /\ machine' = "runs"
    /\ guard' = [g \in 0 .. MAX_TRANSFER - 1 |-> Zero]
    /\ pending' = [s \in Slots |-> Free]
    /\ bounce' = [s \in Slots |-> <<>>]
    /\ thr' = [t \in Threads |-> Fresh]
    /\ answer' = NoAnswer
    /\ UNCHANGED disk

-----------------------------------------------------------------------------
Init ==
    /\ disk = [a \in 0 .. MEDIA - 1 |-> Zero]
    /\ guard = [g \in 0 .. MAX_TRANSFER - 1 |-> Zero]
    /\ pending = [s \in Slots |-> Free]
    /\ bounce = [s \in Slots |-> <<>>]
    /\ thr = [t \in Threads |-> Fresh]
    /\ answer = NoAnswer
    /\ machine = "runs"
    /\ budget = [calls |-> 0, faults |-> 0]

ThreadStep(t) ==
    \/ md_raw_bridge_handle_svc(t)
    \/ handle_completion(t)
    \/ md_bridge_handle_svc(t)
    \/ UioMove(t)
    \/ UioReturns(t)

Next ==
    \/ \E t \in Threads : GuestCalls(t) \/ ThreadStep(t)
    \/ Checkpoint
    \/ Reboot

Spec == Init /\ [][Next]_vars

-----------------------------------------------------------------------------
(* Properties *)

Blocks == {Zero} \cup ((1 .. MaxCalls) \X (1 .. MAX_TRANSFER))

(* Every variable has its type: a continuation lies in the aperture, and its *)
(* two segments are a user's and a physical one.                             *)
TypeOK ==
    /\ disk \in [0 .. MEDIA - 1 -> Blocks]
    /\ guard \in [0 .. MAX_TRANSFER - 1 -> Blocks]
    /\ DOMAIN pending = Slots
    /\ \A s \in Slots :
        pending[s] = Free \/
        /\ pending[s].active = TRUE /\ pending[s].sp \in Threads
        /\ pending[s].rw \in {"read", "write"}
        /\ pending[s].seg \in Segments /\ pending[s].phys \in {"phys", "phys32", "phys64"}
        /\ pending[s].off + pending[s].resid <= MEDIA + MAX_TRANSFER
        /\ pending[s].resid \in 1 .. MAX_TRANSFER /\ pending[s].media \in 0 .. pending[s].resid
    /\ \A s \in Slots : bounce[s] \in UNION {[1 .. n -> Blocks] : n \in 0 .. MAX_TRANSFER}
    /\ DOMAIN thr = Threads
    /\ \A t \in Threads :
        /\ thr[t].pc \in {"idle", "raw", "strategy", "uiomove", "completion"}
        /\ thr[t].slot \in 0 .. SLOTS
        /\ thr[t].err \in {"0", "EFAULT"}
    /\ answer.ok \in BOOLEAN /\ answer.moved \in 0 .. MAX_TRANSFER
    /\ machine \in {"runs", "io", "stale", "malformed"}
    /\ budget \in [calls : 0 .. MaxCalls, faults : 0 .. MaxFaults]

(* While the machine runs, an active slot belongs to exactly the thread that *)
(* is inside the uiomove it started, which works in the bounce buffer of     *)
(* that slot and has a physical segment; every other thread has the segment  *)
(* its caller gave it.                                                       *)
SlotsAreOwned ==
    machine = "runs" =>
        /\ \A s \in Slots : pending[s].active =>
            {t \in Threads : thr[t].pc \in {"uiomove", "completion"} /\ thr[t].slot = s}
                = {pending[s].sp}
        /\ \A t \in Threads :
            IF thr[t].pc \in {"uiomove", "completion"}
            THEN \E s \in find_pending(t) :
                    thr[t].slot = s /\ thr[t].seg = pending[s].phys
                    /\ thr[t].was = pending[s].seg
            ELSE thr[t].seg = thr[t].was /\ find_pending(t) = {}

(* Only a failing medium stops the machine: whatever the threads interleave, *)
(* and across checkpoints and reboots, no completion is stale or malformed.  *)
OnlyTheMediumStops == machine \in {"runs", "io"}

(* The continuations are sound: each belongs to the thread that will complete *)
(* it, so that no completion is refused.                                      *)
BridgeSound == TypeOK /\ SlotsAreOwned /\ OnlyTheMediumStops

(* The bridges implement the memory disk of MemoryDisk: every request takes  *)
(* effect at one instant, moves what its uio says it moved, and mixes with   *)
(* no other request, on the medium and in the guard.                         *)
Disk == INSTANCE MemoryDisk WITH
    store <- [a \in 0 .. MEDIA + MAX_TRANSFER - 1 |->
                IF a < MEDIA THEN disk[a] ELSE guard[a - MEDIA]],
    req <- [t \in Threads |-> thr[t].ask],
    seen <- [t \in Threads |->
                IF thr[t].pc \in {"uiomove", "completion"} /\ thr[t].ask.rw = "read"
                THEN bounce[thr[t].slot] ELSE <<>>],
    ans <- answer,
    up <- machine = "runs"

ImplementsDisk == Disk!Spec

=============================================================================
