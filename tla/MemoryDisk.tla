----------------------------- MODULE MemoryDisk -----------------------------
(* What the memory disk promises to the threads of the guest's kernel: one  *)
(* store (the medium and, behind it, a volatile guard region as large as    *)
(* the largest transfer), on which every request takes effect at one        *)
(* instant between the call and its return.  A request may fail behind any  *)
(* prefix, and then says how long the prefix was.                           *)
EXTENDS Integers, Sequences

CONSTANTS
    Threads,        \* the kernel threads that call the disk
    MEDIA,          \* blocks of the medium
    MAX_TRANSFER,   \* blocks of the largest transfer, and of the guard
    Zero,           \* the contents of a cleared block
    Requests        \* what may be asked: [rw, off, len, data]

VARIABLES
    store,  \* the contents, block by block
    req,    \* the request of a thread, NoRequest between its calls
    seen,   \* what the pending read of a thread has looked at, if it has
    ans,    \* the last answer
    up      \* the machine runs

vars == <<store, req, seen, ans, up>>

NoRequest == [rw |-> "none"]
NoAnswer == [to |-> 0, ok |-> FALSE, moved |-> 0, got |-> <<>>]
Unseen == <<>>

Addresses == 0 .. MEDIA + MAX_TRANSFER - 1

Fits(r) == r.len <= MAX_TRANSFER /\ r.off + r.len <= MEDIA + MAX_TRANSFER

Contents(r) == [i \in 1 .. r.len |-> store[r.off + i - 1]]

(* The store with the first n blocks of a write in place.                   *)
Written(r, n) ==
    [a \in Addresses |->
        IF a >= r.off /\ a < r.off + n THEN r.data[a - r.off + 1] ELSE store[a]]

Init ==
    /\ store \in [Addresses -> {Zero}]
    /\ req = [t \in Threads |-> NoRequest]
    /\ seen = [t \in Threads |-> Unseen]
    /\ ans = NoAnswer
    /\ up = TRUE

Ask(t, r) ==
    /\ up /\ req[t] = NoRequest
    /\ req' = [req EXCEPT ![t] = r]
    /\ UNCHANGED <<store, seen, ans, up>>

Return(t, moved, got) ==
    /\ ans' = [to |-> t, ok |-> moved = req[t].len, moved |-> moved, got |-> got]
    /\ req' = [req EXCEPT ![t] = NoRequest]
    /\ seen' = [seen EXCEPT ![t] = Unseen]
    /\ up /\ up' = up

Refuse(t) ==
    /\ req[t] # NoRequest /\ seen[t] = Unseen
    /\ ans' = [to |-> t, ok |-> FALSE, moved |-> 0, got |-> <<>>]
    /\ req' = [req EXCEPT ![t] = NoRequest]
    /\ up
    /\ UNCHANGED <<store, seen, up>>

Read(t) ==
    /\ req[t].rw = "read" /\ seen[t] = Unseen
    /\ req[t].len = 0 \/ Fits(req[t])
    /\ Return(t, req[t].len, Contents(req[t]))
    /\ UNCHANGED store

Look(t) ==
    /\ up /\ req[t].rw = "read" /\ seen[t] = Unseen /\ Fits(req[t])
    /\ seen' = [seen EXCEPT ![t] = Contents(req[t])]
    /\ UNCHANGED <<store, req, ans, up>>

Deliver(t, n) ==
    /\ req[t].rw = "read" /\ seen[t] # Unseen /\ n <= req[t].len
    /\ Return(t, n, SubSeq(seen[t], 1, n))
    /\ UNCHANGED store

Write(t, n) ==
    /\ req[t].rw = "write" /\ n <= req[t].len
    /\ n = 0 \/ Fits(req[t])
    /\ store' = Written(req[t], n)
    /\ Return(t, n, <<>>)

(* A failing medium stops the machine and may tear the write that met it.   *)
Halt(t, n) ==
    /\ up /\ up' = FALSE
    /\ req[t] # NoRequest
    /\ store' = IF req[t].rw = "write" /\ n <= req[t].len
                THEN Written(req[t], n) ELSE store
    /\ UNCHANGED <<req, seen, ans>>

Reboot ==
    /\ store' = [a \in Addresses |-> IF a < MEDIA THEN store[a] ELSE Zero]
    /\ req' = [t \in Threads |-> NoRequest]
    /\ seen' = [t \in Threads |-> Unseen]
    /\ ans' = NoAnswer
    /\ up' = TRUE

Next ==
    \/ \E t \in Threads :
        \/ Refuse(t) \/ Read(t) \/ Look(t)
        \/ \E n \in 0 .. MAX_TRANSFER : Deliver(t, n) \/ Write(t, n) \/ Halt(t, n)
        \/ \E r \in Requests : Ask(t, r)
    \/ Reboot

Spec == Init /\ [][Next]_vars

=============================================================================
