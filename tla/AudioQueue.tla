----------------------------- MODULE AudioQueue -----------------------------
(***************************************************************************)
(* The lock-free queue of app/Sources/VMAudioBuffer.c: one producer        *)
(* thread, one consumer thread, two free-running 32-bit indices and a ring *)
(* of VM_AUDIO_FRAMES frames.  put, get and discard are two steps each: the *)
(* load of the other thread's index with the access to the ring, and the   *)
(* store of the thread's own index.  The other thread may run in between.  *)
(*                                                                         *)
(* The module is used twice by AudioBuffer, for the playback queue and for *)
(* the microphone queue.                                                   *)
(***************************************************************************)
EXTENDS AudioRing

VARIABLES queue,   \* [read, write, samples]: vm_audio_queue_t
          put,     \* where the producer is inside put
          get      \* the consumer inside get or discard: [pc, copy, w, x]

qvars == <<queue, put, get>>

Ring == 0..(VM_AUDIO_FRAMES - 1)

Index == 0..(INDEX - 1)

\* w - r in uint32_t arithmetic
Used == (queue.write - queue.read) % INDEX

QInit ==
    /\ queue = [read |-> 0, write |-> 0, samples |-> [i \in Ring |-> Silence]]
    /\ put = "idle"
    /\ get = [pc |-> "idle", copy |-> Silence, w |-> 0, x |-> Silence]

QTypeOK ==
    /\ queue \in [read : Index, write : Index, samples : [Ring -> Sample]]
    /\ put \in {"idle", "publish"}
    /\ get \in [pc : {"idle", "publish", "discard"}, copy : Sample, w : Index, x : Sample]

-----------------------------------------------------------------------------
\* The mutants of put and get: a full ring is not noticed; an empty one is not.
PutOverwrites(x) ==
    /\ put = "idle"
    /\ queue' = [queue EXCEPT !.samples[queue.write % VM_AUDIO_FRAMES] = x]
    /\ put' = "publish"
    /\ UNCHANGED get

GetUnchecked ==
    /\ get.pc = "idle"
    /\ get' = [get EXCEPT !.pc = "publish", !.copy = queue.samples[queue.read % VM_AUDIO_FRAMES]]
    /\ UNCHANGED <<queue, put>>

\* put: the load of read decides whether the frame is dropped; the slot is
\* filled before the store of write publishes it.
PutBegin(x) ==
    /\ put = "idle"
    /\ IF Used >= VM_AUDIO_FRAMES
       THEN UNCHANGED <<queue, put>>
       ELSE /\ queue' = [queue EXCEPT !.samples[queue.write % VM_AUDIO_FRAMES] = x]
            /\ put' = "publish"
    /\ UNCHANGED get

PutPublish ==
    /\ put = "publish"
    /\ queue' = [queue EXCEPT !.write = (@ + 1) % INDEX]
    /\ put' = "idle"
    /\ UNCHANGED get

\* get: the load of write decides whether there is a frame; it is copied out
\* before the store of read gives the slot back to the producer.
GetBegin ==
    /\ get.pc = "idle"
    /\ get' = IF queue.write = queue.read
              THEN [get EXCEPT !.x = Silence]
              ELSE [get EXCEPT !.pc = "publish", !.copy = queue.samples[queue.read % VM_AUDIO_FRAMES]]
    /\ UNCHANGED <<queue, put>>

GetPublish ==
    /\ get.pc = "publish"
    /\ queue' = [queue EXCEPT !.read = (@ + 1) % INDEX]
    /\ get' = [get EXCEPT !.pc = "idle", !.copy = Silence, !.x = get.copy]
    /\ UNCHANGED put

\* discard: the frames the consumer has seen are dropped; a frame published
\* between the load of write and the store of read stays.
DiscardBegin ==
    /\ get.pc = "idle"
    /\ get' = [get EXCEPT !.pc = "discard", !.w = queue.write]
    /\ UNCHANGED <<queue, put>>

DiscardStore ==
    /\ get.pc = "discard"
    /\ queue' = [queue EXCEPT !.read = get.w]
    /\ get' = [get EXCEPT !.pc = "idle", !.w = 0]
    /\ UNCHANGED put

\* The caller has used the frame.
GetUsed ==
    /\ get.pc = "idle"
    /\ get' = [get EXCEPT !.x = Silence]
    /\ UNCHANGED <<queue, put>>

GetStep == GetPublish \/ DiscardStore

QNext ==
    \/ \E x \in Sample : PutBegin(x)
    \/ PutPublish
    \/ GetBegin
    \/ DiscardBegin
    \/ GetUsed
    \/ GetStep

QSpec == QInit /\ [][QNext]_qvars

-----------------------------------------------------------------------------
\* The frames between the two indices, oldest first.
Items == [i \in 1..Used |-> queue.samples[((queue.read + i - 1) % INDEX) % VM_AUDIO_FRAMES]]

Fifo == INSTANCE AudioFifo WITH
            items <- Items, got <- get.x, Capacity <- VM_AUDIO_FRAMES

\* The two threads implement the queue of AudioFifo: no interleaving of put,
\* get and discard loses a frame, plays one twice, or lets the producer write
\* the slot the consumer is copying.
ImplementsFifo == Fifo!Spec
=============================================================================
