----------------------------- MODULE AudioFifo -----------------------------
(***************************************************************************)
(* What one direction of the audio hand-off (app/Sources/VMAudioBuffer.c)  *)
(* promises its two threads: a bounded first-in first-out queue of stereo  *)
(* frames.  A frame is kept whole from the moment it is put until it is    *)
(* taken, the queue never holds more than Capacity frames, and only the    *)
(* consumer makes it shorter, by taking the oldest frame or by dropping    *)
(* the frames it has seen waiting.                                         *)
(***************************************************************************)
EXTENDS Naturals, Sequences

CONSTANTS Sample,     \* what a frame can hold
          Silence,    \* what the consumer gets when there is no frame
          Capacity

VARIABLES items,      \* the frames waiting, oldest first
          got         \* the frame the consumer was given last

vars == <<items, got>>

Init == items = <<>> /\ got = Silence

Put(x) ==
    /\ Len(items) < Capacity
    /\ items' = Append(items, x)
    /\ UNCHANGED got

Get ==
    /\ items # <<>>
    /\ got' = Head(items)
    /\ items' = Tail(items)

GetNothing ==
    /\ items = <<>>
    /\ got' = Silence
    /\ UNCHANGED items

Drop ==
    /\ \E k \in 1..Len(items) : items' = SubSeq(items, k + 1, Len(items))
    /\ UNCHANGED got

\* The consumer is done with the frame it was given.
Consume ==
    /\ got' = Silence
    /\ UNCHANGED items

Next == (\E x \in Sample : Put(x)) \/ Get \/ GetNothing \/ Drop \/ Consume

Spec == Init /\ [][Next]_vars
=============================================================================
