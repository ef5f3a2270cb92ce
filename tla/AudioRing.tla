------------------------------ MODULE AudioRing ------------------------------
(***************************************************************************)
(* The constants of app/Sources/VMAudioBuffer.h that both queues share.    *)
(***************************************************************************)
EXTENDS Integers, Sequences, FiniteSets

CONSTANTS VM_AUDIO_FRAMES,  \* frames in a ring; 4096 in the code
          INDEX,            \* values of an index; 2^32 in the code
          MaxEpoch          \* bound: the epochs a behaviour may go through

\* The ring's length divides the number of index values, so that index % ring
\* is continuous when the index wraps, and a full ring differs from an empty one.
ASSUME RingAssumption ==
    /\ VM_AUDIO_FRAMES \in Nat \ {0}
    /\ INDEX \in Nat
    /\ INDEX > VM_AUDIO_FRAMES
    /\ INDEX % VM_AUDIO_FRAMES = 0

ASSUME EpochAssumption == MaxEpoch \in Nat

\* The value of a frame is the epoch its oldest ingredient was recorded in:
\* that is all the properties tell apart.  Silence is the zero frame.
Silence == -1

Sample == {Silence} \cup 0..MaxEpoch
=============================================================================
