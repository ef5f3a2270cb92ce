----------------------------- MODULE TouchQueue -----------------------------
(* The bounded queue between the finger on the screen and the emulated touch *)
(* controller (app/Sources/VMTouchQueue.c).  A report is its phase: "make"   *)
(* (the finger lands), "move" or "break" (it lifts); positions, pressure and *)
(* the accounting counters are left out.  The ring with its head and count   *)
(* is a sequence whose first element is the oldest report.                   *)
EXTENDS Integers, Sequences, FiniteSets, SequencesExt

CONSTANT VM_TOUCH_QUEUE_CAP

ASSUME TouchCapAssumption == VM_TOUCH_QUEUE_CAP \in Nat \ {0, 1}

TouchPhase == {"make", "move", "break"}

IsMove(phase) == phase = "move"

Moves(q) == {i \in DOMAIN q : IsMove(q[i])}

(* Empty slots and evictable moves: the places a later release may take.     *)
ReleaseSpace(q) ==
    VM_TOUCH_QUEUE_CAP - Len(q) + Cardinality(Moves(q))

(* Mutant: a press may take the last place.                                  *)
RefusesPressNever(q, phase) == FALSE

(* A new press is refused when it would take the last place its own release  *)
(* could go to.                                                              *)
RefusesPress(q, phase) ==
    /\ phase = "make"
    /\ Len(q) >= VM_TOUCH_QUEUE_CAP - 1
    /\ ReleaseSpace(q) <= 1

Newest(S) == CHOOSE i \in S : \A j \in S : j <= i

(* Mutant: a full queue makes room by forgetting its oldest report, whatever *)
(* it is.                                                                    *)
EvictsOldest(q, phase) == Append(Tail(q), phase)

(* Mutant: the edge goes to the back and nothing is displaced.               *)
EvictsNone(q, phase) == Append(q, phase)

(* An edge displaces the newest queued move and goes to the back.            *)
Evicts(q, phase) == Append(RemoveAt(q, Newest(Moves(q))), phase)

(* vm_touch_queue_push: the queue after the call and whether the report was  *)
(* taken.                                                                    *)
vm_touch_queue_push(q, phase) ==
    LET refused == [queue |-> q, taken |-> FALSE]
        Takes(s) == [queue |-> s, taken |-> TRUE]
    IN  CASE RefusesPress(q, phase) -> refused
          [] ~RefusesPress(q, phase) /\ Len(q) < VM_TOUCH_QUEUE_CAP ->
                Takes(Append(q, phase))
          [] Len(q) = VM_TOUCH_QUEUE_CAP /\ IsMove(phase) ->
                IF IsMove(Last(q)) THEN Takes(q) ELSE refused
          [] OTHER -> IF Moves(q) # {} THEN Takes(Evicts(q, phase)) ELSE refused
=============================================================================
