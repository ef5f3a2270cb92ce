-------------------------- MODULE GuestInputProof --------------------------
(* Proofs about the input queues, for every size of the two queues, every    *)
(* length of the drag and every set of momentary keys.                       *)
EXTENDS GuestInput, FiniteSetTheorems, SequenceTheorems, TLAPS

-----------------------------------------------------------------------------
(* THE QUEUE OF REPORTS.                                                     *)

TouchQ == {q \in Seq(TouchPhase) : Len(q) <= VM_TOUCH_QUEUE_CAP}

(* LiftHasRoom, of any queue.                                                *)
Lifts(q) == q # <<>> /\ Last(q) # "break" => ReleaseSpace(q) >= 1

(* A set of numbers up to n that is not empty has a greatest element.        *)
LEMMA Greatest ==
  ASSUME NEW n \in Nat, NEW S, S \subseteq 1 .. n, S # {}
  PROVE  Newest(S) \in S /\ \A j \in S : j <= Newest(S)
<1>. DEFINE R == OpToRel(<, Nat)
            T == {n - i : i \in S}
<1>1. \A j, m \in Nat : j < m => <<j, m>> \in R
  BY DEF OpToRel
<1>2. IsWellFoundedOn(R, Nat)
  BY NatLessThanWellFounded, Zenon
<1>3. T \subseteq Nat /\ T # {}
  <2>1. \A i \in S : i \in 1 .. n
    OBVIOUS
  <2>2. \A i \in S : n - i \in Nat
    BY <2>1
  <2>. QED BY <2>2, Zenon
<1>. HIDE DEF R
<1>4. PICK m \in T : \A j \in T : ~(<<j, m>> \in R)
  BY <1>2, <1>3, WFMin, Zenon
<1>5. PICK i \in S : m = n - i
  OBVIOUS
<1>6. \A j \in S : j <= i
  <2>1. ASSUME NEW j \in S PROVE j <= i
    <3>1. n - j \in T /\ n - j \in Nat /\ m \in Nat
      BY <1>3
    <3>2. ~(n - j < m)
      BY <3>1, <1>4, <1>1
    <3>. QED BY <3>1, <3>2, <1>5
  <2>. QED BY <2>1
<1>7. \E k \in S : \A j \in S : j <= k
  BY <1>6
<1>. QED BY <1>7 DEF Newest

(* The moves of a queue are finitely many, at most as many as its reports.   *)
LEMMA MovesFinite ==
  ASSUME NEW q \in Seq(TouchPhase)
  PROVE  /\ Moves(q) \subseteq 1 .. Len(q)
         /\ IsFiniteSet(Moves(q))
         /\ Cardinality(Moves(q)) \in Nat
         /\ Moves(q) = {} <=> Cardinality(Moves(q)) = 0
<1>1. Moves(q) \subseteq 1 .. Len(q)
  BY DEF Moves
<1>2. Len(q) \in Int /\ 1 \in Int
  OBVIOUS
<1>3. IsFiniteSet(1 .. Len(q))
  BY <1>2, FS_Interval
<1>4. IsFiniteSet(Moves(q))
  BY <1>1, <1>3, FS_Subset
<1>5. Moves(q) = {} <=> Cardinality(Moves(q)) = 0
  BY <1>4, FS_EmptySet
<1>. QED BY <1>1, <1>4, <1>5, FS_CardinalityType

(* A report at the back: a move keeps the room of a lift, an edge takes one. *)
LEMMA AppendSpace ==
  ASSUME NEW q \in Seq(TouchPhase), NEW p \in TouchPhase
  PROVE  /\ Append(q, p) \in Seq(TouchPhase) /\ Append(q, p) # <<>>
         /\ Len(Append(q, p)) = Len(q) + 1 /\ Last(Append(q, p)) = p
         /\ Cardinality(Moves(Append(q, p))) =
              Cardinality(Moves(q)) + (IF IsMove(p) THEN 1 ELSE 0)
<1>1. /\ Append(q, p) \in Seq(TouchPhase) /\ Append(q, p) # <<>>
      /\ Len(Append(q, p)) = Len(q) + 1 /\ Last(Append(q, p)) = p
  BY DEF Last
<1>2. Moves(Append(q, p)) = IF IsMove(p) THEN Moves(q) \cup {Len(q) + 1} ELSE Moves(q)
  BY DEF Moves, IsMove
<1>3. Len(q) + 1 \notin Moves(q)
  BY MovesFinite
<1>4. CASE IsMove(p)
  BY <1>1, <1>2, <1>3, <1>4, MovesFinite, FS_AddElement
<1>5. CASE ~IsMove(p)
  BY <1>1, <1>2, <1>5, MovesFinite
<1>. QED BY <1>4, <1>5

(* The oldest report leaves: no room is lost, and the last one stays last.   *)
LEMMA TailSpace ==
  ASSUME NEW q \in Seq(TouchPhase), q # <<>>
  PROVE  /\ Tail(q) \in Seq(TouchPhase) /\ Len(Tail(q)) = Len(q) - 1
         /\ Tail(q) # <<>> => Last(Tail(q)) = Last(q)
         /\ Tail(q) = <<>> => Last(q) = Head(q)
         /\ Head(q) \in TouchPhase
         /\ Cardinality(Moves(Tail(q))) >= Cardinality(Moves(q)) - 1
<1>1. /\ Tail(q) \in Seq(TouchPhase) /\ Len(Tail(q)) = Len(q) - 1
      /\ \A i \in 1 .. Len(q) - 1 : Tail(q)[i] = q[i + 1]
      /\ Len(q) \in Nat /\ Len(q) >= 1
  OBVIOUS
<1>2. /\ Tail(q) # <<>> => Last(Tail(q)) = Last(q)
      /\ Tail(q) = <<>> => Last(q) = Head(q)
      /\ Head(q) \in TouchPhase
  <2>1. Head(q) = q[1] /\ Head(q) \in TouchPhase
    BY <1>1
  <2>2. Tail(q) = <<>> => Len(q) = 1
    <3>1. \A t \in Seq(TouchPhase) : t = <<>> <=> Len(t) = 0
      BY EmptySeq
    <3>2. Tail(q) = <<>> <=> Len(q) - 1 = 0
      BY <1>1, <3>1, Zenon
    <3>3. Len(q) - 1 = 0 => Len(q) = 1
      <4>1. \A n \in Nat : n - 1 = 0 => n = 1
        OBVIOUS
      <4>. QED BY <1>1, <4>1, Zenon
    <3>. QED BY <3>2, <3>3, Zenon
  <2>3. ASSUME Tail(q) # <<>> PROVE Last(Tail(q)) = Last(q)
    <3>1. Len(Tail(q)) # 0
      BY <1>1, <2>3
    <3>2. Len(q) - 1 \in 1 .. Len(q) - 1
      BY <1>1, <3>1
    <3>. QED BY <1>1, <3>2 DEF Last
  <2>. QED BY <2>1, <2>2, <2>3 DEF Last
<1>. DEFINE A == Moves(q) \ {1}
            B == Moves(Tail(q))
            f == [i \in A |-> i - 1]
<1>3. /\ IsFiniteSet(A) /\ IsFiniteSet(B)
      /\ Cardinality(A) \in Nat /\ Cardinality(A) >= Cardinality(Moves(q)) - 1
  <2>1. IsFiniteSet(Moves(q)) /\ Cardinality(Moves(q)) \in Nat /\ IsFiniteSet(B)
    BY <1>1, MovesFinite
  <2>2. /\ IsFiniteSet(A)
        /\ Cardinality(A) = IF 1 \in Moves(q) THEN Cardinality(Moves(q)) - 1
                            ELSE Cardinality(Moves(q))
    BY <2>1, FS_RemoveElement
  <2>3. Cardinality(A) \in Nat
    BY <2>2, FS_CardinalityType
  <2>. QED BY <2>1, <2>2, <2>3
<1>4. \A i \in A : i \in 2 .. Len(q) /\ i - 1 \in B
  BY <1>1 DEF Moves, IsMove
<1>5. f \in [A -> B]
  BY <1>4
<1>6. \A i, j \in A : f[i] = f[j] => i = j
  BY <1>4
<1>7. f \in Injection(A, B)
  BY <1>5, <1>6 DEF Injection, IsInjective
<1>. HIDE DEF A, B, f
<1>8. Cardinality(A) <= Cardinality(B)
  BY <1>3, <1>7, FS_Injection
<1>9. Cardinality(B) \in Nat /\ Cardinality(Moves(q)) \in Nat
  BY <1>3, MovesFinite, FS_CardinalityType
<1>10. Cardinality(B) >= Cardinality(Moves(q)) - 1
  BY <1>3, <1>8, <1>9
<1>. QED BY <1>1, <1>2, <1>10 DEF B

(* An edge that displaces the newest move.                                   *)
LEMMA EvictsSpace ==
  ASSUME NEW q \in Seq(TouchPhase), NEW p \in TouchPhase, ~IsMove(p), Moves(q) # {}
  PROVE  /\ Evicts(q, p) \in Seq(TouchPhase) /\ Evicts(q, p) # <<>>
         /\ Len(Evicts(q, p)) = Len(q) /\ Last(Evicts(q, p)) = p
         /\ Cardinality(Moves(Evicts(q, p))) = Cardinality(Moves(q)) - 1
<1>. DEFINE n == Newest(Moves(q))
            r == RemoveAt(q, n)
<1>1. n \in Moves(q) /\ (\A j \in Moves(q) : j <= n) /\ n \in 1 .. Len(q)
  BY MovesFinite, Greatest
<1>. HIDE DEF n
<1>2. /\ r \in Seq(TouchPhase) /\ Len(r) = Len(q) - 1
      /\ \A i \in 1 .. Len(q) - 1 : r[i] = IF i < n THEN q[i] ELSE q[i + 1]
  <2>. DEFINE a == SubSeq(q, 1, n - 1)
              b == SubSeq(q, n + 1, Len(q))
  <2>1. a \in Seq(TouchPhase) /\ Len(a) = n - 1 /\ \A i \in 1 .. n - 1 : a[i] = q[i]
    BY <1>1
  <2>2. b \in Seq(TouchPhase) /\ Len(b) = Len(q) - n /\ \A i \in 1 .. Len(q) - n : b[i] = q[n + i]
    BY <1>1
  <2>3. r = a \o b
    BY DEF RemoveAt
  <2>. HIDE DEF a, b
  <2>4. /\ a \o b \in Seq(TouchPhase) /\ Len(a \o b) = Len(q) - 1
        /\ \A i \in 1 .. Len(q) - 1 :
             (a \o b)[i] = IF i <= Len(a) THEN a[i] ELSE b[i - Len(a)]
    <3>1. /\ a \o b \in Seq(TouchPhase) /\ Len(a \o b) = Len(a) + Len(b)
          /\ \A i \in 1 .. Len(a) + Len(b) :
               (a \o b)[i] = IF i <= Len(a) THEN a[i] ELSE b[i - Len(a)]
      BY <2>1, <2>2, ConcatProperties
    <3>2. Len(a) + Len(b) = Len(q) - 1
      BY <2>1, <2>2, <1>1
    <3>. QED BY <3>1, <3>2
  <2>5. \A i \in 1 .. Len(q) - 1 :
             (a \o b)[i] = IF i < n THEN q[i] ELSE q[i + 1]
    <3>. TAKE i \in 1 .. Len(q) - 1
    <3>1. CASE i < n
      <4>1. i \in 1 .. n - 1 /\ i <= Len(a)
        BY <3>1, <2>1, <1>1
      <4>. QED BY <3>1, <4>1, <2>1, <2>4
    <3>2. CASE ~(i < n)
      <4>1. ~(i <= Len(a)) /\ i - Len(a) \in 1 .. Len(q) - n /\ n + (i - Len(a)) = i + 1
        BY <3>2, <2>1, <1>1
      <4>. QED BY <3>2, <4>1, <2>2, <2>4
    <3>. QED BY <3>1, <3>2
  <2>. QED BY <2>3, <2>4, <2>5
<1>. HIDE DEF r
<1>3. Moves(r) = Moves(q) \ {n}
  <2>1. \A i \in 1 .. Len(q) : i > n => ~IsMove(q[i])
    BY <1>1 DEF Moves
  <2>2. \A i \in Moves(r) : i \in Moves(q) /\ i < n
    BY <1>1, <1>2, <2>1 DEF Moves
  <2>3. \A i \in Moves(q) \ {n} : i < n /\ i \in Moves(r)
    BY <1>1, <1>2 DEF Moves
  <2>4. n \notin Moves(r)
    <3>1. ~(n < n)
      BY <1>1
    <3>. QED BY <3>1, <2>2
  <2>. QED BY <2>2, <2>3, <2>4, Zenon
<1>4. Cardinality(Moves(r)) = Cardinality(Moves(q)) - 1
  BY <1>1, <1>3, MovesFinite, FS_RemoveElement
<1>5. Evicts(q, p) = Append(r, p)
  BY DEF Evicts, r, n
<1>6. Len(r) + 1 = Len(q) /\ Cardinality(Moves(r)) \in Nat
  BY <1>2, MovesFinite
<1>. QED BY <1>2, <1>4, <1>5, <1>6, AppendSpace

(* vm_touch_queue_push keeps the room of the lift.  A report that is taken    *)
(* is the last of the queue; a lift is refused only behind another lift.      *)
LEMMA Push ==
  ASSUME NEW q \in TouchQ, Lifts(q), NEW p \in TouchPhase
  PROVE  LET s == vm_touch_queue_push(q, p)
         IN  /\ s.queue \in TouchQ /\ Lifts(s.queue) /\ s.taken \in BOOLEAN
             /\ s.taken => s.queue # <<>> /\ Last(s.queue) = p
             /\ ~s.taken => s.queue = q
             /\ p = "break" /\ ~s.taken => q # <<>> /\ Last(q) = "break"
<1>. DEFINE s == vm_touch_queue_push(q, p)
            no == [queue |-> q, taken |-> FALSE]
<1>1. /\ q \in Seq(TouchPhase) /\ Len(q) \in Nat /\ Len(q) <= VM_TOUCH_QUEUE_CAP
      /\ VM_TOUCH_QUEUE_CAP \in Nat /\ VM_TOUCH_QUEUE_CAP >= 2
      /\ Cardinality(Moves(q)) \in Nat
      /\ Moves(q) = {} <=> Cardinality(Moves(q)) = 0
  BY MovesFinite, TouchCapAssumption DEF TouchQ
<1>2. p = "move" <=> IsMove(p)
  BY DEF IsMove
<1>3. CASE RefusesPress(q, p)
  <2>1. s = no
    BY <1>3 DEF vm_touch_queue_push, RefusesPress, IsMove
  <2>. QED BY <2>1, <1>3, <1>1 DEF RefusesPress
<1>4. CASE ~RefusesPress(q, p) /\ Len(q) < VM_TOUCH_QUEUE_CAP
  <2>1. s = [queue |-> Append(q, p), taken |-> TRUE]
    BY <1>4 DEF vm_touch_queue_push
  <2>2. /\ Append(q, p) \in TouchQ /\ Append(q, p) # <<>> /\ Last(Append(q, p)) = p
        /\ Len(Append(q, p)) = Len(q) + 1
        /\ Cardinality(Moves(Append(q, p))) =
              Cardinality(Moves(q)) + (IF IsMove(p) THEN 1 ELSE 0)
    BY <1>1, <1>4, AppendSpace DEF TouchQ
  <2>3. p # "break" => ReleaseSpace(Append(q, p)) >= 1
    <3>1. CASE p = "make"
      BY <1>1, <1>2, <1>4, <2>2, <3>1 DEF ReleaseSpace, RefusesPress
    <3>2. CASE p = "move"
      BY <1>1, <1>2, <1>4, <2>2, <3>2 DEF ReleaseSpace
    <3>. QED BY <3>1, <3>2 DEF TouchPhase
  <2>4. Lifts(Append(q, p))
    BY <2>2, <2>3 DEF Lifts
  <2>. QED BY <2>1, <2>2, <2>4
<1>5. CASE /\ ~RefusesPress(q, p) /\ Len(q) = VM_TOUCH_QUEUE_CAP /\ IsMove(p)
  <2>1. s = IF IsMove(Last(q)) THEN [queue |-> q, taken |-> TRUE] ELSE no
    BY <1>1, <1>5 DEF vm_touch_queue_push
  <2>2. q # <<>>
    BY <1>1, <1>5
  <2>. QED BY <2>1, <2>2, <1>2, <1>5 DEF IsMove
<1>6. CASE /\ ~RefusesPress(q, p) /\ Len(q) = VM_TOUCH_QUEUE_CAP /\ ~IsMove(p)
  <2>1. s = IF Moves(q) # {} THEN [queue |-> Evicts(q, p), taken |-> TRUE] ELSE no
    BY <1>1, <1>6 DEF vm_touch_queue_push
  <2>2. q # <<>>
    BY <1>1, <1>6
  <2>3. CASE Moves(q) = {}
    <3>1. s = no
      BY <2>1, <2>3
    <3>2. ReleaseSpace(q) = 0
      BY <1>1, <1>6, <2>3 DEF ReleaseSpace
    <3>3. Last(q) = "break"
      BY <2>2, <3>2 DEF Lifts
    <3>. QED BY <3>1, <3>3, <2>2
  <2>4. CASE Moves(q) # {}
    <3>1. s = [queue |-> Evicts(q, p), taken |-> TRUE]
      BY <2>1, <2>4
    <3>2. /\ Evicts(q, p) \in TouchQ /\ Evicts(q, p) # <<>>
          /\ Len(Evicts(q, p)) = Len(q) /\ Last(Evicts(q, p)) = p
          /\ Cardinality(Moves(Evicts(q, p))) = Cardinality(Moves(q)) - 1
      BY <1>1, <1>6, <2>4, EvictsSpace DEF TouchQ
    <3>3. p # "break" => ReleaseSpace(Evicts(q, p)) >= 1
      BY <1>1, <1>2, <1>6, <3>2 DEF ReleaseSpace, RefusesPress, TouchPhase
    <3>4. Lifts(Evicts(q, p))
      BY <3>2, <3>3 DEF Lifts
    <3>. QED BY <3>1, <3>2, <3>4
  <2>. QED BY <2>3, <2>4
<1>. QED BY <1>1, <1>3, <1>4, <1>5, <1>6

(* A queue without its oldest report still has the room.                     *)
LEMMA Pop ==
  ASSUME NEW q \in TouchQ, Lifts(q), q # <<>>
  PROVE  /\ Tail(q) \in TouchQ /\ Lifts(Tail(q)) /\ Head(q) \in TouchPhase
         /\ Tail(q) # <<>> => Last(Tail(q)) = Last(q)
         /\ Tail(q) = <<>> => Last(q) = Head(q)
<1>1. /\ q \in Seq(TouchPhase) /\ Len(q) \in Nat /\ Len(q) <= VM_TOUCH_QUEUE_CAP
      /\ VM_TOUCH_QUEUE_CAP \in Nat
  BY TouchCapAssumption DEF TouchQ
<1>2. /\ Tail(q) \in Seq(TouchPhase) /\ Len(Tail(q)) = Len(q) - 1
      /\ Tail(q) # <<>> => Last(Tail(q)) = Last(q)
      /\ Tail(q) = <<>> => Last(q) = Head(q)
      /\ Head(q) \in TouchPhase
      /\ Cardinality(Moves(Tail(q))) >= Cardinality(Moves(q)) - 1
  BY <1>1, TailSpace
<1>3. Cardinality(Moves(Tail(q))) \in Nat /\ Cardinality(Moves(q)) \in Nat
  BY <1>1, <1>2, MovesFinite
<1>4. ReleaseSpace(Tail(q)) >= ReleaseSpace(q)
  BY <1>1, <1>2, <1>3 DEF ReleaseSpace
<1>5. ReleaseSpace(Tail(q)) \in Int /\ ReleaseSpace(q) \in Int
  BY <1>1, <1>2, <1>3 DEF ReleaseSpace
<1>. QED BY <1>1, <1>2, <1>4, <1>5 DEF TouchQ, Lifts

-----------------------------------------------------------------------------
(* THE INPUT STATE AS A VALUE: what the engine's methods work on.            *)

Holds == {"none", "young", "old"}
Events == [which : Buttons, pressed : BOOLEAN]
KeyQ == {q \in Seq(Events) : Len(q) <= VM_BUTTON_QUEUE_CAP}
Controllers == [ready : BOOLEAN, report : TouchPhase \cup {"none"}, pending : BOOLEAN]
Boards == [held : [Buttons -> BOOLEAN], serviced : [Buttons -> BOOLEAN],
           armed : BOOLEAN, wakeUnread : BOOLEAN]
Losses == [keys : SUBSET Momentary, lift : BOOLEAN]
Inputs == [touch : TouchQ, active : BOOLEAN, keys : KeyQ,
           hold : [Momentary -> Holds], shown : SUBSET Momentary, silent : BOOLEAN,
           z2 : Controllers, board : Boards, power : {"on", "asleep", "off"},
           lost : Losses]

(* What the controller, the guest and the delivery state know of a finger: a *)
(* finger the guest has seen is active, an unread landing or move is too,    *)
(* and a controller that is down has neither a report nor a finger.          *)
Seen(s) ==
  /\ finger /\ s.z2.report = "none" => s.active
  /\ s.z2.report \in {"make", "move"} => s.active
  /\ ~s.z2.ready => ~finger /\ s.z2.report = "none"
  /\ s.power # "on" => ~s.z2.ready

Good(s) == s \in Inputs /\ Lifts(s.touch) /\ Seen(s)

(* A press of k that is queued and has no release behind it.                 *)
Unmatched(q, k) ==
  \E i \in DOMAIN q :
     q[i] = Event(k, TRUE) /\ \A j \in DOMAIN q : j > i => q[j] # Event(k, FALSE)

(* k is going to be down, or stays down, if nobody does anything.            *)
Loose(s, k) == Unmatched(s.keys, k) \/ (s.board.held[k] /\ ~Releases(s.keys, k))

NoPress(q) == \A i \in DOMAIN q : q[i].which \in Momentary => ~q[i].pressed

(* A key that is down and still young stays so.                              *)
Keeps(s, t) ==
  \A k \in Momentary :
     s.board.held[k] /\ s.hold[k] = "young" => t.board.held[k] /\ t.hold[k] = "young"

(* What the engine does with the queues: it makes no key loose that was not, *)
(* unless it says so; it takes no young key up; it lands no finger.          *)
Step(s, t) ==
  /\ Good(t) /\ Keeps(s, t)
  /\ WillHoldFinger(t) => WillHoldFinger(s)
  /\ \A k \in Momentary :
       /\ Unmatched(t.keys, k) => Unmatched(s.keys, k)
       /\ Loose(t, k) => Loose(s, k) \/ k \in t.lost.keys
  /\ s.lost.keys \subseteq t.lost.keys /\ t.lost.lift = s.lost.lift
  /\ s.touch = <<>> => t.touch = <<>>
  /\ NoPress(s.keys) => NoPress(t.keys)
  /\ t.silent = s.silent /\ t.board.armed = s.board.armed

(* The keys of the instance, the boundary values of the constants.           *)
LEMMA KeyFacts ==
  /\ Buttons = Momentary \cup {"RINGERAB"} /\ "RINGERAB" \notin Momentary
  /\ "MENU" \in Momentary /\ "HOLD" \in Momentary /\ Momentary \subseteq Buttons
  /\ VM_BUTTON_QUEUE_CAP \in Nat /\ VM_BUTTON_QUEUE_CAP >= 2
  /\ VM_TOUCH_QUEUE_CAP \in Nat /\ VM_TOUCH_QUEUE_CAP >= 2
  BY InputAssumption, TouchCapAssumption DEF Buttons

(* The fields of an input state.                                             *)
LEMMA Fields ==
  ASSUME NEW s \in Inputs
  PROVE  /\ s.touch \in TouchQ /\ s.active \in BOOLEAN /\ s.keys \in KeyQ
         /\ s.hold \in [Momentary -> Holds] /\ s.shown \in SUBSET Momentary
         /\ s.silent \in BOOLEAN /\ s.z2 \in Controllers /\ s.board \in Boards
         /\ s.power \in {"on", "asleep", "off"} /\ s.lost \in Losses
  BY DEF Inputs

LEMMA PartFields ==
  /\ \A z \in Controllers : /\ z.ready \in BOOLEAN /\ z.pending \in BOOLEAN
                            /\ z.report \in TouchPhase \cup {"none"}
  /\ \A b \in Boards : /\ b.held \in [Buttons -> BOOLEAN] /\ b.armed \in BOOLEAN
                       /\ b.serviced \in [Buttons -> BOOLEAN] /\ b.wakeUnread \in BOOLEAN
  /\ \A l \in Losses : l.keys \in SUBSET Momentary /\ l.lift \in BOOLEAN
  BY DEF Controllers, Boards, Losses

LEMMA Empty == <<>> \in TouchQ /\ <<>> \in KeyQ /\ Lifts(<<>>)
  BY KeyFacts DEF TouchQ, KeyQ, Lifts

(* Doing one such step after another.                                        *)
LEMMA StepThenStep ==
  ASSUME NEW s, NEW t, NEW u, Step(s, t), Step(t, u)
  PROVE  Step(s, u)
<1>1. Good(u) /\ Keeps(s, u)
  BY DEF Step, Keeps
<1>2. \A k \in Momentary :
       /\ Unmatched(u.keys, k) => Unmatched(s.keys, k)
       /\ Loose(u, k) => Loose(s, k) \/ k \in u.lost.keys
  BY DEF Step
<1>3. /\ WillHoldFinger(u) => WillHoldFinger(s)
      /\ s.lost.keys \subseteq u.lost.keys /\ u.lost.lift = s.lost.lift
      /\ s.touch = <<>> => u.touch = <<>>
      /\ NoPress(s.keys) => NoPress(u.keys)
      /\ u.silent = s.silent /\ u.board.armed = s.board.armed
  BY DEF Step
<1>. QED BY <1>1, <1>2, <1>3 DEF Step

LEMMA NoStep == ASSUME NEW s, Good(s) PROVE Step(s, s)
  BY DEF Step, Keeps

(* A change of the touch half alone.                                         *)
LEMMA TouchHalf ==
  ASSUME NEW s, Good(s), NEW q \in TouchQ, NEW a \in BOOLEAN, NEW z \in Controllers,
         NEW t, t = [s EXCEPT !.touch = q, !.active = a, !.z2 = z],
         Lifts(q), Seen(t), WillHoldFinger(t) => WillHoldFinger(s),
         s.touch = <<>> => q = <<>>
  PROVE  Step(s, t)
<1>1. s \in Inputs
  BY DEF Good
<1>2. /\ t \in Inputs /\ t.touch = q /\ t.keys = s.keys /\ t.board = s.board
      /\ t.hold = s.hold /\ t.lost = s.lost /\ t.silent = s.silent
  BY <1>1 DEF Inputs
<1>3. Good(t) /\ Keeps(s, t)
  BY <1>2 DEF Good, Keeps
<1>. QED BY <1>2, <1>3 DEF Step, Loose

(* A report is handed to the controller, or dropped by one that is down.     *)
LEMMA TouchDrains ==
  ASSUME NEW s, Good(s)
  PROVE  Step(s, drainOneTouch(s))
<1>. DEFINE t == drainOneTouch(s)
<1>1. s \in Inputs /\ Lifts(s.touch) /\ Seen(s)
  BY DEF Good
<1>2. s.touch \in TouchQ /\ s.active \in BOOLEAN /\ s.z2 \in Controllers
  BY <1>1, Fields
<1>3. CASE s.touch = <<>> \/ s.z2.report # "none"
  <2>1. t = s
    BY <1>3 DEF drainOneTouch
  <2>. QED BY <2>1, NoStep
<1>4. CASE s.touch # <<>> /\ s.z2.report = "none"
  <2>1. /\ Tail(s.touch) \in TouchQ /\ Lifts(Tail(s.touch)) /\ Head(s.touch) \in TouchPhase
        /\ Tail(s.touch) # <<>> => Last(Tail(s.touch)) = Last(s.touch)
        /\ Tail(s.touch) = <<>> => Last(s.touch) = Head(s.touch)
    BY <1>1, <1>2, <1>4, Pop
  <2>2. CASE s.z2.ready
    <3>. DEFINE z == [s.z2 EXCEPT !.report = Head(s.touch), !.pending = TRUE]
                a == Head(s.touch) # "break"
    <3>1. t = [s EXCEPT !.touch = Tail(s.touch), !.active = a, !.z2 = z]
      BY <1>1, <1>4, <2>2 DEF drainOneTouch, Inputs
    <3>2. /\ z \in Controllers /\ z.report = Head(s.touch) /\ z.ready = s.z2.ready
      BY <1>2, <2>1 DEF Controllers
    <3>3. /\ t.touch = Tail(s.touch) /\ t.active = a /\ t.z2 = z /\ t.power = s.power
      BY <1>1, <3>1 DEF Inputs
    <3>4. Seen(t)
      BY <3>2, <3>3, <2>1, <2>2, <1>1 DEF Seen, TouchPhase
    <3>5. WillHoldFinger(t) => WillHoldFinger(s)
      BY <3>2, <3>3, <2>1, <1>4 DEF WillHoldFinger, TouchPhase
    <3>6. a \in BOOLEAN
      OBVIOUS
    <3>. HIDE DEF t, a, z
    <3>7. Step(s, t)
      BY <3>1, <3>2, <3>4, <3>5, <3>6, <2>1, <1>4, TouchHalf
    <3>. QED BY <3>7 DEF t
  <2>3. CASE ~s.z2.ready
    <3>1. t = [s EXCEPT !.touch = Tail(s.touch), !.active = s.active, !.z2 = s.z2]
      BY <1>1, <1>4, <2>3 DEF drainOneTouch, Inputs
    <3>2. /\ t.touch = Tail(s.touch) /\ t.active = s.active /\ t.z2 = s.z2
          /\ t.power = s.power
      BY <1>1, <3>1 DEF Inputs
    <3>3. Seen(t)
      BY <3>2, <1>1 DEF Seen
    <3>4. WillHoldFinger(t) => WillHoldFinger(s)
      BY <3>2, <2>1, <2>3, <1>1, <1>4 DEF WillHoldFinger, Seen
    <3>. HIDE DEF t
    <3>5. Step(s, t)
      BY <3>1, <3>3, <3>4, <2>1, <1>2, <1>4, TouchHalf
    <3>. QED BY <3>5 DEF t
  <2>. QED BY <2>2, <2>3
<1>. QED BY <1>3, <1>4

(* The touch half of a quiesce: what is queued, else a lift.                 *)
LEMMA TouchLetGoSteps ==
  ASSUME NEW s, Good(s)
  PROVE  Step(s, TouchLetGo(s))
<1>1. s \in Inputs /\ Lifts(s.touch) /\ Seen(s) /\ s.touch \in TouchQ
  BY Fields DEF Good
<1>2. CASE s.touch # <<>>
  BY <1>2, TouchDrains DEF TouchLetGo
<1>3. CASE s.touch = <<>> /\ ~(s.z2.report = "none" /\ s.active)
  BY <1>3, NoStep DEF TouchLetGo
<1>4. CASE s.touch = <<>> /\ s.z2.report = "none" /\ s.active
  <2>. DEFINE p == vm_touch_queue_push(<<>>, "break")
              t == [s EXCEPT !.touch = p.queue]
              u == drainOneTouch(t)
  <2>1. TouchLetGo(s) = u
    BY <1>1, <1>4 DEF TouchLetGo, Inputs
  <2>2. /\ p.queue \in TouchQ /\ Lifts(p.queue) /\ p.taken \in BOOLEAN
        /\ p.taken => p.queue # <<>> /\ Last(p.queue) = "break"
        /\ p.taken /\ p.queue = <<"break">>
    <3>1. /\ p.queue \in TouchQ /\ Lifts(p.queue) /\ p.taken \in BOOLEAN
          /\ p.taken => p.queue # <<>> /\ Last(p.queue) = "break"
      BY Empty, Push DEF TouchPhase
    <3>2. p = [queue |-> Append(<<>>, "break"), taken |-> TRUE]
      BY KeyFacts DEF vm_touch_queue_push, RefusesPress
    <3>. QED BY <3>1, <3>2
  <2>. HIDE DEF p
  <2>3. /\ t \in Inputs /\ t.touch = p.queue /\ t.active = s.active /\ t.z2 = s.z2
        /\ t.power = s.power /\ t.keys = s.keys /\ t.hold = s.hold /\ t.board = s.board
        /\ t.lost = s.lost /\ t.silent = s.silent
    BY <1>1, <2>2 DEF Inputs
  <2>4. Good(t)
    BY <2>2, <2>3, <1>1 DEF Good, Seen
  <2>5. Step(t, u)
    BY <2>4, TouchDrains
  <2>6. ~WillHoldFinger(t)
    BY <2>2, <2>3 DEF WillHoldFinger
  <2>7. u.touch = <<>>
    <3>1. t.touch # <<>> /\ t.z2.report = "none" /\ Tail(t.touch) = <<>>
      BY <1>4, <2>2, <2>3
    <3>. QED BY <3>1, <2>3 DEF drainOneTouch, Inputs
  <2>. HIDE DEF t, u
  <2>8. /\ Good(u) /\ Keeps(s, u) /\ ~WillHoldFinger(u)
        /\ u.silent = s.silent /\ u.board.armed = s.board.armed
    BY <2>3, <2>5, <2>6 DEF Step, Keeps
  <2>9. /\ \A k \in Momentary :
             /\ Unmatched(u.keys, k) => Unmatched(s.keys, k)
             /\ Loose(u, k) => Loose(s, k) \/ k \in u.lost.keys
        /\ s.lost.keys \subseteq u.lost.keys /\ u.lost.lift = s.lost.lift
        /\ NoPress(s.keys) => NoPress(u.keys)
    BY <2>3, <2>5 DEF Step, Loose
  <2>. QED BY <2>1, <2>7, <2>8, <2>9 DEF Step
<1>. QED BY <1>2, <1>3, <1>4

-----------------------------------------------------------------------------
(* THE QUEUE OF TRANSITIONS.                                                 *)

(* The oldest transition leaves.                                             *)
LEMMA PopKey ==
  ASSUME NEW q \in KeyQ, q # <<>>
  PROVE  /\ Tail(q) \in KeyQ /\ Head(q) \in Events
         /\ NoPress(q) => NoPress(Tail(q))
         /\ \A k : /\ Unmatched(Tail(q), k) => Unmatched(q, k)
                   /\ Head(q) = Event(k, TRUE) /\ ~Releases(Tail(q), k) => Unmatched(q, k)
                   /\ Releases(q, k) /\ Head(q) # Event(k, FALSE) => Releases(Tail(q), k)
<1>. DEFINE t == Tail(q)
<1>1. /\ q \in Seq(Events) /\ Len(q) \in Nat /\ Len(q) >= 1
      /\ Len(q) <= VM_BUTTON_QUEUE_CAP /\ Head(q) = q[1] /\ Head(q) \in Events
  BY DEF KeyQ
<1>2. /\ t \in Seq(Events) /\ Len(t) = Len(q) - 1
      /\ \A i \in 1 .. Len(q) - 1 : t[i] = q[i + 1]
  BY <1>1
<1>3. t \in KeyQ
  BY <1>1, <1>2, KeyFacts DEF KeyQ
<1>4. DOMAIN q = 1 .. Len(q) /\ DOMAIN t = 1 .. Len(q) - 1
  BY <1>1, <1>2
<1>. HIDE DEF t
<1>5. \A i \in DOMAIN t : i + 1 \in DOMAIN q /\ t[i] = q[i + 1]
  BY <1>1, <1>2, <1>4
<1>6. \A i \in DOMAIN q : i = 1 \/ (i - 1 \in DOMAIN t /\ q[i] = t[i - 1])
  BY <1>1, <1>2, <1>4
<1>7. NoPress(q) => NoPress(t)
  BY <1>5 DEF NoPress
<1>8. ASSUME NEW k, Unmatched(t, k) PROVE Unmatched(q, k)
  <2>1. PICK i \in DOMAIN t :
          t[i] = Event(k, TRUE) /\ \A j \in DOMAIN t : j > i => t[j] # Event(k, FALSE)
    BY <1>8 DEF Unmatched
  <2>2. i + 1 \in DOMAIN q /\ q[i + 1] = Event(k, TRUE) /\ i \in Nat /\ i >= 1
    <3>1. i + 1 \in DOMAIN q /\ t[i] = q[i + 1]
      BY <1>5
    <3>2. i \in Nat /\ i >= 1
      BY <1>1, <1>4
    <3>. QED BY <3>1, <3>2, <2>1
  <2>3. ASSUME NEW j \in DOMAIN q, j > i + 1 PROVE q[j] # Event(k, FALSE)
    <3>1. j # 1 /\ j - 1 > i
      BY <2>2, <2>3, <1>4
    <3>. QED BY <3>1, <2>1, <1>6
  <2>. QED BY <2>2, <2>3 DEF Unmatched
<1>9. ASSUME NEW k, Head(q) = Event(k, TRUE), ~Releases(t, k) PROVE Unmatched(q, k)
  <2>1. 1 \in DOMAIN q /\ q[1] = Event(k, TRUE)
    <3>1. 1 \in DOMAIN q
      BY <1>1, <1>4
    <3>. QED BY <3>1, <1>1, <1>9, Zenon
  <2>2. ASSUME NEW j \in DOMAIN q, j > 1 PROVE q[j] # Event(k, FALSE)
    <3>1. j # 1
      BY <2>2, <1>4
    <3>. QED BY <3>1, <1>6, <1>9 DEF Releases
  <2>. QED BY <2>1, <2>2 DEF Unmatched
<1>10. ASSUME NEW k, Releases(q, k), Head(q) # Event(k, FALSE) PROVE Releases(t, k)
  BY <1>1, <1>6, <1>10 DEF Releases
<1>. QED BY <1>1, <1>3, <1>7, <1>8, <1>9, <1>10 DEF t

(* One transition in an empty queue.                                         *)
LEMMA OneKey ==
  ASSUME NEW e \in Events
  PROVE  /\ <<e>> \in KeyQ /\ <<e>> # <<>> /\ Head(<<e>>) = e /\ Tail(<<e>>) = <<>>
         /\ DOMAIN <<e>> = {1} /\ <<e>>[1] = e
  BY KeyFacts DEF KeyQ

(* The board has consumed a transition.                                      *)
LEMMA Consumed ==
  ASSUME NEW s, Good(s), s.keys # <<>>, ReleaseReady(s, Head(s.keys))
  PROVE  Step(s, [Switched(s, Head(s.keys)) EXCEPT
                    !.keys = Tail(@), !.hold = Anchored(@, Head(s.keys))])
<1>. DEFINE e == Head(s.keys)
            w == Switched(s, e)
            h == Anchored(s.hold, e)
            u == [w EXCEPT !.keys = Tail(@), !.hold = Anchored(@, e)]
<1>1. /\ s \in Inputs /\ Lifts(s.touch) /\ Seen(s) /\ s.keys \in KeyQ
      /\ s.board \in Boards /\ s.lost \in Losses /\ s.power \in {"on", "asleep", "off"}
      /\ s.hold \in [Momentary -> Holds]
  BY Fields DEF Good
<1>2. /\ s.board.held \in [Buttons -> BOOLEAN] /\ s.lost.keys \in SUBSET Momentary
      /\ s.board.wakeUnread \in BOOLEAN
  BY <1>1, PartFields
<1>3. /\ Tail(s.keys) \in KeyQ /\ e \in Events
      /\ NoPress(s.keys) => NoPress(Tail(s.keys))
      /\ \A k : /\ Unmatched(Tail(s.keys), k) => Unmatched(s.keys, k)
                /\ e = Event(k, TRUE) /\ ~Releases(Tail(s.keys), k) => Unmatched(s.keys, k)
                /\ Releases(s.keys, k) /\ e # Event(k, FALSE) => Releases(Tail(s.keys), k)
  BY <1>1, PopKey
<1>4. ReleaseReady(s, e)
  OBVIOUS
<1>. HIDE DEF e
<1>5. /\ e.which \in Buttons /\ e.pressed \in BOOLEAN
      /\ e = Event(e.which, TRUE) \/ e = Event(e.which, FALSE)
      /\ \A k : /\ e = Event(k, TRUE) => e.which = k /\ e.pressed
                /\ e = Event(k, FALSE) => e.which = k /\ ~e.pressed
                /\ e.which = k /\ e.pressed => e = Event(k, TRUE)
                /\ e.which = k /\ ~e.pressed => e = Event(k, FALSE)
  BY <1>3 DEF Events, Event
<1>6. /\ w \in Inputs /\ w.touch = s.touch /\ w.active = s.active /\ w.z2 = s.z2
      /\ w.keys = s.keys /\ w.hold = s.hold /\ w.silent = s.silent /\ w.shown = s.shown
      /\ w.lost.lift = s.lost.lift /\ w.board.armed = s.board.armed
      /\ w.power = s.power \/ w.power = "on"
      /\ s.lost.keys \subseteq w.lost.keys
      /\ \A k \in Buttons : k # e.which => w.board.held[k] = s.board.held[k]
      /\ e.pressed => w.board.held[e.which] \/ w.board.held[e.which] = s.board.held[e.which]
      /\ ~e.pressed => \/ ~w.board.held[e.which]
                       \/ /\ w.board.held[e.which] = s.board.held[e.which]
                          /\ e.which \in Momentary => e.which \in w.lost.keys
  <2>1. CASE s.power = "on"
    <3>1. w = [s EXCEPT !.board = [s.board EXCEPT !.held =
                          [s.board.held EXCEPT ![e.which] = e.pressed]]]
      BY <2>1, <1>1 DEF Switched, Inputs, Boards
    <3>. DEFINE f == [s.board.held EXCEPT ![e.which] = e.pressed]
                b == [s.board EXCEPT !.held = f]
    <3>2. /\ f \in [Buttons -> BOOLEAN] /\ f[e.which] = e.pressed
          /\ \A k \in Buttons : k # e.which => f[k] = s.board.held[k]
      BY <1>2, <1>5
    <3>. HIDE DEF f
    <3>3. b \in Boards /\ b.held = f /\ b.armed = s.board.armed
      BY <3>2, <1>1 DEF Boards
    <3>4. w = [s EXCEPT !.board = b]
      BY <3>1 DEF f
    <3>. HIDE DEF b, w
    <3>. QED BY <3>2, <3>3, <3>4, <1>1, <1>5 DEF Inputs
  <2>2. CASE s.power # "on" /\ Wakes(s, e)
    <3>. DEFINE f == [s.board.held EXCEPT ![e.which] = TRUE]
                r == s.board.wakeUnread \/ e.which = "HOLD"
                b == [s.board EXCEPT !.held = f, !.wakeUnread = r]
    <3>1. w = [s EXCEPT !.board = b, !.power = "on"]
      BY <2>2, <1>1 DEF Switched, Inputs, Boards
    <3>2. /\ f \in [Buttons -> BOOLEAN] /\ f[e.which] = TRUE
          /\ \A k \in Buttons : k # e.which => f[k] = s.board.held[k]
          /\ r \in BOOLEAN
      BY <1>2, <1>5
    <3>. HIDE DEF f, r
    <3>3. b \in Boards /\ b.held = f /\ b.armed = s.board.armed
      BY <3>2, <1>1 DEF Boards
    <3>4. e.pressed
      BY <2>2 DEF Wakes
    <3>. HIDE DEF b, w
    <3>. QED BY <3>1, <3>2, <3>3, <3>4, <1>1, <1>5 DEF Inputs
  <2>3. CASE /\ s.power # "on" /\ ~Wakes(s, e)
             /\ ~e.pressed /\ s.board.held[e.which] /\ e.which \in Momentary
    <3>. DEFINE l == [s.lost EXCEPT !.keys = @ \cup {e.which}]
    <3>1. w = [s EXCEPT !.lost = l]
      BY <2>3, <1>1 DEF Switched, Inputs, Losses
    <3>2. l \in Losses /\ l.lift = s.lost.lift /\ l.keys = s.lost.keys \cup {e.which}
      BY <2>3, <1>1 DEF Losses
    <3>. HIDE DEF l, w
    <3>. QED BY <2>3, <3>1, <3>2, <1>1, <1>5 DEF Inputs
  <2>4. CASE /\ s.power # "on" /\ ~Wakes(s, e)
             /\ ~(~e.pressed /\ s.board.held[e.which] /\ e.which \in Momentary)
    <3>1. w = s
      BY <2>4 DEF Switched
    <3>. QED BY <2>4, <3>1, <1>1, <1>5
  <2>. QED BY <2>1, <2>2, <2>3, <2>4
<1>. HIDE DEF w
<1>7. /\ h \in [Momentary -> Holds]
      /\ \A k \in Momentary : k # e.which => h[k] = s.hold[k]
      /\ \A k \in Momentary : k = e.which /\ e.pressed /\ s.hold[k] = "young" => h[k] = "young"
  BY <1>1, <1>5 DEF Anchored, Holds
<1>8. u = [w EXCEPT !.keys = Tail(s.keys), !.hold = h]
  BY <1>6 DEF Inputs
<1>. HIDE DEF h, u
<1>9. /\ u \in Inputs /\ u.touch = s.touch /\ u.active = s.active /\ u.z2 = s.z2
      /\ u.keys = Tail(s.keys) /\ u.hold = h /\ u.board = w.board /\ u.lost = w.lost
      /\ u.power = w.power /\ u.silent = s.silent
  BY <1>3, <1>6, <1>7, <1>8 DEF Inputs
<1>10. Good(u)
  BY <1>1, <1>6, <1>9 DEF Good, Seen
<1>11. Keeps(s, u)
  <2>. SUFFICES ASSUME NEW k \in Momentary, s.board.held[k], s.hold[k] = "young"
                PROVE  u.board.held[k] /\ u.hold[k] = "young"
    BY DEF Keeps
  <2>0. k \in Buttons
    BY KeyFacts
  <2>1. CASE k # e.which
    BY <2>0, <2>1, <1>6, <1>7, <1>9
  <2>2. CASE k = e.which
    <3>1. e.pressed
      BY <2>2, <1>4 DEF ReleaseReady
    <3>. QED BY <2>0, <2>2, <3>1, <1>6, <1>7, <1>9
  <2>. QED BY <2>1, <2>2
<1>12. ASSUME NEW k \in Momentary
       PROVE  /\ Unmatched(u.keys, k) => Unmatched(s.keys, k)
              /\ Loose(u, k) => Loose(s, k) \/ k \in u.lost.keys
  <2>1. k \in Buttons
    BY KeyFacts
  <2>2. Unmatched(u.keys, k) => Unmatched(s.keys, k)
    BY <1>3, <1>9
  <2>3. ASSUME u.board.held[k], ~Releases(u.keys, k)
        PROVE  Loose(s, k) \/ k \in u.lost.keys
    <3>1. CASE k # e.which
      <4>1. s.board.held[k]
        BY <2>1, <2>3, <3>1, <1>6, <1>9
      <4>2. ~Releases(s.keys, k)
        <5>1. e # Event(k, FALSE)
          BY <3>1, <1>5
        <5>. QED BY <5>1, <2>3, <1>3, <1>9
      <4>. QED BY <4>1, <4>2 DEF Loose
    <3>2. CASE k = e.which /\ e.pressed
      <4>1. Unmatched(s.keys, k)
        BY <2>3, <3>2, <1>3, <1>5, <1>9
      <4>. QED BY <4>1 DEF Loose
    <3>3. CASE k = e.which /\ ~e.pressed
      BY <2>3, <3>3, <1>6, <1>9
    <3>. QED BY <1>5, <3>1, <3>2, <3>3
  <2>. QED BY <2>2, <2>3 DEF Loose
<1>13. /\ WillHoldFinger(u) => WillHoldFinger(s)
       /\ s.lost.keys \subseteq u.lost.keys /\ u.lost.lift = s.lost.lift
       /\ s.touch = <<>> => u.touch = <<>>
       /\ NoPress(s.keys) => NoPress(u.keys)
       /\ u.silent = s.silent /\ u.board.armed = s.board.armed
  BY <1>3, <1>6, <1>9 DEF WillHoldFinger
<1>14. Step(s, u)
  BY <1>10, <1>11, <1>12, <1>13 DEF Step
<1>. QED BY <1>14 DEF u, w, e

(* A release, or the slider, in an empty queue: no key becomes loose.        *)
LEMMA Queued ==
  ASSUME NEW s, Good(s), s.keys = <<>>, NEW e \in Events,
         e.which \in Momentary => ~e.pressed
  PROVE  /\ Step(s, [s EXCEPT !.keys = <<e>>])
         /\ [s EXCEPT !.keys = <<e>>].keys = <<e>>
         /\ [s EXCEPT !.keys = <<e>>].hold = s.hold
<1>. DEFINE t == [s EXCEPT !.keys = <<e>>]
<1>1. s \in Inputs /\ <<e>> \in KeyQ /\ DOMAIN <<e>> = {1} /\ <<e>>[1] = e
  BY OneKey DEF Good
<1>2. /\ t \in Inputs /\ t.keys = <<e>> /\ t.touch = s.touch /\ t.active = s.active
      /\ t.z2 = s.z2 /\ t.hold = s.hold /\ t.board = s.board /\ t.power = s.power
      /\ t.lost = s.lost /\ t.silent = s.silent
  BY <1>1 DEF Inputs
<1>. HIDE DEF t
<1>3. Good(t) /\ Keeps(s, t) /\ (WillHoldFinger(t) => WillHoldFinger(s))
  BY <1>2 DEF Good, Seen, Keeps, WillHoldFinger
<1>4. ASSUME NEW k \in Momentary
      PROVE  ~Unmatched(t.keys, k) /\ ~Releases(s.keys, k)
  <2>1. e # Event(k, TRUE)
    BY DEF Event
  <2>2. ~Unmatched(t.keys, k)
    BY <1>1, <1>2, <2>1 DEF Unmatched
  <2>3. DOMAIN s.keys = {}
    OBVIOUS
  <2>. QED BY <2>2, <2>3 DEF Releases
<1>5. NoPress(t.keys)
  BY <1>1, <1>2 DEF NoPress
<1>6. Step(s, t)
  BY <1>2, <1>3, <1>4, <1>5 DEF Step, Loose
<1>. QED BY <1>2, <1>6 DEF t

(* The queue gives the board one transition, or tries again later.           *)
LEMMA ButtonDrains ==
  ASSUME NEW s, Good(s)
  PROVE  Step(s, drainOneButton(s))
<1>. DEFINE e == Event("RINGERAB", s.silent)
            t == [s EXCEPT !.keys = <<e>>]
            Use(r) == [Switched(r, Head(r.keys)) EXCEPT
                         !.keys = Tail(@), !.hold = Anchored(@, Head(r.keys))]
            Taking(r) == ReleaseReady(r, Head(r.keys))
                           /\ (r.power # "on" \/ Accepts(r.board, Head(r.keys)))
<1>1. s \in Inputs /\ s.silent \in BOOLEAN
  BY Fields DEF Good
<1>2. CASE s.keys = <<>> /\ ~vm_button_ringer_reconcile(s)
  <2>1. drainOneButton(s) = s
    BY <1>2 DEF drainOneButton
  <2>. QED BY <2>1, NoStep
<1>3. CASE s.keys # <<>>
  <2>1. [s EXCEPT !.keys = s.keys] = s
    BY <1>1 DEF Inputs
  <2>2. drainOneButton(s) = IF Taking(s) THEN Use(s) ELSE s
    BY <1>3, <2>1 DEF drainOneButton
  <2>3. Taking(s) => Step(s, Use(s))
    BY <1>3, Consumed
  <2>. QED BY <2>2, <2>3, NoStep
<1>4. CASE s.keys = <<>> /\ vm_button_ringer_reconcile(s)
  <2>1. e \in Events /\ e.which \notin Momentary
    BY <1>1, KeyFacts DEF Events, Event
  <2>2. Step(s, t) /\ t.keys = <<e>> /\ t.hold = s.hold /\ t.power = s.power /\ t.board = s.board
    BY <1>1, <1>4, <2>1, Queued DEF Inputs
  <2>3. t.keys # <<>> /\ Head(t.keys) = e /\ <<e>> # <<>> /\ Head(<<e>>) = e
    BY <2>2
  <2>4. drainOneButton(s) = IF Taking(t) THEN Use(t) ELSE t
    <3>1. Taking(t) <=> (ReleaseReady(s, Head(<<e>>)) /\ (s.power # "on" \/ Accepts(s.board, Head(<<e>>))))
      BY <2>2, <2>3 DEF ReleaseReady
    <3>2. drainOneButton(s) =
            IF ReleaseReady(s, Head(<<e>>)) /\ (s.power # "on" \/ Accepts(s.board, Head(<<e>>)))
            THEN [Switched(t, Head(<<e>>)) EXCEPT
                    !.keys = Tail(@), !.hold = Anchored(@, Head(<<e>>))]
            ELSE t
      BY <1>4, <2>3 DEF drainOneButton
    <3>. QED BY <2>3, <3>1, <3>2
  <2>5. Taking(t) => Step(t, Use(t))
    <3>1. Good(t)
      BY <2>2 DEF Step
    <3>. QED BY <3>1, <2>3, Consumed
  <2>6. Taking(t) => Step(s, Use(t))
    BY <2>2, <2>5, StepThenStep
  <2>. QED BY <2>2, <2>4, <2>6
<1>. QED BY <1>2, <1>3, <1>4

(* The first of the held keys is one of them.                                *)
LEMMA FirstIsHeld ==
  ASSUME NEW s, HeldKeys(s) # {}
  PROVE  FirstHeld(s) \in HeldKeys(s)
<1>. DEFINE S == {i \in DOMAIN momentary : momentary[i] \in HeldKeys(s)}
<1>1. DOMAIN momentary = 1 .. 4 /\ \A k \in Momentary : \E i \in 1 .. 4 : momentary[i] = k
  BY InputAssumption DEF momentary
<1>2. S \subseteq Nat /\ S # {}
  <2>1. HeldKeys(s) \subseteq Momentary
    BY DEF HeldKeys
  <2>2. PICK k \in HeldKeys(s) : k \in Momentary
    BY <2>1
  <2>3. PICK i \in 1 .. 4 : momentary[i] = k
    BY <1>1, <2>2
  <2>4. i \in S
    BY <1>1, <2>2, <2>3
  <2>. QED BY <1>1, <2>4
<1>3. \E m \in S : \A j \in S : m <= j
  <2>. DEFINE R == OpToRel(<, Nat)
  <2>1. \A j, m \in Nat : j < m => <<j, m>> \in R
    BY DEF OpToRel
  <2>2. IsWellFoundedOn(R, Nat)
    BY NatLessThanWellFounded, Zenon
  <2>. HIDE DEF R, S
  <2>3. PICK m \in S : \A j \in S : ~(<<j, m>> \in R)
    BY <2>2, <1>2, WFMin, Zenon
  <2>4. ASSUME NEW j \in S PROVE m <= j
    <3>1. j \in Nat /\ m \in Nat /\ ~(j < m)
      BY <2>1, <2>3, <1>2
    <3>. QED BY <3>1
  <2>. QED BY <2>4
<1>4. Min(S) \in S
  BY <1>3 DEF Min
<1>. QED BY <1>4 DEF FirstHeld

(* The key half of a quiesce: what is queued, else a release.                *)
LEMMA KeysLetGoSteps ==
  ASSUME NEW s, Good(s)
  PROVE  Step(s, KeysLetGo(s))
<1>. DEFINE rel == vm_button_checkpoint_release(s)
<1>1. s \in Inputs /\ s.silent \in BOOLEAN
  BY Fields DEF Good
<1>2. CASE s.keys # <<>> \/ rel = <<>>
  <2>1. KeysLetGo(s) = s \/ KeysLetGo(s) = drainOneButton(s)
    BY <1>2 DEF KeysLetGo
  <2>. QED BY <2>1, NoStep, ButtonDrains
<1>3. CASE s.keys = <<>> /\ rel # <<>>
  <2>1. PICK e \in Events : rel = <<e>> /\ (e.which \in Momentary => ~e.pressed)
    <3>1. CASE HeldKeys(s) # {}
      <4>1. FirstHeld(s) \in Momentary
        BY <3>1, FirstIsHeld DEF HeldKeys
      <4>2. Event(FirstHeld(s), FALSE) \in Events /\ ~Event(FirstHeld(s), FALSE).pressed
        BY <4>1, KeyFacts DEF Events, Event
      <4>3. rel = <<Event(FirstHeld(s), FALSE)>>
        BY <3>1 DEF vm_button_checkpoint_release
      <4>. QED BY <4>2, <4>3
    <3>2. CASE HeldKeys(s) = {}
      <4>1. Event("RINGERAB", s.silent) \in Events
            /\ Event("RINGERAB", s.silent).which \notin Momentary
        BY <1>1, KeyFacts DEF Events, Event
      <4>2. rel = <<Event("RINGERAB", s.silent)>>
        BY <1>3, <3>2 DEF vm_button_checkpoint_release
      <4>. QED BY <4>1, <4>2
    <3>. QED BY <3>1, <3>2
  <2>. HIDE DEF rel
  <2>. DEFINE t == [s EXCEPT !.keys = <<e>>]
  <2>2. Step(s, t)
    BY <1>3, <2>1, Queued
  <2>3. KeysLetGo(s) = drainOneButton(t)
    BY <1>3, <2>1 DEF KeysLetGo, rel
  <2>. HIDE DEF t
  <2>4. Step(t, drainOneButton(t))
    BY <2>2, ButtonDrains DEF Step
  <2>. QED BY <2>2, <2>3, <2>4, StepThenStep
<1>. QED BY <1>2, <1>3

-----------------------------------------------------------------------------
(* WHAT A TURN DOES WITH BOTH QUEUES.                                        *)

LEMMA DrainedSteps ==
  ASSUME NEW s, Good(s), NEW u \in Drained(s)
  PROVE  Step(s, u)
<1>1. u = drainOneButton(drainOneTouch(s))
  BY DEF Drained
<1>2. Step(s, drainOneTouch(s)) /\ Good(drainOneTouch(s))
  BY TouchDrains DEF Step
<1>. QED BY <1>1, <1>2, ButtonDrains, StepThenStep

(* What it means that a quiesce has nothing to do.                           *)
LEMMA WhenQuiet ==
  ASSUME NEW s, Good(s), Quiet(s)
  PROVE  /\ s.touch = <<>> /\ s.keys = <<>> /\ ~s.active
         /\ s.z2.report = "none" /\ ~s.z2.pending /\ ~finger /\ ~WillHoldFinger(s)
         /\ \A k \in Momentary : ~s.board.held[k]
         /\ \A k \in Buttons : ~s5l_gpioic_pending(s.board, k)
         /\ s.board.held["RINGERAB"] = s.silent
<1>1. /\ s.touch = <<>> /\ s.keys = <<>> /\ ~s.active
      /\ s.z2.report = "none" /\ ~s.z2.pending
      /\ \A k \in Buttons : ~s5l_gpioic_pending(s.board, k)
  BY DEF Quiet, TouchWaits, KeysWait
<1>2. HeldKeys(s) = {} /\ ~vm_button_ringer_reconcile(s)
  <2>1. vm_button_checkpoint_release(s) = <<>>
    BY DEF Quiet, KeysWait
  <2>. QED BY <2>1 DEF vm_button_checkpoint_release
<1>3. ~finger
  BY <1>1 DEF Good, Seen
<1>. QED BY <1>1, <1>2, <1>3 DEF HeldKeys, vm_button_ringer_reconcile, WillHoldFinger

LEMMA QuiesceSteps ==
  ASSUME NEW s, Good(s), NEW u \in Quiesce(s)
  PROVE  /\ Step(s, u)
         /\ Quiet(s) => u = [s EXCEPT !.shown = {}, !.hold = [k \in Momentary |-> "none"]]
<1>1. CASE Quiet(s)
  <2>1. u = [s EXCEPT !.shown = {}, !.hold = [k \in Momentary |-> "none"]]
    BY <1>1 DEF Quiesce
  <2>2. s \in Inputs
    BY DEF Good
  <2>3. [k \in Momentary |-> "none"] \in [Momentary -> Holds]
    BY DEF Holds
  <2>4. /\ u \in Inputs /\ u.touch = s.touch /\ u.active = s.active /\ u.z2 = s.z2
        /\ u.keys = s.keys /\ u.board = s.board /\ u.power = s.power
        /\ u.lost = s.lost /\ u.silent = s.silent
    BY <2>1, <2>2, <2>3 DEF Inputs
  <2>5. Good(u) /\ (WillHoldFinger(u) => WillHoldFinger(s))
    BY <2>4 DEF Good, Seen, WillHoldFinger
  <2>6. Keeps(s, u)
    BY <1>1, WhenQuiet DEF Keeps
  <2>7. Step(s, u)
    BY <2>4, <2>5, <2>6 DEF Step, Loose
  <2>. QED BY <2>1, <2>7
<1>2. CASE ~Quiet(s)
  <2>1. u = KeysLetGo(TouchLetGo(s))
    BY <1>2 DEF Quiesce
  <2>2. Step(s, TouchLetGo(s)) /\ Good(TouchLetGo(s))
    BY TouchLetGoSteps DEF Step
  <2>. QED BY <1>2, <2>1, <2>2, KeysLetGoSteps, StepThenStep
<1>. QED BY <1>1, <1>2

(* What no device has accepted is cancelled.                                 *)
LEMMA Cancels ==
  ASSUME NEW s, Good(s)
  PROVE  LET t == Cancelled(s)
         IN  /\ Good(t) /\ Keeps(s, t) /\ t.touch = <<>> /\ t.keys = <<>>
             /\ t.active = s.active /\ t.z2 = s.z2 /\ t.hold = s.hold
             /\ t.board = s.board /\ t.power = s.power /\ t.lost = s.lost
             /\ t.silent = s.silent /\ NoPress(t.keys)
             /\ \A k : ~Unmatched(t.keys, k)
<1>. DEFINE t == Cancelled(s)
<1>1. s \in Inputs /\ <<>> \in TouchQ /\ <<>> \in KeyQ
  BY Empty DEF Good
<1>2. /\ t \in Inputs /\ t.touch = <<>> /\ t.keys = <<>> /\ t.active = s.active
      /\ t.z2 = s.z2 /\ t.hold = s.hold /\ t.board = s.board /\ t.power = s.power
      /\ t.lost = s.lost /\ t.silent = s.silent
  BY <1>1 DEF Cancelled, Inputs
<1>. HIDE DEF t
<1>3. Good(t) /\ Keeps(s, t)
  BY <1>2, Empty DEF Good, Seen, Keeps
<1>4. DOMAIN t.keys = {}
  BY <1>2
<1>5. NoPress(t.keys) /\ \A k : ~Unmatched(t.keys, k)
  BY <1>4 DEF NoPress, Unmatched
<1>. QED BY <1>2, <1>3, <1>5 DEF t

-----------------------------------------------------------------------------
(* WHAT THE USER AND THE GESTURE PUT IN.                                     *)

(* A transition at the back of the queue.                                    *)
LEMMA PushKey ==
  ASSUME NEW q \in KeyQ, HasRoom(q), NEW e \in Events
  PROVE  /\ vm_button_queue_push(q, e) \in KeyQ
         /\ \A k : /\ e = Event(k, FALSE) => /\ ~Unmatched(vm_button_queue_push(q, e), k)
                                             /\ Releases(vm_button_queue_push(q, e), k)
                   /\ e # Event(k, FALSE) /\ e # Event(k, TRUE) =>
                        /\ Unmatched(vm_button_queue_push(q, e), k) => Unmatched(q, k)
                        /\ Releases(q, k) => Releases(vm_button_queue_push(q, e), k)
<1>. DEFINE t == Append(q, e)
<1>1. vm_button_queue_push(q, e) = t
  BY DEF vm_button_queue_push, HasRoom
<1>2. q \in Seq(Events) /\ Len(q) \in Nat /\ Len(q) < VM_BUTTON_QUEUE_CAP
  BY DEF KeyQ, HasRoom
<1>3. /\ t \in Seq(Events) /\ Len(t) = Len(q) + 1 /\ t[Len(q) + 1] = e
      /\ \A i \in 1 .. Len(q) : t[i] = q[i]
  BY <1>2
<1>4. t \in KeyQ
  BY <1>2, <1>3, KeyFacts DEF KeyQ
<1>5. DOMAIN q = 1 .. Len(q) /\ DOMAIN t = 1 .. Len(q) + 1
  BY <1>2, <1>3
<1>. HIDE DEF t
<1>6. ASSUME NEW k, e = Event(k, FALSE)
      PROVE  ~Unmatched(t, k) /\ Releases(t, k)
  <2>1. Len(q) + 1 \in DOMAIN t /\ t[Len(q) + 1] = Event(k, FALSE)
    BY <1>2, <1>3, <1>5, <1>6
  <2>2. Event(k, FALSE) # Event(k, TRUE)
    BY DEF Event
  <2>3. \A i \in DOMAIN t : i = Len(q) + 1 \/ Len(q) + 1 > i
    BY <1>2, <1>5
  <2>. QED BY <2>1, <2>2, <2>3 DEF Unmatched, Releases
<1>7. ASSUME NEW k, e # Event(k, FALSE), e # Event(k, TRUE)
      PROVE  (Unmatched(t, k) => Unmatched(q, k)) /\ (Releases(q, k) => Releases(t, k))
  <2>0. (\A i \in DOMAIN q : i \in DOMAIN t /\ t[i] = q[i])
        /\ \A i \in DOMAIN t : i = Len(q) + 1 \/ i \in DOMAIN q
    BY <1>2, <1>3, <1>5
  <2>1. Releases(q, k) => Releases(t, k)
    BY <2>0, Zenon DEF Releases
  <2>2. ASSUME Unmatched(t, k) PROVE Unmatched(q, k)
    <3>1. PICK i \in DOMAIN t :
            t[i] = Event(k, TRUE) /\ \A j \in DOMAIN t : j > i => t[j] # Event(k, FALSE)
      BY <2>2 DEF Unmatched
    <3>2. i \in DOMAIN q /\ q[i] = Event(k, TRUE)
      <4>1. i # Len(q) + 1
        BY <1>3, <1>7, <3>1
      <4>. QED BY <2>0, <3>1, <4>1
    <3>3. ASSUME NEW j \in DOMAIN q, j > i PROVE q[j] # Event(k, FALSE)
      <4>1. j \in DOMAIN t /\ t[j] = q[j]
        BY <1>2, <1>3, <1>5
      <4>. QED BY <4>1, <3>1, <3>3
    <3>. QED BY <3>2, <3>3 DEF Unmatched
  <2>. QED BY <2>1, <2>2
<1>. QED BY <1>1, <1>4, <1>6, <1>7

(* setButton:pressed: disturbs no other key; a release is queued behind      *)
(* everything, or recorded as lost.                                          *)
LEMMA Sets ==
  ASSUME NEW s, Good(s), NEW k \in Buttons, NEW p \in BOOLEAN
  PROVE  LET t == setButton(s, k, p)
         IN  /\ Good(t) /\ t.touch = s.touch /\ t.active = s.active /\ t.z2 = s.z2
             /\ t.hold = s.hold /\ t.board = s.board /\ t.power = s.power
             /\ t.lost.lift = s.lost.lift
             /\ life # "running" => t.lost = s.lost /\ t.keys = s.keys
             /\ \A j \in Momentary : j # k =>
                  /\ Unmatched(t.keys, j) => Unmatched(s.keys, j)
                  /\ Releases(s.keys, j) => Releases(t.keys, j)
                  /\ j \in s.lost.keys => j \in t.lost.keys
             /\ p => s.lost.keys \subseteq t.lost.keys
             /\ life = "running" /\ ~p /\ k \in Momentary =>
                  k \in t.lost.keys \/ (~Unmatched(t.keys, k) /\ Releases(t.keys, k))
<1>. DEFINE t == setButton(s, k, p)
            e == Event(k, p)
<1>1. s \in Inputs /\ s.keys \in KeyQ /\ s.lost \in Losses /\ s.shown \in SUBSET Momentary
      /\ s.silent \in BOOLEAN
  BY Fields DEF Good
<1>2. s.lost.keys \in SUBSET Momentary /\ s.lost.lift \in BOOLEAN
  BY <1>1, PartFields
<1>3. /\ e \in Events
      /\ ~p => e = Event(k, FALSE)
      /\ \A j : j # k => e # Event(j, FALSE) /\ e # Event(j, TRUE)
  BY DEF Events, Event
<1>4. CASE Taken(s)
  <2>. DEFINE q == vm_button_queue_push(s.keys, e)
              sh == IF k = "RINGERAB" THEN s.shown
                    ELSE IF p THEN s.shown \cup {k} ELSE s.shown \ {k}
              si == IF k = "RINGERAB" THEN p ELSE s.silent
              lk == IF p THEN s.lost.keys ELSE s.lost.keys \ {k}
              l == [s.lost EXCEPT !.keys = lk]
  <2>1. t = [s EXCEPT !.keys = q, !.shown = sh, !.silent = si, !.lost = l]
    BY <1>1, <1>4 DEF setButton, Inputs, Losses
  <2>2. life = "running" /\ HasRoom(s.keys)
    BY <1>4 DEF Taken
  <2>3. /\ q \in KeyQ
        /\ \A j : /\ e = Event(j, FALSE) => ~Unmatched(q, j) /\ Releases(q, j)
                  /\ e # Event(j, FALSE) /\ e # Event(j, TRUE) =>
                       /\ Unmatched(q, j) => Unmatched(s.keys, j)
                       /\ Releases(s.keys, j) => Releases(q, j)
    BY <1>1, <1>3, <2>2, PushKey
  <2>4. sh \in SUBSET Momentary
    BY <1>1, KeyFacts
  <2>5. si \in BOOLEAN
    BY <1>1
  <2>6. l \in Losses /\ l.lift = s.lost.lift /\ l.keys = lk
    BY <1>1, <1>2 DEF Losses
  <2>. HIDE DEF q, sh, si, l
  <2>7. /\ t \in Inputs /\ t.touch = s.touch /\ t.active = s.active /\ t.z2 = s.z2
        /\ t.hold = s.hold /\ t.board = s.board /\ t.power = s.power
        /\ t.lost = l /\ t.keys = q
    BY <1>1, <2>1, <2>3, <2>4, <2>5, <2>6 DEF Inputs
  <2>. HIDE DEF t
  <2>8. Good(t)
    BY <2>7 DEF Good, Seen
  <2>9. \A j \in Momentary : j # k =>
                  /\ Unmatched(t.keys, j) => Unmatched(s.keys, j)
                  /\ Releases(s.keys, j) => Releases(t.keys, j)
                  /\ j \in s.lost.keys => j \in t.lost.keys
    BY <1>3, <2>3, <2>6, <2>7
  <2>10. p => s.lost.keys \subseteq t.lost.keys
    BY <2>6, <2>7
  <2>11. ~p => ~Unmatched(t.keys, k) /\ Releases(t.keys, k)
    BY <1>3, <2>3, <2>7
  <2>12. t.lost.lift = s.lost.lift
    BY <2>6, <2>7
  <2>. QED BY <2>2, <2>7, <2>8, <2>9, <2>10, <2>11, <2>12 DEF t
<1>5. CASE ~Taken(s)
  <2>. DEFINE lk == IF life = "running" /\ ~p /\ k \in Momentary
                    THEN s.lost.keys \cup {k} ELSE s.lost.keys
              l == [s.lost EXCEPT !.keys = lk]
  <2>1. t = [s EXCEPT !.lost = l]
    BY <1>1, <1>5 DEF setButton, Inputs, Losses
  <2>2. l \in Losses /\ l.lift = s.lost.lift /\ l.keys = lk /\ (life # "running" => l = s.lost)
    BY <1>1, <1>2 DEF Losses
  <2>. HIDE DEF l
  <2>3. /\ t \in Inputs /\ t.touch = s.touch /\ t.active = s.active /\ t.z2 = s.z2
        /\ t.hold = s.hold /\ t.board = s.board /\ t.power = s.power
        /\ t.lost = l /\ t.keys = s.keys
    BY <1>1, <2>1, <2>2 DEF Inputs
  <2>. HIDE DEF t
  <2>4. Good(t)
    BY <2>3 DEF Good, Seen
  <2>. QED BY <2>2, <2>3, <2>4 DEF t
<1>. QED BY <1>4, <1>5

(* sendTouchAtGuestX:y:phase: touches no key; a lift is the last report of   *)
(* the queue afterwards.                                                     *)
LEMMA Sends ==
  ASSUME NEW s, Good(s), NEW p \in TouchPhase
  PROVE  LET t == sendTouch(s, p)
         IN  /\ Good(t) /\ t.keys = s.keys /\ t.active = s.active /\ t.z2 = s.z2
             /\ t.hold = s.hold /\ t.board = s.board /\ t.power = s.power
             /\ t.lost.keys = s.lost.keys
             /\ life # "running" => t = s
             /\ life = "running" /\ p = "break" => ~WillHoldFinger(t)
             /\ t.lost.lift = s.lost.lift \/ (life = "running" /\ p = "break")
<1>. DEFINE t == sendTouch(s, p)
            push == vm_touch_queue_push(s.touch, p)
<1>1. s \in Inputs /\ Lifts(s.touch) /\ s.touch \in TouchQ /\ s.lost \in Losses
  BY Fields DEF Good
<1>2. s.lost.keys \in SUBSET Momentary /\ s.lost.lift \in BOOLEAN
  BY <1>1, PartFields
<1>3. CASE life # "running"
  <2>1. t = s
    BY <1>3 DEF sendTouch
  <2>. QED BY <1>3, <2>1
<1>4. CASE life = "running"
  <2>. DEFINE li == s.lost.lift /\ ~(push.taken /\ p = "break")
              l == [s.lost EXCEPT !.lift = li]
  <2>1. /\ push.queue \in TouchQ /\ Lifts(push.queue) /\ push.taken \in BOOLEAN
        /\ push.taken => push.queue # <<>> /\ Last(push.queue) = p
        /\ ~push.taken => push.queue = s.touch
        /\ p = "break" /\ ~push.taken => s.touch # <<>> /\ Last(s.touch) = "break"
    BY <1>1, Push
  <2>. HIDE DEF push
  <2>2. t = [s EXCEPT !.touch = push.queue, !.lost = l]
    BY <1>1, <1>4 DEF sendTouch, push, Inputs, Losses
  <2>3. li \in BOOLEAN /\ (p # "break" => li = s.lost.lift)
    BY <1>2
  <2>. HIDE DEF li
  <2>4. l \in Losses /\ l.keys = s.lost.keys /\ l.lift = li
    BY <1>1, <2>3 DEF Losses
  <2>. HIDE DEF l
  <2>5. /\ t \in Inputs /\ t.touch = push.queue /\ t.active = s.active /\ t.z2 = s.z2
        /\ t.keys = s.keys /\ t.hold = s.hold /\ t.board = s.board /\ t.power = s.power
        /\ t.lost = l
    BY <1>1, <2>1, <2>2, <2>4 DEF Inputs
  <2>. HIDE DEF t
  <2>6. Good(t)
    BY <2>1, <2>5 DEF Good, Seen
  <2>7. p = "break" => ~WillHoldFinger(t)
    BY <2>1, <2>5 DEF WillHoldFinger
  <2>. QED BY <1>4, <2>3, <2>4, <2>5, <2>6, <2>7 DEF t
<1>. QED BY <1>3, <1>4

(* A quiesce that is given up says what it leaves behind.                    *)
LEMMA GivesUp ==
  ASSUME NEW s, Good(s), user.finger \in BOOLEAN
  PROVE  LET t == GivenUp(s)
         IN  /\ Good(t) /\ t.touch = s.touch /\ t.keys = s.keys /\ t.active = s.active
             /\ t.z2 = s.z2 /\ t.hold = s.hold /\ t.board = s.board /\ t.power = s.power
             /\ s.lost.keys \subseteq t.lost.keys
             /\ \A k \in Momentary : s.board.held[k] /\ ~Releases(s.keys, k) =>
                                       k \in user.keys \/ k \in t.lost.keys
             /\ WillHoldFinger(t) => WillHoldFinger(s) /\ (user.finger \/ t.lost.lift)
<1>. DEFINE t == GivenUp(s)
            lk == s.lost.keys \cup {k \in Momentary \ user.keys :
                               s.board.held[k] /\ ~Releases(s.keys, k)}
            li == s.lost.lift \/ (WillHoldFinger(s) /\ ~user.finger)
            l == [s.lost EXCEPT !.keys = lk, !.lift = li]
<1>1. s \in Inputs /\ s.lost \in Losses
  BY Fields DEF Good
<1>2. s.lost.keys \in SUBSET Momentary /\ s.lost.lift \in BOOLEAN
  BY <1>1, PartFields
<1>3. t = [s EXCEPT !.lost = l]
  BY <1>1 DEF GivenUp, Inputs, Losses
<1>4. lk \in SUBSET Momentary
  BY <1>2
<1>5. li \in BOOLEAN
  OBVIOUS
<1>6. /\ s.lost.keys \subseteq lk
      /\ \A k \in Momentary : s.board.held[k] /\ ~Releases(s.keys, k) =>
                                       k \in user.keys \/ k \in lk
  OBVIOUS
<1>7. WillHoldFinger(s) => user.finger \/ li
  OBVIOUS
<1>. HIDE DEF lk, li
<1>8. l \in Losses /\ l.keys = lk /\ l.lift = li
  BY <1>1, <1>4, <1>5 DEF Losses
<1>. HIDE DEF l
<1>9. /\ t \in Inputs /\ t.touch = s.touch /\ t.active = s.active /\ t.z2 = s.z2
      /\ t.keys = s.keys /\ t.hold = s.hold /\ t.board = s.board /\ t.power = s.power
      /\ t.lost = l
  BY <1>1, <1>3, <1>8 DEF Inputs
<1>. HIDE DEF t
<1>10. Good(t) /\ (WillHoldFinger(t) => WillHoldFinger(s))
  BY <1>9 DEF Good, Seen, WillHoldFinger
<1>. QED BY <1>6, <1>7, <1>8, <1>9, <1>10 DEF t

-----------------------------------------------------------------------------
(* THE INVARIANT.                                                            *)

(* The engine's own state: a gesture runs only on a running machine, a       *)
(* prepared checkpoint has cancelled the queues, and the act of a gesture    *)
(* belongs to its phase.                                                     *)
Modes ==
  /\ life # "running" => shut.at = "none"
  /\ prepared => life = "checkpoint" /\ touch = <<>> /\ NoPress(keys)
  /\ shut.at = "none" => shut = NoShutdown
  /\ shut.at = "requested" => ~shut.quiescent
  /\ ~shut.quiescent => shut.phase = "WAKE" /\ shut.act \in {"NONE", "COMPLETE", "TIMEOUT"}
  /\ shut.at = "act" <=> shut.act # "NONE"
  /\ shut.act = "HOME_DOWN" => shut.phase = "HOME_HELD"
  /\ shut.act = "POWER_DOWN" => shut.phase = "POWER_START"
  /\ shut.act \in {"TOUCH_DOWN", "TOUCH_MOVE"} => shut.phase \in {"DRAGGING", "DRAG_RELEASE"}
  /\ shut.phase = "DRAGGING" => shut.step < DRAG_STEPS

(* Outside a checkpoint a finger that will be down is someone's.             *)
FingerOwned ==
  life # "checkpoint" /\ WillHoldFinger(Here) =>
     user.finger \/ GestureTouches \/ lost.lift

(* Who lets a key go: the user, the gesture once it has begun, or no one any *)
(* more.                                                                     *)
Owner(k) ==
  \/ k \in user.keys \/ k \in lost.keys
  \/ shut.at # "none" /\ shut.quiescent /\ GestureHolds(k)

(* A press that is queued without its release has an owner, unless it will   *)
(* be cancelled; a key that is down without its release in the queue has     *)
(* one, unless a quiesce will let it go or a saved machine has no power.     *)
KeysOwned ==
  \A k \in Momentary :
    /\ Unmatched(keys, k) => Owner(k) \/ (life = "checkpoint" /\ ~prepared)
    /\ board.held[k] /\ ~Releases(keys, k) =>
         \/ Owner(k) \/ life = "checkpoint" \/ (shut.at # "none" /\ ~shut.quiescent)
         \/ (life = "saved" /\ power = "off")

IInv == /\ TypeOK /\ LiftHasRoom /\ Seen(Here) /\ Modes
        /\ FingerOwned /\ KeysOwned /\ QuietSave

Gestures == [at : {"none", "requested", "step", "act"},
             quiescent : BOOLEAN, phase : Phases, step : 0 .. DRAG_STEPS, act : Acts]
Users == [finger : BOOLEAN, keys : SUBSET Momentary, events : 0 .. MaxEvents]

LEMMA HereFields ==
  /\ Here.touch = touch /\ Here.active = active /\ Here.keys = keys
  /\ Here.hold = hold /\ Here.shown = shown /\ Here.silent = silent
  /\ Here.z2 = z2 /\ Here.board = board /\ Here.power = power /\ Here.lost = lost
  BY DEF Here

(* The types of the variables, and the input state as one value.             *)
LEMMA Typing ==
  TypeOK <=> /\ Here \in Inputs /\ life \in {"running", "checkpoint", "saved"}
             /\ prepared \in BOOLEAN /\ shut \in Gestures /\ finger \in BOOLEAN
             /\ user \in Users
<1>1. Here \in Inputs <=>
        /\ touch \in TouchQ /\ active \in BOOLEAN /\ keys \in KeyQ
        /\ hold \in [Momentary -> Holds] /\ shown \in SUBSET Momentary
        /\ silent \in BOOLEAN /\ z2 \in Controllers /\ board \in Boards
        /\ power \in {"on", "asleep", "off"} /\ lost \in Losses
  <2>1. ASSUME Here \in Inputs
        PROVE  /\ touch \in TouchQ /\ active \in BOOLEAN /\ keys \in KeyQ
               /\ hold \in [Momentary -> Holds] /\ shown \in SUBSET Momentary
               /\ silent \in BOOLEAN /\ z2 \in Controllers /\ board \in Boards
               /\ power \in {"on", "asleep", "off"} /\ lost \in Losses
    BY <2>1, Fields, HereFields
  <2>. QED BY <2>1 DEF Here, Inputs
<1>. QED BY <1>1 DEF TypeOK, TouchQ, KeyQ, Holds, Events, Controllers, Boards, Losses,
                     Gestures, Users

(* What the invariant says of the input state as a value.                    *)
LEMMA NowGood ==
  ASSUME IInv
  PROVE  /\ Good(Here) /\ shut \in Gestures /\ user \in Users /\ finger \in BOOLEAN
         /\ user.finger \in BOOLEAN /\ user.keys \in SUBSET Momentary
         /\ user.events \in 0 .. MaxEvents
<1>1. Here \in Inputs /\ shut \in Gestures /\ user \in Users /\ finger \in BOOLEAN
  BY Typing DEF IInv
<1>2. Lifts(Here.touch)
  BY HereFields DEF IInv, LiftHasRoom, Lifts
<1>3. Seen(Here)
  BY DEF IInv
<1>. QED BY <1>1, <1>2, <1>3 DEF Good, Users

(* The engine has left the input state u behind.                             *)
LEMMA Arrived ==
  ASSUME NEW u, Good(u), Becomes(u), finger' = finger
  PROVE  /\ touch' = u.touch /\ active' = u.active /\ keys' = u.keys /\ hold' = u.hold
         /\ shown' = u.shown /\ silent' = u.silent /\ z2' = u.z2 /\ board' = u.board
         /\ power' = u.power /\ lost' = u.lost
         /\ (Here \in Inputs)' /\ LiftHasRoom' /\ Seen(Here)'
         /\ WillHoldFinger(Here)' <=> WillHoldFinger(u)
         /\ \A k : (Releases(keys, k))' <=> Releases(u.keys, k)
         /\ \A k : (Unmatched(keys, k))' <=> Unmatched(u.keys, k)
<1>1. /\ touch' = u.touch /\ active' = u.active /\ keys' = u.keys /\ hold' = u.hold
      /\ shown' = u.shown /\ silent' = u.silent /\ z2' = u.z2 /\ board' = u.board
      /\ power' = u.power /\ lost' = u.lost
  BY DEF Becomes
<1>2. u \in Inputs /\ Lifts(u.touch) /\ Seen(u)
  BY DEF Good
<1>3. (Here \in Inputs)'
  BY <1>1, <1>2, Fields DEF Here, Inputs
<1>4. LiftHasRoom'
  BY <1>1, <1>2 DEF LiftHasRoom, Lifts
<1>5. Seen(Here)'
  BY <1>1, <1>2 DEF Seen, Here
<1>6. WillHoldFinger(Here)' <=> WillHoldFinger(u)
  BY <1>1 DEF WillHoldFinger, Here
<1>7. /\ \A k : (Releases(keys, k))' <=> Releases(u.keys, k)
      /\ \A k : (Unmatched(keys, k))' <=> Unmatched(u.keys, k)
  BY <1>1 DEF Releases, Unmatched
<1>. QED BY <1>1, <1>3, <1>4, <1>5, <1>6, <1>7

(* A turn of the engine that leaves the machine running.                     *)
LEMMA StillRunning ==
  ASSUME IInv, NEW u, Good(u), Becomes(u), finger' = finger, user' = user,
         life' = "running", prepared' = FALSE, shut' \in Gestures, Modes',
         WillHoldFinger(u) => user.finger \/ GestureTouches' \/ u.lost.lift,
         \A k \in Momentary :
           LET owned == \/ k \in user.keys \/ k \in u.lost.keys
                        \/ shut'.at # "none" /\ shut'.quiescent /\ GestureHolds(k)'
           IN  /\ Unmatched(u.keys, k) => owned
               /\ Loose(u, k) => owned \/ (shut'.at # "none" /\ ~shut'.quiescent)
  PROVE  IInv'
<1>1. /\ board' = u.board /\ lost' = u.lost
      /\ (Here \in Inputs)' /\ LiftHasRoom' /\ Seen(Here)'
      /\ WillHoldFinger(Here)' <=> WillHoldFinger(u)
      /\ \A k : (Releases(keys, k))' <=> Releases(u.keys, k)
      /\ \A k : (Unmatched(keys, k))' <=> Unmatched(u.keys, k)
  BY Arrived
<1>2. TypeOK'
  <2>1. (life \in {"running", "checkpoint", "saved"})' /\ (prepared \in BOOLEAN)'
    OBVIOUS
  <2>2. (shut \in Gestures)' /\ (finger \in BOOLEAN)' /\ (user \in Users)'
    <3>1. user' \in Users /\ finger' \in BOOLEAN
      BY NowGood
    <3>. QED BY <3>1 DEF Users, Gestures
  <2>. QED BY <1>1, <2>1, <2>2, Typing, PTL
<1>3. FingerOwned'
  BY <1>1 DEF FingerOwned
<1>4. KeysOwned'
  <2>. SUFFICES ASSUME NEW k \in Momentary
                PROVE  /\ Unmatched(keys, k)' => Owner(k)'
                       /\ board'.held[k] /\ ~Releases(keys, k)' =>
                            Owner(k)' \/ (shut'.at # "none" /\ ~shut'.quiescent)
    BY DEF KeysOwned
  <2>1. Owner(k)' <=> \/ k \in user.keys \/ k \in u.lost.keys
                      \/ shut'.at # "none" /\ shut'.quiescent /\ GestureHolds(k)'
    BY <1>1 DEF Owner
  <2>. QED BY <1>1, <2>1 DEF Loose
<1>5. QuietSave'
  BY DEF QuietSave
<1>. QED BY <1>1, <1>2, <1>3, <1>4, <1>5 DEF IInv

-----------------------------------------------------------------------------
(* THE STEPS OF THE ENGINE.                                                  *)

(* A transition that is pressed without a release is not among transitions   *)
(* that press nothing.                                                       *)
LEMMA NothingPressed ==
  ASSUME NEW q, NoPress(q), NEW k \in Momentary
  PROVE  ~Unmatched(q, k)
  BY DEF NoPress, Unmatched, Event

LEMMA PreparedGood ==
  ASSUME IInv, life = "checkpoint"
  PROVE  LET p == Prepared
         IN  /\ Good(p) /\ Keeps(Here, p) /\ p.touch = <<>> /\ NoPress(p.keys)
             /\ p.power = power /\ p.board.armed = board.armed
<1>1. Good(Here)
  BY NowGood
<1>2. CASE prepared
  <2>1. Prepared = Here
    BY <1>2 DEF Prepared
  <2>2. touch = <<>> /\ NoPress(keys)
    BY <1>2 DEF IInv, Modes
  <2>. QED BY <1>1, <2>1, <2>2, HereFields DEF Keeps
<1>3. CASE ~prepared
  <2>1. Prepared = Cancelled(Here)
    BY <1>3 DEF Prepared
  <2>. QED BY <1>1, <2>1, Cancels, HereFields
<1>. QED BY <1>2, <1>3 DEF IInv, TypeOK

(* A turn of a wanted checkpoint: the machine is saved at rest, or without   *)
(* power; it goes on waiting, or gives up and says what it left.             *)
LEMMA CheckpointKeeps ==
  ASSUME IInv, Checkpoint
  PROVE  IInv' /\ Keeps(Here, Here')
<1>. DEFINE p == Prepared
<1>1. life = "checkpoint" /\ shut.at = "none" /\ shut = NoShutdown
  BY DEF Checkpoint, IInv, Modes
<1>2. /\ Good(p) /\ Keeps(Here, p) /\ p.touch = <<>> /\ NoPress(p.keys)
      /\ p.power = power
  BY <1>1, PreparedGood
<1>3. PICK outcome, s, ready :
        /\ outcome \in {"ok", "busy", "error"} /\ ready \in BOOLEAN
        /\ CheckpointTurn(s, ready, outcome)
        /\ \/ s = p /\ power = "off"
           \/ s \in Quiesce(p) /\ (ready <=> Quiet(p)) /\ power # "off"
  <2>1. PICK outcome \in {"ok", "busy", "error"} :
          IF power = "off" THEN CheckpointTurn(p, TRUE, outcome)
          ELSE \E s \in Quiesce(p) : CheckpointTurn(s, Quiet(p), outcome)
    BY DEF Checkpoint
  <2>2. Quiet(p) \in BOOLEAN
    BY DEF Quiet
  <2>3. CASE power = "off"
    <3>1. CheckpointTurn(p, TRUE, outcome)
      BY <2>1, <2>3
    <3>. QED BY <3>1, <2>3, Zenon
  <2>4. CASE power # "off"
    <3>1. PICK s \in Quiesce(p) : CheckpointTurn(s, Quiet(p), outcome)
      BY <2>1, <2>4
    <3>. QED BY <3>1, <2>2, <2>4, Zenon
  <2>. QED BY <2>3, <2>4
<1>. HIDE DEF p
<1>4. Step(p, s)
  BY <1>2, <1>3, NoStep, QuiesceSteps
<1>5. Good(s) /\ s.touch = <<>> /\ NoPress(s.keys)
  BY <1>2, <1>4 DEF Step
<1>6. Keeps(Here, s)
  BY <1>2, <1>4 DEF Step, Keeps
<1>7. /\ prepared' = (outcome = "busy") /\ shut' = shut /\ finger' = finger /\ user' = user
      /\ outcome = "ok" => life' = "saved" /\ ready
      /\ outcome = "busy" => life' = "checkpoint"
      /\ outcome = "error" => life' = "running"
      /\ Becomes(IF outcome = "error" THEN GivenUp(s) ELSE s)
  BY <1>3 DEF CheckpointTurn
<1>8. /\ user.finger \in BOOLEAN /\ shut' \in Gestures /\ user' \in Users /\ finger' \in BOOLEAN
  BY <1>7, NowGood
<1>9. Modes' \/ outcome = "busy"
  BY <1>1, <1>7 DEF Modes, NoShutdown, IInv
<1>10. CASE outcome = "error"
  <2>. DEFINE u == GivenUp(s)
  <2>1. /\ Good(u) /\ u.keys = s.keys /\ u.hold = s.hold /\ u.board = s.board
        /\ \A k \in Momentary : s.board.held[k] /\ ~Releases(s.keys, k) =>
                                       k \in user.keys \/ k \in u.lost.keys
        /\ WillHoldFinger(u) => user.finger \/ u.lost.lift
    BY <1>5, <1>8, GivesUp
  <2>2. Becomes(u)
    BY <1>7, <1>10
  <2>. HIDE DEF u
  <2>3. \A k \in Momentary : ~Unmatched(u.keys, k)
    BY <2>1, <1>5, NothingPressed
  <2>4. \A k \in Momentary : Loose(u, k) => k \in user.keys \/ k \in u.lost.keys
    BY <2>1, <2>3 DEF Loose
  <2>5. life' = "running" /\ prepared' = FALSE
    BY <1>7, <1>10
  <2>6. IInv'
    BY <1>7, <1>8, <1>9, <1>10, <2>1, <2>2, <2>3, <2>4, <2>5, StillRunning
  <2>7. Keeps(Here, Here')
    BY <1>6, <1>7, <2>1, <2>2, Arrived DEF Keeps, Here
  <2>. QED BY <2>6, <2>7
<1>11. CASE outcome # "error"
  <2>1. Becomes(s)
    BY <1>7, <1>11
  <2>2. /\ touch' = s.touch /\ active' = s.active /\ keys' = s.keys /\ hold' = s.hold
        /\ z2' = s.z2 /\ board' = s.board /\ power' = s.power /\ silent' = s.silent
        /\ (Here \in Inputs)' /\ LiftHasRoom' /\ Seen(Here)'
        /\ WillHoldFinger(Here)' <=> WillHoldFinger(s)
        /\ \A k : (Releases(keys, k))' <=> Releases(s.keys, k)
        /\ \A k : (Unmatched(keys, k))' <=> Unmatched(s.keys, k)
    BY <1>5, <1>7, <2>1, Arrived
  <2>3. TypeOK'
    <3>1. (life \in {"running", "checkpoint", "saved"})' /\ (prepared \in BOOLEAN)'
      BY <1>3, <1>7, <1>11
    <3>2. (shut \in Gestures)' /\ (finger \in BOOLEAN)' /\ (user \in Users)'
      BY <1>8 DEF Users, Gestures
    <3>. QED BY <2>2, <3>1, <3>2, Typing, PTL
  <2>4. Modes'
    <3>1. NoPress(keys)'
      BY <1>5, <2>2 DEF NoPress
    <3>. QED BY <1>1, <1>5, <1>7, <1>9, <2>2, <3>1 DEF Modes, NoShutdown
  <2>5. Keeps(Here, Here')
    BY <1>6, <2>2 DEF Keeps, Here
  <2>6. \A k \in Momentary : ~Unmatched(keys, k)'
    BY <1>5, <2>2, NothingPressed
  <2>7. CASE outcome = "busy"
    <3>1. life' = "checkpoint"
      BY <1>7, <2>7
    <3>2. FingerOwned' /\ QuietSave'
      BY <3>1 DEF FingerOwned, QuietSave
    <3>3. KeysOwned'
      BY <3>1, <2>6 DEF KeysOwned
    <3>. QED BY <2>2, <2>3, <2>4, <2>5, <3>2, <3>3 DEF IInv
  <2>8. CASE outcome = "ok" /\ power = "off"
    <3>1. s = p /\ life' = "saved" /\ power' = "off"
      BY <1>2, <1>3, <1>7, <2>2, <2>8
    <3>2. QuietSave'
      BY <3>1 DEF QuietSave
    <3>3. ~WillHoldFinger(s)
      <4>1. Seen(s) /\ s.power = "off"
        BY <1>5, <3>1, <2>2 DEF Good
      <4>. QED BY <1>5, <4>1 DEF Seen, WillHoldFinger
    <3>4. FingerOwned'
      BY <3>3, <2>2 DEF FingerOwned
    <3>5. KeysOwned'
      BY <3>1, <2>6 DEF KeysOwned
    <3>. QED BY <2>2, <2>3, <2>4, <2>5, <3>2, <3>4, <3>5 DEF IInv
  <2>9. CASE outcome = "ok" /\ power # "off"
    <3>1. Quiet(p) /\ life' = "saved" /\ s \in Quiesce(p)
      BY <1>3, <1>7, <2>9
    <3>2. s = [p EXCEPT !.shown = {}, !.hold = [k \in Momentary |-> "none"]]
      BY <1>2, <3>1, QuiesceSteps
    <3>3. p \in Inputs
      BY <1>2 DEF Good
    <3>4. /\ s.touch = p.touch /\ s.keys = p.keys /\ s.active = p.active /\ s.z2 = p.z2
          /\ s.board = p.board /\ s.silent = p.silent
          /\ \A k \in Momentary : s.hold[k] = "none"
      BY <3>2, <3>3 DEF Inputs
    <3>5. /\ p.touch = <<>> /\ p.keys = <<>> /\ ~p.active
          /\ p.z2.report = "none" /\ ~p.z2.pending /\ ~finger
          /\ \A k \in Momentary : ~p.board.held[k]
          /\ \A k \in Buttons : ~s5l_gpioic_pending(p.board, k)
          /\ p.board.held["RINGERAB"] = p.silent
      BY <1>2, <3>1, WhenQuiet
    <3>6. QuietSave'
      <4>1. \A k \in Buttons : ~s5l_gpioic_pending(board', k)
        BY <2>2, <3>4, <3>5
      <4>. QED BY <1>7, <2>2, <3>4, <3>5, <4>1 DEF QuietSave, s5l_gpioic_pending
    <3>7. FingerOwned'
      <4>1. ~WillHoldFinger(s)
        BY <3>4, <3>5 DEF WillHoldFinger
      <4>. QED BY <4>1, <2>2 DEF FingerOwned
    <3>8. KeysOwned'
      <4>1. \A k \in Momentary : ~board'.held[k]
        BY <2>2, <3>4, <3>5
      <4>. QED BY <4>1, <2>6 DEF KeysOwned
    <3>. QED BY <2>2, <2>3, <2>4, <2>5, <3>6, <3>7, <3>8 DEF IInv
  <2>. QED BY <1>3, <1>11, <2>7, <2>8, <2>9
<1>. QED BY <1>10, <1>11

(* An ordinary turn, without and with the wakeup of a USB client.            *)
LEMMA DrainKeeps ==
  ASSUME IInv, Drain
  PROVE  IInv' /\ Keeps(Here, Here')
<1>1. life = "running" /\ shut.at = "none" /\ prepared = FALSE /\ shut \in Gestures
  BY NowGood DEF Drain, IInv, Modes, TypeOK
<1>2. PICK s, u : (s = Here \/ s = Woken(Here)) /\ u \in Drained(s) /\ Becomes(u)
  BY DEF Drain
<1>3. /\ life' = life /\ prepared' = prepared /\ shut' = shut
      /\ finger' = finger /\ user' = user
  BY DEF Drain
<1>4. Good(Here)
  BY NowGood
<1>5. /\ Good(s) /\ Keeps(Here, s) /\ s.lost = lost
      /\ WillHoldFinger(s) => WillHoldFinger(Here)
      /\ \A k \in Momentary : /\ Unmatched(s.keys, k) => Unmatched(keys, k)
                              /\ Loose(s, k) => Loose(Here, k)
  <2>1. CASE s = Here
    BY <2>1, <1>4, HereFields DEF Keeps
  <2>2. CASE s # Here
    <3>. DEFINE q == <<Event("MENU", TRUE), Event("MENU", FALSE)>>
    <3>1. s = [Here EXCEPT !.keys = q] /\ keys = <<>>
      BY <1>2, <2>2, HereFields DEF Woken
    <3>2. q \in KeyQ
      <4>1. "MENU" \in Buttons /\ TRUE \in BOOLEAN /\ FALSE \in BOOLEAN
        BY KeyFacts
      <4>2. \A p \in BOOLEAN : Event("MENU", p) \in Events
        BY <4>1 DEF Event, Events
      <4>3. \A a, b \in Events : <<a, b>> \in Seq(Events) /\ Len(<<a, b>>) = 2
        OBVIOUS
      <4>4. q \in Seq(Events) /\ Len(q) = 2
        BY <4>1, <4>2, <4>3, Zenon
      <4>. QED BY <4>4, KeyFacts DEF KeyQ
    <3>3. \A k \in Momentary : ~Unmatched(q, k)
      <4>1. DOMAIN q = {1, 2} /\ q[1] = Event("MENU", TRUE) /\ q[2] = Event("MENU", FALSE)
        OBVIOUS
      <4>2. ASSUME NEW k \in Momentary, Unmatched(q, k) PROVE FALSE
        <5>1. PICK i \in {1, 2} : /\ q[i] = Event(k, TRUE)
                                  /\ \A j \in {1, 2} : j > i => q[j] # Event(k, FALSE)
          BY <4>1, <4>2 DEF Unmatched
        <5>2. CASE i = 1
          <6>1. k = "MENU"
            BY <4>1, <5>1, <5>2 DEF Event
          <6>2. q[2] # Event(k, FALSE)
            <7>1. 2 > 1
              OBVIOUS
            <7>. QED BY <5>1, <5>2, <7>1
          <6>. QED BY <4>1, <6>1, <6>2
        <5>3. CASE i = 2
          BY <4>1, <5>1, <5>3 DEF Event
        <5>. QED BY <5>2, <5>3
      <4>. QED BY <4>2
    <3>. HIDE DEF q
    <3>4. /\ s \in Inputs /\ s.keys = q /\ s.touch = Here.touch /\ s.active = Here.active
          /\ s.z2 = Here.z2 /\ s.board = Here.board /\ s.hold = Here.hold
          /\ s.power = Here.power /\ s.lost = Here.lost
      BY <1>4, <3>1, <3>2 DEF Good, Inputs
    <3>5. Good(s) /\ Keeps(Here, s) /\ s.lost = lost
      BY <1>4, <3>4, HereFields DEF Good, Seen, Keeps
    <3>6. WillHoldFinger(s) => WillHoldFinger(Here)
      BY <3>4 DEF WillHoldFinger
    <3>7. \A k \in Momentary : Loose(s, k) => Loose(Here, k)
      <4>1. \A k : ~Releases(Here.keys, k)
        BY <3>1, HereFields DEF Releases
      <4>. QED BY <4>1, <3>3, <3>4 DEF Loose
    <3>. QED BY <3>3, <3>4, <3>5, <3>6, <3>7
  <2>. QED BY <2>1, <2>2
<1>6. Step(s, u)
  BY <1>2, <1>5, DrainedSteps
<1>7. Good(u)
  BY <1>6 DEF Step
<1>8. \A k \in Momentary : Loose(Here, k) => k \in user.keys \/ k \in lost.keys
  <2>1. \A k \in Momentary : Owner(k) => k \in user.keys \/ k \in lost.keys
    BY <1>1 DEF Owner
  <2>. QED BY <1>1, <2>1, HereFields DEF Loose, IInv, KeysOwned
<1>9. \A k \in Momentary :
        /\ Unmatched(u.keys, k) => k \in user.keys \/ k \in u.lost.keys
        /\ Loose(u, k) => k \in user.keys \/ k \in u.lost.keys
  <2>1. \A k \in Momentary : /\ Loose(u, k) => Loose(s, k) \/ k \in u.lost.keys
                             /\ Unmatched(u.keys, k) => Loose(u, k)
    BY <1>6 DEF Step, Loose
  <2>2. lost.keys \subseteq u.lost.keys
    BY <1>5, <1>6 DEF Step
  <2>. QED BY <1>5, <1>8, <2>1, <2>2
<1>10. WillHoldFinger(u) => user.finger \/ u.lost.lift
  <2>1. WillHoldFinger(u) => WillHoldFinger(Here)
    BY <1>5, <1>6 DEF Step
  <2>2. WillHoldFinger(Here) => user.finger \/ lost.lift
    BY <1>1 DEF IInv, FingerOwned, GestureTouches
  <2>3. u.lost.lift = lost.lift
    BY <1>5, <1>6 DEF Step
  <2>. QED BY <2>1, <2>2, <2>3
<1>11. Modes'
  BY <1>1, <1>3 DEF Modes, IInv
<1>12. IInv'
  BY <1>1, <1>2, <1>3, <1>7, <1>9, <1>10, <1>11, StillRunning
<1>13. Keeps(Here, Here')
  BY <1>2, <1>3, <1>5, <1>6, <1>7, Arrived DEF Step, Keeps, Here
<1>. QED BY <1>12, <1>13

(* What the gesture may do next, as a relation between the phase it is in    *)
(* and the phase, the drag step and the act it goes on with.                 *)
GoesOn(n) ==
  /\ n \in Gestures
  /\ n.act = "HOME_DOWN" => n.phase = "HOME_HELD"
  /\ n.act = "POWER_DOWN" => n.phase = "POWER_START"
  /\ n.act \in {"TOUCH_DOWN", "TOUCH_MOVE"} => n.phase \in {"DRAGGING", "DRAG_RELEASE"}
  /\ n.phase = "DRAGGING" => n.step < DRAG_STEPS
  /\ shut.phase \in {"DRAGGING", "DRAG_RELEASE"} =>
       n.phase \in {"DRAGGING", "DRAG_RELEASE"} \/ n.act = "TOUCH_UP"
  /\ shut.phase = "HOME_HELD" => n.phase = "HOME_HELD" \/ n.act = "HOME_UP"
  /\ shut.phase \in {"POWER_START", "POWER_HELD"} =>
       n.phase \in {"POWER_START", "POWER_HELD"} \/ n.act = "POWER_UP"

LEMMA PhaseGoesOn ==
  ASSUME shut \in Gestures, shut.phase = "DRAGGING" => shut.step < DRAG_STEPS,
         NEW over \in BOOLEAN, NEW slider \in BOOLEAN, NEW held \in BOOLEAN
  PROVE  GoesOn(PhaseStep(over, slider, held))
<1>. DEFINE n == PhaseStep(over, slider, held)
<1>1. /\ shut.phase \in Phases /\ shut.step \in 0 .. DRAG_STEPS
      /\ DRAG_STEPS \in Nat /\ DRAG_STEPS >= 1
  BY InputAssumption DEF Gestures
<1>2. ASSUME NEW f \in Phases, NEW a \in Acts
      PROVE  /\ Goes(f, a) \in Gestures /\ Goes(f, a).phase = f /\ Goes(f, a).act = a
             /\ Goes(f, a).step = shut.step
  BY <1>2 DEF Goes, Gestures
<1>3. /\ Stays \in Gestures /\ Stays.phase = shut.phase /\ Stays.act = "NONE"
      /\ Stays.step = shut.step
  BY DEF Stays, Gestures, Acts
<1>4. /\ \A x \in {"HOME_HELD", "WAKE_WAIT", "POWER_START", "POWER_HELD", "SLIDER_WAIT",
                   "DRAG_BEGIN", "WAKE", "DRAGGING", "DRAG_RELEASE", "POWER_OFF_WAIT"} :
           x \in Phases
      /\ \A x \in {"NONE", "HOME_DOWN", "HOME_UP", "POWER_DOWN", "POWER_UP",
                   "TOUCH_DOWN", "TOUCH_MOVE", "TOUCH_UP"} : x \in Acts
  BY DEF Phases, Acts
<1>5. CASE n = Stays
  BY <1>1, <1>3, <1>5 DEF GoesOn
<1>6. CASE shut.phase = "WAKE"
  <2>1. n = Goes("HOME_HELD", "HOME_DOWN")
    BY <1>6 DEF PhaseStep
  <2>. QED BY <1>2, <1>4, <1>6, <2>1 DEF GoesOn
<1>7. CASE shut.phase = "HOME_HELD" /\ n # Stays
  <2>1. n = Goes("WAKE_WAIT", "HOME_UP")
    BY <1>7 DEF PhaseStep
  <2>. QED BY <1>2, <1>4, <1>7, <2>1 DEF GoesOn
<1>8. CASE shut.phase = "WAKE_WAIT" /\ n # Stays
  <2>1. n = Goes("POWER_START", "POWER_DOWN")
    BY <1>8 DEF PhaseStep
  <2>. QED BY <1>2, <1>4, <1>8, <2>1 DEF GoesOn
<1>9. CASE shut.phase = "POWER_START" /\ n # Stays
  <2>1. n = Goes("POWER_HELD", "NONE")
    BY <1>9 DEF PhaseStep
  <2>. QED BY <1>2, <1>4, <1>9, <2>1 DEF GoesOn
<1>10. CASE shut.phase = "POWER_HELD" /\ n # Stays
  <2>1. n = Goes("SLIDER_WAIT", "POWER_UP")
    BY <1>10 DEF PhaseStep
  <2>. QED BY <1>2, <1>4, <1>10, <2>1 DEF GoesOn
<1>11. CASE shut.phase = "SLIDER_WAIT" /\ n # Stays
  <2>1. n = Goes("DRAG_BEGIN", "NONE") \/ n = Goes("WAKE", "NONE")
    BY <1>11 DEF PhaseStep
  <2>. QED BY <1>2, <1>4, <1>11, <2>1 DEF GoesOn
<1>12. CASE shut.phase = "DRAG_BEGIN"
  <2>1. n = [Goes("DRAGGING", "TOUCH_DOWN") EXCEPT !.step = 0] \/ n = Goes("SLIDER_WAIT", "NONE")
    BY <1>12 DEF PhaseStep
  <2>2. ASSUME n = [Goes("DRAGGING", "TOUCH_DOWN") EXCEPT !.step = 0] PROVE GoesOn(n)
    <3>1. Goes("DRAGGING", "TOUCH_DOWN") \in Gestures
      BY <1>2, <1>4
    <3>2. 0 \in 0 .. DRAG_STEPS /\ 0 < DRAG_STEPS
      BY <1>1
    <3>3. /\ n \in Gestures /\ n.step = 0
          /\ n.phase = Goes("DRAGGING", "TOUCH_DOWN").phase
          /\ n.act = Goes("DRAGGING", "TOUCH_DOWN").act
      BY <2>2, <3>1, <3>2 DEF Gestures
    <3>. QED BY <1>2, <1>4, <1>12, <3>2, <3>3 DEF GoesOn
  <2>3. ASSUME n = Goes("SLIDER_WAIT", "NONE") PROVE GoesOn(n)
    BY <1>2, <1>4, <1>12, <2>3 DEF GoesOn
  <2>. QED BY <2>1, <2>2, <2>3
<1>13. CASE shut.phase = "DRAGGING" /\ n # Stays
  <2>. DEFINE f == IF shut.step + 1 = DRAG_STEPS THEN "DRAG_RELEASE" ELSE "DRAGGING"
  <2>1. n = [Goes(f, "TOUCH_MOVE") EXCEPT !.step = @ + 1]
    BY <1>13 DEF PhaseStep
  <2>2. f \in Phases /\ Goes(f, "TOUCH_MOVE") \in Gestures
    BY <1>2, <1>4
  <2>3. Goes(f, "TOUCH_MOVE").step = shut.step /\ shut.step < DRAG_STEPS
    BY <1>2, <1>4, <1>13, <2>2
  <2>4. shut.step + 1 \in 0 .. DRAG_STEPS /\ (f = "DRAGGING" => shut.step + 1 < DRAG_STEPS)
    BY <1>1, <2>3
  <2>5. /\ n \in Gestures /\ n.step = shut.step + 1
        /\ n.phase = Goes(f, "TOUCH_MOVE").phase /\ n.act = Goes(f, "TOUCH_MOVE").act
    BY <2>1, <2>2, <2>3, <2>4 DEF Gestures
  <2>6. n.phase = f /\ n.act = "TOUCH_MOVE" /\ f \in {"DRAGGING", "DRAG_RELEASE"}
    BY <1>2, <1>4, <2>2, <2>5
  <2>. HIDE DEF f
  <2>. QED BY <1>13, <2>4, <2>5, <2>6 DEF GoesOn
<1>14. CASE shut.phase = "DRAG_RELEASE" /\ n # Stays
  <2>1. n = Goes("POWER_OFF_WAIT", "TOUCH_UP")
    BY <1>14 DEF PhaseStep
  <2>. QED BY <1>2, <1>4, <1>14, <2>1 DEF GoesOn
<1>15. CASE shut.phase = "POWER_OFF_WAIT"
  <2>1. n = Stays
    BY <1>15 DEF PhaseStep
  <2>. QED BY <1>1, <1>3, <2>1 DEF GoesOn
<1>. HIDE DEF n
<1>. QED BY <1>1, <1>5, <1>6, <1>7, <1>8, <1>9, <1>10, <1>11, <1>12, <1>13, <1>14, <1>15 DEF Phases, n

(* The whole decision: a turn that still quiesces only waits, gives up or    *)
(* finds the guest off.                                                      *)
LEMMA ShutdownGoesOn ==
  ASSUME shut \in Gestures, shut.phase = "DRAGGING" => shut.step < DRAG_STEPS,
         NEW s, Good(s), NEW q, NEW n,
         \E late, over, slider \in BOOLEAN :
            n = vm_guest_shutdown_step(s, q, late, over, slider)
  PROVE  /\ GoesOn(n)
         /\ ~q => n.phase = shut.phase /\ n.act \in {"NONE", "COMPLETE", "TIMEOUT"}
<1>0. PICK late \in BOOLEAN, over \in BOOLEAN, slider \in BOOLEAN :
        n = vm_guest_shutdown_step(s, q, late, over, slider)
  OBVIOUS
<1>1. shut.phase \in Phases /\ s.board.held["HOLD"] \in BOOLEAN
  <2>1. s.board \in Boards /\ "HOLD" \in Buttons
    BY Fields, KeyFacts DEF Good
  <2>2. s.board.held \in [Buttons -> BOOLEAN]
    BY <2>1, PartFields
  <2>. QED BY <2>1, <2>2 DEF Gestures
<1>2. ASSUME NEW a \in {"NONE", "COMPLETE", "TIMEOUT"}
      PROVE  GoesOn(Goes(shut.phase, a)) /\ Goes(shut.phase, a).phase = shut.phase
             /\ Goes(shut.phase, a).act = a
  <2>1. a \in Acts
    BY DEF Acts
  <2>2. /\ Goes(shut.phase, a) \in Gestures /\ Goes(shut.phase, a).phase = shut.phase
        /\ Goes(shut.phase, a).act = a /\ Goes(shut.phase, a).step = shut.step
    BY <1>1, <2>1 DEF Goes, Gestures
  <2>. QED BY <2>2 DEF GoesOn
<1>3. CASE s.power = "off"
  <2>1. n = Goes(shut.phase, "COMPLETE")
    BY <1>0, <1>3 DEF vm_guest_shutdown_step
  <2>. QED BY <1>2, <2>1
<1>4. CASE s.power # "off" /\ late
  <2>1. n = Goes(shut.phase, "TIMEOUT")
    BY <1>0, <1>4 DEF vm_guest_shutdown_step
  <2>. QED BY <1>2, <2>1
<1>5. CASE s.power # "off" /\ ~late /\ q /\ Idle(s)
  <2>1. n = PhaseStep(over, slider, s.board.held["HOLD"])
    BY <1>0, <1>5 DEF vm_guest_shutdown_step
  <2>. QED BY <1>0, <1>1, <1>5, <2>1, PhaseGoesOn
<1>6. CASE s.power # "off" /\ ~late /\ ~(q /\ Idle(s))
  <2>1. n = Stays
    BY <1>0, <1>6 DEF vm_guest_shutdown_step
  <2>2. Stays = Goes(shut.phase, "NONE")
    BY <1>1 DEF Stays, Goes, Gestures
  <2>. QED BY <1>2, <2>1, <2>2
<1>. QED BY <1>3, <1>4, <1>5, <1>6

(* Nothing is down and nothing is queued: so it stays.                       *)
LEMMA AtRest ==
  ASSUME NEW s, Good(s), Quiet(s), NEW u, Step(s, u)
  PROVE  /\ ~WillHoldFinger(u)
         /\ \A k \in Momentary : ~Unmatched(u.keys, k) /\ (Loose(u, k) => k \in u.lost.keys)
<1>1. s.keys = <<>> /\ ~WillHoldFinger(s) /\ \A k \in Momentary : ~s.board.held[k]
  BY WhenQuiet
<1>2. \A k : ~Unmatched(s.keys, k)
  BY <1>1 DEF Unmatched
<1>. QED BY <1>1, <1>2 DEF Step, Loose

(* The first half of a turn of the gesture.                                  *)
LEMMA GestureTurnKeeps ==
  ASSUME IInv, GestureTurn
  PROVE  IInv' /\ Keeps(Here, Here')
<1>1. life = "running" /\ shut.at \in {"requested", "step"} /\ prepared = FALSE
      /\ shut \in Gestures
  BY NowGood DEF GestureTurn, IInv, Modes, TypeOK
<1>2. PICK begun : begun = (IF shut.at = "requested" THEN Cancelled(Here) ELSE Here) /\
        \E s \in IF shut.quiescent THEN {begun} ELSE Quiesce(begun) :
        \E quiescent \in {shut.quiescent \/ Quiet(begun)} :
        \E late, over, slider \in BOOLEAN :
        \E next \in {vm_guest_shutdown_step(s, quiescent, late, over, slider)} :
           /\ shut' = [next EXCEPT !.quiescent = quiescent,
                         !.at = IF next.act = "NONE" THEN "step" ELSE "act"]
           /\ \E u \in IF next.act = "NONE" THEN Drained(s) ELSE {s} : Becomes(u)
  BY Zenon DEF GestureTurn
<1>3. PICK s : s \in (IF shut.quiescent THEN {begun} ELSE Quiesce(begun)) /\
        \E quiescent \in {shut.quiescent \/ Quiet(begun)} :
        \E late, over, slider \in BOOLEAN :
        \E next \in {vm_guest_shutdown_step(s, quiescent, late, over, slider)} :
           /\ shut' = [next EXCEPT !.quiescent = quiescent,
                         !.at = IF next.act = "NONE" THEN "step" ELSE "act"]
           /\ \E u \in IF next.act = "NONE" THEN Drained(s) ELSE {s} : Becomes(u)
  BY <1>2, Zenon
<1>4. PICK q \in {shut.quiescent \/ Quiet(begun)} :
        \E late, over, slider \in BOOLEAN :
        \E next \in {vm_guest_shutdown_step(s, q, late, over, slider)} :
           /\ shut' = [next EXCEPT !.quiescent = q,
                         !.at = IF next.act = "NONE" THEN "step" ELSE "act"]
           /\ \E u \in IF next.act = "NONE" THEN Drained(s) ELSE {s} : Becomes(u)
  BY <1>3, Zenon
<1>5. PICK late \in BOOLEAN, over \in BOOLEAN, slider \in BOOLEAN :
        \E next \in {vm_guest_shutdown_step(s, q, late, over, slider)} :
           /\ shut' = [next EXCEPT !.quiescent = q,
                         !.at = IF next.act = "NONE" THEN "step" ELSE "act"]
           /\ \E u \in IF next.act = "NONE" THEN Drained(s) ELSE {s} : Becomes(u)
  BY <1>4, Zenon
<1>6. PICK next \in {vm_guest_shutdown_step(s, q, late, over, slider)} :
           /\ shut' = [next EXCEPT !.quiescent = q,
                         !.at = IF next.act = "NONE" THEN "step" ELSE "act"]
           /\ \E u \in IF next.act = "NONE" THEN Drained(s) ELSE {s} : Becomes(u)
  BY <1>5, Zenon
<1>7. PICK u : u \in (IF next.act = "NONE" THEN Drained(s) ELSE {s}) /\ Becomes(u)
  BY <1>6, Zenon
<1>8. q = (shut.quiescent \/ Quiet(begun)) /\ next = vm_guest_shutdown_step(s, q, late, over, slider)
  BY <1>4, <1>6
<1>9. /\ s \in IF shut.quiescent THEN {begun} ELSE Quiesce(begun)
      /\ q = (shut.quiescent \/ Quiet(begun))
      /\ next = vm_guest_shutdown_step(s, q, late, over, slider)
      /\ shut' = [next EXCEPT !.quiescent = q,
                    !.at = IF next.act = "NONE" THEN "step" ELSE "act"]
      /\ u \in IF next.act = "NONE" THEN Drained(s) ELSE {s}
      /\ Becomes(u)
  BY <1>3, <1>6, <1>7, <1>8, Zenon
<1>10. /\ life' = life /\ prepared' = prepared /\ finger' = finger /\ user' = user
  BY DEF GestureTurn
<1>11. /\ Good(begun) /\ Keeps(Here, begun) /\ begun.lost = lost
       /\ \A k \in Momentary : Unmatched(begun.keys, k) =>
                                 Unmatched(keys, k) /\ shut.at # "requested"
       /\ shut.at # "requested" => begun = Here
  <2>0. Good(Here)
    BY NowGood
  <2>1. CASE shut.at = "requested"
    <3>1. begun = Cancelled(Here)
      BY <1>2, <2>1
    <3>2. /\ Good(begun) /\ Keeps(Here, begun) /\ begun.lost = Here.lost
          /\ \A k : ~Unmatched(begun.keys, k)
      BY <2>0, <3>1, Cancels
    <3>. QED BY <2>1, <3>2, HereFields
  <2>2. CASE shut.at # "requested"
    BY <1>2, <2>0, <2>2, HereFields DEF Keeps
  <2>. QED BY <2>1, <2>2
<1>12. Step(begun, s) /\ Good(s)
  BY <1>9, <1>11, NoStep, QuiesceSteps DEF Step
<1>13. Step(begun, u) /\ Good(u)
  <2>1. Step(s, u)
    BY <1>9, <1>12, NoStep, DrainedSteps
  <2>. QED BY <1>12, <2>1, StepThenStep DEF Step
<1>14. Keeps(Here, u)
  BY <1>11, <1>13 DEF Step, Keeps
<1>15. q \in BOOLEAN
  BY <1>1, <1>9 DEF Gestures, Quiet
<1>16. /\ GoesOn(next)
       /\ ~q => next.phase = shut.phase /\ next.act \in {"NONE", "COMPLETE", "TIMEOUT"}
  <2>1. shut.phase = "DRAGGING" => shut.step < DRAG_STEPS
    BY DEF IInv, Modes
  <2>2. late \in BOOLEAN /\ over \in BOOLEAN /\ slider \in BOOLEAN
    BY <1>5
  <2>3. shut \in Gestures
    BY <1>1
  <2>4. Good(s)
    BY <1>12
  <2>5. next = vm_guest_shutdown_step(s, q, late, over, slider)
    BY <1>9
  <2>6. \E l, o, h \in BOOLEAN : next = vm_guest_shutdown_step(s, q, l, o, h)
    BY <2>2, <2>5, Zenon
  <2>. QED BY <2>1, <2>3, <2>4, <2>6, ShutdownGoesOn
<1>17. /\ shut' \in Gestures /\ shut'.quiescent = q /\ shut'.phase = next.phase
       /\ shut'.act = next.act /\ shut'.step = next.step
       /\ shut'.at = IF next.act = "NONE" THEN "step" ELSE "act"
  <2>1. next \in Gestures
    BY <1>16 DEF GoesOn
  <2>. QED BY <1>9, <1>15, <2>1 DEF Gestures
<1>18. Modes'
  <2>1. shut'.at # "none" /\ shut'.at # "requested" /\ (shut'.at = "act" <=> shut'.act # "NONE")
    BY <1>17
  <2>2. ~shut'.quiescent => shut'.phase = "WAKE" /\ shut'.act \in {"NONE", "COMPLETE", "TIMEOUT"}
    <3>1. ~q => shut.phase = "WAKE"
      BY <1>1, <1>9 DEF IInv, Modes, Gestures
    <3>. QED BY <1>16, <1>17, <3>1
  <2>. QED BY <1>1, <1>10, <1>16, <1>17, <2>1, <2>2 DEF Modes, GoesOn
<1>19. lost.keys \subseteq u.lost.keys /\ u.lost.lift = lost.lift
  BY <1>11, <1>13 DEF Step
<1>20. /\ Good(u) /\ Becomes(u) /\ finger' = finger /\ user' = user
       /\ life' = "running" /\ prepared' = FALSE /\ shut' \in Gestures /\ Modes'
  BY <1>1, <1>9, <1>10, <1>13, <1>17, <1>18
<1>21. Keeps(Here, Here')
  BY <1>20, <1>14, Arrived DEF Keeps, Here
<1>22. CASE ~q
  <2>1. GestureTouches'
    BY <1>17, <1>22 DEF GestureTouches
  <2>2. \A k \in Momentary : Unmatched(u.keys, k) => k \in user.keys \/ k \in u.lost.keys
    <3>1. ~shut.quiescent
      BY <1>9, <1>22
    <3>2. \A k \in Momentary : Unmatched(keys, k) => k \in user.keys \/ k \in lost.keys
      BY <1>1, <3>1 DEF IInv, KeysOwned, Owner
    <3>. QED BY <1>11, <1>13, <1>19, <3>2 DEF Step
  <2>3. shut'.at # "none" /\ ~shut'.quiescent
    BY <1>17, <1>22
  <2>4. \A k \in Momentary :
           LET owned == \/ k \in user.keys \/ k \in u.lost.keys
                        \/ shut'.at # "none" /\ shut'.quiescent /\ GestureHolds(k)'
           IN  /\ Unmatched(u.keys, k) => owned
               /\ Loose(u, k) => owned \/ (shut'.at # "none" /\ ~shut'.quiescent)
    BY <2>2, <2>3
  <2>5. WillHoldFinger(u) => user.finger \/ GestureTouches' \/ u.lost.lift
    BY <2>1
  <2>. QED BY <1>20, <1>21, <2>4, <2>5, StillRunning
<1>23. CASE q /\ ~shut.quiescent
  <2>1. Quiet(begun)
    BY <1>9, <1>23
  <2>2. /\ ~WillHoldFinger(u)
        /\ \A k \in Momentary : ~Unmatched(u.keys, k) /\ (Loose(u, k) => k \in u.lost.keys)
    BY <1>11, <1>13, <2>1, AtRest
  <2>3. \A k \in Momentary :
           LET owned == \/ k \in user.keys \/ k \in u.lost.keys
                        \/ shut'.at # "none" /\ shut'.quiescent /\ GestureHolds(k)'
           IN  /\ Unmatched(u.keys, k) => owned
               /\ Loose(u, k) => owned \/ (shut'.at # "none" /\ ~shut'.quiescent)
    BY <2>2
  <2>4. WillHoldFinger(u) => user.finger \/ GestureTouches' \/ u.lost.lift
    BY <2>2
  <2>. QED BY <1>20, <1>21, <2>3, <2>4, StillRunning
<1>24. CASE shut.quiescent
  <2>1. shut.at = "step" /\ begun = Here /\ shut.act = "NONE" /\ q
    BY <1>1, <1>9, <1>11, <1>24 DEF IInv, Modes
  <2>2. GestureTouches => GestureTouches'
    BY <1>16, <1>17, <2>1, <1>24 DEF GestureTouches, GoesOn
  <2>3. WillHoldFinger(u) => user.finger \/ GestureTouches' \/ u.lost.lift
    <3>1. WillHoldFinger(u) => WillHoldFinger(Here)
      BY <1>13, <2>1 DEF Step
    <3>2. WillHoldFinger(Here) => user.finger \/ GestureTouches \/ lost.lift
      BY <1>1 DEF IInv, FingerOwned
    <3>. QED BY <1>19, <2>2, <3>1, <3>2
  <2>4. \A k \in Momentary : GestureHolds(k) => GestureHolds(k)'
    BY <1>16, <1>17, <2>1, <1>24 DEF GestureHolds, GoesOn
  <2>5. \A k \in Momentary : Loose(Here, k) =>
          k \in user.keys \/ k \in lost.keys \/ GestureHolds(k)
    BY <1>1, <1>24, HereFields DEF IInv, KeysOwned, Owner, Loose
  <2>6. \A k \in Momentary :
          /\ Loose(u, k) => Loose(Here, k) \/ k \in u.lost.keys
          /\ Unmatched(u.keys, k) => Loose(u, k)
    BY <1>13, <2>1 DEF Step, Loose
  <2>7. shut'.at # "none" /\ shut'.quiescent
    BY <1>17, <2>1
  <2>8. \A k \in Momentary : Loose(u, k) =>
          \/ k \in user.keys \/ k \in u.lost.keys
          \/ shut'.at # "none" /\ shut'.quiescent /\ GestureHolds(k)'
    BY <1>19, <2>4, <2>5, <2>6, <2>7
  <2>9. \A k \in Momentary :
           LET owned == \/ k \in user.keys \/ k \in u.lost.keys
                        \/ shut'.at # "none" /\ shut'.quiescent /\ GestureHolds(k)'
           IN  /\ Unmatched(u.keys, k) => owned
               /\ Loose(u, k) => owned \/ (shut'.at # "none" /\ ~shut'.quiescent)
    BY <2>6, <2>8
  <2>. QED BY <1>20, <1>21, <2>3, <2>9, StillRunning
<1>. QED BY <1>15, <1>22, <1>23, <1>24

(* A turn that drains the queues after it changed them.                      *)
LEMMA DrainsOn ==
  ASSUME IInv, NEW t, Good(t), Keeps(Here, t), NEW u \in Drained(t), Becomes(u),
         finger' = finger, user' = user, life' = "running", prepared' = FALSE,
         shut' \in Gestures, Modes',
         WillHoldFinger(t) => user.finger \/ GestureTouches' \/ t.lost.lift,
         \A k \in Momentary : Loose(t, k) =>
           \/ k \in user.keys \/ k \in t.lost.keys
           \/ shut'.at # "none" /\ shut'.quiescent /\ GestureHolds(k)'
  PROVE  IInv' /\ Keeps(Here, Here')
<1>1. Step(t, u) /\ Good(u)
  BY DrainedSteps DEF Step
<1>2. t.lost.keys \subseteq u.lost.keys /\ u.lost.lift = t.lost.lift
  BY <1>1 DEF Step
<1>3. \A k \in Momentary : /\ Loose(u, k) => Loose(t, k) \/ k \in u.lost.keys
                           /\ Unmatched(u.keys, k) => Loose(u, k)
  BY <1>1 DEF Step, Loose
<1>4. \A k \in Momentary : Loose(u, k) =>
           \/ k \in user.keys \/ k \in u.lost.keys
           \/ shut'.at # "none" /\ shut'.quiescent /\ GestureHolds(k)'
  BY <1>2, <1>3
<1>5. \A k \in Momentary :
           LET owned == \/ k \in user.keys \/ k \in u.lost.keys
                        \/ shut'.at # "none" /\ shut'.quiescent /\ GestureHolds(k)'
           IN  /\ Unmatched(u.keys, k) => owned
               /\ Loose(u, k) => owned \/ (shut'.at # "none" /\ ~shut'.quiescent)
  BY <1>3, <1>4
<1>6. WillHoldFinger(u) => user.finger \/ GestureTouches' \/ u.lost.lift
  BY <1>1, <1>2 DEF Step
<1>7. IInv'
  BY <1>1, <1>5, <1>6, StillRunning
<1>8. Keeps(Here, u)
  BY <1>1 DEF Step, Keeps
<1>9. Keeps(Here, Here')
  BY <1>1, <1>8, Arrived DEF Keeps, Here
<1>. QED BY <1>7, <1>9

(* What a gesture that ends early lets go of: both keys, unless the queue is *)
(* full, and the finger in any case.                                         *)
LEMMA ReleasedLetsGo ==
  ASSUME life = "running", NEW p, Good(p), NEW r, r = Released(p)
  PROVE  /\ Good(r) /\ r.z2 = p.z2 /\ r.hold = p.hold /\ r.board = p.board
         /\ ~WillHoldFinger(r)
         /\ \A k \in {"MENU", "HOLD"} :
              k \in r.lost.keys \/ (~Unmatched(r.keys, k) /\ Releases(r.keys, k))
         /\ \A j \in Momentary \ {"MENU", "HOLD"} :
              /\ Unmatched(r.keys, j) => Unmatched(p.keys, j)
              /\ Releases(p.keys, j) => Releases(r.keys, j)
              /\ j \in p.lost.keys => j \in r.lost.keys
<1>. DEFINE m == setButton(p, "MENU", FALSE)
            h == setButton(m, "HOLD", FALSE)
<1>1. /\ "MENU" \in Momentary /\ "HOLD" \in Momentary /\ "MENU" \in Buttons
      /\ "HOLD" \in Buttons /\ FALSE \in BOOLEAN /\ "break" \in TouchPhase
  BY KeyFacts DEF TouchPhase
<1>2. /\ Good(m) /\ m.z2 = p.z2 /\ m.hold = p.hold /\ m.board = p.board
      /\ \A j \in Momentary : j # "MENU" =>
           /\ Unmatched(m.keys, j) => Unmatched(p.keys, j)
           /\ Releases(p.keys, j) => Releases(m.keys, j)
           /\ j \in p.lost.keys => j \in m.lost.keys
      /\ "MENU" \in m.lost.keys \/ (~Unmatched(m.keys, "MENU") /\ Releases(m.keys, "MENU"))
  BY <1>1, Sets
<1>. HIDE DEF m
<1>3. /\ Good(h) /\ h.z2 = m.z2 /\ h.hold = m.hold /\ h.board = m.board
      /\ \A j \in Momentary : j # "HOLD" =>
           /\ Unmatched(h.keys, j) => Unmatched(m.keys, j)
           /\ Releases(m.keys, j) => Releases(h.keys, j)
           /\ j \in m.lost.keys => j \in h.lost.keys
      /\ "HOLD" \in h.lost.keys \/ (~Unmatched(h.keys, "HOLD") /\ Releases(h.keys, "HOLD"))
  BY <1>1, <1>2, Sets
<1>. HIDE DEF h
<1>4. r = sendTouch(h, "break")
  BY DEF Released, h, m
<1>5. /\ Good(r) /\ r.keys = h.keys /\ r.z2 = h.z2 /\ r.hold = h.hold /\ r.board = h.board
      /\ r.lost.keys = h.lost.keys /\ ~WillHoldFinger(r)
  BY <1>1, <1>3, <1>4, Sends
<1>6. \A k \in {"MENU", "HOLD"} :
         k \in h.lost.keys \/ (~Unmatched(h.keys, k) /\ Releases(h.keys, k))
  <2>1. "MENU" # "HOLD"
    OBVIOUS
  <2>. QED BY <1>1, <1>2, <1>3, <2>1
<1>. QED BY <1>2, <1>3, <1>5, <1>6

(* What the gesture does to the queues, apart from letting go.               *)
LEMMA PushedFacts ==
  ASSUME IInv, life = "running", NEW t, t = Pushed(Here)
  PROVE  /\ Good(t) /\ t.z2 = z2 /\ t.hold = hold /\ t.board = board
         /\ t.lost.lift = lost.lift \/ ~WillHoldFinger(t)
         /\ shut.act \notin {"TOUCH_DOWN", "TOUCH_MOVE"} =>
              (WillHoldFinger(t) => WillHoldFinger(Here))
         /\ shut.act = "TOUCH_UP" => ~WillHoldFinger(t)
         /\ shut.act = "HOME_UP" =>
              "MENU" \in t.lost.keys \/ (~Unmatched(t.keys, "MENU") /\ Releases(t.keys, "MENU"))
         /\ shut.act = "POWER_UP" =>
              "HOLD" \in t.lost.keys \/ (~Unmatched(t.keys, "HOLD") /\ Releases(t.keys, "HOLD"))
         /\ \A j \in Momentary :
              \/ j = "MENU" /\ shut.act \in {"HOME_DOWN", "HOME_UP"}
              \/ j = "HOLD" /\ shut.act \in {"POWER_DOWN", "POWER_UP"}
              \/ /\ Unmatched(t.keys, j) => Unmatched(keys, j)
                 /\ Releases(keys, j) => Releases(t.keys, j)
                 /\ j \in lost.keys => j \in t.lost.keys
         /\ shut.act \in {"COMPLETE", "TIMEOUT", "NONE"} => t = Here
<1>0. Good(Here)
  BY NowGood
<1>1. /\ "MENU" \in Momentary /\ "HOLD" \in Momentary /\ "MENU" \in Buttons
      /\ "HOLD" \in Buttons /\ FALSE \in BOOLEAN /\ TRUE \in BOOLEAN
      /\ \A p \in {"make", "move", "break"} : p \in TouchPhase
  BY KeyFacts DEF TouchPhase
<1>2. shut.act \in Acts
  BY NowGood DEF Gestures
<1>3. ASSUME NEW k \in {"MENU", "HOLD"}, NEW p \in BOOLEAN, t = setButton(Here, k, p)
      PROVE  /\ Good(t) /\ t.z2 = z2 /\ t.hold = hold /\ t.board = board
             /\ t.lost.lift = lost.lift
             /\ WillHoldFinger(t) => WillHoldFinger(Here)
             /\ ~p => k \in t.lost.keys \/ (~Unmatched(t.keys, k) /\ Releases(t.keys, k))
             /\ \A j \in Momentary : j # k =>
                  /\ Unmatched(t.keys, j) => Unmatched(keys, j)
                  /\ Releases(keys, j) => Releases(t.keys, j)
                  /\ j \in lost.keys => j \in t.lost.keys
  <2>1. k \in Buttons /\ k \in Momentary
    BY <1>1, <1>3
  <2>2. /\ Good(t) /\ t.touch = Here.touch /\ t.z2 = Here.z2 /\ t.hold = Here.hold
        /\ t.board = Here.board /\ t.lost.lift = Here.lost.lift
        /\ ~p => k \in t.lost.keys \/ (~Unmatched(t.keys, k) /\ Releases(t.keys, k))
        /\ \A j \in Momentary : j # k =>
             /\ Unmatched(t.keys, j) => Unmatched(Here.keys, j)
             /\ Releases(Here.keys, j) => Releases(t.keys, j)
             /\ j \in Here.lost.keys => j \in t.lost.keys
    BY <1>0, <1>3, <2>1, Sets
  <2>3. WillHoldFinger(t) => WillHoldFinger(Here)
    BY <2>2 DEF WillHoldFinger
  <2>. QED BY <2>2, <2>3, HereFields
<1>4. ASSUME NEW p \in {"make", "move", "break"}, t = sendTouch(Here, p)
      PROVE  /\ Good(t) /\ t.z2 = z2 /\ t.hold = hold /\ t.board = board
             /\ t.keys = keys /\ t.lost.keys = lost.keys
             /\ t.lost.lift = lost.lift \/ p = "break"
             /\ p = "break" => ~WillHoldFinger(t)
  <2>1. /\ Good(t) /\ t.keys = Here.keys /\ t.z2 = Here.z2 /\ t.hold = Here.hold
        /\ t.board = Here.board /\ t.lost.keys = Here.lost.keys
        /\ p = "break" => ~WillHoldFinger(t)
        /\ t.lost.lift = Here.lost.lift \/ p = "break"
    BY <1>0, <1>1, <1>4, Sends
  <2>. QED BY <2>1, HereFields
<1>5. CASE shut.act = "HOME_DOWN"
  <2>1. t = setButton(Here, "MENU", TRUE)
    BY <1>5 DEF Pushed
  <2>. QED BY <1>1, <1>3, <1>5, <2>1
<1>6. CASE shut.act = "HOME_UP"
  <2>1. t = setButton(Here, "MENU", FALSE)
    BY <1>6 DEF Pushed
  <2>. QED BY <1>1, <1>3, <1>6, <2>1
<1>7. CASE shut.act = "POWER_DOWN"
  <2>1. t = setButton(Here, "HOLD", TRUE)
    BY <1>7 DEF Pushed
  <2>. QED BY <1>1, <1>3, <1>7, <2>1
<1>8. CASE shut.act = "POWER_UP"
  <2>1. t = setButton(Here, "HOLD", FALSE)
    BY <1>8 DEF Pushed
  <2>. QED BY <1>1, <1>3, <1>8, <2>1
<1>9. CASE shut.act = "TOUCH_DOWN"
  <2>1. t = sendTouch(Here, "make")
    BY <1>9 DEF Pushed
  <2>. QED BY <1>4, <1>9, <2>1
<1>10. CASE shut.act = "TOUCH_MOVE"
  <2>1. t = sendTouch(Here, "move")
    BY <1>10 DEF Pushed
  <2>. QED BY <1>4, <1>10, <2>1
<1>11. CASE shut.act = "TOUCH_UP"
  <2>1. t = sendTouch(Here, "break")
    BY <1>11 DEF Pushed
  <2>. QED BY <1>4, <1>11, <2>1
<1>12. CASE shut.act \in {"NONE", "COMPLETE", "TIMEOUT"}
  <2>1. t = Here
    BY <1>12 DEF Pushed
  <2>. QED BY <1>0, <1>12, <2>1, HereFields
<1>. QED BY <1>2, <1>5, <1>6, <1>7, <1>8, <1>9, <1>10, <1>11, <1>12 DEF Acts

(* The second half of a turn of the gesture.                                 *)
LEMMA GestureActKeeps ==
  ASSUME IInv, GestureAct
  PROVE  IInv' /\ Keeps(Here, Here')
<1>1. /\ life = "running" /\ shut.at = "act" /\ shut.act # "NONE" /\ prepared = FALSE
      /\ shut \in Gestures
  BY NowGood DEF GestureAct, IInv, Modes, TypeOK
<1>. DEFINE pushed == Pushed(Here)
            ends == shut.act # "COMPLETE" /\ ~Accepted(Here)
            let == IF ends THEN Released(pushed) ELSE pushed
            left == IF ends /\ ~shut.quiescent THEN GivenUp(let) ELSE let
<1>2. /\ shut' = IF ends \/ shut.act = "COMPLETE" THEN NoShutdown
                 ELSE [shut EXCEPT !.at = "step", !.act = "NONE"]
      /\ life' = IF shut.act = "COMPLETE" THEN "checkpoint" ELSE life
      /\ \E u \in IF shut.act = "COMPLETE" THEN {left} ELSE Drained(left) : Becomes(u)
      /\ prepared' = prepared /\ finger' = finger /\ user' = user
  BY Zenon DEF GestureAct
<1>3. /\ Good(pushed) /\ pushed.z2 = z2 /\ pushed.hold = hold /\ pushed.board = board
      /\ pushed.lost.lift = lost.lift \/ ~WillHoldFinger(pushed)
      /\ shut.act \notin {"TOUCH_DOWN", "TOUCH_MOVE"} =>
           (WillHoldFinger(pushed) => WillHoldFinger(Here))
      /\ shut.act = "TOUCH_UP" => ~WillHoldFinger(pushed)
      /\ shut.act = "HOME_UP" =>
           \/ "MENU" \in pushed.lost.keys
           \/ ~Unmatched(pushed.keys, "MENU") /\ Releases(pushed.keys, "MENU")
      /\ shut.act = "POWER_UP" =>
           \/ "HOLD" \in pushed.lost.keys
           \/ ~Unmatched(pushed.keys, "HOLD") /\ Releases(pushed.keys, "HOLD")
      /\ \A j \in Momentary :
           \/ j = "MENU" /\ shut.act \in {"HOME_DOWN", "HOME_UP"}
           \/ j = "HOLD" /\ shut.act \in {"POWER_DOWN", "POWER_UP"}
           \/ /\ Unmatched(pushed.keys, j) => Unmatched(keys, j)
              /\ Releases(keys, j) => Releases(pushed.keys, j)
              /\ j \in lost.keys => j \in pushed.lost.keys
      /\ shut.act \in {"COMPLETE", "TIMEOUT", "NONE"} => pushed = Here
  BY <1>1, PushedFacts
<1>4. NoShutdown \in Gestures /\ NoShutdown.at = "none"
  BY InputAssumption DEF NoShutdown, Gestures, Phases, Acts
<1>5. user.finger \in BOOLEAN
  BY NowGood
<1>. HIDE DEF pushed
<1>6. CASE shut.act = "COMPLETE"
  <2>1. left = Here /\ Becomes(Here) /\ Good(Here)
    BY <1>2, <1>3, <1>6, NowGood
  <2>2. life' = "checkpoint" /\ shut' = NoShutdown /\ prepared' = FALSE
    BY <1>1, <1>2, <1>6
  <2>3. (Here \in Inputs)' /\ LiftHasRoom' /\ Seen(Here)'
    BY <1>2, <2>1, Arrived
  <2>4. TypeOK'
    <3>1. (shut \in Gestures)' /\ (life \in {"running", "checkpoint", "saved"})'
          /\ (prepared \in BOOLEAN)'
      BY <1>4, <2>2
    <3>2. (finger \in BOOLEAN)' /\ (user \in Users)'
      BY <1>2, NowGood DEF Users
    <3>. QED BY <2>3, <3>1, <3>2, Typing, PTL
  <2>5. Modes'
    BY <2>2 DEF Modes, NoShutdown
  <2>6. FingerOwned' /\ QuietSave'
    BY <2>2 DEF FingerOwned, QuietSave
  <2>7. KeysOwned'
    BY <2>2 DEF KeysOwned
  <2>8. Keeps(Here, Here')
    BY <1>2, <2>1, Arrived, HereFields DEF Keeps, Here
  <2>. QED BY <2>3, <2>4, <2>5, <2>6, <2>7, <2>8 DEF IInv
<1>7. CASE shut.act # "COMPLETE" /\ ends
  <2>1. let = Released(pushed) /\ left = IF ~shut.quiescent THEN GivenUp(let) ELSE let
    BY <1>7
  <2>2. /\ shut' = NoShutdown /\ life' = "running" /\ prepared' = FALSE
        /\ \E u \in Drained(left) : Becomes(u)
    BY <1>1, <1>2, <1>7
  <2>. HIDE DEF ends, left, let
  <2>3. /\ Good(let) /\ let.z2 = z2 /\ let.hold = hold /\ let.board = board
        /\ ~WillHoldFinger(let)
        /\ \A k \in {"MENU", "HOLD"} :
             k \in let.lost.keys \/ (~Unmatched(let.keys, k) /\ Releases(let.keys, k))
        /\ \A j \in Momentary \ {"MENU", "HOLD"} :
             /\ Unmatched(let.keys, j) => Unmatched(pushed.keys, j)
             /\ Releases(pushed.keys, j) => Releases(let.keys, j)
             /\ j \in pushed.lost.keys => j \in let.lost.keys
    <3>1. /\ Good(let) /\ let.z2 = pushed.z2 /\ let.hold = pushed.hold
          /\ let.board = pushed.board /\ ~WillHoldFinger(let)
          /\ \A k \in {"MENU", "HOLD"} :
               k \in let.lost.keys \/ (~Unmatched(let.keys, k) /\ Releases(let.keys, k))
          /\ \A j \in Momentary \ {"MENU", "HOLD"} :
               /\ Unmatched(let.keys, j) => Unmatched(pushed.keys, j)
               /\ Releases(pushed.keys, j) => Releases(let.keys, j)
               /\ j \in pushed.lost.keys => j \in let.lost.keys
      BY <1>1, <1>3, <2>1, ReleasedLetsGo
    <3>. QED BY <1>3, <3>1
  <2>4. ASSUME NEW j \in Momentary \ {"MENU", "HOLD"}
        PROVE  /\ Unmatched(let.keys, j) => j \in user.keys \/ j \in let.lost.keys
               /\ board.held[j] /\ ~Releases(let.keys, j) =>
                    j \in user.keys \/ j \in let.lost.keys \/ ~shut.quiescent
    <3>1. /\ Unmatched(let.keys, j) => Unmatched(keys, j)
          /\ Releases(keys, j) => Releases(let.keys, j)
          /\ j \in lost.keys => j \in let.lost.keys
      BY <1>3, <2>3
    <3>2. ~GestureHolds(j) \/ ~shut.quiescent
      BY DEF GestureHolds
    <3>3. /\ Unmatched(keys, j) => j \in user.keys \/ j \in lost.keys
          /\ board.held[j] /\ ~Releases(keys, j) =>
               j \in user.keys \/ j \in lost.keys \/ ~shut.quiescent
      BY <1>1, <3>2 DEF IInv, KeysOwned, Owner
    <3>. QED BY <3>1, <3>3
  <2>5. \A j \in Momentary :
          /\ Unmatched(let.keys, j) => j \in user.keys \/ j \in let.lost.keys
          /\ board.held[j] /\ ~Releases(let.keys, j) =>
               j \in user.keys \/ j \in let.lost.keys \/ ~shut.quiescent
    BY <2>3, <2>4
  <2>6. /\ Good(left) /\ left.hold = hold /\ left.board = board /\ ~WillHoldFinger(left)
        /\ \A k \in Momentary : Loose(left, k) => k \in user.keys \/ k \in left.lost.keys
    <3>1. CASE shut.quiescent
      BY <2>1, <2>3, <2>5, <3>1 DEF Loose
    <3>2. CASE ~shut.quiescent
      <4>1. left = GivenUp(let)
        BY <2>1, <3>2
      <4>2. /\ Good(left) /\ left.keys = let.keys /\ left.hold = let.hold
            /\ left.board = let.board /\ let.lost.keys \subseteq left.lost.keys
            /\ \A k \in Momentary : let.board.held[k] /\ ~Releases(let.keys, k) =>
                                      k \in user.keys \/ k \in left.lost.keys
            /\ WillHoldFinger(left) => WillHoldFinger(let)
        BY <1>5, <2>3, <4>1, GivesUp
      <4>. QED BY <2>3, <2>5, <4>2 DEF Loose
    <3>. QED BY <3>1, <3>2
  <2>7. Keeps(Here, left)
    BY <2>6, HereFields DEF Keeps
  <2>8. Modes'
    BY <2>2 DEF Modes, NoShutdown
  <2>9. shut' \in Gestures
    BY <1>4, <2>2
  <2>10. PICK u \in Drained(left) : Becomes(u)
    BY <2>2
  <2>. QED BY <1>2, <2>2, <2>6, <2>7, <2>8, <2>9, <2>10, DrainsOn
<1>8. CASE ~ends /\ shut.act # "COMPLETE"
  <2>1. /\ let = pushed /\ left = pushed
        /\ shut' = [shut EXCEPT !.at = "step", !.act = "NONE"]
        /\ life' = "running" /\ prepared' = FALSE
        /\ \E u \in Drained(pushed) : Becomes(u)
    BY <1>1, <1>2, <1>8
  <2>2. Accepted(Here)
    BY <1>8
  <2>. HIDE DEF ends, left, let
  <2>3. shut.act \in {"HOME_DOWN", "HOME_UP", "POWER_DOWN", "POWER_UP",
                      "TOUCH_DOWN", "TOUCH_MOVE", "TOUCH_UP"}
    BY <2>2 DEF Accepted
  <2>4. shut.quiescent = TRUE
    BY <1>1, <2>3 DEF IInv, Modes, Gestures
  <2>5. /\ shut' \in Gestures /\ shut'.at = "step" /\ shut'.act = "NONE"
        /\ shut'.quiescent /\ shut'.phase = shut.phase /\ shut'.step = shut.step
    BY <1>1, <2>1, <2>4 DEF Gestures, Acts
  <2>6. Modes'
    BY <2>1, <2>5 DEF IInv, Modes
  <2>7. Keeps(Here, pushed)
    BY <1>3, HereFields DEF Keeps
  <2>8. WillHoldFinger(pushed) => user.finger \/ GestureTouches' \/ pushed.lost.lift
    <3>1. CASE shut.act \in {"TOUCH_DOWN", "TOUCH_MOVE"}
      BY <2>5, <3>1 DEF IInv, Modes, GestureTouches
    <3>2. CASE shut.act \notin {"TOUCH_DOWN", "TOUCH_MOVE", "TOUCH_UP"}
      <4>1. GestureTouches => GestureTouches'
        BY <1>1, <2>4, <2>5, <3>2 DEF GestureTouches
      <4>2. WillHoldFinger(Here) => user.finger \/ GestureTouches \/ lost.lift
        BY <1>1 DEF IInv, FingerOwned
      <4>. QED BY <1>3, <3>2, <4>1, <4>2
    <3>3. CASE shut.act = "TOUCH_UP"
      BY <1>3, <3>3
    <3>. QED BY <3>1, <3>2, <3>3
  <2>9. ASSUME NEW k \in Momentary, Loose(pushed, k)
        PROVE  \/ k \in user.keys \/ k \in pushed.lost.keys
               \/ shut'.at # "none" /\ shut'.quiescent /\ GestureHolds(k)'
    <3>1. CASE k = "MENU" /\ shut.act = "HOME_DOWN"
      BY <2>5, <3>1 DEF IInv, Modes, GestureHolds
    <3>2. CASE k = "HOLD" /\ shut.act = "POWER_DOWN"
      BY <2>5, <3>2 DEF IInv, Modes, GestureHolds
    <3>3. CASE (k = "MENU" /\ shut.act = "HOME_UP") \/ (k = "HOLD" /\ shut.act = "POWER_UP")
      BY <1>3, <2>9, <3>3 DEF Loose
    <3>4. CASE /\ ~(k = "MENU" /\ shut.act \in {"HOME_DOWN", "HOME_UP"})
               /\ ~(k = "HOLD" /\ shut.act \in {"POWER_DOWN", "POWER_UP"})
      <4>1. /\ Unmatched(pushed.keys, k) => Unmatched(keys, k)
            /\ Releases(keys, k) => Releases(pushed.keys, k)
            /\ k \in lost.keys => k \in pushed.lost.keys
        BY <1>3, <3>4
      <4>2. Unmatched(keys, k) \/ (board.held[k] /\ ~Releases(keys, k))
        BY <1>3, <2>9, <4>1 DEF Loose
      <4>3. Owner(k)
        BY <1>1, <2>4, <4>2 DEF IInv, KeysOwned
      <4>4. GestureHolds(k) => GestureHolds(k)'
        BY <1>1, <2>4, <2>5, <3>4 DEF GestureHolds
      <4>. QED BY <2>5, <4>1, <4>3, <4>4 DEF Owner
    <3>. QED BY <3>1, <3>2, <3>3, <3>4
  <2>10. PICK u \in Drained(pushed) : Becomes(u)
    BY <2>1
  <2>. QED BY <1>2, <1>3, <2>1, <2>5, <2>6, <2>7, <2>8, <2>9, <2>10, DrainsOn
<1>. QED BY <1>6, <1>7, <1>8

(* The types and the finger's bookkeeping after a step that leaves t behind. *)
LEMMA TypesArrive ==
  ASSUME IInv, NEW t, Good(t), Becomes(t), finger' = finger, shut' \in Gestures,
         life' \in {"running", "checkpoint", "saved"}, prepared' \in BOOLEAN,
         user' \in Users
  PROVE  TypeOK' /\ LiftHasRoom' /\ Seen(Here)'
<1>1. (Here \in Inputs)' /\ LiftHasRoom' /\ Seen(Here)'
  BY Arrived
<1>2. (shut \in Gestures)' /\ (life \in {"running", "checkpoint", "saved"})'
      /\ (prepared \in BOOLEAN)' /\ (user \in Users)'
  BY DEF Gestures, Users
<1>3. (finger \in BOOLEAN)'
  BY NowGood
<1>. QED BY <1>1, <1>2, <1>3, Typing, PTL

(* A finger event: it is the user's, or the last thing it does is to lift.   *)
LEMMA FingerKeeps ==
  ASSUME IInv, NEW phase \in TouchPhase, Finger(phase)
  PROVE  IInv' /\ board' = board
<1>. DEFINE t == sendTouch(Here, phase)
<1>1. /\ life \in {"running", "checkpoint"} /\ Becomes(t) /\ life' = life
      /\ prepared' = prepared /\ shut' = shut /\ finger' = finger
      /\ user.events < MaxEvents
      /\ user' = [user EXCEPT !.finger = phase # "break", !.events = @ + 1]
  BY DEF Finger, IInv, TypeOK
<1>2. /\ Good(Here) /\ user \in Users /\ shut \in Gestures /\ prepared \in BOOLEAN
      /\ user.events \in 0 .. MaxEvents /\ MaxEvents \in Nat
  BY NowGood, InputAssumption DEF IInv, TypeOK
<1>3. user' \in Users /\ user'.keys = user.keys /\ user'.finger = (phase # "break")
  <2>1. user.events + 1 \in 0 .. MaxEvents
    BY <1>1, <1>2
  <2>2. (phase # "break") \in BOOLEAN
    OBVIOUS
  <2>. QED BY <1>1, <1>2, <2>1, <2>2 DEF Users
<1>4. /\ Good(t) /\ t.keys = Here.keys /\ t.active = Here.active /\ t.z2 = Here.z2
      /\ t.board = Here.board /\ t.lost.keys = Here.lost.keys
      /\ life # "running" => t = Here
      /\ life = "running" /\ phase = "break" => ~WillHoldFinger(t)
  BY <1>2, Sends
<1>. HIDE DEF t
<1>5. /\ touch' = t.touch /\ keys' = keys /\ board' = board /\ lost'.keys = lost.keys
      /\ WillHoldFinger(Here)' <=> WillHoldFinger(t)
      /\ \A k : (Releases(keys, k))' <=> Releases(keys, k)
      /\ \A k : (Unmatched(keys, k))' <=> Unmatched(keys, k)
      /\ life # "running" => touch' = touch
  BY <1>1, <1>4, Arrived, HereFields
<1>6. TypeOK' /\ LiftHasRoom' /\ Seen(Here)'
  BY <1>1, <1>2, <1>3, <1>4, TypesArrive
<1>7. Modes'
  BY <1>1, <1>5 DEF IInv, Modes, NoPress
<1>8. FingerOwned'
  BY <1>1, <1>3, <1>4, <1>5 DEF FingerOwned
<1>9. KeysOwned'
  <2>1. \A k \in Momentary : Owner(k)' <=> Owner(k)
    BY <1>1, <1>3, <1>5 DEF Owner, GestureHolds
  <2>. QED BY <1>1, <1>5, <2>1 DEF IInv, KeysOwned
<1>10. QuietSave'
  BY <1>1 DEF QuietSave
<1>. QED BY <1>5, <1>6, <1>7, <1>8, <1>9, <1>10 DEF IInv

(* A key or the slider: the key's next release is the user's, or it is in    *)
(* the queue, or it found no place there.                                    *)
LEMMA KeyKeeps ==
  ASSUME IInv, life \in {"running", "checkpoint"}, NEW k \in Buttons, NEW p \in BOOLEAN,
         Becomes(setButton(Here, k, p)), user' \in Users, user'.finger = user.finger,
         \A j \in Momentary : j # k => (j \in user'.keys <=> j \in user.keys),
         k \in Momentary => (k \in user'.keys <=> p),
         UNCHANGED <<life, prepared, shut, finger>>
  PROVE  IInv' /\ board' = board
<1>. DEFINE t == setButton(Here, k, p)
<1>1. /\ Good(Here) /\ shut \in Gestures /\ prepared \in BOOLEAN
  BY NowGood DEF IInv, TypeOK
<1>2. /\ Good(t) /\ t.touch = Here.touch /\ t.active = Here.active /\ t.z2 = Here.z2
      /\ t.board = Here.board /\ t.lost.lift = Here.lost.lift
      /\ life # "running" => t.lost = Here.lost /\ t.keys = Here.keys
      /\ \A j \in Momentary : j # k =>
           /\ Unmatched(t.keys, j) => Unmatched(Here.keys, j)
           /\ Releases(Here.keys, j) => Releases(t.keys, j)
           /\ j \in Here.lost.keys => j \in t.lost.keys
      /\ life = "running" /\ ~p /\ k \in Momentary =>
           k \in t.lost.keys \/ (~Unmatched(t.keys, k) /\ Releases(t.keys, k))
  BY <1>1, Sets
<1>3. Becomes(t)
  OBVIOUS
<1>. HIDE DEF t
<1>4. /\ touch' = touch /\ keys' = t.keys /\ board' = board /\ lost' = t.lost
      /\ power' = t.power
      /\ WillHoldFinger(Here)' <=> WillHoldFinger(t)
      /\ \A j : (Releases(keys, j))' <=> Releases(t.keys, j)
      /\ \A j : (Unmatched(keys, j))' <=> Unmatched(t.keys, j)
  BY <1>2, <1>3, Arrived, HereFields
<1>5. WillHoldFinger(t) <=> WillHoldFinger(Here)
  BY <1>2 DEF WillHoldFinger
<1>6. TypeOK' /\ LiftHasRoom' /\ Seen(Here)'
  <2>1. life' = life /\ prepared' = prepared /\ shut' = shut /\ finger' = finger
    OBVIOUS
  <2>. QED BY <1>1, <1>2, <1>3, <2>1, TypesArrive
<1>7. Modes'
  <2>1. CASE life = "running"
    BY <2>1 DEF IInv, Modes
  <2>2. CASE life = "checkpoint"
    <3>1. keys' = keys
      BY <1>2, <1>4, <2>2, HereFields
    <3>. QED BY <1>4, <3>1 DEF IInv, Modes, NoPress
  <2>. QED BY <2>1, <2>2
<1>8. FingerOwned'
  <2>1. lost'.lift = lost.lift
    BY <1>2, <1>4, HereFields
  <2>2. GestureTouches' <=> GestureTouches
    BY DEF GestureTouches
  <2>. QED BY <1>4, <1>5, <2>1, <2>2 DEF IInv, FingerOwned
<1>9. KeysOwned'
  <2>1. CASE life = "running"
    <3>1. ASSUME NEW j \in Momentary, j # k
          PROVE  /\ Unmatched(t.keys, j) => Owner(j)'
                 /\ board.held[j] /\ ~Releases(t.keys, j) =>
                      Owner(j)' \/ (shut.at # "none" /\ ~shut.quiescent)
      <4>1. /\ Unmatched(t.keys, j) => Unmatched(keys, j)
            /\ Releases(keys, j) => Releases(t.keys, j)
            /\ j \in lost.keys => j \in t.lost.keys
        BY <1>2, <3>1, HereFields
      <4>2. Owner(j) => Owner(j)'
        BY <1>4, <3>1, <4>1 DEF Owner, GestureHolds
      <4>. QED BY <2>1, <4>1, <4>2 DEF IInv, KeysOwned
    <3>2. ASSUME k \in Momentary
          PROVE  Owner(k)' \/ (~Unmatched(t.keys, k) /\ Releases(t.keys, k))
      BY <1>2, <1>4, <2>1, <3>2 DEF Owner
    <3>. QED BY <1>4, <3>1, <3>2 DEF KeysOwned
  <2>2. CASE life = "checkpoint"
    <3>1. t.keys = keys
      BY <1>2, <2>2, HereFields
    <3>2. \A j \in Momentary : prepared => ~Unmatched(keys, j)
      BY NothingPressed DEF IInv, Modes
    <3>. QED BY <1>4, <2>2, <3>1, <3>2 DEF KeysOwned
  <2>. QED BY <2>1, <2>2
<1>10. QuietSave'
  BY DEF QuietSave
<1>. QED BY <1>4, <1>6, <1>7, <1>8, <1>9, <1>10 DEF IInv

LEMMA UserKeeps ==
  ASSUME IInv, UserStep
  PROVE  IInv' /\ (board' = board)
<1>1. /\ user \in Users /\ user.events \in 0 .. MaxEvents /\ MaxEvents \in Nat
      /\ GestureCost \in Nat /\ user.keys \in SUBSET Momentary /\ user.finger \in BOOLEAN
      /\ Good(Here) /\ Here \in Inputs /\ shut \in Gestures /\ prepared \in BOOLEAN
  BY NowGood, InputAssumption DEF IInv, TypeOK, Good
<1>2. ASSUME NEW k \in Momentary, Key(k) PROVE IInv' /\ board' = board
  <2>1. /\ life \in {"running", "checkpoint"} /\ user.events < MaxEvents
        /\ user' = [user EXCEPT !.keys = IF k \in @ THEN @ \ {k} ELSE @ \cup {k},
                                !.events = @ + 1]
        /\ Becomes(setButton(Here, k, k \notin user.keys))
        /\ UNCHANGED <<life, prepared, shut, finger>>
    BY <1>2 DEF Key, IInv, TypeOK
  <2>2. user.events + 1 \in 0 .. MaxEvents
    BY <1>1, <2>1
  <2>3. user' \in Users /\ user'.finger = user.finger
        /\ user'.keys = IF k \in user.keys THEN user.keys \ {k} ELSE user.keys \cup {k}
    BY <1>1, <2>1, <2>2 DEF Users
  <2>4. (k \notin user.keys) \in BOOLEAN /\ k \in Buttons
    BY KeyFacts
  <2>5. /\ \A j \in Momentary : j # k => (j \in user'.keys <=> j \in user.keys)
        /\ k \in Momentary => (k \in user'.keys <=> (k \notin user.keys))
    BY <2>3
  <2>. QED BY <2>1, <2>3, <2>4, <2>5, KeyKeeps
<1>3. ASSUME Slider PROVE IInv' /\ board' = board
  <2>1. /\ life \in {"running", "checkpoint"} /\ user.events < MaxEvents
        /\ user' = [user EXCEPT !.events = @ + 1]
        /\ Becomes(setButton(Here, "RINGERAB", ~silent))
        /\ UNCHANGED <<life, prepared, shut, finger>>
    BY <1>3 DEF Slider, IInv, TypeOK
  <2>2. user.events + 1 \in 0 .. MaxEvents
    BY <1>1, <2>1
  <2>3. user' \in Users /\ user'.finger = user.finger /\ user'.keys = user.keys
    BY <1>1, <2>1, <2>2 DEF Users
  <2>4. (~silent) \in BOOLEAN /\ "RINGERAB" \in Buttons /\ "RINGERAB" \notin Momentary
    BY KeyFacts
  <2>. QED BY <2>1, <2>3, <2>4, KeyKeeps
<1>4. ASSUME RequestCheckpoint PROVE IInv' /\ board' = board
  <2>1. /\ life = "running" /\ shut.at = "none" /\ life' = "checkpoint"
        /\ user.events < MaxEvents /\ user' = [user EXCEPT !.events = @ + 1]
        /\ UNCHANGED <<prepared, shut, touch, active, keys, hold, shown, silent,
                       z2, board, power, finger, lost>>
    BY <1>4 DEF RequestCheckpoint
  <2>2. user.events + 1 \in 0 .. MaxEvents
    BY <1>1, <2>1
  <2>3. user' \in Users
    BY <1>1, <2>1, <2>2 DEF Users
  <2>4. Becomes(Here)
    BY <2>1, HereFields DEF Becomes
  <2>5. TypeOK' /\ LiftHasRoom' /\ Seen(Here)'
    BY <1>1, <2>1, <2>3, <2>4, TypesArrive
  <2>6. ~prepared
    BY <2>1 DEF IInv, Modes
  <2>7. Modes' /\ FingerOwned' /\ QuietSave'
    BY <2>1, <2>6 DEF IInv, Modes, FingerOwned, QuietSave
  <2>8. KeysOwned'
    BY <2>1, <2>6 DEF KeysOwned
  <2>. QED BY <2>1, <2>5, <2>7, <2>8 DEF IInv
<1>5. ASSUME RequestShutdown PROVE IInv' /\ board' = board
  <2>1. /\ life = "running" /\ shut.at = "none" /\ user.events + GestureCost <= MaxEvents
        /\ user' = [user EXCEPT !.events = @ + GestureCost]
        /\ shut' = [NoShutdown EXCEPT !.at = "requested"]
        /\ UNCHANGED <<life, prepared, touch, active, keys, hold, shown, silent,
                       z2, board, power, finger, lost>>
    BY <1>5 DEF RequestShutdown
  <2>2. user.events + GestureCost \in 0 .. MaxEvents
    BY <1>1, <2>1
  <2>3. user' \in Users /\ user'.keys = user.keys /\ user'.finger = user.finger
    BY <1>1, <2>1, <2>2 DEF Users
  <2>4. Becomes(Here)
    BY <2>1, HereFields DEF Becomes
  <2>5. /\ shut' \in Gestures /\ shut'.at = "requested" /\ shut'.quiescent = FALSE
        /\ shut'.phase = "WAKE" /\ shut'.act = "NONE" /\ shut'.step = 0
    <3>1. 0 \in 0 .. DRAG_STEPS /\ FALSE \in BOOLEAN
      BY InputAssumption
    <3>2. "WAKE" \in Phases /\ "NONE" \in Acts
      BY DEF Phases, Acts
    <3>3. shut' = [at |-> "requested", quiescent |-> FALSE, phase |-> "WAKE",
                   step |-> 0, act |-> "NONE"]
      BY <2>1 DEF NoShutdown
    <3>. QED BY <3>1, <3>2, <3>3 DEF Gestures
  <2>6. TypeOK' /\ LiftHasRoom' /\ Seen(Here)'
    BY <1>1, <2>1, <2>3, <2>4, <2>5, TypesArrive
  <2>7. ~prepared
    BY <2>1 DEF IInv, Modes
  <2>8. Modes'
    BY <2>1, <2>5, <2>7 DEF Modes
  <2>9. FingerOwned' /\ QuietSave'
    BY <2>1, <2>5 DEF FingerOwned, GestureTouches, QuietSave
  <2>10. KeysOwned'
    <3>1. \A k \in Momentary : Owner(k) => Owner(k)'
      BY <2>1, <2>3 DEF Owner
    <3>2. \A k \in Momentary : Unmatched(keys, k)' <=> Unmatched(keys, k)
      BY <2>1
    <3>. QED BY <2>1, <2>5, <3>1, <3>2 DEF IInv, KeysOwned
  <2>. QED BY <2>1, <2>6, <2>8, <2>9, <2>10 DEF IInv
<1>6. ASSUME Resume PROVE IInv' /\ board' = board
  <2>. DEFINE lk == IF power = "off" THEN {k \in Momentary : board.held[k]} ELSE lost.keys
              l == [lost EXCEPT !.keys = lk]
              t == [Here EXCEPT !.touch = <<>>, !.active = FALSE, !.keys = <<>>, !.shown = {},
                      !.hold = [k \in Momentary |-> "none"], !.lost = l]
  <2>1. /\ life = "saved" /\ life' = "running"
        /\ touch' = <<>> /\ active' = FALSE /\ keys' = <<>> /\ shown' = {}
        /\ hold' = [k \in Momentary |-> "none"]
        /\ lost' = [lost EXCEPT !.keys = lk]
        /\ user' = [user EXCEPT !.finger = FALSE, !.keys = {}]
        /\ UNCHANGED <<prepared, shut, silent, z2, board, power, finger>>
    BY <1>6 DEF Resume
  <2>2. user' \in Users
    BY <1>1, <2>1 DEF Users
  <2>3. /\ Here.lost \in Losses /\ lost \in Losses
    BY <1>1, Fields, HereFields
  <2>4. l \in Losses /\ l.keys = lk
    <3>1. lk \in SUBSET Momentary
      BY <2>3, PartFields
    <3>. QED BY <2>3, <3>1 DEF Losses
  <2>5. [k \in Momentary |-> "none"] \in [Momentary -> Holds]
    BY DEF Holds
  <2>. HIDE DEF l, lk
  <2>6. /\ t \in Inputs /\ t.touch = <<>> /\ t.active = FALSE /\ t.keys = <<>> /\ t.shown = {}
        /\ t.hold = [k \in Momentary |-> "none"] /\ t.lost = l /\ t.silent = silent
        /\ t.z2 = z2 /\ t.board = board /\ t.power = power
    <3>1. <<>> \in TouchQ /\ <<>> \in KeyQ /\ FALSE \in BOOLEAN
      BY Empty
    <3>. QED BY <1>1, <2>4, <2>5, <3>1, HereFields DEF Inputs
  <2>. HIDE DEF t
  <2>7. Becomes(t)
    BY <2>1, <2>6 DEF Becomes, l
  <2>8. z2.report = "none" /\ ~finger
    <3>1. CASE power = "off"
      BY <3>1, HereFields DEF IInv, Seen
    <3>2. CASE power # "off"
      BY <2>1, <3>2 DEF IInv, QuietSave
    <3>. QED BY <3>1, <3>2
  <2>9. Good(t) /\ ~WillHoldFinger(t)
    <3>1. Seen(t)
      BY <2>6, <2>8, HereFields DEF IInv, Seen
    <3>. QED BY <2>6, <2>8, <3>1, Empty DEF Good, WillHoldFinger
  <2>10. TypeOK' /\ LiftHasRoom' /\ Seen(Here)'
    BY <1>1, <2>1, <2>2, <2>7, <2>9, TypesArrive
  <2>11. ~prepared /\ shut = NoShutdown
    BY <2>1 DEF IInv, Modes
  <2>12. Modes' /\ QuietSave'
    BY <2>1, <2>11 DEF Modes, QuietSave, NoShutdown
  <2>13. FingerOwned'
    BY <2>1, <2>7, <2>9, Arrived DEF FingerOwned
  <2>14. KeysOwned'
    <3>1. \A k : ~Unmatched(keys', k)
      BY <2>1 DEF Unmatched
    <3>2. \A k \in Momentary : board.held[k] => k \in lost'.keys
      <4>1. CASE power = "off"
        BY <2>1, <2>4, <4>1 DEF lk, l
      <4>2. CASE power # "off"
        BY <2>1, <4>2 DEF IInv, QuietSave
      <4>. QED BY <4>1, <4>2
    <3>. QED BY <2>1, <3>1, <3>2 DEF KeysOwned, Owner
  <2>. QED BY <2>1, <2>10, <2>12, <2>13, <2>14 DEF IInv
<1>. QED BY <1>2, <1>3, <1>4, <1>5, <1>6, FingerKeeps DEF UserStep

(* A step of the guest: it presses nothing and lands no finger.              *)
LEMMA GuestKeeps ==
  ASSUME IInv, NEW z \in Controllers, NEW b \in Boards, NEW p \in {"on", "asleep", "off"},
         NEW f \in BOOLEAN, NEW n \in Nat, GuestStep(z, b, p, f, n),
         f /\ z.report = "none" => active,
         z.report \in {"make", "move"} => active,
         ~z.ready => ~f /\ z.report = "none",
         p # "on" => ~z.ready,
         (IF z.report # "none" THEN z.report # "break" ELSE f) =>
            (IF z2.report # "none" THEN z2.report # "break" ELSE finger),
         \A k \in Momentary : b.held[k] => board.held[k]
  PROVE  IInv' /\ board' = b
<1>1. /\ life \in {"running", "checkpoint"} /\ user.events + n <= MaxEvents
      /\ user' = [user EXCEPT !.events = @ + n]
      /\ z2' = z /\ board' = b /\ power' = p /\ finger' = f
      /\ UNCHANGED <<life, prepared, shut, touch, active, keys, hold, shown, silent, lost>>
  BY DEF GuestStep, IInv, TypeOK
<1>2. /\ user \in Users /\ user.events \in 0 .. MaxEvents /\ MaxEvents \in Nat
      /\ Here \in Inputs
  BY NowGood, InputAssumption DEF Good
<1>3. user' \in Users /\ user'.keys = user.keys /\ user'.finger = user.finger
  <2>1. user.events + n \in 0 .. MaxEvents
    BY <1>1, <1>2
  <2>. QED BY <1>1, <1>2, <2>1 DEF Users
<1>4. TypeOK'
  <2>1. TypeOK /\ user' \in [finger : BOOLEAN, keys : SUBSET Momentary, events : 0 .. MaxEvents]
    BY <1>3 DEF IInv, Users
  <2>2. /\ z2' \in [ready : BOOLEAN, report : TouchPhase \cup {"none"}, pending : BOOLEAN]
        /\ board' \in [held : [Buttons -> BOOLEAN], serviced : [Buttons -> BOOLEAN],
                       armed : BOOLEAN, wakeUnread : BOOLEAN]
    BY <1>1 DEF Controllers, Boards
  <2>. QED BY <1>1, <2>1, <2>2 DEF TypeOK
<1>5. LiftHasRoom' /\ Modes'
  BY <1>1 DEF IInv, LiftHasRoom, Modes
<1>6. Seen(Here)'
  BY <1>1 DEF Seen, Here
<1>7. WillHoldFinger(Here)' => WillHoldFinger(Here)
  <2>1. /\ (Here.touch)' = touch /\ (Here.z2)' = z
    BY <1>1 DEF Here
  <2>. QED BY <1>1, <2>1, HereFields DEF WillHoldFinger
<1>8. FingerOwned'
  BY <1>1, <1>3, <1>7 DEF IInv, FingerOwned, GestureTouches
<1>9. KeysOwned'
  <2>1. \A k \in Momentary : Owner(k) => Owner(k)'
    BY <1>1, <1>3 DEF Owner, GestureHolds
  <2>2. \A k \in Momentary : (Unmatched(keys, k)' <=> Unmatched(keys, k))
                             /\ (Releases(keys, k)' <=> Releases(keys, k))
    BY <1>1
  <2>. QED BY <1>1, <2>1, <2>2 DEF IInv, KeysOwned
<1>10. QuietSave'
  BY <1>1 DEF QuietSave
<1>. QED BY <1>1, <1>4, <1>5, <1>6, <1>8, <1>9, <1>10 DEF IInv

(* The guest's steps, one by one.                                            *)
LEMMA GuestStepsKeep ==
  ASSUME IInv, GuestRuns \/ GuestFault
  PROVE  IInv' /\ \A k \in Momentary : board.held[k] => board'.held[k] \/ ~board'.armed
<1>1. /\ z2 \in Controllers /\ board \in Boards /\ power \in {"on", "asleep", "off"}
      /\ finger \in BOOLEAN /\ Here.z2 = z2 /\ Seen(Here)
  BY NowGood, Fields, HereFields DEF Good
<1>2. /\ z2.ready \in BOOLEAN /\ z2.pending \in BOOLEAN
      /\ z2.report \in TouchPhase \cup {"none"}
      /\ board.held \in [Buttons -> BOOLEAN] /\ board.serviced \in [Buttons -> BOOLEAN]
      /\ board.armed \in BOOLEAN /\ board.wakeUnread \in BOOLEAN
  BY <1>1, PartFields
<1>3. /\ finger /\ z2.report = "none" => active
      /\ z2.report \in {"make", "move"} => active
      /\ ~z2.ready => ~finger /\ z2.report = "none"
      /\ power # "on" => ~z2.ready
  BY <1>1, HereFields DEF Seen
<1>4. 0 \in Nat /\ 1 \in Nat /\ TRUE \in BOOLEAN /\ FALSE \in BOOLEAN
  OBVIOUS
<1>5. CASE GuestArms
  <2>. DEFINE b == [board EXCEPT !.armed = TRUE]
  <2>1. b \in Boards /\ b.held = board.held
    BY <1>1, <1>2 DEF Boards
  <2>2. GuestStep(z2, b, power, finger, 0)
    BY <1>5 DEF GuestArms
  <2>. HIDE DEF b
  <2>. QED BY <1>1, <1>3, <1>4, <2>1, <2>2, GuestKeeps
<1>6. CASE GuestBootsTouch
  <2>. DEFINE z == [z2 EXCEPT !.ready = TRUE]
  <2>1. z \in Controllers /\ z.ready /\ z.report = z2.report
    BY <1>1, <1>2 DEF Controllers
  <2>2. GuestStep(z, board, power, finger, 0) /\ power = "on"
    BY <1>6 DEF GuestBootsTouch
  <2>. HIDE DEF z
  <2>. QED BY <1>1, <1>3, <1>4, <2>1, <2>2, GuestKeeps
<1>7. CASE GuestReads
  <2>. DEFINE z == [z2 EXCEPT !.report = "none"]
              f == z2.report # "break"
  <2>1. z \in Controllers /\ z.ready = z2.ready /\ z.report = "none"
    BY <1>1, <1>2 DEF Controllers
  <2>2. GuestStep(z, board, power, f, 0) /\ power = "on" /\ z2.report # "none"
    BY <1>7 DEF GuestReads
  <2>3. f \in BOOLEAN /\ (f <=> z2.report # "break")
    OBVIOUS
  <2>4. f => active
    BY <1>2, <1>3, <2>2, <2>3 DEF TouchPhase
  <2>. HIDE DEF z, f
  <2>. QED BY <1>1, <1>3, <1>4, <2>1, <2>2, <2>3, <2>4, GuestKeeps
<1>8. CASE GuestAcks
  <2>. DEFINE z == [z2 EXCEPT !.pending = FALSE]
  <2>1. z \in Controllers /\ z.ready = z2.ready /\ z.report = z2.report
    BY <1>1, <1>2 DEF Controllers
  <2>2. GuestStep(z, board, power, finger, 0)
    BY <1>8 DEF GuestAcks
  <2>. HIDE DEF z
  <2>. QED BY <1>1, <1>3, <1>4, <2>1, <2>2, GuestKeeps
<1>9. CASE \E k \in Buttons : GuestServices(k)
  <2>0. PICK k \in Buttons : GuestServices(k)
    BY <1>9
  <2>. DEFINE v == [board.serviced EXCEPT ![k] = ~@]
              b == [board EXCEPT !.serviced[k] = ~@]
  <2>1. v \in [Buttons -> BOOLEAN]
    BY <1>2
  <2>2. b = [board EXCEPT !.serviced = v]
    BY <1>1 DEF Boards
  <2>3. GuestStep(z2, b, power, finger, 0)
    BY <2>0 DEF GuestServices
  <2>. HIDE DEF v, b
  <2>4. b \in Boards /\ b.held = board.held
    BY <1>1, <2>1, <2>2 DEF Boards
  <2>. QED BY <1>1, <1>3, <1>4, <2>3, <2>4, GuestKeeps
<1>10. CASE GuestReadsWake
  <2>. DEFINE b == [board EXCEPT !.wakeUnread = FALSE]
  <2>1. b \in Boards /\ b.held = board.held
    BY <1>1, <1>2 DEF Boards
  <2>2. GuestStep(z2, b, power, finger, 0)
    BY <1>10 DEF GuestReadsWake
  <2>. HIDE DEF b
  <2>. QED BY <1>1, <1>3, <1>4, <2>1, <2>2, GuestKeeps
<1>11. CASE GuestResetsTouch \/ GuestPowersOff
  <2>. DEFINE z == [z2 EXCEPT !.ready = FALSE, !.report = "none"]
  <2>1. z \in Controllers /\ z.ready = FALSE /\ z.report = "none"
    BY <1>1, <1>2 DEF Controllers
  <2>. HIDE DEF z
  <2>2. PICK p \in {"on", "off"}, n \in Nat : GuestStep(z, board, p, FALSE, n)
    BY <1>4, <1>11 DEF GuestResetsTouch, GuestPowersOff, z
  <2>. QED BY <1>1, <1>3, <1>4, <2>1, <2>2, GuestKeeps
<1>12. CASE GuestSleeps
  <2>1. GuestStep(z2, board, "asleep", finger, 1) /\ ~z2.ready
    BY <1>12 DEF GuestSleeps
  <2>. QED BY <1>1, <1>3, <1>4, <2>1, GuestKeeps
<1>13. CASE Reboot
  <2>. DEFINE z == [ready |-> FALSE, report |-> "none", pending |-> FALSE]
              b == [held |-> [k \in Buttons |-> FALSE],
                    serviced |-> [k \in Buttons |-> FALSE],
                    armed |-> FALSE, wakeUnread |-> FALSE]
  <2>1. z \in Controllers /\ z.ready = FALSE /\ z.report = "none"
    BY DEF Controllers
  <2>2. [k \in Buttons |-> FALSE] \in [Buttons -> BOOLEAN]
    OBVIOUS
  <2>3. b \in Boards /\ b.armed = FALSE /\ (\A k \in Momentary : ~b.held[k])
    BY <1>4, <2>2, KeyFacts DEF Boards
  <2>4. GuestStep(z, b, "on", FALSE, 1)
    BY <1>13 DEF Reboot
  <2>. HIDE DEF z, b
  <2>5. IInv' /\ board' = b
    BY <1>4, <2>1, <2>3, <2>4, GuestKeeps
  <2>. QED BY <2>3, <2>5
<1>. QED BY <1>5, <1>6, <1>7, <1>8, <1>9, <1>10, <1>11, <1>12, <1>13 DEF GuestRuns, GuestFault

(* One young press grows old.                                                *)
LEMMA AgeKeeps ==
  ASSUME IInv, NEW k \in Momentary, Age(k)
  PROVE  IInv' /\ (board' = board)
<1>1. /\ hold[k] = "young" /\ hold' = [hold EXCEPT ![k] = "old"]
      /\ UNCHANGED <<life, prepared, shut, touch, active, keys, shown, silent,
                     z2, board, power, finger, user, lost>>
  BY DEF Age
<1>2. TypeOK'
  <2>1. hold' \in [Momentary -> {"none", "young", "old"}]
    BY <1>1 DEF IInv, TypeOK
  <2>. QED BY <1>1, <2>1 DEF IInv, TypeOK
<1>3. LiftHasRoom' /\ Modes'
  BY <1>1 DEF IInv, LiftHasRoom, Modes
<1>4. Seen(Here)'
  BY <1>1, HereFields DEF IInv, Seen, Here
<1>5. FingerOwned'
  <2>1. WillHoldFinger(Here)' <=> WillHoldFinger(Here)
    BY <1>1 DEF WillHoldFinger, Here
  <2>. QED BY <1>1, <2>1 DEF IInv, FingerOwned, GestureTouches
<1>6. KeysOwned'
  <2>1. \A j \in Momentary : /\ Owner(j) => Owner(j)'
                             /\ Unmatched(keys, j)' <=> Unmatched(keys, j)
                             /\ Releases(keys, j)' <=> Releases(keys, j)
    BY <1>1 DEF Owner, GestureHolds
  <2>. QED BY <1>1, <2>1 DEF IInv, KeysOwned
<1>7. QuietSave'
  BY <1>1 DEF IInv, QuietSave, s5l_gpioic_pending
<1>. QED BY <1>1, <1>2, <1>3, <1>4, <1>5, <1>6, <1>7 DEF IInv

LEMMA InitOwned == Init => IInv
<1>. SUFFICES ASSUME Init PROVE IInv
  OBVIOUS
<1>1. TypeOK
  <2>1. /\ silent \in BOOLEAN
        /\ <<>> \in Seq(TouchPhase) /\ Len(<<>>) <= VM_TOUCH_QUEUE_CAP
        /\ <<>> \in Seq([which : Buttons, pressed : BOOLEAN])
        /\ Len(<<>>) <= VM_BUTTON_QUEUE_CAP
        /\ [k \in Momentary |-> "none"] \in [Momentary -> {"none", "young", "old"}]
        /\ [k \in Buttons |-> FALSE] \in [Buttons -> BOOLEAN]
        /\ 0 \in 0 .. DRAG_STEPS /\ 0 \in 0 .. MaxEvents
    BY KeyFacts, InputAssumption DEF Init
  <2>2. "WAKE" \in Phases /\ "NONE" \in Acts
    BY DEF Phases, Acts
  <2>. QED BY <2>1, <2>2 DEF Init, TypeOK, NoShutdown
<1>2. LiftHasRoom /\ Modes
  BY DEF Init, LiftHasRoom, Modes, NoShutdown
<1>3. Seen(Here) /\ ~WillHoldFinger(Here)
  BY DEF Init, Seen, Here, WillHoldFinger
<1>4. FingerOwned /\ QuietSave
  BY <1>3 DEF Init, FingerOwned, QuietSave
<1>5. KeysOwned
  BY KeyFacts DEF Init, KeysOwned, Unmatched
<1>. QED BY <1>1, <1>2, <1>3, <1>4, <1>5 DEF IInv

(* Every step keeps the invariant, and takes no young key up.                *)
Pulse == \A k \in Momentary :
           board.held[k] /\ ~board'.held[k] /\ board'.armed => hold[k] # "young"

LEMMA NextOwned ==
  ASSUME IInv, [Next]_vars
  PROVE  IInv' /\ Pulse
<1>1. ASSUME IInv', board' = board PROVE IInv' /\ Pulse
  BY <1>1 DEF Pulse
<1>2. ASSUME IInv', Keeps(Here, Here') PROVE IInv' /\ Pulse
  <2>1. /\ Here.board = board /\ (Here').board = board' /\ Here.hold = hold
    BY DEF Here
  <2>. QED BY <1>2, <2>1 DEF Pulse, Keeps
<1>3. CASE UserStep
  BY <1>1, <1>3, UserKeeps
<1>4. CASE EngineTurn
  BY <1>2, <1>4, CheckpointKeeps, GestureTurnKeeps, GestureActKeeps, DrainKeeps DEF EngineTurn
<1>5. CASE GuestRuns \/ GuestFault
  BY <1>5, GuestStepsKeep DEF Pulse
<1>6. CASE Time
  BY <1>1, <1>6, AgeKeeps DEF Time
<1>7. CASE UNCHANGED vars
  <2>1. IInv'
    BY <1>7 DEF IInv, vars, TypeOK, LiftHasRoom, Seen, Here, Modes, FingerOwned, KeysOwned,
             QuietSave, WillHoldFinger, GestureTouches, Owner, GestureHolds, s5l_gpioic_pending
  <2>2. board' = board
    BY <1>7 DEF vars
  <2>. QED BY <1>1, <2>1, <2>2
<1>. QED BY <1>3, <1>4, <1>5, <1>6, <1>7 DEF Next

-----------------------------------------------------------------------------
(* The invariant holds throughout: what follows it says of every state.      *)
LEMMA AlwaysOwned == Spec => []IInv
<1>1. IInv /\ [Next]_vars => IInv'
  BY NextOwned
<1>. QED BY InitOwned, <1>1, PTL DEF Spec

(* Nothing is left pressed, for queues of any size, any drag and any keys:   *)
(* every finger and every key that is down has its release ahead of it, and  *)
(* the lift of a finger finds its place (vm_touch_queue_push,                *)
(* vm_button_queue_push, checkpointInputIsQuiescent, the gesture's turns).   *)
THEOREM EveryPressIsOwned == Spec => []InputAccounted
<1>1. IInv => InputAccounted
  <2>. SUFFICES ASSUME IInv PROVE InputAccounted
    OBVIOUS
  <2>1. FingerAccounted
    <3>1. CASE life # "checkpoint"
      BY <3>1 DEF FingerAccounted, IInv, FingerOwned
    <3>2. CASE life = "checkpoint"
      <4>1. Prepared.touch = <<>> /\ Prepared.z2 = z2
        <5>1. Prepared.touch = <<>>
          BY <3>2, PreparedGood
        <5>2. Cancelled(Here).z2 = Here.z2
          BY NowGood, Cancels
        <5>. QED BY <5>1, <5>2, HereFields DEF Prepared
      <4>2. finger /\ z2.report = "none" => active
        BY HereFields DEF IInv, Seen
      <4>3. WillHoldFinger(Prepared) => z2.report # "none" \/ finger
        BY <4>1 DEF WillHoldFinger
      <4>. QED BY <3>2, <4>2, <4>3 DEF FingerAccounted
    <3>. QED BY <3>1, <3>2
  <2>2. KeyAccounted
    BY DEF IInv, KeysOwned, Owner, KeyAccounted, GestureHolds
  <2>. QED BY <2>1, <2>2 DEF IInv, InputAccounted
<1>. QED BY <1>1, AlwaysOwned, PTL

(* A machine that was saved is at rest, whatever the user did while the      *)
(* checkpoint waited for the guest (beginCheckpointInputQuiesce and          *)
(* checkpointInputIsQuiescent).                                              *)
THEOREM SavedAtRest == Spec => []QuietSave
<1>1. IInv => QuietSave
  BY DEF IInv
<1>. QED BY <1>1, AlwaysOwned, PTL

(* No step takes a key up on the board before its press has been held long   *)
(* enough (vm_button_momentary_release_ready).                               *)
THEOREM PulsesAreHeld == Spec => PulseIsHeld
<1>1. IInv /\ [Next]_vars =>
        [\A k \in Momentary :
           board.held[k] /\ ~board'.held[k] /\ board'.armed => hold[k] # "young"]_vars
  BY NextOwned DEF Pulse
<1>. QED BY <1>1, AlwaysOwned, PTL DEF Spec, PulseIsHeld
=============================================================================
