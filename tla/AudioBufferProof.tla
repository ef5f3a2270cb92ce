-------------------------- MODULE AudioBufferProof --------------------------
(***************************************************************************)
(* Proofs about the audio hand-off, for every ring length, every width of  *)
(* the indices and every rate: both queues are first-in first-out queues,  *)
(* and no sound of before a pause, a resume or a replaced board is played  *)
(* once the render callback has seen the new epoch.                        *)
(*                                                                         *)
(* One queue is first studied as a value q with the positions of its two   *)
(* threads, so that what is proved serves the playback queue and the       *)
(* microphone queue alike.                                                 *)
(***************************************************************************)
EXTENDS AudioBuffer, TLAPS

-----------------------------------------------------------------------------
(* Remainders.                                                             *)

LEMMA DivMod ==
  ASSUME NEW n \in Nat \ {0}, NEW x \in Int
  PROVE  x = n * (x \div n) + (x % n) /\ x % n \in 0 .. n - 1 /\ x \div n \in Int
OBVIOUS

LEMMA MulSign ==
  ASSUME NEW n \in Nat \ {0}, NEW k \in Int
  PROVE  (k <= 0 => n * k <= 0) /\ (k >= 1 => n * k >= n)
OBVIOUS

LEMMA ModUnique ==
  ASSUME NEW n \in Nat \ {0}, NEW x \in Int, NEW q \in Int, NEW r \in 0 .. n - 1, x = n * q + r
  PROVE  x % n = r
<1>. DEFINE p == x \div n
            s == x % n
<1>1. x = n * p + s /\ s \in 0 .. n - 1 /\ p \in Int
  BY DivMod
<1>. HIDE DEF p, s
<1>2. /\ n * (q - p) = s - r /\ n * (p - q) = r - s
      /\ q - p \in Int /\ p - q \in Int /\ s - r < n /\ r - s < n
  BY <1>1
<1>3. ~(q - p >= 1)
  BY <1>2, MulSign
<1>4. ~(p - q >= 1)
  BY <1>2, MulSign
<1>5. q = p
  BY <1>1, <1>3, <1>4
<1>. QED BY <1>1, <1>5 DEF s

LEMMA ModSmall ==
  ASSUME NEW n \in Nat \ {0}, NEW x \in 0 .. n - 1
  PROVE  x % n = x
<1>1. x = n * 0 + x
  OBVIOUS
<1>. QED BY <1>1, ModUnique

(* A multiple of n changes nothing.                                        *)
LEMMA ModShift ==
  ASSUME NEW n \in Nat \ {0}, NEW q \in Int, NEW y \in Int
  PROVE  (n * q + y) % n = y % n
<1>. DEFINE p == y \div n
            s == y % n
<1>1. y = n * p + s /\ s \in 0 .. n - 1 /\ p \in Int
  BY DivMod
<1>. HIDE DEF p, s
<1>2. n * q + y = n * (q + p) + s /\ q + p \in Int /\ n * q + y \in Int
  BY <1>1
<1>3. (n * q + y) % n = s
  BY <1>1, <1>2, ModUnique
<1>. QED BY <1>3 DEF s

LEMMA ModOfSum ==
  ASSUME NEW n \in Nat \ {0}, NEW x \in Int, NEW y \in Int
  PROVE  ((x % n) + y) % n = (x + y) % n
<1>. DEFINE p == x \div n
            s == x % n
<1>1. x = n * p + s /\ s \in 0 .. n - 1 /\ p \in Int
  BY DivMod
<1>. HIDE DEF p, s
<1>2. x + y = n * p + (s + y) /\ s + y \in Int
  BY <1>1
<1>3. (s + y) % n = (x + y) % n
  BY <1>1, <1>2, ModShift
<1>. QED BY <1>3 DEF s

(* Fewer than n apart, two numbers have different remainders.              *)
LEMMA ModDiffers ==
  ASSUME NEW n \in Nat \ {0}, NEW x \in Int, NEW y \in Int, x < y, y < x + n
  PROVE  x % n # y % n
<1>. DEFINE p == x \div n
            s == x % n
            q == y \div n
<1>. SUFFICES ASSUME s = y % n PROVE FALSE
  OBVIOUS
<1>1. x = n * p + s /\ s \in 0 .. n - 1 /\ p \in Int
  BY DivMod
<1>2. y = n * q + s /\ q \in Int
  BY DivMod
<1>. HIDE DEF p, s, q
<1>3. n * (q - p) = y - x /\ q - p \in Int /\ y - x < n /\ y - x > 0
  BY <1>1, <1>2
<1>. QED BY <1>3, MulSign

-----------------------------------------------------------------------------
(* Indices and slots.                                                      *)

Slots == 0 .. (VM_AUDIO_FRAMES - 1)
Indices == 0 .. (INDEX - 1)

(* The index j places behind r, and its slot in the ring.                  *)
Pos(r, j) == (r + j) % INDEX
Slot(r, j) == (r + j) % VM_AUDIO_FRAMES

LEMMA Ring ==
  /\ VM_AUDIO_FRAMES \in Nat \ {0} /\ INDEX \in Nat \ {0} /\ INDEX > VM_AUDIO_FRAMES
  /\ INDEX % VM_AUDIO_FRAMES = 0
BY RingAssumption

(* The slot of an index does not jump where the index wraps.               *)
LEMMA SlotOfIndex ==
  ASSUME NEW x \in Int
  PROVE  (x % INDEX) % VM_AUDIO_FRAMES = x % VM_AUDIO_FRAMES
<1>. DEFINE k == INDEX \div VM_AUDIO_FRAMES
            z == INDEX % VM_AUDIO_FRAMES
            p == x \div INDEX
            s == x % INDEX
<1>1. INDEX = VM_AUDIO_FRAMES * k + z /\ k \in Int /\ z = 0
  <2>1. INDEX \in Int /\ VM_AUDIO_FRAMES \in Nat \ {0} /\ z = 0
    BY Ring
  <2>. QED BY <2>1, DivMod
<1>. HIDE DEF k, z
<1>2. INDEX = VM_AUDIO_FRAMES * k
  BY <1>1, Ring
<1>3. x = INDEX * p + s /\ s \in 0 .. INDEX - 1 /\ p \in Int
  BY Ring, DivMod
<1>. HIDE DEF p, s
<1>4. x = VM_AUDIO_FRAMES * (k * p) + s /\ k * p \in Int /\ s \in Int
  <2>1. INDEX * p = VM_AUDIO_FRAMES * (k * p)
    BY <1>1, <1>2, <1>3, Ring
  <2>2. k * p \in Int
    BY <1>1, <1>3
  <2>. QED BY <1>3, <2>1, <2>2
<1>5. x % VM_AUDIO_FRAMES = s % VM_AUDIO_FRAMES
  BY <1>4, Ring, ModShift
<1>. QED BY <1>5 DEF s

LEMMA PosFacts ==
  ASSUME NEW r \in Indices, NEW j \in Int
  PROVE  Pos(r, j) \in Indices /\ Pos(r, 0) = r /\ Pos(r, j) % VM_AUDIO_FRAMES = Slot(r, j)
<1>1. r + j \in Int /\ r \in Int
  BY Ring DEF Indices
<1>2. Pos(r, j) \in Indices
  BY <1>1, Ring, DivMod DEF Pos, Indices
<1>3. Pos(r, 0) = r
  BY Ring, ModSmall DEF Pos, Indices
<1>. QED BY <1>1, <1>2, <1>3, SlotOfIndex DEF Pos, Slot

LEMMA PosOfPos ==
  ASSUME NEW r \in Indices, NEW i \in Int, NEW j \in Int
  PROVE  Pos(Pos(r, i), j) = Pos(r, i + j) /\ Slot(Pos(r, i), j) = Slot(r, i + j)
<1>1. r + i \in Int /\ r + i + j = r + (i + j) /\ r + (i + j) \in Int
  BY Ring DEF Indices
<1>2. (((r + i) % INDEX) + j) % INDEX = (r + (i + j)) % INDEX
  BY <1>1, Ring, ModOfSum
<1>3. Pos(Pos(r, i), j) = Pos(r, i + j)
  BY <1>2 DEF Pos
<1>4. Slot(Pos(r, i), j) = Pos(Pos(r, i), j) % VM_AUDIO_FRAMES
  BY PosFacts
<1>5. Pos(r, i + j) % VM_AUDIO_FRAMES = Slot(r, i + j)
  BY <1>1, PosFacts
<1>. QED BY <1>3, <1>4, <1>5

(* The distance from one index to another.                                 *)
Gap(r, w) == (w - r) % INDEX

LEMMA GapFacts ==
  ASSUME NEW r \in Indices, NEW w \in Indices
  PROVE  /\ Gap(r, w) \in 0 .. INDEX - 1 /\ Pos(r, Gap(r, w)) = w
         /\ \A d \in 0 .. INDEX - 1 : w = Pos(r, d) => Gap(r, w) = d
<1>1. w - r \in Int /\ r \in Int /\ w \in Int
  BY Ring DEF Indices
<1>2. Gap(r, w) \in 0 .. INDEX - 1
  BY <1>1, Ring, DivMod DEF Gap
<1>3. Pos(r, Gap(r, w)) = w
  <2>. DEFINE g == (w - r) % INDEX
  <2>1. (g + r) % INDEX = ((w - r) + r) % INDEX
    BY <1>1, Ring, ModOfSum
  <2>2. g \in Int
    BY <1>2 DEF Gap
  <2>. HIDE DEF g
  <2>3. (w - r) + r = w /\ g + r = r + g
    BY <1>1, <2>2
  <2>4. w % INDEX = w
    BY Ring, ModSmall DEF Indices
  <2>5. (r + g) % INDEX = w
    BY <2>1, <2>3, <2>4
  <2>. QED BY <2>5 DEF Pos, Gap, g
<1>4. ASSUME NEW d \in 0 .. INDEX - 1, w = Pos(r, d) PROVE Gap(r, w) = d
  <2>. DEFINE m == (r + d) % INDEX
  <2>1. r + d \in Int /\ -r \in Int /\ d \in Int
    BY <1>1, Ring
  <2>2. (m + (-r)) % INDEX = ((r + d) + (-r)) % INDEX
    BY <2>1, Ring, ModOfSum
  <2>3. m = w
    BY <1>4 DEF Pos
  <2>. HIDE DEF m
  <2>4. (r + d) + (-r) = d /\ m + (-r) = w - r
    BY <1>1, <2>1, <2>3
  <2>5. d % INDEX = d
    BY Ring, ModSmall
  <2>6. (w - r) % INDEX = d
    BY <2>2, <2>4, <2>5
  <2>. QED BY <2>6 DEF Gap
<1>. QED BY <1>2, <1>3, <1>4

-----------------------------------------------------------------------------
(* One queue as a value: q is the vm_audio_queue_t, p where its producer   *)
(* is and g where its consumer is (queue, put and get of AudioQueue).      *)

Queue == [read : Indices, write : Indices, samples : [Slots -> Sample]]
Consumer == [pc : {"idle", "publish", "discard"}, copy : Sample, w : Indices, x : Sample]

UsedOf(q) == Gap(q.read, q.write)
ItemsOf(q) ==
  [i \in 1 .. UsedOf(q) |-> q.samples[((q.read + i - 1) % INDEX) % VM_AUDIO_FRAMES]]

(* The slot the producer fills, and the frames a discard under way drops.  *)
Filling(q) == q.samples[q.write % VM_AUDIO_FRAMES]
Doomed(q, g) == IF g.pc = "discard" THEN Gap(q.read, g.w) ELSE 0

(* What keeps the two threads apart: the producer fills a slot no waiting  *)
(* frame is in, the frame the consumer copies is the oldest and stays it,  *)
(* and a discard drops only frames that wait.                              *)
QueueInv(q, p, g) ==
  /\ q \in Queue /\ p \in {"idle", "publish"} /\ g \in Consumer
  /\ UsedOf(q) <= VM_AUDIO_FRAMES
  /\ p = "publish" => UsedOf(q) < VM_AUDIO_FRAMES
  /\ g.pc = "publish" => UsedOf(q) >= 1 /\ g.copy = q.samples[q.read % VM_AUDIO_FRAMES]
  /\ Doomed(q, g) <= UsedOf(q)

LEMMA QueueFields ==
  ASSUME NEW q \in Queue
  PROVE  /\ q.read \in Indices /\ q.write \in Indices /\ q.samples \in [Slots -> Sample]
         /\ UsedOf(q) \in 0 .. INDEX - 1 /\ q.write = Pos(q.read, UsedOf(q))
BY GapFacts DEF Queue, UsedOf

LEMMA ConsumerFields ==
  ASSUME NEW g \in Consumer
  PROVE  /\ g.pc \in {"idle", "publish", "discard"} /\ g.copy \in Sample
         /\ g.w \in Indices /\ g.x \in Sample
BY DEF Consumer

LEMMA SlotsOf ==
  ASSUME NEW x \in Int
  PROVE  x % VM_AUDIO_FRAMES \in Slots
BY Ring, DivMod DEF Slots

LEMMA DoomedFacts ==
  ASSUME NEW q \in Queue, NEW g \in Consumer
  PROVE  Doomed(q, g) \in 0 .. INDEX - 1
<1>1. g.w \in Indices /\ q.read \in Indices
  BY QueueFields, ConsumerFields
<1>2. Gap(q.read, g.w) \in 0 .. INDEX - 1 /\ 0 \in 0 .. INDEX - 1
  BY <1>1, GapFacts, Ring
<1>. QED BY <1>2 DEF Doomed

(* The frames that wait.                                                   *)
LEMMA ItemFacts ==
  ASSUME NEW q \in Queue
  PROVE  /\ ItemsOf(q) \in Seq(Sample) /\ Len(ItemsOf(q)) = UsedOf(q)
         /\ \A i \in 1 .. UsedOf(q) : ItemsOf(q)[i] = q.samples[Slot(q.read, i - 1)]
<1>1. UsedOf(q) \in Nat /\ q.read \in Indices /\ q.samples \in [Slots -> Sample] /\ q.read \in Int
  BY QueueFields, Ring DEF Indices
<1>2. ASSUME NEW i \in 1 .. UsedOf(q)
      PROVE  /\ ItemsOf(q)[i] = q.samples[Slot(q.read, i - 1)]
             /\ q.samples[Slot(q.read, i - 1)] \in Sample
  <2>1. i - 1 \in Int /\ q.read + i - 1 = q.read + (i - 1) /\ q.read + (i - 1) \in Int
    BY <1>1
  <2>2. ((q.read + i - 1) % INDEX) % VM_AUDIO_FRAMES = Slot(q.read, i - 1)
    BY <1>1, <2>1, PosFacts DEF Pos
  <2>3. Slot(q.read, i - 1) \in Slots
    BY <2>1, SlotsOf DEF Slot
  <2>. QED BY <1>1, <2>2, <2>3 DEF ItemsOf
<1>3. ItemsOf(q) \in [1 .. UsedOf(q) -> Sample]
  <2>1. ItemsOf(q) = [i \in 1 .. UsedOf(q) |-> ItemsOf(q)[i]]
    BY DEF ItemsOf
  <2>. QED BY <1>2, <2>1
<1>. QED BY <1>1, <1>2, <1>3

(* No waiting frame is in the slot that is filled next.                    *)
LEMMA FillingIsFree ==
  ASSUME NEW q \in Queue, UsedOf(q) < VM_AUDIO_FRAMES, NEW j \in 0 .. UsedOf(q) - 1
  PROVE  /\ q.write % VM_AUDIO_FRAMES = Slot(q.read, UsedOf(q))
         /\ Slot(q.read, j) # q.write % VM_AUDIO_FRAMES
<1>. DEFINE u == UsedOf(q)
            r == q.read
<1>1. r \in Indices /\ u \in Int /\ r \in Int /\ u >= 0 /\ u < VM_AUDIO_FRAMES
      /\ q.write = Pos(r, u)
  BY QueueFields, Ring DEF Indices
<1>2. q.write % VM_AUDIO_FRAMES = Slot(r, u)
  BY <1>1, PosFacts
<1>. HIDE DEF u, r
<1>3. r + j \in Int /\ r + u \in Int /\ r + j < r + u /\ r + u < (r + j) + VM_AUDIO_FRAMES
  BY <1>1, Ring DEF u
<1>4. (r + j) % VM_AUDIO_FRAMES # (r + u) % VM_AUDIO_FRAMES
  BY <1>3, Ring, ModDiffers
<1>. QED BY <1>2, <1>4 DEF Slot, u, r

(* put fills a slot and nobody sees it.                                    *)
LEMMA PutFills ==
  ASSUME NEW q, NEW g, QueueInv(q, "idle", g), UsedOf(q) < VM_AUDIO_FRAMES, NEW x \in Sample
  PROVE  LET q2 == [q EXCEPT !.samples[q.write % VM_AUDIO_FRAMES] = x] IN
         /\ QueueInv(q2, "publish", g) /\ ItemsOf(q2) = ItemsOf(q)
         /\ Filling(q2) = x /\ Doomed(q2, g) = Doomed(q, g)
<1>. DEFINE k == q.write % VM_AUDIO_FRAMES
            q2 == [q EXCEPT !.samples[k] = x]
            u == UsedOf(q)
<1>1. q \in Queue /\ g \in Consumer
  BY DEF QueueInv
<1>2. /\ q.read \in Indices /\ q.write \in Indices /\ q.samples \in [Slots -> Sample]
      /\ u \in 0 .. INDEX - 1
  BY <1>1, QueueFields
<1>3. k \in Slots
  <2>1. q.write \in Int
    BY <1>2, Ring DEF Indices
  <2>. QED BY <2>1, SlotsOf
<1>4. /\ q2 \in Queue /\ q2.read = q.read /\ q2.write = q.write
      /\ q2.samples = [q.samples EXCEPT ![k] = x]
  <2>. HIDE DEF k
  <2>. QED BY <1>1, <1>2, <1>3 DEF Queue
<1>. HIDE DEF q2
<1>5. UsedOf(q2) = u /\ Doomed(q2, g) = Doomed(q, g)
  BY <1>4 DEF UsedOf, Doomed
<1>6. \A j \in 0 .. u - 1 : q2.samples[Slot(q.read, j)] = q.samples[Slot(q.read, j)]
  <2>. SUFFICES ASSUME NEW j \in 0 .. u - 1
                PROVE  q2.samples[Slot(q.read, j)] = q.samples[Slot(q.read, j)]
    OBVIOUS
  <2>1. Slot(q.read, j) # k
    BY <1>1, FillingIsFree
  <2>2. Slot(q.read, j) \in Slots
    <3>1. q.read + j \in Int
      BY <1>2, Ring DEF Indices
    <3>. QED BY <3>1, SlotsOf DEF Slot
  <2>. HIDE DEF k, u
  <2>. QED BY <1>2, <1>4, <2>1, <2>2
<1>7. ItemsOf(q2) = ItemsOf(q)
  <2>1. /\ ItemsOf(q2) = [i \in 1 .. u |-> ItemsOf(q2)[i]]
        /\ ItemsOf(q) = [i \in 1 .. u |-> ItemsOf(q)[i]]
    BY <1>5 DEF ItemsOf
  <2>2. ASSUME NEW i \in 1 .. u PROVE ItemsOf(q2)[i] = ItemsOf(q)[i]
    <3>1. i - 1 \in 0 .. u - 1
      BY <1>2
    <3>2. ItemsOf(q)[i] = q.samples[Slot(q.read, i - 1)]
      BY <1>1, ItemFacts
    <3>3. ItemsOf(q2)[i] = q2.samples[Slot(q.read, i - 1)]
      BY <1>4, <1>5, ItemFacts
    <3>. QED BY <1>6, <3>1, <3>2, <3>3
  <2>. QED BY <2>1, <2>2
<1>8. ASSUME g.pc = "publish"
      PROVE  u >= 1 /\ g.copy = q2.samples[q2.read % VM_AUDIO_FRAMES]
  <2>1. u >= 1 /\ g.copy = q.samples[q.read % VM_AUDIO_FRAMES]
    BY <1>8 DEF QueueInv
  <2>2. 0 \in 0 .. u - 1
    BY <1>2, <2>1
  <2>3. Slot(q.read, 0) = q.read % VM_AUDIO_FRAMES
    BY <1>2, Ring DEF Slot, Indices
  <2>. QED BY <1>4, <1>6, <2>1, <2>2, <2>3
<1>9. Filling(q2) = x
  BY <1>2, <1>3, <1>4 DEF Filling
<1>10. QueueInv(q2, "publish", g)
  BY <1>1, <1>4, <1>5, <1>8, Ring DEF QueueInv
<1>. QED BY <1>5, <1>7, <1>9, <1>10 DEF q2

LEMMA SuffixFacts ==
  ASSUME NEW S, NEW s \in Seq(S), NEW d \in 0 .. Len(s)
  PROVE  LET t == SubSeq(s, d + 1, Len(s)) IN
         t \in Seq(S) /\ Len(t) = Len(s) - d /\ \A i \in 1 .. Len(s) - d : t[i] = s[d + i]
OBVIOUS

(* The read index moves d frames on: the d oldest frames are gone.         *)
LEMMA ReadMoves ==
  ASSUME NEW q \in Queue, NEW d \in 0 .. UsedOf(q)
  PROVE  LET q2 == [q EXCEPT !.read = Pos(q.read, d)] IN
         /\ q2 \in Queue /\ q2.read = Pos(q.read, d) /\ q2.write = q.write /\ q2.samples = q.samples
         /\ UsedOf(q2) = UsedOf(q) - d
         /\ ItemsOf(q2) = SubSeq(ItemsOf(q), d + 1, Len(ItemsOf(q)))
<1>. DEFINE r == q.read
            u == UsedOf(q)
            r2 == Pos(r, d)
            q2 == [q EXCEPT !.read = r2]
            t == SubSeq(ItemsOf(q), d + 1, Len(ItemsOf(q)))
<1>1. /\ r \in Indices /\ q.write \in Indices /\ q.samples \in [Slots -> Sample]
      /\ u \in 0 .. INDEX - 1 /\ q.write = Pos(r, u) /\ INDEX \in Nat
  BY QueueFields, Ring
<1>2. d \in Int /\ u \in Int /\ u - d \in 0 .. INDEX - 1 /\ d + (u - d) = u /\ u - d \in Int
  BY <1>1
<1>3. r2 \in Indices
  BY <1>1, <1>2, PosFacts
<1>4. q2 \in Queue /\ q2.read = r2 /\ q2.write = q.write /\ q2.samples = q.samples
  <2>. HIDE DEF r2
  <2>. QED BY <1>1, <1>3 DEF Queue
<1>5. q.write = Pos(r2, u - d)
  <2>1. Pos(Pos(r, d), u - d) = Pos(r, d + (u - d))
    BY <1>1, <1>2, PosOfPos
  <2>. QED BY <1>1, <1>2, <2>1
<1>. HIDE DEF q2, r2
<1>6. UsedOf(q2) = u - d
  BY <1>1, <1>2, <1>3, <1>4, <1>5, GapFacts DEF UsedOf
<1>7. /\ ItemsOf(q) \in Seq(Sample) /\ Len(ItemsOf(q)) = u
      /\ \A i \in 1 .. u : ItemsOf(q)[i] = q.samples[Slot(r, i - 1)]
  BY ItemFacts
<1>8. /\ ItemsOf(q2) \in Seq(Sample) /\ Len(ItemsOf(q2)) = u - d
      /\ \A i \in 1 .. u - d : ItemsOf(q2)[i] = q.samples[Slot(r2, i - 1)]
  BY <1>4, <1>6, ItemFacts
<1>9. t \in Seq(Sample) /\ Len(t) = u - d /\ \A i \in 1 .. u - d : t[i] = ItemsOf(q)[d + i]
  <2>1. d \in 0 .. Len(ItemsOf(q))
    BY <1>7
  <2>. QED BY <1>7, <2>1, SuffixFacts
<1>10. ASSUME NEW i \in 1 .. u - d PROVE ItemsOf(q2)[i] = t[i]
  <2>1. i - 1 \in Int /\ d + i \in 1 .. u /\ d + (i - 1) = (d + i) - 1
    BY <1>2
  <2>2. Slot(r2, i - 1) = Slot(r, d + (i - 1))
    BY <1>1, <1>2, <2>1, PosOfPos DEF r2
  <2>3. ItemsOf(q)[d + i] = q.samples[Slot(r, (d + i) - 1)]
    BY <1>7, <2>1
  <2>. QED BY <1>8, <1>9, <2>1, <2>2, <2>3
<1>11. ItemsOf(q2) = t
  <2>. HIDE DEF t, u
  <2>. QED BY <1>2, <1>8, <1>9, <1>10
<1>. QED BY <1>4, <1>6, <1>11 DEF q2, r2, t, u

(* put publishes: the frame it has filled waits behind the others.         *)
LEMMA PutShows ==
  ASSUME NEW q, NEW g, QueueInv(q, "publish", g)
  PROVE  LET q2 == [q EXCEPT !.write = (@ + 1) % INDEX] IN
         /\ QueueInv(q2, "idle", g) /\ ItemsOf(q2) = Append(ItemsOf(q), Filling(q))
         /\ Len(ItemsOf(q)) < VM_AUDIO_FRAMES /\ Doomed(q2, g) = Doomed(q, g)
         /\ Filling(q) \in Sample
<1>. DEFINE q2 == [q EXCEPT !.write = (q.write + 1) % INDEX]
            r == q.read
            u == UsedOf(q)
            t == Append(ItemsOf(q), Filling(q))
<1>1. q \in Queue /\ g \in Consumer /\ u < VM_AUDIO_FRAMES
  BY DEF QueueInv
<1>2. /\ r \in Indices /\ q.write \in Indices /\ q.samples \in [Slots -> Sample]
      /\ u \in 0 .. INDEX - 1 /\ q.write = Pos(r, u)
  BY <1>1, QueueFields
<1>3. u \in Int /\ u + 1 \in 0 .. INDEX - 1 /\ u + 1 \in Int
  BY <1>1, <1>2, Ring
<1>4. (q.write + 1) % INDEX = Pos(r, u + 1) /\ Pos(r, u + 1) \in Indices
  <2>1. Pos(Pos(r, u), 1) = Pos(r, u + 1)
    <3>. HIDE DEF r, u
    <3>. QED BY <1>2, <1>3, PosOfPos, 1 \in Int
  <2>2. Pos(q.write, 1) = (q.write + 1) % INDEX
    BY DEF Pos
  <2>. QED BY <1>2, <1>3, <2>1, <2>2, PosFacts
<1>5. q2 \in Queue /\ q2.read = r /\ q2.write = Pos(r, u + 1) /\ q2.samples = q.samples
  BY <1>1, <1>2, <1>4 DEF Queue
<1>. HIDE DEF q2
<1>6. UsedOf(q2) = u + 1 /\ Doomed(q2, g) = Doomed(q, g)
  BY <1>2, <1>3, <1>4, <1>5, GapFacts DEF UsedOf, Doomed
<1>7. /\ ItemsOf(q) \in Seq(Sample) /\ Len(ItemsOf(q)) = u
      /\ \A i \in 1 .. u : ItemsOf(q)[i] = q.samples[Slot(r, i - 1)]
  BY <1>1, ItemFacts
<1>8. /\ ItemsOf(q2) \in Seq(Sample) /\ Len(ItemsOf(q2)) = u + 1
      /\ \A i \in 1 .. u + 1 : ItemsOf(q2)[i] = q.samples[Slot(r, i - 1)]
  BY <1>5, <1>6, ItemFacts
<1>9. Filling(q) = q.samples[Slot(r, u)] /\ Filling(q) \in Sample
  <2>1. q.write % VM_AUDIO_FRAMES = Slot(r, u)
    BY <1>2, <1>3, PosFacts
  <2>2. q.write % VM_AUDIO_FRAMES \in Slots
    BY <1>2, Ring, SlotsOf DEF Indices
  <2>. QED BY <1>2, <2>1, <2>2 DEF Filling
<1>10. /\ t \in Seq(Sample) /\ Len(t) = u + 1 /\ t[u + 1] = Filling(q)
       /\ \A i \in 1 .. u : t[i] = ItemsOf(q)[i]
  <2>. HIDE DEF u
  <2>. QED BY <1>3, <1>7, <1>9
<1>11. ASSUME NEW i \in 1 .. u + 1 PROVE ItemsOf(q2)[i] = t[i]
  <2>1. CASE i = u + 1
    <3>1. i - 1 = u
      BY <1>3, <2>1
    <3>. QED BY <1>8, <1>9, <1>10, <2>1, <3>1
  <2>2. CASE i \in 1 .. u
    <3>1. t[i] = q.samples[Slot(r, i - 1)]
      BY <1>7, <1>10, <2>2
    <3>2. ItemsOf(q2)[i] = q.samples[Slot(r, i - 1)]
      BY <1>8
    <3>. QED BY <3>1, <3>2
  <2>3. i = u + 1 \/ i \in 1 .. u
    <3>. HIDE DEF u
    <3>. QED BY <1>3
  <2>. QED BY <2>1, <2>2, <2>3
<1>12. ItemsOf(q2) = t
  <2>. HIDE DEF t, u
  <2>. QED BY <1>3, <1>8, <1>10, <1>11
<1>13. QueueInv(q2, "idle", g)
  <2>1. u + 1 <= VM_AUDIO_FRAMES
    BY <1>1, <1>3, Ring
  <2>2. Doomed(q, g) <= u /\ Doomed(q, g) \in Int
    BY <1>1, DoomedFacts DEF QueueInv
  <2>3. g.pc = "publish" => u >= 1 /\ g.copy = q.samples[q.read % VM_AUDIO_FRAMES]
    BY DEF QueueInv
  <2>. HIDE DEF u
  <2>4. Doomed(q, g) <= u + 1
    BY <1>3, <2>2
  <2>5. u >= 1 => u + 1 >= 1
    BY <1>3
  <2>. QED BY <1>1, <1>5, <1>6, <2>1, <2>3, <2>4, <2>5 DEF QueueInv
<1>. QED BY <1>1, <1>6, <1>7, <1>9, <1>12, <1>13 DEF q2, t, u

(* get finds no frame, or copies the oldest one.                           *)
LEMMA EmptyQueue ==
  ASSUME NEW q \in Queue
  PROVE  (q.write = q.read <=> UsedOf(q) = 0) /\ (UsedOf(q) = 0 <=> ItemsOf(q) = <<>>)
<1>1. /\ q.read \in Indices /\ q.write \in Indices /\ UsedOf(q) \in 0 .. INDEX - 1
      /\ q.write = Pos(q.read, UsedOf(q)) /\ Pos(q.read, 0) = q.read
  BY QueueFields, PosFacts, 0 \in Int
<1>2. 0 \in 0 .. INDEX - 1
  BY Ring
<1>3. q.write = q.read => UsedOf(q) = 0
  BY <1>1, <1>2, GapFacts DEF UsedOf
<1>4. UsedOf(q) = 0 => q.write = q.read
  BY <1>1
<1>5. ItemsOf(q) \in Seq(Sample) /\ Len(ItemsOf(q)) = UsedOf(q)
  BY ItemFacts
<1>. QED BY <1>3, <1>4, <1>5

(* The caller has nothing, or has used what it had.                        *)
LEMMA GetUses ==
  ASSUME NEW q, NEW p, NEW g, QueueInv(q, p, g), g.pc = "idle"
  PROVE  LET g2 == [g EXCEPT !.x = Silence] IN
         /\ QueueInv(q, p, g2) /\ g2.x = Silence /\ Doomed(q, g2) = 0 /\ g2.pc = "idle"
<1>. DEFINE g2 == [g EXCEPT !.x = Silence]
<1>1. q \in Queue /\ g \in Consumer
  BY DEF QueueInv
<1>2. UsedOf(q) \in Nat
  BY <1>1, QueueFields, Ring
<1>3. g2 \in Consumer /\ g2.pc = "idle" /\ g2.x = Silence
  BY <1>1 DEF Consumer, Sample
<1>. HIDE DEF g2
<1>4. Doomed(q, g2) = 0
  BY <1>3 DEF Doomed
<1>5. QueueInv(q, p, g2)
  BY <1>2, <1>3, <1>4 DEF QueueInv
<1>. QED BY <1>3, <1>4, <1>5 DEF g2

(* The consumer copies the oldest frame.                                   *)
LEMMA GetLooks ==
  ASSUME NEW q, NEW p, NEW g, QueueInv(q, p, g), g.pc = "idle", q.write # q.read
  PROVE  LET g2 == [g EXCEPT !.pc = "publish", !.copy = q.samples[q.read % VM_AUDIO_FRAMES]] IN
         /\ QueueInv(q, p, g2) /\ g2.x = g.x /\ Doomed(q, g2) = 0 /\ g2.pc = "publish"
<1>. DEFINE c == q.samples[q.read % VM_AUDIO_FRAMES]
            g2 == [g EXCEPT !.pc = "publish", !.copy = c]
<1>1. q \in Queue /\ g \in Consumer
  BY DEF QueueInv
<1>2. UsedOf(q) \in Nat /\ q.read \in Indices /\ q.samples \in [Slots -> Sample]
  BY <1>1, QueueFields, Ring
<1>3. c \in Sample
  <2>1. q.read % VM_AUDIO_FRAMES \in Slots
    BY <1>2, Ring, SlotsOf DEF Indices
  <2>. QED BY <1>2, <2>1
<1>4. UsedOf(q) >= 1
  BY <1>1, <1>2, EmptyQueue
<1>. HIDE DEF c
<1>5. g2 \in Consumer /\ g2.pc = "publish" /\ g2.copy = c /\ g2.x = g.x
  BY <1>1, <1>3 DEF Consumer
<1>. HIDE DEF g2
<1>6. Doomed(q, g2) = 0
  BY <1>5 DEF Doomed
<1>7. QueueInv(q, p, g2)
  BY <1>2, <1>4, <1>5, <1>6 DEF QueueInv, c
<1>. QED BY <1>5, <1>6, <1>7 DEF g2, c

(* get gives the oldest frame to its caller and its slot to the producer.  *)
LEMMA GetTakes ==
  ASSUME NEW q, NEW p, NEW g, QueueInv(q, p, g), g.pc = "publish"
  PROVE  LET q2 == [q EXCEPT !.read = (@ + 1) % INDEX]
             g2 == [g EXCEPT !.pc = "idle", !.copy = Silence, !.x = g.copy] IN
         /\ QueueInv(q2, p, g2) /\ ItemsOf(q) # <<>> /\ ItemsOf(q2) = Tail(ItemsOf(q))
         /\ g.copy = Head(ItemsOf(q)) /\ g2.x = g.copy /\ g2.pc = "idle"
         /\ Filling(q2) = Filling(q) /\ Doomed(q, g) = 0 /\ Doomed(q2, g2) = 0
<1>. DEFINE q2 == [q EXCEPT !.read = Pos(q.read, 1)]
            g2 == [g EXCEPT !.pc = "idle", !.copy = Silence, !.x = g.copy]
            u == UsedOf(q)
            s == ItemsOf(q)
<1>1. q \in Queue /\ g \in Consumer /\ p \in {"idle", "publish"} /\ u <= VM_AUDIO_FRAMES /\ u >= 1
      /\ g.copy = q.samples[q.read % VM_AUDIO_FRAMES]
  BY DEF QueueInv
<1>2. u \in Nat /\ q.read \in Indices
  BY <1>1, QueueFields, Ring
<1>3. [q EXCEPT !.read = (@ + 1) % INDEX] = q2
  BY DEF Pos
<1>4. 1 \in 0 .. u
  BY <1>1, <1>2
<1>5. /\ q2 \in Queue /\ q2.write = q.write /\ q2.samples = q.samples
      /\ UsedOf(q2) = u - 1 /\ ItemsOf(q2) = SubSeq(s, 1 + 1, Len(s))
  BY <1>1, <1>4, ReadMoves
<1>6. s \in Seq(Sample) /\ Len(s) = u /\ s[1] = q.samples[Slot(q.read, 1 - 1)]
  BY <1>1, <1>2, ItemFacts
<1>7. s # <<>> /\ ItemsOf(q2) = Tail(s) /\ g.copy = Head(s)
  <2>1. Slot(q.read, 1 - 1) = q.read % VM_AUDIO_FRAMES
    <3>1. q.read + (1 - 1) = q.read
      BY <1>2, Ring DEF Indices
    <3>. QED BY <3>1 DEF Slot
  <2>2. s # <<>>
    BY <1>1, <1>2, <1>6
  <2>3. Tail(s) = SubSeq(s, 1 + 1, Len(s))
    BY <1>6, <2>2
  <2>4. Head(s) = s[1]
    BY <1>6, <2>2
  <2>. QED BY <1>1, <1>5, <1>6, <2>1, <2>2, <2>3, <2>4
<1>8. g2 \in Consumer /\ g2.pc = "idle" /\ g2.x = g.copy
  BY <1>1, ConsumerFields DEF Consumer, Sample
<1>. HIDE DEF q2, g2
<1>9. Doomed(q, g) = 0 /\ Doomed(q2, g2) = 0
  BY <1>8 DEF Doomed
<1>10. u - 1 < VM_AUDIO_FRAMES /\ u - 1 <= VM_AUDIO_FRAMES /\ 0 <= u - 1
  BY <1>1, <1>2, Ring
<1>11. QueueInv(q2, p, g2)
  BY <1>1, <1>5, <1>8, <1>9, <1>10 DEF QueueInv
<1>12. Filling(q2) = Filling(q)
  BY <1>5 DEF Filling
<1>. QED BY <1>3, <1>7, <1>8, <1>9, <1>11, <1>12 DEF q2, g2, s

(* discard sees what waits; later it drops those frames and no other.      *)
LEMMA DiscardLooks ==
  ASSUME NEW q, NEW p, NEW g, QueueInv(q, p, g), g.pc = "idle"
  PROVE  LET g2 == [g EXCEPT !.pc = "discard", !.w = q.write] IN
         /\ QueueInv(q, p, g2) /\ Doomed(q, g2) = UsedOf(q) /\ g2.x = g.x /\ g2.pc = "discard"
<1>. DEFINE g2 == [g EXCEPT !.pc = "discard", !.w = q.write]
<1>1. q \in Queue /\ g \in Consumer
  BY DEF QueueInv
<1>2. UsedOf(q) \in Nat /\ q.write \in Indices
  BY <1>1, QueueFields, Ring
<1>3. g2 \in Consumer /\ g2.pc = "discard" /\ g2.w = q.write /\ g2.x = g.x
  BY <1>1, <1>2 DEF Consumer
<1>. HIDE DEF g2
<1>4. Doomed(q, g2) = UsedOf(q)
  BY <1>3 DEF Doomed, UsedOf
<1>5. QueueInv(q, p, g2)
  BY <1>2, <1>3, <1>4 DEF QueueInv
<1>. QED BY <1>3, <1>4, <1>5 DEF g2

LEMMA DiscardDrops ==
  ASSUME NEW q, NEW p, NEW g, QueueInv(q, p, g), g.pc = "discard"
  PROVE  LET q2 == [q EXCEPT !.read = g.w]
             g2 == [g EXCEPT !.pc = "idle", !.w = 0]
             d == Doomed(q, g) IN
         /\ QueueInv(q2, p, g2) /\ g2.x = g.x /\ g2.pc = "idle" /\ d \in 0 .. Len(ItemsOf(q))
         /\ ItemsOf(q2) = SubSeq(ItemsOf(q), d + 1, Len(ItemsOf(q)))
         /\ Filling(q2) = Filling(q) /\ Doomed(q2, g2) = 0
<1>. DEFINE d == Doomed(q, g)
            q2 == [q EXCEPT !.read = Pos(q.read, d)]
            g2 == [g EXCEPT !.pc = "idle", !.w = 0]
            u == UsedOf(q)
<1>1. q \in Queue /\ g \in Consumer /\ p \in {"idle", "publish"} /\ u <= VM_AUDIO_FRAMES /\ d <= u
      /\ (p = "publish" => u < VM_AUDIO_FRAMES)
  BY DEF QueueInv
<1>2. u \in Nat /\ q.read \in Indices /\ d \in Nat
  BY <1>1, QueueFields, DoomedFacts, Ring
<1>3. Pos(q.read, d) = g.w
  <2>1. d = Gap(q.read, g.w)
    BY DEF Doomed
  <2>. QED BY <1>1, <1>2, <2>1, ConsumerFields, GapFacts
<1>4. d \in 0 .. u
  BY <1>1, <1>2
<1>5. /\ q2 \in Queue /\ q2.write = q.write /\ q2.samples = q.samples
      /\ UsedOf(q2) = u - d /\ ItemsOf(q2) = SubSeq(ItemsOf(q), d + 1, Len(ItemsOf(q)))
  BY <1>1, <1>4, ReadMoves
<1>6. g2 \in Consumer /\ g2.pc = "idle" /\ g2.x = g.x
  <2>1. 0 \in Indices
    BY Ring DEF Indices
  <2>. QED BY <1>1, <2>1 DEF Consumer
<1>. HIDE DEF q2, g2
<1>7. Doomed(q2, g2) = 0
  BY <1>6 DEF Doomed
<1>8. u - d <= VM_AUDIO_FRAMES /\ 0 <= u - d /\ (u < VM_AUDIO_FRAMES => u - d < VM_AUDIO_FRAMES)
  BY <1>1, <1>2, Ring
<1>9. QueueInv(q2, p, g2)
  BY <1>1, <1>5, <1>6, <1>7, <1>8 DEF QueueInv
<1>10. Filling(q2) = Filling(q)
  BY <1>5 DEF Filling
<1>11. Len(ItemsOf(q)) = u
  BY <1>1, ItemFacts
<1>. QED BY <1>3, <1>4, <1>5, <1>6, <1>7, <1>9, <1>10, <1>11 DEF q2, g2, d

-----------------------------------------------------------------------------
(* The steps of a queue and of the queue it implements, as relations.      *)

PutMoves(x, q, p, g, q2, p2, g2) ==
  /\ p = "idle" /\ g2 = g
  /\ IF UsedOf(q) >= VM_AUDIO_FRAMES THEN q2 = q /\ p2 = p
     ELSE q2 = [q EXCEPT !.samples[q.write % VM_AUDIO_FRAMES] = x] /\ p2 = "publish"

ShowMoves(q, p, g, q2, p2, g2) ==
  p = "publish" /\ q2 = [q EXCEPT !.write = (@ + 1) % INDEX] /\ p2 = "idle" /\ g2 = g

LookMoves(q, p, g, q2, p2, g2) ==
  /\ g.pc = "idle" /\ q2 = q /\ p2 = p
  /\ \/ /\ q.write = q.read /\ g2 = [g EXCEPT !.x = Silence]
     \/ /\ q.write # q.read
        /\ g2 = [g EXCEPT !.pc = "publish", !.copy = q.samples[q.read % VM_AUDIO_FRAMES]]

UsedMoves(q, p, g, q2, p2, g2) ==
  g.pc = "idle" /\ q2 = q /\ p2 = p /\ g2 = [g EXCEPT !.x = Silence]

TakeMoves(q, p, g, q2, p2, g2) ==
  /\ g.pc = "publish" /\ p2 = p /\ q2 = [q EXCEPT !.read = (@ + 1) % INDEX]
  /\ g2 = [g EXCEPT !.pc = "idle", !.copy = Silence, !.x = g.copy]

SeeMoves(q, p, g, q2, p2, g2) ==
  g.pc = "idle" /\ q2 = q /\ p2 = p /\ g2 = [g EXCEPT !.pc = "discard", !.w = q.write]

DropMoves(q, p, g, q2, p2, g2) ==
  /\ g.pc = "discard" /\ p2 = p /\ q2 = [q EXCEPT !.read = g.w]
  /\ g2 = [g EXCEPT !.pc = "idle", !.w = 0]

Moves(q, p, g, q2, p2, g2) ==
  \/ \E x \in Sample : PutMoves(x, q, p, g, q2, p2, g2)
  \/ ShowMoves(q, p, g, q2, p2, g2)
  \/ LookMoves(q, p, g, q2, p2, g2)
  \/ UsedMoves(q, p, g, q2, p2, g2)
  \/ TakeMoves(q, p, g, q2, p2, g2)
  \/ SeeMoves(q, p, g, q2, p2, g2)
  \/ DropMoves(q, p, g, q2, p2, g2)
  \/ q2 = q /\ p2 = p /\ g2 = g

FifoMoves(s, x, t, y) ==
  \/ Len(s) < VM_AUDIO_FRAMES /\ y = x /\ \E z \in Sample : t = Append(s, z)
  \/ s # <<>> /\ y = Head(s) /\ t = Tail(s)
  \/ y = x /\ \E k \in 1 .. Len(s) : t = SubSeq(s, k + 1, Len(s))
  \/ y = Silence /\ t = s
  \/ y = x /\ t = s

(* Whatever the two threads do, what they share stays sound and the frames *)
(* that wait change as a first-in first-out queue does.                    *)
LEMMA QueueStep ==
  ASSUME NEW q, NEW p, NEW g, NEW q2, NEW p2, NEW g2,
         QueueInv(q, p, g), Moves(q, p, g, q2, p2, g2)
  PROVE  QueueInv(q2, p2, g2) /\ FifoMoves(ItemsOf(q), g.x, ItemsOf(q2), g2.x)
<1>1. ASSUME NEW x \in Sample, PutMoves(x, q, p, g, q2, p2, g2)
      PROVE  QueueInv(q2, p2, g2) /\ FifoMoves(ItemsOf(q), g.x, ItemsOf(q2), g2.x)
  <2>1. CASE UsedOf(q) >= VM_AUDIO_FRAMES
    <3>1. q2 = q /\ p2 = p /\ g2 = g
      BY <1>1, <2>1 DEF PutMoves
    <3>. QED BY <3>1 DEF FifoMoves
  <2>2. CASE ~(UsedOf(q) >= VM_AUDIO_FRAMES)
    <3>1. /\ q2 = [q EXCEPT !.samples[q.write % VM_AUDIO_FRAMES] = x] /\ p2 = "publish"
          /\ p = "idle" /\ g2 = g
      BY <1>1, <2>2 DEF PutMoves
    <3>2. UsedOf(q) < VM_AUDIO_FRAMES
      BY <2>2, QueueFields, Ring DEF QueueInv
    <3>3. QueueInv(q2, "publish", g) /\ ItemsOf(q2) = ItemsOf(q)
      BY <3>1, <3>2, PutFills
    <3>. QED BY <3>1, <3>3 DEF FifoMoves
  <2>. QED BY <2>1, <2>2
<1>2. ASSUME ShowMoves(q, p, g, q2, p2, g2)
      PROVE  QueueInv(q2, p2, g2) /\ FifoMoves(ItemsOf(q), g.x, ItemsOf(q2), g2.x)
  <2>1. /\ p = "publish" /\ q2 = [q EXCEPT !.write = (@ + 1) % INDEX] /\ p2 = "idle" /\ g2 = g
    BY <1>2 DEF ShowMoves
  <2>2. /\ QueueInv(q2, "idle", g) /\ ItemsOf(q2) = Append(ItemsOf(q), Filling(q))
        /\ Len(ItemsOf(q)) < VM_AUDIO_FRAMES /\ Filling(q) \in Sample
    BY <2>1, PutShows
  <2>. QED BY <2>1, <2>2 DEF FifoMoves
<1>3. ASSUME LookMoves(q, p, g, q2, p2, g2)
      PROVE  QueueInv(q2, p2, g2) /\ FifoMoves(ItemsOf(q), g.x, ItemsOf(q2), g2.x)
  <2>1. g.pc = "idle" /\ q2 = q /\ p2 = p
    BY <1>3 DEF LookMoves
  <2>2. CASE q.write = q.read
    <3>1. g2 = [g EXCEPT !.x = Silence]
      BY <1>3, <2>2 DEF LookMoves
    <3>2. QueueInv(q, p, g2) /\ g2.x = Silence
      BY <2>1, <3>1, GetUses
    <3>. QED BY <2>1, <3>2 DEF FifoMoves
  <2>3. CASE q.write # q.read
    <3>1. g2 = [g EXCEPT !.pc = "publish", !.copy = q.samples[q.read % VM_AUDIO_FRAMES]]
      BY <1>3, <2>3 DEF LookMoves
    <3>2. QueueInv(q, p, g2) /\ g2.x = g.x
      BY <2>1, <2>3, <3>1, GetLooks
    <3>. QED BY <2>1, <3>2 DEF FifoMoves
  <2>. QED BY <2>2, <2>3
<1>4. ASSUME UsedMoves(q, p, g, q2, p2, g2)
      PROVE  QueueInv(q2, p2, g2) /\ FifoMoves(ItemsOf(q), g.x, ItemsOf(q2), g2.x)
  <2>1. g.pc = "idle" /\ q2 = q /\ p2 = p /\ g2 = [g EXCEPT !.x = Silence]
    BY <1>4 DEF UsedMoves
  <2>2. QueueInv(q, p, [g EXCEPT !.x = Silence]) /\ [g EXCEPT !.x = Silence].x = Silence
    BY <2>1, GetUses
  <2>. QED BY <2>1, <2>2 DEF FifoMoves
<1>5. ASSUME TakeMoves(q, p, g, q2, p2, g2)
      PROVE  QueueInv(q2, p2, g2) /\ FifoMoves(ItemsOf(q), g.x, ItemsOf(q2), g2.x)
  <2>. DEFINE a == [q EXCEPT !.read = (@ + 1) % INDEX]
              b == [g EXCEPT !.pc = "idle", !.copy = Silence, !.x = g.copy]
  <2>1. g.pc = "publish" /\ p2 = p /\ q2 = a /\ g2 = b
    BY <1>5 DEF TakeMoves
  <2>2. /\ QueueInv(a, p, b) /\ ItemsOf(q) # <<>> /\ ItemsOf(a) = Tail(ItemsOf(q))
        /\ g.copy = Head(ItemsOf(q)) /\ b.x = g.copy
    BY <2>1, GetTakes
  <2>. HIDE DEF a, b
  <2>. QED BY <2>1, <2>2 DEF FifoMoves
<1>6. ASSUME SeeMoves(q, p, g, q2, p2, g2)
      PROVE  QueueInv(q2, p2, g2) /\ FifoMoves(ItemsOf(q), g.x, ItemsOf(q2), g2.x)
  <2>1. g.pc = "idle" /\ q2 = q /\ p2 = p /\ g2 = [g EXCEPT !.pc = "discard", !.w = q.write]
    BY <1>6 DEF SeeMoves
  <2>2. QueueInv(q, p, g2) /\ g2.x = g.x
    BY <2>1, DiscardLooks
  <2>. QED BY <2>1, <2>2 DEF FifoMoves
<1>7. ASSUME DropMoves(q, p, g, q2, p2, g2)
      PROVE  QueueInv(q2, p2, g2) /\ FifoMoves(ItemsOf(q), g.x, ItemsOf(q2), g2.x)
  <2>. DEFINE d == Doomed(q, g)
              s == ItemsOf(q)
  <2>1. /\ g.pc = "discard" /\ p2 = p /\ q2 = [q EXCEPT !.read = g.w]
        /\ g2 = [g EXCEPT !.pc = "idle", !.w = 0]
    BY <1>7 DEF DropMoves
  <2>2. /\ QueueInv(q2, p, g2) /\ g2.x = g.x /\ d \in 0 .. Len(s)
        /\ ItemsOf(q2) = SubSeq(s, d + 1, Len(s))
    BY <2>1, DiscardDrops
  <2>3. s \in Seq(Sample)
    BY ItemFacts DEF QueueInv
  <2>. HIDE DEF d, s
  <2>4. CASE d = 0
    <3>1. SubSeq(s, 0 + 1, Len(s)) = s
      BY <2>3
    <3>. QED BY <2>1, <2>2, <2>4, <3>1 DEF FifoMoves, s
  <2>5. CASE d # 0
    <3>1. d \in 1 .. Len(s)
      BY <2>2, <2>3, <2>5
    <3>. QED BY <2>1, <2>2, <3>1 DEF FifoMoves, s
  <2>. QED BY <2>4, <2>5
<1>8. ASSUME q2 = q /\ p2 = p /\ g2 = g
      PROVE  QueueInv(q2, p2, g2) /\ FifoMoves(ItemsOf(q), g.x, ItemsOf(q2), g2.x)
  BY <1>8 DEF FifoMoves
<1>. QED BY <1>1, <1>2, <1>3, <1>4, <1>5, <1>6, <1>7, <1>8 DEF Moves

-----------------------------------------------------------------------------
(* The two queues.                                                         *)

LEMMA PlaybackMoves ==
  Playback!QNext \/ UNCHANGED pbvars => Moves(pb, pbPut, pbGet, pb', pbPut', pbGet')
<1>1. ASSUME NEW x \in Sample, Playback!PutBegin(x)
      PROVE  PutMoves(x, pb, pbPut, pbGet, pb', pbPut', pbGet')
  BY <1>1 DEF Playback!PutBegin, Playback!Used, PutMoves, UsedOf, Gap
<1>2. Playback!PutPublish => ShowMoves(pb, pbPut, pbGet, pb', pbPut', pbGet')
  BY DEF Playback!PutPublish, ShowMoves
<1>3. Playback!GetBegin => LookMoves(pb, pbPut, pbGet, pb', pbPut', pbGet')
  BY DEF Playback!GetBegin, Playback!Silence, LookMoves, Silence
<1>4. Playback!DiscardBegin => SeeMoves(pb, pbPut, pbGet, pb', pbPut', pbGet')
  BY DEF Playback!DiscardBegin, SeeMoves
<1>5. Playback!GetUsed => UsedMoves(pb, pbPut, pbGet, pb', pbPut', pbGet')
  BY DEF Playback!GetUsed, Playback!Silence, UsedMoves, Silence
<1>6. Playback!GetPublish => TakeMoves(pb, pbPut, pbGet, pb', pbPut', pbGet')
  BY DEF Playback!GetPublish, Playback!Silence, TakeMoves, Silence
<1>7. Playback!DiscardStore => DropMoves(pb, pbPut, pbGet, pb', pbPut', pbGet')
  BY DEF Playback!DiscardStore, DropMoves
<1>8. Playback!Sample = Sample
  BY DEF Playback!Sample, Playback!Silence, Sample, Silence
<1>. QED BY <1>1, <1>2, <1>3, <1>4, <1>5, <1>6, <1>7, <1>8
     DEF Playback!QNext, Playback!GetStep, Moves, pbvars

LEMMA PlaybackFifoMoves ==
  ASSUME FifoMoves(ItemsOf(pb), pbGet.x, ItemsOf(pb)', pbGet.x')
  PROVE  [Playback!Fifo!Next]_(Playback!Fifo!vars)
<1>1. Playback!Items = ItemsOf(pb) /\ Playback!Items' = ItemsOf(pb)'
  BY DEF Playback!Items, Playback!Used, ItemsOf, UsedOf, Gap
<1>2. Playback!Silence = Silence /\ Playback!Sample = Sample
  BY DEF Playback!Sample, Playback!Silence, Sample, Silence
<1>. QED BY <1>1, <1>2 DEF FifoMoves, Playback!Fifo!Next, Playback!Fifo!vars, Playback!Fifo!Put,
  Playback!Fifo!Get, Playback!Fifo!GetNothing, Playback!Fifo!Drop, Playback!Fifo!Consume

LEMMA MicrophoneMoves ==
  Microphone!QNext \/ UNCHANGED micvars => Moves(mic, micPut, micGet, mic', micPut', micGet')
<1>1. ASSUME NEW x \in Sample, Microphone!PutBegin(x)
      PROVE  PutMoves(x, mic, micPut, micGet, mic', micPut', micGet')
  BY <1>1 DEF Microphone!PutBegin, Microphone!Used, PutMoves, UsedOf, Gap
<1>2. Microphone!PutPublish => ShowMoves(mic, micPut, micGet, mic', micPut', micGet')
  BY DEF Microphone!PutPublish, ShowMoves
<1>3. Microphone!GetBegin => LookMoves(mic, micPut, micGet, mic', micPut', micGet')
  BY DEF Microphone!GetBegin, Microphone!Silence, LookMoves, Silence
<1>4. Microphone!DiscardBegin => SeeMoves(mic, micPut, micGet, mic', micPut', micGet')
  BY DEF Microphone!DiscardBegin, SeeMoves
<1>5. Microphone!GetUsed => UsedMoves(mic, micPut, micGet, mic', micPut', micGet')
  BY DEF Microphone!GetUsed, Microphone!Silence, UsedMoves, Silence
<1>6. Microphone!GetPublish => TakeMoves(mic, micPut, micGet, mic', micPut', micGet')
  BY DEF Microphone!GetPublish, Microphone!Silence, TakeMoves, Silence
<1>7. Microphone!DiscardStore => DropMoves(mic, micPut, micGet, mic', micPut', micGet')
  BY DEF Microphone!DiscardStore, DropMoves
<1>8. Microphone!Sample = Sample
  BY DEF Microphone!Sample, Microphone!Silence, Sample, Silence
<1>. QED BY <1>1, <1>2, <1>3, <1>4, <1>5, <1>6, <1>7, <1>8
     DEF Microphone!QNext, Microphone!GetStep, Moves, micvars

LEMMA MicrophoneFifoMoves ==
  ASSUME FifoMoves(ItemsOf(mic), micGet.x, ItemsOf(mic)', micGet.x')
  PROVE  [Microphone!Fifo!Next]_(Microphone!Fifo!vars)
<1>1. Microphone!Items = ItemsOf(mic) /\ Microphone!Items' = ItemsOf(mic)'
  BY DEF Microphone!Items, Microphone!Used, ItemsOf, UsedOf, Gap
<1>2. Microphone!Silence = Silence /\ Microphone!Sample = Sample
  BY DEF Microphone!Sample, Microphone!Silence, Sample, Silence
<1>. QED BY <1>1, <1>2 DEF FifoMoves, Microphone!Fifo!Next, Microphone!Fifo!vars, Microphone!Fifo!Put,
  Microphone!Fifo!Get, Microphone!Fifo!GetNothing, Microphone!Fifo!Drop, Microphone!Fifo!Consume

-----------------------------------------------------------------------------
(* What the threads keep to themselves.                                    *)

Capture == [a : Sample, b : Sample, phase : Nat, rate : Nat, primed : BOOLEAN]

GuestPc == {"idle", "bump", "active", "out", "in", "resample", "microphone", "first", "second",
            "next", "gotFirst", "gotSecond", "gotNext", "sound", "more"}
GuestState == [pc : GuestPc, rate : Nat, epoch : 0 .. MaxEpoch, output : Resampler,
               capture : Capture]

RenderState == [pc : {"idle", "active", "running", "quiet", "frame", "get", "got", "silent"},
                epoch : 0 .. MaxEpoch, started : BOOLEAN, wait : 0 .. VM_AUDIO_PREFILL,
                fade_out : 0 .. VM_AUDIO_FADE, last : Sample, tail : Sample]

TapState == [pc : {"idle", "active", "enabled", "resample"}, rate : Nat, epoch : 0 .. MaxEpoch,
             left : 0 .. TapFrames, input : Resampler]

MainState == [pc : {"idle", "mic", "bump", "stop", "start", "storeMic", "storeHost"},
              graph : BOOLEAN, tapped : BOOLEAN]

Shared ==
  /\ epoch \in 0 .. MaxEpoch /\ boundary \in 0 .. epoch /\ use \in Uses
  /\ active \in BOOLEAN /\ host_running \in BOOLEAN /\ microphone_enabled \in BOOLEAN

Typed ==
  /\ Shared /\ guest \in GuestState /\ render \in RenderState /\ tap \in TapState
  /\ main \in MainState
  /\ guest.epoch <= epoch /\ render.epoch <= epoch /\ tap.epoch <= epoch

Queues == QueueInv(pb, pbPut, pbGet) /\ QueueInv(mic, micPut, micGet)

(* Nothing of a frame is older than the last pause, resume or new board.   *)
FreshAt(x, b) == x = Silence \/ x >= b

Fresh(x) == FreshAt(x, boundary)

(* Every frame the consumer will get or keep is fresh.                     *)
WaitingIsFresh(q, g, b) ==
  \A i \in 1 .. UsedOf(q) : i > Doomed(q, g) => FreshAt(ItemsOf(q)[i], b)

(* The emulator's side: from the moment the boundary is drawn on, what it  *)
(* resamples, keeps and fills is fresh.                                    *)
GuestIsFresh ==
  /\ guest.pc \in {"out", "resample"} => guest.epoch >= boundary
  /\ guest.pc = "bump" => guest.output.previous = Silence
  /\ Fresh(guest.output.previous)
  /\ pbPut = "publish" => Fresh(Filling(pb))

(* The render callback's side: the frame it holds is one it asked for, and *)
(* once it has seen the new epoch what it will play is fresh, except the   *)
(* frames that the discard it has begun is about to drop.                  *)
RenderIsFresh ==
  /\ pbGet.pc = "publish" => render.pc = "got"
  /\ render.pc # "got" => pbGet.x = Silence
  /\ render.epoch >= boundary =>
       /\ Fresh(render.last) /\ Fresh(render.tail) /\ Fresh(pbGet.x)
       /\ WaitingIsFresh(pb, pbGet, boundary)

IInv == Queues /\ Typed /\ GuestIsFresh /\ RenderIsFresh

LEMMA Rate ==
  /\ Rates \subseteq Nat
  /\ VM_AUDIO_RATE \in Nat \ {0} /\ LowRate \in Nat \ {0} /\ HighRate \in Nat \ {0}
  /\ CaptureHigh \in Nat \ {0} /\ VM_AUDIO_PREFILL \in Nat \ {0} /\ VM_AUDIO_FADE \in Nat \ {0}
  /\ TapFrames \in Nat \ {0} /\ Uses \subseteq SUBSET {"out", "in"}
  /\ CaptureEpochs \in 0 .. MaxEpoch /\ MaxEpoch \in Nat
BY RateAssumption, EpochAssumption

LEMMA Cleared ==
  /\ NoResampler \in Resampler /\ NoResampler.previous = Silence /\ NoCapture \in Capture
  /\ Silence \in Sample
BY DEF NoResampler, NoCapture, Resampler, Capture, Sample

LEMMA EpochIsSample == ASSUME NEW e \in 0 .. MaxEpoch PROVE e \in Sample
BY DEF Sample

LEMMA GuestFields ==
  ASSUME guest \in GuestState
  PROVE  /\ guest.pc \in GuestPc /\ guest.rate \in Nat /\ guest.epoch \in 0 .. MaxEpoch
         /\ guest.output \in Resampler /\ guest.capture \in Capture
BY DEF GuestState

LEMMA ResamplerFields ==
  ASSUME NEW s \in Resampler
  PROVE  s.previous \in Sample /\ s.phase \in Nat /\ s.rate \in Nat /\ s.primed \in BOOLEAN
BY DEF Resampler

LEMMA CaptureFields ==
  ASSUME NEW c \in Capture
  PROVE  c.a \in Sample /\ c.b \in Sample /\ c.phase \in Nat /\ c.rate \in Nat /\ c.primed \in BOOLEAN
BY DEF Capture

(* A frame between two others is one of them.                              *)
LEMMA MixIsOne ==
  ASSUME NEW a \in Sample, NEW b \in Sample
  PROVE  Mix(a, b) \in {a, b}
BY DEF Mix

LEMMA ResamplerSteps ==
  ASSUME NEW s \in Resampler, NEW rate \in Nat, NEW x \in Sample
  PROVE  /\ Prime(rate, x) \in Resampler /\ Prime(rate, x).previous = x
         /\ Advance(s, rate) \in Resampler /\ Advance(s, rate).previous = s.previous
         /\ ~Due(s) => Finish(s, x) \in Resampler /\ Finish(s, x).previous = x
<1>1. Prime(rate, x) \in Resampler /\ Prime(rate, x).previous = x
  BY DEF Prime, Resampler
<1>2. Advance(s, rate) \in Resampler /\ Advance(s, rate).previous = s.previous
  <2>1. s.phase + rate \in Nat
    BY ResamplerFields
  <2>. QED BY <2>1 DEF Advance, Resampler
<1>3. ASSUME ~Due(s) PROVE Finish(s, x) \in Resampler /\ Finish(s, x).previous = x
  <2>1. s.phase - VM_AUDIO_RATE \in Nat
    BY <1>3, ResamplerFields, Rate DEF Due
  <2>. QED BY <2>1 DEF Finish, Resampler
<1>. QED BY <1>1, <1>2, <1>3

-----------------------------------------------------------------------------
(* The types: the emulator thread.                                         *)

LEMMA OnlyGuest ==
  ASSUME Typed, guest' \in GuestState, guest'.epoch <= epoch,
         UNCHANGED <<shared, render, tap, main, boundary, use>>
  PROVE  Typed'
BY DEF Typed, Shared, shared

LEMMA ReturnTyped ==
  ASSUME guest \in GuestState, NEW o \in Resampler, NEW c \in Capture
  PROVE  /\ Return(guest) \in GuestState /\ Return(guest).epoch = guest.epoch
         /\ Return(guest).output = guest.output /\ Return(guest).pc = "idle"
         /\ LET g == [Return(guest) EXCEPT !.output = o] IN
            g \in GuestState /\ g.epoch = guest.epoch /\ g.output = o /\ g.pc = "idle"
         /\ LET g == [Return(guest) EXCEPT !.capture = c] IN
            g \in GuestState /\ g.epoch = guest.epoch /\ g.output = guest.output /\ g.pc = "idle"
<1>1. "idle" \in GuestPc /\ 0 \in Nat
  BY DEF GuestPc
<1>. QED BY <1>1 DEF Return, GuestState

(* The frame put next: what the guest frame and the one before give.       *)
NextPut == IF Priming(guest.output, guest.rate) THEN guest.epoch
           ELSE Mix(guest.output.previous, guest.epoch)

LEMMA GuestPuts ==
  ASSUME guest \in GuestState, GuestPut
  PROVE  /\ Playback!PutBegin(NextPut) /\ NextPut \in {guest.epoch, guest.output.previous}
         /\ NextPut \in Sample /\ guest.pc = "resample" /\ pbPut = "idle"
         /\ guest' \in GuestState /\ guest'.epoch = guest.epoch /\ guest'.pc \in {"idle", "resample"}
         /\ guest'.output.previous \in {guest.epoch, guest.output.previous}
         /\ UNCHANGED <<micvars, shared, render, tap, main, boundary>>
<1>1. /\ guest.epoch \in 0 .. MaxEpoch /\ guest.rate \in Nat /\ guest.output \in Resampler
      /\ guest.epoch \in Sample /\ guest.output.previous \in Sample
  BY GuestFields, ResamplerFields, EpochIsSample
<1>2. NextPut \in {guest.epoch, guest.output.previous} /\ NextPut \in Sample
  BY <1>1, MixIsOne DEF NextPut
<1>3. guest.pc = "resample" /\ pbPut = "idle" /\ UNCHANGED <<micvars, shared, render, tap, main, boundary>>
  BY DEF GuestPut, GuestFree
<1>4. CASE Priming(guest.output, guest.rate)
  <2>. DEFINE o == Prime(guest.rate, guest.epoch)
  <2>1. /\ Playback!PutBegin(guest.epoch) /\ NextPut = guest.epoch
        /\ guest' = [Return(guest) EXCEPT !.output = o]
    BY <1>4 DEF GuestPut, NextPut
  <2>2. o \in Resampler /\ o.previous = guest.epoch
    BY <1>1, ResamplerSteps
  <2>. HIDE DEF o
  <2>3. guest' \in GuestState /\ guest'.epoch = guest.epoch /\ guest'.output = o /\ guest'.pc = "idle"
    BY <2>1, <2>2, ReturnTyped, Cleared
  <2>. QED BY <1>2, <1>3, <2>1, <2>2, <2>3
<1>5. CASE ~Priming(guest.output, guest.rate)
  <2>. DEFINE o == Advance(guest.output, guest.rate)
  <2>1. /\ Playback!PutBegin(NextPut) /\ guest' = [guest EXCEPT !.output = o]
    BY <1>5 DEF GuestPut, NextPut
  <2>2. o \in Resampler /\ o.previous = guest.output.previous
    BY <1>1, ResamplerSteps
  <2>. HIDE DEF o
  <2>3. guest' \in GuestState /\ guest'.epoch = guest.epoch /\ guest'.output = o /\ guest'.pc = guest.pc
    BY <2>1, <2>2 DEF GuestState
  <2>. QED BY <1>2, <1>3, <2>1, <2>2, <2>3
<1>. QED BY <1>4, <1>5

(* A step of the emulator keeps the types, and moves each queue as one of  *)
(* its two threads may.                                                    *)
LEMMA GuestSteps ==
  ASSUME Typed, Queues, Guest, UNCHANGED use
  PROVE  /\ Typed'
         /\ Playback!QNext \/ UNCHANGED pbvars
         /\ Microphone!QNext \/ UNCHANGED micvars
<1>1. /\ guest \in GuestState /\ guest.pc \in GuestPc /\ guest.rate \in Nat /\ guest.epoch \in Nat
      /\ guest.output \in Resampler /\ guest.capture \in Capture /\ guest.epoch <= epoch
      /\ epoch \in 0 .. MaxEpoch /\ boundary \in 0 .. epoch /\ use \in Uses
      /\ active \in BOOLEAN /\ micGet.x \in Sample /\ MaxEpoch \in Nat /\ epoch \in Nat
      /\ guest.epoch \in 0 .. MaxEpoch
  BY GuestFields, ConsumerFields, Rate DEF Typed, Shared, Queues, QueueInv
<1>2. /\ Microphone!DiscardBegin => Microphone!QNext
      /\ Microphone!GetBegin => Microphone!QNext
      /\ Microphone!GetUsed => Microphone!QNext
      /\ Microphone!GetStep => Microphone!QNext
      /\ Playback!PutPublish => Playback!QNext
  BY DEF Microphone!QNext, Playback!QNext
<1>3. CASE ActiveCall
  <2>1. guest' = [guest EXCEPT !.pc = "bump", !.output = NoResampler, !.capture = NoCapture]
    BY <1>3 DEF ActiveCall
  <2>2. guest' \in GuestState /\ guest'.epoch = guest.epoch
    BY <1>1, <2>1, Cleared DEF GuestState, GuestPc
  <2>3. Typed'
    BY <1>1, <1>3, <2>2, OnlyGuest DEF ActiveCall
  <2>. QED BY <1>2, <1>3, <2>3 DEF ActiveCall
<1>4. CASE ActiveBump
  <2>1. /\ epoch' = epoch + 1 /\ boundary' = epoch + 1 /\ guest' = [guest EXCEPT !.pc = "active"]
        /\ UNCHANGED <<pbvars, micvars, active, host_running, microphone_enabled, render, tap, main>>
    BY <1>4 DEF ActiveBump
  <2>2. guest' \in GuestState /\ guest'.epoch = guest.epoch
    BY <1>1, <2>1 DEF GuestState, GuestPc
  <2>3. epoch + 1 \in 0 .. MaxEpoch /\ epoch + 1 \in 0 .. epoch + 1
    BY <1>1, <1>4, Rate DEF ActiveBump, EpochLeft
  <2>4. guest.epoch <= epoch + 1 /\ render.epoch <= epoch + 1 /\ tap.epoch <= epoch + 1
    BY <1>1 DEF Typed, RenderState, TapState
  <2>5. Typed'
    BY <1>1, <2>1, <2>2, <2>3, <2>4 DEF Typed, Shared
  <2>. QED BY <2>1, <2>5
<1>5. CASE ActiveStore
  <2>1. active' = ~active /\ guest' = [guest EXCEPT !.pc = "idle"]
        /\ UNCHANGED <<pbvars, micvars, epoch, host_running, microphone_enabled, render, tap, main, boundary>>
    BY <1>5 DEF ActiveStore
  <2>2. guest' \in GuestState /\ guest'.epoch = guest.epoch
    BY <1>1, <2>1 DEF GuestState, GuestPc
  <2>3. Typed'
    BY <1>1, <2>1, <2>2 DEF Typed, Shared
  <2>. QED BY <2>1, <2>3
<1>6. ASSUME NEW direction \in use, NEW rate \in Rates, GuestFrame(direction, rate)
      PROVE  /\ Typed' /\ (Playback!QNext \/ UNCHANGED pbvars)
             /\ (Microphone!QNext \/ UNCHANGED micvars)
  <2>1. direction \in GuestPc /\ rate \in Nat
    BY <1>1, Rate DEF GuestPc
  <2>2. CASE epoch # guest.epoch
    <3>1. /\ guest' = [pc |-> direction, rate |-> rate, epoch |-> epoch,
                       output |-> NoResampler, capture |-> NoCapture]
          /\ Microphone!DiscardBegin /\ UNCHANGED <<pbvars, shared, render, tap, main, boundary>>
      BY <1>6, <2>2 DEF GuestFrame
    <3>2. guest' \in GuestState /\ guest'.epoch <= epoch
      BY <1>1, <2>1, <3>1, Cleared DEF GuestState
    <3>. QED BY <1>2, <3>1, <3>2, OnlyGuest
  <2>3. CASE epoch = guest.epoch
    <3>1. /\ guest' = [guest EXCEPT !.pc = direction, !.rate = rate]
          /\ UNCHANGED <<pbvars, micvars, shared, render, tap, main, boundary>>
      BY <1>6, <2>3 DEF GuestFrame
    <3>2. guest' \in GuestState /\ guest'.epoch <= epoch
      BY <1>1, <2>1, <3>1 DEF GuestState
    <3>. QED BY <3>1, <3>2, OnlyGuest
  <2>. QED BY <2>2, <2>3
<1>7. CASE GuestChecks
  <2>1. /\ guest' \in GuestState /\ guest'.epoch = guest.epoch
    BY <1>1, <1>7, ReturnTyped, Cleared DEF GuestChecks, GuestState, GuestPc
  <2>2. UNCHANGED <<pbvars, micvars, shared, render, tap, main, boundary>>
    BY <1>7 DEF GuestChecks
  <2>. QED BY <1>1, <2>1, <2>2, OnlyGuest
<1>8. CASE GuestPut
  <2>1. /\ Playback!PutBegin(NextPut) /\ NextPut \in Sample /\ guest' \in GuestState
        /\ guest'.epoch = guest.epoch /\ UNCHANGED <<micvars, shared, render, tap, main, boundary>>
    BY <1>1, <1>8, GuestPuts
  <2>2. Playback!QNext
    BY <2>1 DEF Playback!QNext, Playback!Sample, Playback!Silence, Sample, Silence
  <2>3. Typed'
    BY <1>1, <2>1, OnlyGuest
  <2>. QED BY <2>1, <2>2, <2>3
<1>9. CASE GuestPutDone
  <2>1. UNCHANGED <<pbvars, micvars, shared, render, tap, main, boundary>>
    BY <1>9 DEF GuestPutDone
  <2>2. CASE guest' = Return(guest)
    BY <1>1, <2>1, <2>2, ReturnTyped, OnlyGuest, Cleared
  <2>3. CASE guest' # Return(guest)
    <3>. DEFINE o == Finish(guest.output, guest.epoch)
    <3>1. guest' = [Return(guest) EXCEPT !.output = o] /\ ~Due(guest.output)
      BY <1>1, <1>9, <2>3 DEF GuestPutDone, Return, GuestState
    <3>2. o \in Resampler
      BY <1>1, <3>1, EpochIsSample, ResamplerSteps
    <3>. HIDE DEF o
    <3>3. guest' \in GuestState /\ guest'.epoch = guest.epoch
      BY <1>1, <3>1, <3>2, ReturnTyped, Cleared
    <3>. QED BY <1>1, <2>1, <3>3, OnlyGuest
  <2>. QED BY <2>2, <2>3
<1>10. CASE CaptureOff
  <2>1. guest' = [Return(guest) EXCEPT !.capture = NoCapture]
    BY <1>10 DEF CaptureOff
  <2>2. guest' \in GuestState /\ guest'.epoch = guest.epoch
    BY <1>1, <2>1, ReturnTyped, Cleared
  <2>3. Microphone!DiscardBegin /\ UNCHANGED <<pbvars, shared, render, tap, main, boundary>>
    BY <1>10 DEF CaptureOff
  <2>. QED BY <1>1, <1>2, <2>2, <2>3, OnlyGuest
<1>11. CASE CaptureOn
  <2>1. UNCHANGED <<pbvars, micvars, shared, render, tap, main, boundary>>
    BY <1>11 DEF CaptureOn
  <2>2. PICK pc \in {"sound", "first"}, c \in {guest.capture, [NoCapture EXCEPT !.rate = guest.rate]} :
          guest' = [guest EXCEPT !.pc = pc, !.capture = c]
    BY <1>11 DEF CaptureOn
  <2>3. [NoCapture EXCEPT !.rate = guest.rate] \in Capture
    BY <1>1, Cleared DEF Capture
  <2>4. c \in Capture /\ pc \in GuestPc
    BY <1>1, <2>3 DEF GuestPc
  <2>5. guest' \in GuestState /\ guest'.epoch = guest.epoch
    BY <1>1, <2>2, <2>4 DEF GuestState
  <2>. QED BY <1>1, <2>1, <2>5, OnlyGuest
<1>12. CASE CaptureGet
  <2>1. Microphone!GetBegin /\ UNCHANGED <<pbvars, shared, render, tap, main, boundary>>
    BY <1>12 DEF CaptureGet
  <2>2. PICK pc \in {"gotFirst", "gotSecond", "gotNext"} : guest' = [guest EXCEPT !.pc = pc]
    BY <1>12 DEF CaptureGet
  <2>3. guest' \in GuestState /\ guest'.epoch = guest.epoch
    BY <1>1, <2>2 DEF GuestState, GuestPc
  <2>. QED BY <1>1, <1>2, <2>1, <2>3, OnlyGuest
<1>13. CASE CaptureGot
  <2>. DEFINE x == micGet.x
              c == guest.capture
  <2>1. Microphone!GetUsed /\ UNCHANGED <<pbvars, shared, render, tap, main, boundary>>
    BY <1>13 DEF CaptureGot
  <2>2. /\ c.a \in Sample /\ c.b \in Sample /\ c.phase \in Nat /\ c.rate \in Nat /\ c.primed \in BOOLEAN
        /\ c \in Capture /\ x \in Sample
    BY <1>1, CaptureFields
  <2>3. CASE guest.pc = "gotFirst"
    <3>1. guest' = [guest EXCEPT !.pc = "second", !.capture = [c EXCEPT !.a = x]]
      BY <1>13, <2>3 DEF CaptureGot
    <3>2. [c EXCEPT !.a = x] \in Capture
      BY <2>2 DEF Capture
    <3>3. guest' \in GuestState /\ guest'.epoch = guest.epoch
      BY <1>1, <3>1, <3>2 DEF GuestState, GuestPc
    <3>. QED BY <1>1, <1>2, <2>1, <3>3, OnlyGuest
  <2>4. CASE guest.pc = "gotSecond"
    <3>. DEFINE d == [c EXCEPT !.b = x, !.primed = TRUE]
    <3>1. \/ guest' = [guest EXCEPT !.pc = "sound", !.capture = d]
          \/ guest' = [Return(guest) EXCEPT !.capture = NoCapture]
      BY <1>13, <2>4 DEF CaptureGot
    <3>2. d \in Capture
      BY <2>2 DEF Capture
    <3>. HIDE DEF d
    <3>3. CASE guest' = [guest EXCEPT !.pc = "sound", !.capture = d]
      <4>1. guest' \in GuestState /\ guest'.epoch = guest.epoch
        BY <1>1, <3>2, <3>3 DEF GuestState, GuestPc
      <4>. QED BY <1>1, <1>2, <2>1, <4>1, OnlyGuest
    <3>4. CASE guest' = [Return(guest) EXCEPT !.capture = NoCapture]
      <4>1. guest' \in GuestState /\ guest'.epoch = guest.epoch
        BY <1>1, <3>4, ReturnTyped, Cleared
      <4>. QED BY <1>1, <1>2, <2>1, <4>1, OnlyGuest
    <3>. QED BY <3>1, <3>3, <3>4
  <2>5. CASE guest.pc = "gotNext"
    <3>. DEFINE more == c.primed /\ x # Silence
                d == [c EXCEPT !.b = x, !.primed = more]
    <3>1. guest' = [guest EXCEPT !.pc = "more", !.capture = d]
      BY <1>13, <2>5 DEF CaptureGot
    <3>2. more \in BOOLEAN
      OBVIOUS
    <3>. HIDE DEF more
    <3>3. d \in Capture
      BY <2>2, <3>2 DEF Capture
    <3>. HIDE DEF d
    <3>4. guest' \in GuestState /\ guest'.epoch = guest.epoch
      BY <1>1, <3>1, <3>3 DEF GuestState, GuestPc
    <3>. QED BY <1>1, <1>2, <2>1, <3>4, OnlyGuest
  <2>. QED BY <1>13, <2>3, <2>4, <2>5 DEF CaptureGot
<1>14. CASE CaptureSound
  <2>. DEFINE c == [guest.capture EXCEPT !.phase = @ + VM_AUDIO_RATE]
  <2>1. /\ guest' = [guest EXCEPT !.pc = "more", !.capture = c]
        /\ UNCHANGED <<pbvars, micvars, shared, render, tap, main, boundary>>
    BY <1>1, <1>14 DEF CaptureSound, GuestState
  <2>2. guest.capture.phase + VM_AUDIO_RATE \in Nat
    BY <1>1, CaptureFields, Rate
  <2>3. c \in Capture
    BY <1>1, <2>2 DEF Capture
  <2>. HIDE DEF c
  <2>4. guest' \in GuestState /\ guest'.epoch = guest.epoch
    BY <1>1, <2>1, <2>3 DEF GuestState, GuestPc
  <2>. QED BY <1>1, <2>1, <2>4, OnlyGuest
<1>15. CASE CaptureMore
  <2>1. UNCHANGED <<pbvars, micvars, shared, render, tap, main, boundary>>
    BY <1>15 DEF CaptureMore
  <2>2. CASE guest.capture.phase >= guest.rate
    <3>. DEFINE c == [guest.capture EXCEPT !.phase = @ - guest.rate, !.a = guest.capture.b]
    <3>1. guest' = [guest EXCEPT !.pc = "next", !.capture = c]
      BY <1>1, <1>15, <2>2 DEF CaptureMore, GuestState
    <3>2. guest.capture.phase - guest.rate \in Nat /\ guest.capture.b \in Sample
      BY <1>1, <2>2, CaptureFields
    <3>3. c \in Capture
      BY <1>1, <3>2 DEF Capture
    <3>. HIDE DEF c
    <3>4. guest' \in GuestState /\ guest'.epoch = guest.epoch
      BY <1>1, <3>1, <3>3 DEF GuestState, GuestPc
    <3>. QED BY <1>1, <2>1, <3>4, OnlyGuest
  <2>3. CASE ~(guest.capture.phase >= guest.rate)
    <3>. DEFINE c == IF guest.capture.primed THEN guest.capture ELSE NoCapture
    <3>1. guest' = [Return(guest) EXCEPT !.capture = c]
      BY <1>1, <1>15, <2>3 DEF CaptureMore, Return, GuestState
    <3>2. c \in Capture
      BY <1>1, Cleared
    <3>. HIDE DEF c
    <3>3. guest' \in GuestState /\ guest'.epoch = guest.epoch
      BY <1>1, <3>1, <3>2, ReturnTyped, Cleared
    <3>. QED BY <1>1, <2>1, <3>3, OnlyGuest
  <2>. QED BY <2>2, <2>3
<1>16. CASE Playback!PutPublish /\ UNCHANGED <<micvars, shared, guest, render, tap, main, boundary>>
  BY <1>1, <1>2, <1>16, OnlyGuest
<1>17. CASE Microphone!GetStep /\ UNCHANGED <<pbvars, shared, guest, render, tap, main, boundary>>
  BY <1>1, <1>2, <1>17, OnlyGuest
<1>. QED BY <1>3, <1>4, <1>5, <1>6, <1>7, <1>8, <1>9, <1>10, <1>11, <1>12, <1>13, <1>14, <1>15,
            <1>16, <1>17 DEF Guest

-----------------------------------------------------------------------------
(* The types: the render callback, the tap and the main thread.            *)

LEMMA OnlyRender ==
  ASSUME Typed, render' \in RenderState, render'.epoch <= epoch,
         UNCHANGED <<shared, guest, tap, main, boundary, use>>
  PROVE  Typed'
BY DEF Typed, Shared, shared

LEMMA RenderFields ==
  ASSUME NEW r \in RenderState
  PROVE  /\ r.epoch \in 0 .. MaxEpoch /\ r.epoch \in Nat /\ r.started \in BOOLEAN
         /\ r.wait \in 0 .. VM_AUDIO_PREFILL /\ r.fade_out \in 0 .. VM_AUDIO_FADE
         /\ r.last \in Sample /\ r.tail \in Sample
         /\ r.pc \in {"idle", "active", "running", "quiet", "frame", "get", "got", "silent"}
BY Rate DEF RenderState

LEMMA ResetTyped ==
  ASSUME render \in RenderState, NEW e \in 0 .. MaxEpoch
  PROVE  /\ LET r == [ResetRender(render) EXCEPT !.pc = "active", !.epoch = e] IN
            /\ r \in RenderState /\ r.epoch = e /\ r.pc = "active"
            /\ r.last = Silence /\ r.tail = Silence
         /\ LET r == [ResetRender(render) EXCEPT !.pc = "idle"] IN
            /\ r \in RenderState /\ r.epoch = render.epoch /\ r.pc = "idle"
            /\ r.last = Silence /\ r.tail = Silence
<1>1. 0 \in 0 .. VM_AUDIO_PREFILL /\ 0 \in 0 .. VM_AUDIO_FADE
  BY Rate
<1>. QED BY <1>1, Cleared DEF ResetRender, RenderState

(* What the speaker gets is silence, the frame or the tail, and a tail is  *)
(* not made of anything else.                                              *)
LEMMA OutputFacts ==
  ASSUME NEW r \in RenderState, NEW x \in Sample
  PROVE  /\ Output(r, x) \in RenderState /\ Output(r, x).epoch = r.epoch
         /\ Output(r, x).last \in {x, r.tail, Silence} /\ Output(r, x).tail \in {r.tail, Silence}
<1>. DEFINE f == r.fade_out
            fade == f - 1
            y == IF f = 0 THEN x ELSE IF fade = 0 THEN Silence ELSE r.tail
            n == IF f = 0 THEN 0 ELSE fade
            z == IF fade > 0 THEN r.tail ELSE Silence
<1>1. n \in 0 .. VM_AUDIO_FADE
  BY RenderFields, Rate
<1>2. y \in Sample /\ z \in Sample /\ y \in {x, r.tail, Silence} /\ z \in {r.tail, Silence}
  BY RenderFields, Cleared
<1>3. Output(r, x) = [r EXCEPT !.last = y, !.fade_out = n, !.tail = z]
  BY DEF Output
<1>. HIDE DEF y, n, z
<1>. QED BY <1>1, <1>2, <1>3 DEF RenderState

LEMMA RenderSteps ==
  ASSUME Typed, Queues, Render, UNCHANGED use
  PROVE  /\ Typed' /\ UNCHANGED <<micvars, guest, boundary>>
         /\ Playback!QNext \/ UNCHANGED pbvars
<1>1. /\ render \in RenderState /\ render.epoch <= epoch /\ render.epoch \in 0 .. MaxEpoch
      /\ epoch \in 0 .. MaxEpoch /\ pbGet.x \in Sample /\ epoch \in Nat
      /\ render.wait \in 0 .. VM_AUDIO_PREFILL /\ render.last \in Sample /\ Silence \in Sample
      /\ UNCHANGED use
  BY RenderFields, ConsumerFields, Rate, Cleared DEF Typed, Shared, Queues, QueueInv
<1>2. /\ Playback!DiscardBegin => Playback!QNext
      /\ Playback!GetBegin => Playback!QNext
      /\ Playback!GetUsed => Playback!QNext
      /\ Playback!GetStep => Playback!QNext
  BY DEF Playback!QNext
<1>3. CASE RenderCall
  <2>1. UNCHANGED <<micvars, shared, guest, tap, main, boundary>>
    BY <1>3 DEF RenderCall
  <2>2. CASE epoch # render.epoch
    <3>1. /\ render' = [ResetRender(render) EXCEPT !.pc = "active", !.epoch = epoch]
          /\ Playback!DiscardBegin
      BY <1>3, <2>2 DEF RenderCall
    <3>2. render' \in RenderState /\ render'.epoch = epoch
      <4>. DEFINE r == [ResetRender(render) EXCEPT !.pc = "active", !.epoch = epoch]
      <4>1. r \in RenderState /\ r.epoch = epoch
        BY <1>1, ResetTyped
      <4>. QED BY <3>1, <4>1
    <3>. QED BY <1>1, <1>2, <2>1, <3>1, <3>2, OnlyRender
  <2>3. CASE epoch = render.epoch
    <3>1. render' = [render EXCEPT !.pc = "active"] /\ UNCHANGED pbvars
      BY <1>3, <2>3 DEF RenderCall
    <3>2. render' \in RenderState /\ render'.epoch <= epoch
      BY <1>1, <3>1 DEF RenderState
    <3>. QED BY <1>1, <2>1, <3>1, <3>2, OnlyRender
  <2>. QED BY <2>2, <2>3
<1>4. CASE RenderActive \/ RenderRunning
  <2>1. UNCHANGED <<pbvars, micvars, shared, guest, tap, main, boundary>>
    BY <1>4 DEF RenderActive, RenderRunning
  <2>2. PICK pc \in {"running", "quiet", "frame"} : render' = [render EXCEPT !.pc = pc]
    BY <1>4 DEF RenderActive, RenderRunning
  <2>3. render' \in RenderState /\ render'.epoch <= epoch
    BY <1>1, <2>2 DEF RenderState
  <2>. QED BY <1>1, <2>1, <2>3, OnlyRender
<1>5. CASE RenderQuiet
  <2>1. /\ Playback!DiscardBegin /\ UNCHANGED <<micvars, shared, guest, tap, main, boundary>>
        /\ render' = [ResetRender(render) EXCEPT !.pc = "idle"]
    BY <1>5 DEF RenderQuiet
  <2>2. render' \in RenderState /\ render'.epoch <= epoch
    BY <1>1, <2>1, ResetTyped
  <2>. QED BY <1>1, <1>2, <2>1, <2>2, OnlyRender
<1>6. CASE RenderGate
  <2>. DEFINE available == Playback!Used
              wait == IF available > 0 /\ render.wait < VM_AUDIO_PREFILL
                      THEN render.wait + 1 ELSE render.wait
  <2>1. UNCHANGED <<pbvars, micvars, shared, guest, tap, main, boundary>>
    BY <1>6 DEF RenderGate
  <2>2. \/ render' = [render EXCEPT !.pc = "get"]
        \/ render' = [render EXCEPT !.pc = "get", !.started = TRUE, !.wait = 0]
        \/ render' = [render EXCEPT !.pc = "silent", !.wait = wait]
    BY <1>6 DEF RenderGate
  <2>3. wait \in 0 .. VM_AUDIO_PREFILL /\ 0 \in 0 .. VM_AUDIO_PREFILL
    <3>. HIDE DEF available
    <3>. QED BY <1>1, Rate
  <2>. HIDE DEF wait
  <2>4. render' \in RenderState /\ render'.epoch <= epoch
    BY <1>1, <2>2, <2>3 DEF RenderState
  <2>. QED BY <1>1, <2>1, <2>4, OnlyRender
<1>7. CASE RenderGet
  <2>1. /\ Playback!GetBegin /\ render' = [render EXCEPT !.pc = "got"]
        /\ UNCHANGED <<micvars, shared, guest, tap, main, boundary>>
    BY <1>7 DEF RenderGet
  <2>2. render' \in RenderState /\ render'.epoch <= epoch
    BY <1>1, <2>1 DEF RenderState
  <2>. QED BY <1>1, <1>2, <2>1, <2>2, OnlyRender
<1>8. CASE RenderOut
  <2>. DEFINE dry == [render EXCEPT !.started = FALSE, !.fade_out = VM_AUDIO_FADE,
                                    !.tail = render.last]
  <2>1. Playback!GetUsed /\ UNCHANGED <<micvars, shared, guest, tap, main, boundary>>
    BY <1>8 DEF RenderOut
  <2>2. dry \in RenderState /\ dry.epoch = render.epoch
    <3>1. VM_AUDIO_FADE \in 0 .. VM_AUDIO_FADE
      BY Rate
    <3>. QED BY <1>1, <3>1 DEF RenderState
  <2>3. PICK pc \in {"frame", "idle"}, r \in {render, dry}, x \in {Silence, pbGet.x} :
          render' = [Output(r, x) EXCEPT !.pc = pc]
    BY <1>8 DEF RenderOut
  <2>. HIDE DEF dry
  <2>4. Output(r, x) \in RenderState /\ Output(r, x).epoch = render.epoch
    BY <1>1, <2>2, OutputFacts
  <2>5. render' \in RenderState /\ render'.epoch <= epoch
    BY <1>1, <2>3, <2>4 DEF RenderState
  <2>. QED BY <1>1, <1>2, <2>1, <2>5, OnlyRender
<1>9. CASE PlaybackGet
  <2>1. Playback!GetStep /\ UNCHANGED <<micvars, shared, guest, render, tap, main, boundary>>
    BY <1>9 DEF PlaybackGet
  <2>. QED BY <1>1, <1>2, <2>1, OnlyRender
<1>. QED BY <1>3, <1>4, <1>5, <1>6, <1>7, <1>8, <1>9 DEF Render

LEMMA OnlyTap ==
  ASSUME Typed, tap' \in TapState, tap'.epoch <= epoch,
         UNCHANGED <<shared, guest, render, main, boundary, use>>
  PROVE  Typed'
BY DEF Typed, Shared, shared

LEMMA TapFields ==
  ASSUME NEW s \in TapState
  PROVE  /\ s.rate \in Nat /\ s.epoch \in 0 .. MaxEpoch /\ s.left \in 0 .. TapFrames
         /\ s.input \in Resampler /\ s.pc \in {"idle", "active", "enabled", "resample"}
BY DEF TapState

LEMMA TapReturns ==
  ASSUME tap \in TapState
  PROVE  /\ Return(tap) \in TapState /\ Return(tap).epoch = tap.epoch
         /\ LET s == [Return(tap) EXCEPT !.left = 0] IN s \in TapState /\ s.epoch = tap.epoch
<1>1. 0 \in 0 .. TapFrames /\ 0 \in Nat
  BY Rate
<1>2. Return(tap) \in TapState /\ Return(tap).epoch = tap.epoch
  BY <1>1 DEF Return, TapState
<1>3. [Return(tap) EXCEPT !.left = 0] \in TapState
      /\ [Return(tap) EXCEPT !.left = 0].epoch = Return(tap).epoch
  <2>. DEFINE s == Return(tap)
  <2>. HIDE DEF s
  <2>. QED BY <1>1, <1>2 DEF TapState, s
<1>. QED BY <1>2, <1>3

LEMMA TapSteps ==
  ASSUME Typed, Queues, Tap, UNCHANGED use
  PROVE  /\ Typed' /\ UNCHANGED <<pbvars, guest, render, boundary>>
         /\ Microphone!QNext \/ UNCHANGED micvars
<1>1. /\ tap \in TapState /\ tap.epoch <= epoch /\ tap.epoch \in 0 .. MaxEpoch /\ tap.rate \in Nat
      /\ tap.left \in 0 .. TapFrames /\ tap.input \in Resampler /\ tap.epoch \in Sample
      /\ epoch \in 0 .. MaxEpoch /\ epoch \in Nat /\ tap.input.previous \in Sample /\ UNCHANGED use
      /\ TapFrames \in Nat
  BY TapFields, EpochIsSample, Rate, ResamplerFields DEF Typed, Shared
<1>2. \A x \in Sample : Microphone!PutBegin(x) => Microphone!QNext
  BY DEF Microphone!QNext, Microphone!Sample, Microphone!Silence, Sample, Silence
<1>3. ASSUME NEW n \in 1 .. TapFrames, NEW rate \in Rates, TapCall(n, rate)
      PROVE  /\ Typed' /\ UNCHANGED <<pbvars, guest, render, boundary>>
             /\ Microphone!QNext \/ UNCHANGED micvars
  <2>. DEFINE o == IF epoch # tap.epoch THEN NoResampler ELSE tap.input
  <2>1. /\ tap' = [tap EXCEPT !.pc = "active", !.rate = rate, !.left = n, !.input = o, !.epoch = epoch]
        /\ UNCHANGED <<pbvars, micvars, shared, guest, render, main, boundary>>
    BY <1>3 DEF TapCall
  <2>2. o \in Resampler /\ n \in 0 .. TapFrames /\ rate \in Nat
    BY <1>1, Rate, Cleared
  <2>. HIDE DEF o
  <2>3. tap' = [pc |-> "active", rate |-> rate, epoch |-> epoch, left |-> n, input |-> o]
    BY <1>1, <2>1 DEF TapState
  <2>4. tap' \in TapState /\ tap'.epoch <= epoch
    BY <1>1, <2>2, <2>3 DEF TapState
  <2>. QED BY <1>1, <2>1, <2>4, OnlyTap
<1>4. CASE TapActive \/ TapEnabled
  <2>1. UNCHANGED <<pbvars, micvars, shared, guest, render, main, boundary>>
    BY <1>4 DEF TapActive, TapEnabled
  <2>2. \/ \E pc \in {"enabled", "resample"} : tap' = [tap EXCEPT !.pc = pc]
        \/ tap' = [Return(tap) EXCEPT !.left = 0]
    BY <1>4 DEF TapActive, TapEnabled
  <2>3. tap' \in TapState /\ tap'.epoch <= epoch
    <3>1. CASE tap' = [Return(tap) EXCEPT !.left = 0]
      BY <1>1, <3>1, TapReturns
    <3>2. CASE \E pc \in {"enabled", "resample"} : tap' = [tap EXCEPT !.pc = pc]
      BY <1>1, <3>2 DEF TapState
    <3>. QED BY <2>2, <3>1, <3>2
  <2>. QED BY <1>1, <2>1, <2>3, OnlyTap
<1>5. CASE TapPut
  <2>1. UNCHANGED <<pbvars, shared, guest, render, main, boundary>> /\ tap.left > 0
    BY <1>5 DEF TapPut
  <2>2. CASE Priming(tap.input, tap.rate)
    <3>. DEFINE o == Prime(tap.rate, tap.epoch)
    <3>1. /\ Microphone!PutBegin(tap.epoch)
          /\ tap' = [tap EXCEPT !.left = @ - 1, !.input = o]
      BY <1>5, <2>2 DEF TapPut
    <3>2. o \in Resampler /\ tap.left - 1 \in 0 .. TapFrames
      BY <1>1, <2>1, ResamplerSteps
    <3>. HIDE DEF o
    <3>3. tap' \in TapState /\ tap'.epoch <= epoch
      BY <1>1, <3>1, <3>2 DEF TapState
    <3>. QED BY <1>1, <1>2, <2>1, <3>1, <3>3, OnlyTap
  <2>3. CASE ~Priming(tap.input, tap.rate)
    <3>. DEFINE o == Advance(tap.input, tap.rate)
    <3>1. /\ Microphone!PutBegin(Mix(tap.input.previous, tap.epoch))
          /\ tap' = [tap EXCEPT !.input = o]
      BY <1>5, <2>3 DEF TapPut
    <3>2. o \in Resampler
      BY <1>1, ResamplerSteps
    <3>3. Mix(tap.input.previous, tap.epoch) \in Sample
      BY <1>1, MixIsOne
    <3>. HIDE DEF o
    <3>4. tap' \in TapState /\ tap'.epoch <= epoch
      BY <1>1, <3>1, <3>2 DEF TapState
    <3>. QED BY <1>1, <1>2, <2>1, <3>1, <3>3, <3>4, OnlyTap
  <2>. QED BY <2>2, <2>3
<1>6. CASE TapFrameDone
  <2>. DEFINE o == Finish(tap.input, tap.epoch)
  <2>1. UNCHANGED <<pbvars, micvars, shared, guest, render, main, boundary>>
    BY <1>6 DEF TapFrameDone
  <2>2. \/ tap' = Return(tap)
        \/ tap.left > 0 /\ tap' = [tap EXCEPT !.left = @ - 1]
        \/ tap.left > 0 /\ ~Due(tap.input) /\ tap' = [tap EXCEPT !.left = @ - 1, !.input = o]
    BY <1>6 DEF TapFrameDone
  <2>3. tap.left > 0 => tap.left - 1 \in 0 .. TapFrames
    BY <1>1
  <2>4. ~Due(tap.input) => o \in Resampler
    BY <1>1, ResamplerSteps
  <2>. HIDE DEF o
  <2>5. tap' \in TapState /\ tap'.epoch <= epoch
    <3>1. CASE tap' = Return(tap)
      BY <1>1, <3>1, TapReturns
    <3>2. CASE tap.left > 0 /\ tap' = [tap EXCEPT !.left = @ - 1]
      BY <1>1, <2>3, <3>2 DEF TapState
    <3>3. CASE tap.left > 0 /\ ~Due(tap.input) /\ tap' = [tap EXCEPT !.left = @ - 1, !.input = o]
      BY <1>1, <2>3, <2>4, <3>3 DEF TapState
    <3>. QED BY <2>2, <3>1, <3>2, <3>3
  <2>. QED BY <1>1, <2>1, <2>5, OnlyTap
<1>7. CASE Microphone!PutPublish /\ UNCHANGED <<pbvars, shared, guest, render, tap, main, boundary>>
  BY <1>1, <1>7, OnlyTap DEF Microphone!QNext
<1>. QED BY <1>3, <1>4, <1>5, <1>6, <1>7 DEF Tap

LEMMA MainRecords ==
  ASSUME NEW b \in BOOLEAN
  PROVE  /\ [pc |-> "storeMic", graph |-> TRUE, tapped |-> b] \in MainState
         /\ [pc |-> "mic", graph |-> FALSE, tapped |-> b] \in MainState
BY DEF MainState

LEMMA MainSteps ==
  ASSUME Typed, Main, UNCHANGED use
  PROVE  /\ Typed' /\ UNCHANGED <<pbvars, micvars, guest, render, boundary>>
         /\ epoch' >= epoch
<1>1. main \in MainState /\ main.tapped \in BOOLEAN /\ use \in Uses /\ epoch \in Nat /\ MaxEpoch \in Nat
      /\ boundary \in 0 .. epoch /\ epoch \in 0 .. MaxEpoch /\ UNCHANGED use
      /\ guest.epoch <= epoch /\ render.epoch <= epoch /\ tap.epoch <= epoch
      /\ guest.epoch \in Nat /\ render.epoch \in Nat /\ tap.epoch \in Nat
  BY GuestFields, RenderFields, TapFields, Rate DEF Typed, Shared, MainState
<1>2. CASE StopBump
  <2>1. /\ epoch' = epoch + 1 /\ main' = [main EXCEPT !.pc = "stop"]
        /\ UNCHANGED <<pbvars, micvars, active, host_running, microphone_enabled, guest, render, tap, boundary>>
    BY <1>2 DEF StopBump
  <2>2. main' \in MainState
    BY <1>1, <2>1 DEF MainState
  <2>3. epoch + 1 \in 0 .. MaxEpoch /\ boundary \in 0 .. epoch + 1
    BY <1>1, <1>2, Rate DEF StopBump, EpochLeft
  <2>4. guest.epoch <= epoch + 1 /\ render.epoch <= epoch + 1 /\ tap.epoch <= epoch + 1
        /\ epoch + 1 >= epoch
    BY <1>1
  <2>5. Typed'
    BY <1>1, <2>1, <2>2, <2>3, <2>4 DEF Typed, Shared
  <2>. QED BY <2>1, <2>4, <2>5
<1>3. CASE StopHost \/ StopMicrophone \/ StopEngine \/ StoreMicrophone \/ StoreHost
  <2>1. UNCHANGED <<pbvars, micvars, epoch, active, guest, render, tap, boundary>>
    BY <1>3 DEF StopHost, StopMicrophone, StopEngine, StoreMicrophone, StoreHost, shared
  <2>2. host_running' \in {host_running, TRUE, FALSE}
        /\ microphone_enabled' \in {microphone_enabled, main.tapped, FALSE}
    BY <1>3 DEF StopHost, StopMicrophone, StopEngine, StoreMicrophone, StoreHost, shared
  <2>3. main' \in MainState
    <3>1. CASE StopHost
      BY <1>1, <3>1 DEF StopHost, MainState
    <3>2. CASE StopMicrophone
      BY <1>1, <3>2 DEF StopMicrophone, MainState
    <3>3. CASE StopEngine
      BY <1>1, <3>3 DEF StopEngine, MainState
    <3>4. CASE StoreMicrophone
      BY <1>1, <3>4 DEF StoreMicrophone, MainState
    <3>5. CASE StoreHost
      BY <1>1, <3>5 DEF StoreHost, MainState
    <3>. QED BY <1>3, <3>1, <3>2, <3>3, <3>4, <3>5
  <2>4. Typed'
    BY <1>1, <2>1, <2>2, <2>3 DEF Typed, Shared
  <2>. QED BY <1>1, <2>1, <2>4
<1>4. ASSUME NEW tapped \in {FALSE, "in" \in use}, StartEngine(tapped)
      PROVE  /\ Typed' /\ UNCHANGED <<pbvars, micvars, guest, render, boundary>>
             /\ epoch' >= epoch
  <2>1. UNCHANGED <<pbvars, micvars, shared, guest, render, tap, boundary>>
    BY <1>4 DEF StartEngine
  <2>2. tapped \in BOOLEAN
    <3>1. tapped = FALSE \/ tapped = ("in" \in use)
      BY <1>4
    <3>2. ("in" \in use) \in BOOLEAN
      OBVIOUS
    <3>. QED BY <3>1, <3>2
  <2>3. \/ main' = [pc |-> "storeMic", graph |-> TRUE, tapped |-> tapped]
        \/ main' = [pc |-> "mic", graph |-> FALSE, tapped |-> tapped]
    BY <1>4 DEF StartEngine
  <2>4. main' \in MainState
    BY <2>2, <2>3, MainRecords
  <2>. QED BY <1>1, <2>1, <2>4 DEF Typed, Shared, shared
<1>. QED BY <1>2, <1>3, <1>4 DEF Main

-----------------------------------------------------------------------------
(* Both queues are first-in first-out queues.                              *)

LEMMA InitHolds ==
  ASSUME Init
  PROVE  /\ Typed /\ Queues /\ ItemsOf(pb) = <<>> /\ ItemsOf(mic) = <<>>
         /\ pbGet.x = Silence /\ micGet.x = Silence
<1>. DEFINE q == [read |-> 0, write |-> 0, samples |-> [i \in Slots |-> Silence]]
            g == [pc |-> "idle", copy |-> Silence, w |-> 0, x |-> Silence]
<1>1. pb = q /\ mic = q /\ pbGet = g /\ micGet = g /\ pbPut = "idle" /\ micPut = "idle"
  BY DEF Init, Playback!QInit, Microphone!QInit, Playback!Ring, Microphone!Ring, Slots,
         Playback!Silence, Microphone!Silence, Silence
<1>2. 0 \in Indices /\ 0 \in 0 .. INDEX - 1
  BY Ring DEF Indices
<1>3. q \in Queue /\ g \in Consumer
  BY <1>2, Cleared DEF Queue, Consumer
<1>4. q.write = q.read /\ g.pc = "idle" /\ g.x = Silence
  OBVIOUS
<1>. HIDE DEF q, g
<1>5. UsedOf(q) = 0 /\ ItemsOf(q) = <<>> /\ Doomed(q, g) = 0
  BY <1>3, <1>4, EmptyQueue DEF Doomed
<1>6. QueueInv(q, "idle", g)
  BY <1>3, <1>4, <1>5, Ring DEF QueueInv
<1>7. Queues /\ ItemsOf(pb) = <<>> /\ ItemsOf(mic) = <<>> /\ pbGet.x = Silence /\ micGet.x = Silence
  BY <1>1, <1>4, <1>5, <1>6 DEF Queues
<1>8. epoch = 0 /\ boundary = 0 /\ use \in Uses /\ active = FALSE /\ host_running = FALSE
      /\ microphone_enabled = FALSE
  BY DEF Init
<1>9. 0 \in 0 .. MaxEpoch /\ 0 \in 0 .. 0 /\ 0 \in 0 .. VM_AUDIO_PREFILL /\ 0 \in 0 .. VM_AUDIO_FADE
      /\ 0 \in 0 .. TapFrames /\ 0 \in Nat
  BY Rate
<1>10. guest \in GuestState /\ guest.epoch = 0
  <2>1. guest = [pc |-> "idle", rate |-> 0, epoch |-> 0, output |-> NoResampler, capture |-> NoCapture]
    BY DEF Init
  <2>. QED BY <1>9, <2>1, Cleared DEF GuestState, GuestPc
<1>11. render \in RenderState /\ render.epoch = 0
  <2>1. render = [pc |-> "idle", epoch |-> 0, started |-> FALSE, wait |-> 0, fade_out |-> 0,
                  last |-> Silence, tail |-> Silence]
    BY DEF Init
  <2>. QED BY <1>9, <2>1, Cleared DEF RenderState
<1>12. tap \in TapState /\ tap.epoch = 0
  <2>1. tap = [pc |-> "idle", rate |-> 0, epoch |-> 0, left |-> 0, input |-> NoResampler]
    BY DEF Init
  <2>. QED BY <1>9, <2>1, Cleared DEF TapState
<1>13. main \in MainState
  <2>1. main = [pc |-> "idle", graph |-> FALSE, tapped |-> FALSE]
    BY DEF Init
  <2>. QED BY <2>1 DEF MainState
<1>14. Typed
  <2>1. Shared
    BY <1>8, <1>9 DEF Shared
  <2>2. guest.epoch <= epoch /\ render.epoch <= epoch /\ tap.epoch <= epoch
    BY <1>8, <1>10, <1>11, <1>12
  <2>. QED BY <1>10, <1>11, <1>12, <1>13, <2>1, <2>2 DEF Typed
<1>. QED BY <1>7, <1>14

LEMMA NextKeeps ==
  ASSUME Typed, Queues, [Next]_vars
  PROVE  /\ Typed'
         /\ Playback!QNext \/ UNCHANGED pbvars
         /\ Microphone!QNext \/ UNCHANGED micvars
<1>1. CASE Guest /\ UNCHANGED use
  BY <1>1, GuestSteps
<1>2. CASE Render /\ UNCHANGED use
  BY <1>2, RenderSteps DEF micvars
<1>3. CASE Tap /\ UNCHANGED use
  BY <1>3, TapSteps DEF pbvars
<1>4. CASE Main /\ UNCHANGED use
  BY <1>4, MainSteps DEF pbvars, micvars
<1>5. CASE UNCHANGED vars
  BY <1>5 DEF vars, Typed, Shared, shared, pbvars, micvars
<1>. QED BY <1>1, <1>2, <1>3, <1>4, <1>5 DEF Next

LEMMA NextMovesQueues ==
  ASSUME Typed, Queues, [Next]_vars
  PROVE  /\ Queues'
         /\ [Playback!Fifo!Next]_(Playback!Fifo!vars)
         /\ [Microphone!Fifo!Next]_(Microphone!Fifo!vars)
<1>1. /\ Moves(pb, pbPut, pbGet, pb', pbPut', pbGet')
      /\ Moves(mic, micPut, micGet, mic', micPut', micGet')
  BY NextKeeps, PlaybackMoves, MicrophoneMoves
<1>2. QueueInv(pb', pbPut', pbGet') /\ FifoMoves(ItemsOf(pb), pbGet.x, ItemsOf(pb'), pbGet'.x)
  BY <1>1, QueueStep DEF Queues
<1>3. QueueInv(mic', micPut', micGet') /\ FifoMoves(ItemsOf(mic), micGet.x, ItemsOf(mic'), micGet'.x)
  BY <1>1, QueueStep DEF Queues
<1>4. Queues'
  BY <1>2, <1>3 DEF Queues
<1>5. FifoMoves(ItemsOf(pb), pbGet.x, ItemsOf(pb)', pbGet.x')
      /\ FifoMoves(ItemsOf(mic), micGet.x, ItemsOf(mic)', micGet.x')
  BY <1>2, <1>3
<1>. QED BY <1>4, <1>5, PlaybackFifoMoves, MicrophoneFifoMoves

LEMMA TypedAlways == Spec => [](Typed /\ Queues)
<1>1. Init => Typed /\ Queues
  BY InitHolds
<1>2. Typed /\ Queues /\ [Next]_vars => (Typed /\ Queues)'
  BY NextKeeps, NextMovesQueues
<1>. QED BY <1>1, <1>2, PTL DEF Spec

(* vm_audio_queue_t with its put, get and discard is, for its two threads, *)
(* a first-in first-out queue of frames, in both directions and whatever   *)
(* the emulator, the callbacks and the main thread do around it: no frame  *)
(* is overwritten while it is copied, none is played twice, lost, or out   *)
(* of order.                                                               *)
THEOREM BothQueuesAreFifo == Spec => QueuesAreFifo
<1>1. Init => Playback!Fifo!Init /\ Microphone!Fifo!Init
  <2>. SUFFICES ASSUME Init PROVE Playback!Fifo!Init /\ Microphone!Fifo!Init
    OBVIOUS
  <2>1. ItemsOf(pb) = <<>> /\ ItemsOf(mic) = <<>> /\ pbGet.x = Silence /\ micGet.x = Silence
    BY InitHolds
  <2>2. Playback!Items = ItemsOf(pb) /\ Microphone!Items = ItemsOf(mic)
    BY DEF Playback!Items, Playback!Used, Microphone!Items, Microphone!Used, ItemsOf, UsedOf, Gap
  <2>3. Playback!Silence = Silence /\ Microphone!Silence = Silence
    BY DEF Playback!Silence, Microphone!Silence, Silence
  <2>. QED BY <2>1, <2>2, <2>3 DEF Playback!Fifo!Init, Microphone!Fifo!Init
<1>2. Typed /\ Queues /\ [Next]_vars => /\ [Playback!Fifo!Next]_(Playback!Fifo!vars)
                                        /\ [Microphone!Fifo!Next]_(Microphone!Fifo!vars)
  BY NextMovesQueues
<1>3. Spec => Playback!Fifo!Spec /\ Microphone!Fifo!Spec
  BY <1>1, <1>2, TypedAlways, PTL DEF Spec, Playback!Fifo!Spec, Microphone!Fifo!Spec
<1>. QED BY <1>3
         DEF QueuesAreFifo, PlaybackIsFifo, MicrophoneIsFifo, Playback!ImplementsFifo, Microphone!ImplementsFifo

-----------------------------------------------------------------------------
(* Nothing from before the boundary is played.                             *)

LEMMA FillKeepsFresh ==
  ASSUME NEW q, NEW g, NEW b, NEW x \in Sample, QueueInv(q, "idle", g), UsedOf(q) < VM_AUDIO_FRAMES,
         WaitingIsFresh(q, g, b)
  PROVE  WaitingIsFresh([q EXCEPT !.samples[q.write % VM_AUDIO_FRAMES] = x], g, b)
<1>. DEFINE q2 == [q EXCEPT !.samples[q.write % VM_AUDIO_FRAMES] = x]
<1>1. QueueInv(q2, "publish", g) /\ ItemsOf(q2) = ItemsOf(q) /\ Doomed(q2, g) = Doomed(q, g)
  BY PutFills
<1>. HIDE DEF q2
<1>2. UsedOf(q2) = UsedOf(q)
  <2>1. Len(ItemsOf(q2)) = UsedOf(q2) /\ Len(ItemsOf(q)) = UsedOf(q)
    BY <1>1, ItemFacts DEF QueueInv
  <2>. QED BY <1>1, <2>1
<1>3. WaitingIsFresh(q2, g, b)
  BY <1>1, <1>2 DEF WaitingIsFresh
<1>. QED BY <1>3 DEF q2

LEMMA ShowKeepsFresh ==
  ASSUME NEW q, NEW g, NEW b, QueueInv(q, "publish", g), WaitingIsFresh(q, g, b),
         FreshAt(Filling(q), b)
  PROVE  WaitingIsFresh([q EXCEPT !.write = (@ + 1) % INDEX], g, b)
<1>. DEFINE q2 == [q EXCEPT !.write = (@ + 1) % INDEX]
            s == ItemsOf(q)
            n == UsedOf(q)
<1>1. /\ QueueInv(q2, "idle", g) /\ ItemsOf(q2) = Append(s, Filling(q)) /\ Filling(q) \in Sample
      /\ Doomed(q2, g) = Doomed(q, g)
  BY PutShows
<1>. HIDE DEF q2
<1>2. s \in Seq(Sample) /\ Len(s) = n /\ Len(ItemsOf(q2)) = UsedOf(q2)
  BY <1>1, ItemFacts DEF QueueInv
<1>3. \A i \in 1 .. n : i > Doomed(q, g) => FreshAt(s[i], b)
  BY DEF WaitingIsFresh
<1>. HIDE DEF s, n
<1>4. n \in Nat /\ UsedOf(q2) = n + 1 /\ ItemsOf(q2)[n + 1] = Filling(q)
      /\ \A i \in 1 .. n : ItemsOf(q2)[i] = s[i]
  BY <1>1, <1>2
<1>5. ASSUME NEW i \in 1 .. n + 1, i > Doomed(q, g) PROVE FreshAt(ItemsOf(q2)[i], b)
  <2>1. CASE i = n + 1
    BY <1>4, <2>1
  <2>2. CASE i \in 1 .. n
    BY <1>3, <1>4, <1>5, <2>2
  <2>. QED BY <1>4, <2>1, <2>2
<1>6. WaitingIsFresh(q2, g, b)
  BY <1>1, <1>4, <1>5 DEF WaitingIsFresh
<1>. QED BY <1>6 DEF q2

(* The frame taken is fresh, and so are the others.                        *)
LEMMA TakeKeepsFresh ==
  ASSUME NEW q, NEW p, NEW g, NEW b, QueueInv(q, p, g), g.pc = "publish", WaitingIsFresh(q, g, b)
  PROVE  LET q2 == [q EXCEPT !.read = (@ + 1) % INDEX]
             g2 == [g EXCEPT !.pc = "idle", !.copy = Silence, !.x = g.copy] IN
         WaitingIsFresh(q2, g2, b) /\ FreshAt(g2.x, b)
<1>. DEFINE q2 == [q EXCEPT !.read = (@ + 1) % INDEX]
            g2 == [g EXCEPT !.pc = "idle", !.copy = Silence, !.x = g.copy]
            s == ItemsOf(q)
            n == UsedOf(q)
<1>1. /\ QueueInv(q2, p, g2) /\ ItemsOf(q) # <<>> /\ ItemsOf(q2) = Tail(ItemsOf(q))
      /\ g.copy = Head(ItemsOf(q)) /\ g2.x = g.copy /\ g2.pc = "idle"
      /\ Filling(q2) = Filling(q) /\ Doomed(q, g) = 0 /\ Doomed(q2, g2) = 0
  BY GetTakes
<1>. HIDE DEF q2, g2
<1>2. s \in Seq(Sample) /\ Len(s) = n /\ Len(ItemsOf(q2)) = UsedOf(q2)
  BY <1>1, ItemFacts DEF QueueInv
<1>3. \A i \in 1 .. n : i > 0 => FreshAt(s[i], b)
  BY <1>1 DEF WaitingIsFresh
<1>4. s # <<>> /\ ItemsOf(q2) = Tail(s) /\ g2.x = Head(s)
  BY <1>1
<1>. HIDE DEF s, n
<1>5. n \in Nat /\ n >= 1 /\ UsedOf(q2) = n - 1 /\ g2.x = s[1]
      /\ \A i \in 1 .. n - 1 : ItemsOf(q2)[i] = s[i + 1]
  <2>1. n \in Nat /\ n >= 1 /\ Head(s) = s[1]
    BY <1>2, <1>4
  <2>2. Len(Tail(s)) = n - 1 /\ \A i \in 1 .. n - 1 : Tail(s)[i] = s[i + 1]
    BY <1>2, <1>4, <2>1
  <2>. QED BY <1>2, <1>4, <2>1, <2>2
<1>6. FreshAt(g2.x, b)
  BY <1>3, <1>5
<1>7. ASSUME NEW i \in 1 .. n - 1 PROVE FreshAt(ItemsOf(q2)[i], b)
  <2>1. i + 1 \in 1 .. n /\ i + 1 > 0
    BY <1>5
  <2>. QED BY <1>3, <1>5, <2>1
<1>8. WaitingIsFresh(q2, g2, b)
  BY <1>5, <1>7 DEF WaitingIsFresh
<1>. QED BY <1>6, <1>8 DEF q2, g2

(* A consumer that looks again, or has used its frame, changes nothing.    *)
LEMMA LookKeepsFresh ==
  ASSUME NEW q, NEW g, NEW g2, NEW b, WaitingIsFresh(q, g, b), g.pc = "idle", q \in Queue,
         Doomed(q, g2) = 0
  PROVE  WaitingIsFresh(q, g2, b)
<1>1. Doomed(q, g) = 0
  BY DEF Doomed
<1>. QED BY <1>1 DEF WaitingIsFresh

(* After a discard has looked, every frame that waits is doomed.           *)
LEMMA SeeIsFresh ==
  ASSUME NEW q, NEW p, NEW g, NEW b, QueueInv(q, p, g), g.pc = "idle"
  PROVE  WaitingIsFresh(q, [g EXCEPT !.pc = "discard", !.w = q.write], b)
<1>. DEFINE g2 == [g EXCEPT !.pc = "discard", !.w = q.write]
<1>1. Doomed(q, g2) = UsedOf(q)
  BY DiscardLooks
<1>2. UsedOf(q) \in Nat
  BY QueueFields, Ring DEF QueueInv
<1>. HIDE DEF g2
<1>3. WaitingIsFresh(q, g2, b)
  BY <1>1, <1>2 DEF WaitingIsFresh
<1>. QED BY <1>3 DEF g2

LEMMA DropKeepsFresh ==
  ASSUME NEW q, NEW p, NEW g, NEW b, QueueInv(q, p, g), g.pc = "discard", WaitingIsFresh(q, g, b)
  PROVE  WaitingIsFresh([q EXCEPT !.read = g.w], [g EXCEPT !.pc = "idle", !.w = 0], b)
<1>. DEFINE q2 == [q EXCEPT !.read = g.w]
            g2 == [g EXCEPT !.pc = "idle", !.w = 0]
            s == ItemsOf(q)
            n == UsedOf(q)
            d == Doomed(q, g)
<1>1. /\ QueueInv(q2, p, g2) /\ d \in 0 .. Len(s) /\ ItemsOf(q2) = SubSeq(s, d + 1, Len(s))
      /\ Doomed(q2, g2) = 0
  BY DiscardDrops
<1>. HIDE DEF q2, g2
<1>2. s \in Seq(Sample) /\ Len(s) = n /\ Len(ItemsOf(q2)) = UsedOf(q2)
  BY <1>1, ItemFacts DEF QueueInv
<1>3. \A i \in 1 .. n : i > d => FreshAt(s[i], b)
  BY DEF WaitingIsFresh
<1>. HIDE DEF s, n, d
<1>4. UsedOf(q2) = n - d /\ \A i \in 1 .. n - d : ItemsOf(q2)[i] = s[d + i]
  BY <1>1, <1>2, SuffixFacts
<1>5. ASSUME NEW i \in 1 .. n - d PROVE FreshAt(ItemsOf(q2)[i], b)
  <2>1. d + i \in 1 .. n /\ d + i > d
    BY <1>1, <1>2
  <2>. QED BY <1>3, <1>4, <2>1
<1>6. WaitingIsFresh(q2, g2, b)
  BY <1>1, <1>4, <1>5 DEF WaitingIsFresh
<1>. QED BY <1>6 DEF q2, g2

(* The emulator outside its resampler touches neither the playback queue   *)
(* nor what the resampler has kept.                                        *)
LEMMA GuestElsewhere ==
  ASSUME guest \in GuestState,
         \/ ActiveStore \/ (GuestPutDone /\ guest' = Return(guest))
         \/ CaptureOff \/ CaptureOn \/ CaptureGet \/ CaptureGot \/ CaptureSound \/ CaptureMore
  PROVE  /\ guest'.output = guest.output /\ guest'.pc \notin {"out", "resample", "bump"}
         /\ UNCHANGED <<pbvars, render, boundary>>
<1>1. guest.pc \in GuestPc
  BY GuestFields
<1>2. CASE ActiveStore
  <2>1. guest' = [guest EXCEPT !.pc = "idle"] /\ UNCHANGED <<pbvars, render, boundary>>
    BY <1>2 DEF ActiveStore
  <2>. QED BY <2>1 DEF GuestState
<1>3. CASE GuestPutDone /\ guest' = Return(guest)
  BY <1>3, ReturnTyped, Cleared DEF GuestPutDone
<1>4. CASE CaptureOff
  <2>1. guest' = [Return(guest) EXCEPT !.capture = NoCapture] /\ UNCHANGED <<pbvars, render, boundary>>
    BY <1>4 DEF CaptureOff
  <2>. QED BY <2>1, ReturnTyped, Cleared
<1>5. CASE CaptureOn
  <2>1. UNCHANGED <<pbvars, render, boundary>>
    BY <1>5 DEF CaptureOn
  <2>2. \E pc \in {"sound", "first"}, c \in {guest.capture, [NoCapture EXCEPT !.rate = guest.rate]} :
          guest' = [guest EXCEPT !.pc = pc, !.capture = c]
    BY <1>5 DEF CaptureOn
  <2>. QED BY <2>1, <2>2 DEF GuestState
<1>6. CASE CaptureGet
  <2>1. UNCHANGED <<pbvars, render, boundary>>
    BY <1>6 DEF CaptureGet
  <2>2. \E pc \in {"gotFirst", "gotSecond", "gotNext"} : guest' = [guest EXCEPT !.pc = pc]
    BY <1>6 DEF CaptureGet
  <2>. QED BY <2>1, <2>2 DEF GuestState
<1>7. CASE CaptureGot
  <2>1. UNCHANGED <<pbvars, render, boundary>>
    BY <1>7 DEF CaptureGot
  <2>2. \/ guest' = [Return(guest) EXCEPT !.capture = NoCapture]
        \/ \E pc \in {"second", "sound", "more"}, c \in {guest'.capture} :
             guest' = [guest EXCEPT !.pc = pc, !.capture = c]
    BY <1>7 DEF CaptureGot, GuestState
  <2>3. CASE guest' = [Return(guest) EXCEPT !.capture = NoCapture]
    BY <2>1, <2>3, ReturnTyped, Cleared
  <2>4. CASE guest' # [Return(guest) EXCEPT !.capture = NoCapture]
    BY <2>1, <2>2, <2>4 DEF GuestState
  <2>. QED BY <2>3, <2>4
<1>8. CASE CaptureSound
  <2>1. /\ guest' = [guest EXCEPT !.pc = "more", !.capture.phase = @ + VM_AUDIO_RATE]
        /\ UNCHANGED <<pbvars, render, boundary>>
    BY <1>8 DEF CaptureSound
  <2>. QED BY <2>1 DEF GuestState
<1>9. CASE CaptureMore
  <2>1. UNCHANGED <<pbvars, render, boundary>>
    BY <1>9 DEF CaptureMore
  <2>2. CASE guest.capture.phase >= guest.rate
    <3>1. guest' = [guest EXCEPT !.pc = "next", !.capture.phase = @ - guest.rate,
                                 !.capture.a = guest.capture.b]
      BY <1>9, <2>2 DEF CaptureMore
    <3>. QED BY <2>1, <3>1 DEF GuestState
  <2>3. CASE ~(guest.capture.phase >= guest.rate)
    <3>1. guest' = [Return(guest) EXCEPT !.capture = IF @.primed THEN @ ELSE NoCapture]
      BY <1>9, <2>3 DEF CaptureMore
    <3>. QED BY <2>1, <3>1 DEF GuestState, Return
  <2>. QED BY <2>2, <2>3
<1>. QED BY <1>2, <1>3, <1>4, <1>5, <1>6, <1>7, <1>8, <1>9

LEMMA GuestKeepsFresh ==
  ASSUME IInv, Guest, Typed', Queues'
  PROVE  GuestIsFresh' /\ RenderIsFresh'
<1>1. /\ guest \in GuestState /\ guest.pc \in GuestPc /\ guest.output \in Resampler
      /\ guest.epoch \in 0 .. MaxEpoch /\ guest.epoch <= epoch /\ guest.epoch \in Nat
      /\ guest.output.previous \in Sample /\ epoch \in Nat /\ boundary \in 0 .. epoch /\ boundary \in Nat
      /\ render.epoch <= epoch /\ render.epoch \in Nat /\ Silence \in Sample
      /\ QueueInv(pb, pbPut, pbGet)
  BY GuestFields, ResamplerFields, RenderFields, Rate, Cleared DEF IInv, Typed, Shared, Queues
<1>2. GuestIsFresh /\ RenderIsFresh
  BY DEF IInv
<1>3. ASSUME UNCHANGED <<pbvars, render, boundary>> PROVE RenderIsFresh'
  BY <1>2, <1>3 DEF RenderIsFresh, pbvars, Fresh
<1>4. ASSUME UNCHANGED <<pbvars, render, boundary>>, guest'.output = guest.output,
             guest'.pc # "bump",
             guest'.pc \in {"out", "resample"} => guest'.epoch >= boundary
      PROVE  GuestIsFresh' /\ RenderIsFresh'
  <2>1. GuestIsFresh'
    BY <1>2, <1>4 DEF GuestIsFresh, pbvars, Fresh
  <2>. QED BY <1>3, <1>4, <2>1
<1>5. CASE ActiveCall
  <2>1. /\ guest' = [guest EXCEPT !.pc = "bump", !.output = NoResampler, !.capture = NoCapture]
        /\ UNCHANGED <<pbvars, render, boundary>>
    BY <1>5 DEF ActiveCall
  <2>2. guest'.pc = "bump" /\ guest'.output.previous = Silence
    BY <1>1, <2>1, Cleared DEF GuestState
  <2>3. GuestIsFresh'
    BY <1>2, <2>1, <2>2 DEF GuestIsFresh, pbvars, Fresh, FreshAt
  <2>. QED BY <1>3, <2>1, <2>3
<1>6. CASE ActiveBump
  <2>1. /\ guest.pc = "bump" /\ pbPut = "idle"
        /\ boundary' = epoch + 1 /\ guest' = [guest EXCEPT !.pc = "active"]
        /\ UNCHANGED <<pbvars, render>>
    BY <1>6 DEF ActiveBump, GuestFree
  <2>2. guest'.pc = "active" /\ guest'.output = guest.output
    BY <1>1, <2>1 DEF GuestState
  <2>3. guest.output.previous = Silence
    BY <1>2, <2>1 DEF GuestIsFresh
  <2>4. GuestIsFresh'
    BY <2>1, <2>2, <2>3 DEF GuestIsFresh, Fresh, FreshAt, pbvars
  <2>5. ~(render.epoch >= epoch + 1)
    BY <1>1
  <2>6. RenderIsFresh'
    BY <1>2, <2>1, <2>5 DEF RenderIsFresh, pbvars
  <2>. QED BY <2>4, <2>6
<1>7. ASSUME NEW direction \in use, NEW rate \in Rates, GuestFrame(direction, rate)
      PROVE  GuestIsFresh' /\ RenderIsFresh'
  <2>1. direction # "bump"
    BY Rate DEF IInv, Typed, Shared
  <2>2. UNCHANGED <<pbvars, render, boundary>>
    BY <1>7 DEF GuestFrame
  <2>3. CASE epoch # guest.epoch
    <3>1. guest' = [pc |-> direction, rate |-> rate, epoch |-> epoch,
                    output |-> NoResampler, capture |-> NoCapture]
      BY <1>7, <2>3 DEF GuestFrame
    <3>2. guest'.pc = direction /\ guest'.epoch = epoch /\ guest'.output.previous = Silence
      BY <3>1, Cleared
    <3>3. epoch >= boundary
      BY <1>1
    <3>4. GuestIsFresh'
      BY <1>2, <2>1, <2>2, <3>2, <3>3 DEF GuestIsFresh, pbvars, Fresh, FreshAt
    <3>. QED BY <1>3, <2>2, <3>4
  <2>4. CASE epoch = guest.epoch
    <3>1. guest' = [guest EXCEPT !.pc = direction, !.rate = rate]
      BY <1>7, <2>4 DEF GuestFrame
    <3>2. guest'.pc = direction /\ guest'.epoch = epoch /\ guest'.output = guest.output
      BY <1>1, <2>4, <3>1 DEF GuestState
    <3>3. epoch >= boundary
      BY <1>1
    <3>. QED BY <1>4, <2>1, <2>2, <3>2, <3>3
  <2>. QED BY <2>3, <2>4
<1>8. CASE GuestChecks
  <2>1. guest.pc \in {"out", "in"} /\ UNCHANGED <<pbvars, render, boundary>>
    BY <1>8 DEF GuestChecks
  <2>2. \/ guest' = Return(guest)
        \/ guest' = [guest EXCEPT !.pc = IF guest.pc = "out" THEN "resample" ELSE "microphone"]
    BY <1>8 DEF GuestChecks
  <2>3. CASE guest' = Return(guest)
    <3>1. guest'.pc = "idle" /\ guest'.output = guest.output
      BY <1>1, <2>3, ReturnTyped, Cleared
    <3>. QED BY <1>4, <2>1, <3>1
  <2>4. CASE guest' = [guest EXCEPT !.pc = IF guest.pc = "out" THEN "resample" ELSE "microphone"]
    <3>1. /\ guest'.pc = (IF guest.pc = "out" THEN "resample" ELSE "microphone")
          /\ guest'.output = guest.output /\ guest'.epoch = guest.epoch
      BY <1>1, <2>4 DEF GuestState
    <3>2. guest.pc = "out" => guest.epoch >= boundary
      BY <1>2 DEF GuestIsFresh
    <3>. QED BY <1>4, <2>1, <3>1, <3>2
  <2>. QED BY <2>2, <2>3, <2>4
<1>9. CASE GuestPut
  <2>1. /\ Playback!PutBegin(NextPut) /\ NextPut \in {guest.epoch, guest.output.previous}
        /\ NextPut \in Sample /\ guest.pc = "resample" /\ pbPut = "idle"
        /\ guest'.epoch = guest.epoch /\ guest'.pc \in {"idle", "resample"}
        /\ guest'.output.previous \in {guest.epoch, guest.output.previous}
        /\ UNCHANGED <<render, boundary>>
    BY <1>1, <1>9, GuestPuts
  <2>2. guest.epoch >= boundary /\ Fresh(guest.output.previous)
    BY <1>2, <2>1 DEF GuestIsFresh
  <2>3. Fresh(NextPut) /\ FreshAt(guest'.output.previous, boundary)
    BY <2>1, <2>2 DEF Fresh, FreshAt
  <2>4. CASE UsedOf(pb) >= VM_AUDIO_FRAMES
    <3>1. UNCHANGED pbvars
      BY <2>1, <2>4 DEF Playback!PutBegin, Playback!Used, UsedOf, Gap, pbvars
    <3>2. GuestIsFresh'
      BY <2>1, <2>2, <2>3, <3>1 DEF GuestIsFresh, Fresh, pbvars
    <3>. QED BY <1>3, <2>1, <3>1, <3>2
  <2>5. CASE ~(UsedOf(pb) >= VM_AUDIO_FRAMES)
    <3>. DEFINE q2 == [pb EXCEPT !.samples[pb.write % VM_AUDIO_FRAMES] = NextPut]
    <3>1. pb' = q2 /\ pbPut' = "publish" /\ pbGet' = pbGet
      BY <2>1, <2>5 DEF Playback!PutBegin, Playback!Used, UsedOf, Gap
    <3>2. UsedOf(pb) < VM_AUDIO_FRAMES
      BY <1>1, <2>5, QueueFields, Ring DEF QueueInv
    <3>3. Filling(q2) = NextPut
      BY <1>1, <2>1, <3>2, PutFills
    <3>4. WaitingIsFresh(pb, pbGet, boundary) => WaitingIsFresh(q2, pbGet, boundary)
      BY <1>1, <2>1, <3>2, FillKeepsFresh
    <3>. HIDE DEF q2
    <3>5. Filling(pb)' = NextPut
      BY <3>1, <3>3
    <3>6. GuestIsFresh'
      BY <2>1, <2>2, <2>3, <3>5 DEF GuestIsFresh, Fresh
    <3>7. WaitingIsFresh(pb, pbGet, boundary)' <=> WaitingIsFresh(q2, pbGet, boundary)
      BY <2>1, <3>1
    <3>8. RenderIsFresh'
      BY <1>2, <2>1, <3>1, <3>4, <3>7 DEF RenderIsFresh, Fresh
    <3>. QED BY <3>6, <3>8
  <2>. QED BY <2>4, <2>5
<1>10. CASE GuestPutDone /\ guest' # Return(guest)
  <2>. DEFINE o == Finish(guest.output, guest.epoch)
  <2>1. /\ guest' = [Return(guest) EXCEPT !.output = o] /\ ~Due(guest.output)
        /\ guest.pc = "resample" /\ UNCHANGED <<pbvars, render, boundary>>
    BY <1>1, <1>10, ReturnTyped, Cleared DEF GuestPutDone
  <2>2. o \in Resampler /\ o.previous = guest.epoch
    BY <1>1, <2>1, EpochIsSample, ResamplerSteps DEF GuestState
  <2>. HIDE DEF o
  <2>3. guest'.output.previous = guest.epoch /\ guest'.pc = "idle"
    BY <1>1, <2>1, <2>2, ReturnTyped, Cleared
  <2>4. guest.epoch >= boundary
    BY <1>2, <2>1 DEF GuestIsFresh
  <2>5. GuestIsFresh'
    BY <1>2, <2>1, <2>3, <2>4 DEF GuestIsFresh, Fresh, FreshAt, pbvars
  <2>. QED BY <1>3, <2>1, <2>5
<1>11. CASE \/ ActiveStore \/ (GuestPutDone /\ guest' = Return(guest))
            \/ CaptureOff \/ CaptureOn \/ CaptureGet \/ CaptureGot \/ CaptureSound \/ CaptureMore
  BY <1>1, <1>4, <1>11, GuestElsewhere
<1>12. CASE Playback!PutPublish /\ UNCHANGED <<micvars, shared, guest, render, tap, main, boundary>>
  <2>. DEFINE q2 == [pb EXCEPT !.write = (@ + 1) % INDEX]
  <2>1. /\ pbPut = "publish" /\ pb' = q2 /\ pbPut' = "idle" /\ pbGet' = pbGet
        /\ UNCHANGED <<guest, render, boundary>>
    BY <1>12 DEF Playback!PutPublish
  <2>2. FreshAt(Filling(pb), boundary)
    BY <1>2, <2>1 DEF GuestIsFresh, Fresh
  <2>3. WaitingIsFresh(pb, pbGet, boundary) => WaitingIsFresh(q2, pbGet, boundary)
    BY <1>1, <2>1, <2>2, ShowKeepsFresh
  <2>. HIDE DEF q2
  <2>4. GuestIsFresh'
    BY <1>2, <2>1 DEF GuestIsFresh, Fresh
  <2>5. WaitingIsFresh(pb, pbGet, boundary)' <=> WaitingIsFresh(q2, pbGet, boundary)
    BY <2>1
  <2>6. RenderIsFresh'
    BY <1>2, <2>1, <2>3, <2>5 DEF RenderIsFresh, Fresh
  <2>. QED BY <2>4, <2>6
<1>13. CASE Microphone!GetStep /\ UNCHANGED <<pbvars, shared, guest, render, tap, main, boundary>>
  <2>1. GuestIsFresh'
    BY <1>2, <1>13 DEF GuestIsFresh, Fresh, pbvars
  <2>. QED BY <1>3, <1>13, <2>1
<1>. QED BY <1>5, <1>6, <1>7, <1>8, <1>9, <1>10, <1>11, <1>12, <1>13 DEF Guest

LEMMA RenderKeepsFresh ==
  ASSUME IInv, Render, UNCHANGED <<guest, boundary, use>>
  PROVE  GuestIsFresh' /\ RenderIsFresh'
<1>1. /\ render \in RenderState /\ render.epoch <= epoch /\ render.epoch \in 0 .. MaxEpoch
      /\ epoch \in 0 .. MaxEpoch /\ epoch \in Nat /\ boundary \in Nat /\ boundary <= epoch
      /\ pbGet.x \in Sample /\ render.last \in Sample /\ render.tail \in Sample /\ Silence \in Sample
      /\ QueueInv(pb, pbPut, pbGet) /\ pb \in Queue /\ pbGet \in Consumer /\ render.epoch \in Nat
  BY RenderFields, ConsumerFields, Rate, Cleared DEF IInv, Typed, Shared, Queues, QueueInv
<1>2. GuestIsFresh /\ RenderIsFresh
  BY DEF IInv
<1>3. ASSUME pbPut' = pbPut, Filling(pb)' = Filling(pb) PROVE GuestIsFresh'
  BY <1>2, <1>3 DEF GuestIsFresh, Fresh
<1>4. ASSUME pb' = pb PROVE Filling(pb)' = Filling(pb)
  BY <1>4
(* The queue stays; the callback moves on, not to "got".                   *)
<1>5. ASSUME UNCHANGED pbvars, render'.pc # "got", render.pc # "got" \/ pbGet.x = Silence,
             render.pc # "got" \/ pbGet.pc # "publish",
             render'.epoch = render.epoch, render'.last = render.last, render'.tail = render.tail
      PROVE  GuestIsFresh' /\ RenderIsFresh'
  <2>1. GuestIsFresh'
    BY <1>3, <1>4, <1>5 DEF pbvars
  <2>2. RenderIsFresh'
    BY <1>2, <1>5 DEF RenderIsFresh, Fresh, pbvars
  <2>. QED BY <2>1, <2>2
(* A discard begins, by a callback that has reset what it plays.           *)
<1>6. ASSUME Playback!DiscardBegin, render.pc # "got", render'.pc # "got",
             render'.last = Silence, render'.tail = Silence
      PROVE  GuestIsFresh' /\ RenderIsFresh'
  <2>. DEFINE g2 == [pbGet EXCEPT !.pc = "discard", !.w = pb.write]
  <2>1. pbGet.pc = "idle" /\ pbGet' = g2 /\ pb' = pb /\ pbPut' = pbPut
    BY <1>6 DEF Playback!DiscardBegin
  <2>2. g2.pc = "discard" /\ g2.x = pbGet.x
    BY <1>1, <2>1, DiscardLooks
  <2>3. WaitingIsFresh(pb, g2, boundary)
    BY <1>1, <2>1, SeeIsFresh
  <2>. HIDE DEF g2
  <2>4. pbGet.x = Silence
    BY <1>2, <1>6 DEF RenderIsFresh
  <2>5. WaitingIsFresh(pb, pbGet, boundary)' <=> WaitingIsFresh(pb, g2, boundary)
    BY <2>1
  <2>6. RenderIsFresh'
    BY <1>6, <2>1, <2>2, <2>3, <2>4, <2>5 DEF RenderIsFresh, Fresh, FreshAt
  <2>. QED BY <1>3, <1>4, <2>1, <2>6
<1>7. CASE RenderCall
  <2>1. render.pc = "idle"
    BY <1>7 DEF RenderCall
  <2>2. CASE epoch # render.epoch
    <3>. DEFINE r == [ResetRender(render) EXCEPT !.pc = "active", !.epoch = epoch]
    <3>1. render' = r /\ Playback!DiscardBegin
      BY <1>7, <2>2 DEF RenderCall
    <3>2. r.pc = "active" /\ r.last = Silence /\ r.tail = Silence
      BY <1>1, ResetTyped
    <3>. QED BY <1>6, <2>1, <3>1, <3>2
  <2>3. CASE epoch = render.epoch
    <3>1. render' = [render EXCEPT !.pc = "active"] /\ UNCHANGED pbvars
      BY <1>7, <2>3 DEF RenderCall
    <3>2. /\ render'.pc = "active" /\ render'.epoch = render.epoch /\ render'.last = render.last
          /\ render'.tail = render.tail
      BY <1>1, <3>1 DEF RenderState
    <3>. QED BY <1>5, <2>1, <3>1, <3>2
  <2>. QED BY <2>2, <2>3
<1>8. CASE RenderActive \/ RenderRunning
  <2>1. render.pc # "got" /\ UNCHANGED pbvars
    BY <1>8 DEF RenderActive, RenderRunning
  <2>2. \E pc \in {"running", "quiet", "frame"} : render' = [render EXCEPT !.pc = pc]
    BY <1>8 DEF RenderActive, RenderRunning
  <2>3. /\ render'.pc # "got" /\ render'.epoch = render.epoch /\ render'.last = render.last
        /\ render'.tail = render.tail
    BY <1>1, <2>2 DEF RenderState
  <2>. QED BY <1>5, <2>1, <2>3
<1>9. CASE RenderQuiet
  <2>. DEFINE r == [ResetRender(render) EXCEPT !.pc = "idle"]
  <2>1. render.pc = "quiet" /\ Playback!DiscardBegin /\ render' = r
    BY <1>9 DEF RenderQuiet
  <2>2. r.pc = "idle" /\ r.last = Silence /\ r.tail = Silence
    BY <1>1, ResetTyped
  <2>. QED BY <1>6, <2>1, <2>2
<1>10. CASE RenderGate
  <2>1. render.pc = "frame" /\ UNCHANGED pbvars
    BY <1>10 DEF RenderGate
  <2>2. \/ render' = [render EXCEPT !.pc = "get"]
        \/ render' = [render EXCEPT !.pc = "get", !.started = TRUE, !.wait = 0]
        \/ \E wait \in {render'.wait} : render' = [render EXCEPT !.pc = "silent", !.wait = wait]
    BY <1>1, <1>10 DEF RenderGate, RenderState
  <2>3. /\ render'.pc # "got" /\ render'.epoch = render.epoch /\ render'.last = render.last
        /\ render'.tail = render.tail
    BY <1>1, <2>2 DEF RenderState
  <2>. QED BY <1>5, <2>1, <2>3
<1>11. CASE RenderGet
  <2>1. /\ render.pc = "get" /\ Playback!GetBegin /\ render' = [render EXCEPT !.pc = "got"]
    BY <1>11 DEF RenderGet
  <2>2. /\ render'.pc = "got" /\ render'.epoch = render.epoch /\ render'.last = render.last
        /\ render'.tail = render.tail
    BY <1>1, <2>1 DEF RenderState
  <2>3. pbGet.pc = "idle" /\ pb' = pb /\ pbPut' = pbPut /\ pbGet.x = Silence
    BY <1>2, <2>1 DEF Playback!GetBegin, RenderIsFresh
  <2>4. pbGet'.x = Silence /\ Doomed(pb, pbGet') = 0
    <3>1. CASE pb.write = pb.read
      <4>. DEFINE g2 == [pbGet EXCEPT !.x = Silence]
      <4>1. pbGet' = g2
        BY <2>1, <3>1 DEF Playback!GetBegin, Playback!Silence, Silence
      <4>2. g2.x = Silence /\ Doomed(pb, g2) = 0
        BY <1>1, <2>3, GetUses
      <4>. QED BY <4>1, <4>2
    <3>2. CASE pb.write # pb.read
      <4>. DEFINE g2 == [pbGet EXCEPT !.pc = "publish", !.copy = pb.samples[pb.read % VM_AUDIO_FRAMES]]
      <4>1. pbGet' = g2
        BY <2>1, <3>2 DEF Playback!GetBegin
      <4>2. g2.x = pbGet.x /\ Doomed(pb, g2) = 0
        BY <1>1, <2>3, <3>2, GetLooks
      <4>. HIDE DEF g2
      <4>. QED BY <2>3, <4>1, <4>2
    <3>. QED BY <3>1, <3>2
  <2>5. WaitingIsFresh(pb, pbGet, boundary) => WaitingIsFresh(pb, pbGet', boundary)
    BY <1>1, <2>3, <2>4, LookKeepsFresh
  <2>6. WaitingIsFresh(pb, pbGet, boundary)' <=> WaitingIsFresh(pb, pbGet', boundary)
    BY <2>3
  <2>7. RenderIsFresh'
    BY <1>2, <2>2, <2>4, <2>5, <2>6 DEF RenderIsFresh, Fresh, FreshAt
  <2>. QED BY <1>3, <1>4, <2>3, <2>7
<1>12. CASE RenderOut
  <2>. DEFINE g2 == [pbGet EXCEPT !.x = Silence]
              dry == [render EXCEPT !.started = FALSE, !.fade_out = VM_AUDIO_FADE,
                                    !.tail = render.last]
  <2>1. pbGet.pc = "idle" /\ pbGet' = g2 /\ pb' = pb /\ pbPut' = pbPut
    BY <1>12 DEF RenderOut, Playback!GetUsed, Playback!Silence, Silence
  <2>2. g2.x = Silence /\ g2.pc = "idle" /\ Doomed(pb, g2) = 0
    BY <1>1, <2>1, GetUses
  <2>. HIDE DEF g2
  <2>3. PICK pc \in {"frame", "idle"}, r \in {render, dry}, x \in {Silence, pbGet.x} :
          render' = [Output(r, x) EXCEPT !.pc = pc]
    BY <1>12 DEF RenderOut
  <2>4. dry \in RenderState /\ dry.epoch = render.epoch /\ dry.tail = render.last
    <3>1. VM_AUDIO_FADE \in 0 .. VM_AUDIO_FADE
      BY Rate
    <3>. QED BY <1>1, <3>1 DEF RenderState
  <2>. HIDE DEF dry
  <2>5. /\ r \in RenderState /\ r.epoch = render.epoch /\ r.tail \in {render.tail, render.last}
        /\ x \in Sample
    BY <1>1, <2>4
  <2>6. /\ Output(r, x) \in RenderState /\ Output(r, x).epoch = render.epoch
        /\ Output(r, x).last \in {x, r.tail, Silence} /\ Output(r, x).tail \in {r.tail, Silence}
    BY <2>5, OutputFacts
  <2>7. /\ render'.pc = pc /\ render'.epoch = render.epoch
        /\ render'.last \in {Silence, pbGet.x, render.tail, render.last}
        /\ render'.tail \in {Silence, render.tail, render.last}
    BY <2>3, <2>5, <2>6 DEF RenderState
  <2>8. WaitingIsFresh(pb, pbGet, boundary) => WaitingIsFresh(pb, g2, boundary)
    BY <1>1, <2>1, <2>2, LookKeepsFresh
  <2>9. WaitingIsFresh(pb, pbGet, boundary)' <=> WaitingIsFresh(pb, g2, boundary)
    BY <2>1
  <2>10. ASSUME render.epoch >= boundary
         PROVE  FreshAt(render'.last, boundary) /\ FreshAt(render'.tail, boundary)
    BY <1>2, <2>7, <2>10 DEF RenderIsFresh, Fresh, FreshAt
  <2>11. RenderIsFresh'
    BY <1>2, <2>1, <2>2, <2>7, <2>8, <2>9, <2>10 DEF RenderIsFresh, Fresh, FreshAt
  <2>. QED BY <1>3, <1>4, <2>1, <2>11
<1>13. CASE PlaybackGet /\ Playback!GetPublish
  <2>. DEFINE q2 == [pb EXCEPT !.read = (@ + 1) % INDEX]
              g2 == [pbGet EXCEPT !.pc = "idle", !.copy = Silence, !.x = pbGet.copy]
  <2>1. pbGet.pc = "publish" /\ pb' = q2 /\ pbGet' = g2 /\ pbPut' = pbPut /\ UNCHANGED render
    BY <1>13 DEF PlaybackGet, Playback!GetPublish, Playback!Silence, Silence
  <2>2. g2.pc = "idle" /\ Filling(q2) = Filling(pb)
    BY <1>1, <2>1, GetTakes
  <2>3. WaitingIsFresh(pb, pbGet, boundary) =>
          WaitingIsFresh(q2, g2, boundary) /\ FreshAt(g2.x, boundary)
    BY <1>1, <2>1, TakeKeepsFresh
  <2>. HIDE DEF q2, g2
  <2>4. Filling(pb)' = Filling(pb)
    BY <2>1, <2>2
  <2>5. WaitingIsFresh(pb, pbGet, boundary)' <=> WaitingIsFresh(q2, g2, boundary)
    BY <2>1
  <2>6. RenderIsFresh'
    BY <1>2, <2>1, <2>2, <2>3, <2>5 DEF RenderIsFresh, Fresh
  <2>. QED BY <1>3, <2>1, <2>4, <2>6
<1>14. CASE PlaybackGet /\ Playback!DiscardStore
  <2>. DEFINE q2 == [pb EXCEPT !.read = pbGet.w]
              g2 == [pbGet EXCEPT !.pc = "idle", !.w = 0]
  <2>1. pbGet.pc = "discard" /\ pb' = q2 /\ pbGet' = g2 /\ pbPut' = pbPut /\ UNCHANGED render
    BY <1>14 DEF PlaybackGet, Playback!DiscardStore
  <2>2. g2.pc = "idle" /\ g2.x = pbGet.x /\ Filling(q2) = Filling(pb)
    BY <1>1, <2>1, DiscardDrops
  <2>3. WaitingIsFresh(pb, pbGet, boundary) => WaitingIsFresh(q2, g2, boundary)
    BY <1>1, <2>1, DropKeepsFresh
  <2>. HIDE DEF q2, g2
  <2>4. Filling(pb)' = Filling(pb)
    BY <2>1, <2>2
  <2>5. WaitingIsFresh(pb, pbGet, boundary)' <=> WaitingIsFresh(q2, g2, boundary)
    BY <2>1
  <2>6. RenderIsFresh'
    BY <1>2, <2>1, <2>2, <2>3, <2>5 DEF RenderIsFresh, Fresh
  <2>. QED BY <1>3, <2>1, <2>4, <2>6
<1>. QED BY <1>7, <1>8, <1>9, <1>10, <1>11, <1>12, <1>13, <1>14
         DEF Render, PlaybackGet, Playback!GetStep

LEMMA OthersKeepFresh ==
  ASSUME IInv, UNCHANGED <<pbvars, guest, render, boundary>>
  PROVE  GuestIsFresh' /\ RenderIsFresh'
BY DEF IInv, GuestIsFresh, RenderIsFresh, Fresh, pbvars

(* "queued sound from the old kernel must not cross that boundary"         *)
(* (VMEngine.m): once vm_audio_render has seen the epoch of a pause, a     *)
(* resume or a replaced board, nothing recorded before it is played again. *)
THEOREM OldSoundIsGone == Spec => []NoSoundFromBefore
<1>1. Init => IInv
  <2>. SUFFICES ASSUME Init PROVE IInv
    OBVIOUS
  <2>1. /\ Typed /\ Queues /\ ItemsOf(pb) = <<>> /\ pbGet.x = Silence
    BY InitHolds
  <2>2. /\ pbPut = "idle" /\ pbGet.pc = "idle" /\ guest.pc = "idle" /\ guest.output = NoResampler
        /\ render.pc = "idle" /\ render.last = Silence /\ render.tail = Silence
    BY DEF Init, Playback!QInit
  <2>3. UsedOf(pb) = 0
    BY <2>1, EmptyQueue DEF Queues, QueueInv
  <2>4. WaitingIsFresh(pb, pbGet, boundary)
    BY <2>3 DEF WaitingIsFresh
  <2>. QED BY <2>1, <2>2, <2>4, Cleared DEF IInv, GuestIsFresh, RenderIsFresh, Fresh, FreshAt
<1>2. IInv /\ [Next]_vars => IInv'
  <2>. SUFFICES ASSUME IInv, [Next]_vars PROVE IInv'
    OBVIOUS
  <2>1. Typed' /\ Queues'
    BY NextKeeps, NextMovesQueues DEF IInv
  <2>2. CASE Guest
    BY <2>1, <2>2, GuestKeepsFresh DEF IInv
  <2>3. CASE Render /\ UNCHANGED use
    BY <2>1, <2>3, RenderSteps, RenderKeepsFresh DEF IInv
  <2>4. CASE Tap /\ UNCHANGED use
    BY <2>1, <2>4, TapSteps, OthersKeepFresh DEF IInv
  <2>5. CASE Main /\ UNCHANGED use
    BY <2>1, <2>5, MainSteps, OthersKeepFresh DEF IInv
  <2>6. CASE UNCHANGED vars
    <3>1. UNCHANGED <<pbvars, guest, render, boundary>>
      BY <2>6 DEF vars, pbvars
    <3>. QED BY <2>1, <3>1, OthersKeepFresh DEF IInv
  <2>. QED BY <2>2, <2>3, <2>4, <2>5, <2>6 DEF Next
<1>3. IInv => NoSoundFromBefore
  BY DEF IInv, RenderIsFresh, Fresh, FreshAt, NoSoundFromBefore
<1>. QED BY <1>1, <1>2, <1>3, PTL DEF Spec
=============================================================================
