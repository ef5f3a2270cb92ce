-------------------------- MODULE UsbServicesProof --------------------------
(***************************************************************************)
(* Proofs about UsbServices: who owns a channel of the mux                 *)
(* (ChannelsAreSound), which session the two ends of the cable are in      *)
(* (SessionsDoAgree) and that both windows of every stream are kept        *)
(* (WindowsAreKept), for any number of clients, channels, guest streams    *)
(* and faults.                                                             *)
(*                                                                         *)
(* One turn of the emulator thread feeds the mux a batch of frames, lets   *)
(* it produce a frame, and serves each connection of the list.  Two of     *)
(* these are folds over a sequence; a fold is replaced by its run, the     *)
(* value after each element (FeedRun, PollRun), and a property of the      *)
(* parts is carried along the run (FeedLoop, PollLoop).  Below that there  *)
(* is a lemma for each operation of UsbMux.                                *)
(*                                                                         *)
(* The first part proves Inv1, about channels and sessions; the second     *)
(* Inv2, about the bytes and acknowledgements of each stream that are      *)
(* under way.                                                              *)
(***************************************************************************)
EXTENDS UsbServices, TLAPS, WellFoundedInduction

---------------------------------------
(* The inductive invariant.  Its parts have the mux m, the connections C, *)
(* the list L, the sockets K, the guest's frames gi and the frame go handed *)
(* to the guest as parameters: one turn of the emulator thread changes *)
(* them in several steps, and each step keeps the parts. *)

UpBytes == [from : Opens, i : Nat]
DownBytes == [session : Nat, port : Ports, i : Nat]

UpTo(S, n) == {s \in Seq(S) : Len(s) <= n}

Live == {"CONNECT", "SYN_SENT", "OPEN", "ERROR"}

Whys == {"none", "link", "reset", "flags", "ack", "order", "window", "handshake"}

Channels ==
    [state : Live \cup {"UNUSED", "CLOSING", "CLOSED"}, local : 0..(PORTS - 1),
     remote : {0, Service}, send_next : 0..(SEQ - 1), send_acked : 0..(SEQ - 1),
     receive_next : 0..(SEQ - 1), peer_window : Int, receive : UpTo(DownBytes, RX_SIZE),
     send : UpTo(UpBytes, TX_SIZE), ack_pending : BOOLEAN, why : Whys, sent : Nat]

HostTcp ==
    {h \in [kind : {"tcp"}, session : Nat \ {0}, local : Ports, remote : {Service},
            flags : {"syn", "rst", "ack"}, seq : 0..(SEQ - 1), ack : 0..(SEQ - 1),
            window : Int, data : Seq(UpBytes)] :
       /\ h.flags # "ack" => h.data = <<>>
       /\ h.window <= RX_SIZE}

HostFrames ==
    {NoFrame} \cup [kind : {"version", "setup"}, session : Nat \ {0}] \cup HostTcp

GuestTcp ==
    {g \in [kind : {"tcp"}, session : Nat \ {0}, local : Ports, remote : {Service},
            flags : {"synack", "rst", "ack"}, seq : 0..(SEQ - 1), ack : 0..(SEQ - 1),
            data : Seq(DownBytes), sent : Nat, window : Int] :
       /\ g.flags # "ack" => g.data = <<>>
       /\ g.window <= GUEST_WINDOW
       /\ g.flags = "synack" => g.seq = GUEST_ISN
       /\ g.flags = "ack" => g.seq = (GUEST_ISN + 1 + g.sent) % SEQ
       /\ \A j \in 1..Len(g.data) :
            g.data[j] = [session |-> g.session, port |-> g.local, i |-> g.sent + j]}

GuestFrames ==
    [kind : {"version"}, session : Nat \ {0}, version : Versions]
    \cup [kind : {"control"}, session : Nat \ {0}, notice : BOOLEAN]
    \cup GuestTcp

Muxes ==
    [stage : {"SEND_VERSION", "WAIT_VERSION", "SEND_SETUP", "WAIT_SETUP", "ACTIVE"},
     next_port : 0..(PORTS - 1), round_robin : Slots, transmit : HostFrames,
     channel : [Slots -> Channels], session : Nat \ {0}]

Conns ==
    [thread : {"new", "waiting", "using", "failed", "closed"}, chan : Slots \cup {-1},
     ready : BOOLEAN, canceled : BOOLEAN, error : Whys \cup {"ended"}, fd : BOOLEAN, sent : Nat]

Pipes == [up : UpTo(UpBytes, SOCKET), down : UpTo(DownBytes, SOCKET)]

Hosts ==
    [stage : {"OFF", "WAIT_DEVICE", "WAIT_RESET", "WAIT_ENUM", "DEVICE", "ADDRESS",
              "CONFIG_HEAD", "CONFIG_BODY", "CONFIG_SET", "READY"},
     control : {"IDLE", "SETUP", "DATA", "STATUS"}, gen : Nat, index : Nat, attached : BOOLEAN]

Devices ==
    [gen : Nat, armed : BOOLEAN, reset : BOOLEAN, enum : BOOLEAN, enumerated : BOOLEAN,
     address : BOOLEAN, unplugged : BOOLEAN]

StreamRecords ==
    [state : {"none", "open", "gone"}, sent : Nat, acked : 0..(SEQ - 1), window : Int,
     next : 0..(SEQ - 1), buffer : Seq(UpBytes), taken : Seq(UpBytes), owes : BOOLEAN]

Streams ==
    {s \in StreamRecords :
       s.state # "open" => s.sent = 0 /\ s.buffer = <<>> /\ s.taken = <<>>}

Guests == [session : Nat, stream : [Ports -> Streams]]

Typed(m, C, L, K, gi, go) ==
    /\ m = NoMux \/ m \in Muxes
    /\ C \in [Opens -> Conns]
    /\ L \in Seq(Opens)
    /\ K \in [Opens -> Pipes]
    /\ gi \in UpTo(GuestFrames, MaxQueue)
    /\ go \in HostFrames

TypedRest ==
    /\ accepting \in BOOLEAN
    /\ wrote \in [Opens -> Nat]
    /\ got \in [Opens -> Seq(DownBytes)]
    /\ host \in Hosts
    /\ host.control # "IDLE" =>
         host.stage \in {"DEVICE", "ADDRESS", "CONFIG_HEAD", "CONFIG_BODY", "CONFIG_SET"}
    /\ dev \in Devices
    /\ guest \in Guests
    /\ guest.session = 0 => guest = NoSession
    /\ faults \in 0..MaxFaults

Owned(m, C, L) ==
    /\ IsInjective(L) /\ Len(L) <= USB_MUX_CHANNELS
    /\ \A k \in Opens : C[k].canceled => C[k].thread \in {"closed", "failed"}
    /\ \A k \in ToSet(L) :
         /\ C[k].thread # "new" /\ C[k].error = "none" /\ (C[k].fd \/ C[k].thread = "failed")
         /\ C[k].chan # -1 => m # NoMux /\ m.channel[C[k].chan].state \in Live
    /\ m # NoMux => \A i \in Slots :
         m.channel[i].state \in Live => \E k \in ToSet(L) : C[k].chan = i
    /\ \A j, k \in ToSet(L) : j # k /\ C[j].chan = C[k].chan => C[j].chan = -1

Numbered(m) ==
    m # NoMux => \A i \in Slots :
      /\ m.channel[i].state = "UNUSED" => m.channel[i] = FreshChannel
      /\ m.channel[i].state # "UNUSED" =>
           /\ m.channel[i].local \in Ports /\ m.channel[i].remote = Service
           /\ m.next_port # 0 => m.channel[i].local < m.next_port
           /\ \A j \in Slots : m.channel[j].state # "UNUSED" /\ j # i =>
                 m.channel[j].local # m.channel[i].local

\* the cable: the host's view against the controller's
Same == host.gen = dev.gen

Cabled ==
    /\ host.attached => host.gen <= dev.gen /\ ~dev.unplugged
    /\ host.stage = "OFF" => ~host.attached

Linked(m, gi, go) ==
    /\ go # NoFrame => dev.address
    /\ go.kind \in {"setup", "tcp"} => go.session = guest.session
    /\ m = NoMux => \/ host.stage = "OFF"
                    \/ /\ gi = <<>> /\ go = NoFrame
                       /\ dev.unplugged \/ guest = NoSession
    /\ m # NoMux =>
         /\ host.attached /\ host.stage = "READY"
         /\ ~Same => gi = <<>> /\ go = NoFrame /\ guest = NoSession
         /\ Same =>
              /\ dev.address
              /\ \A j \in 1..Len(gi) : gi[j].session = m.session
              /\ gi # <<>> => guest.session = m.session
              /\ go # NoFrame => go.session = m.session
              /\ guest.session # 0 => guest.session = m.session
         /\ m.transmit # NoFrame => m.transmit.session = m.session
         /\ Same /\ (m.stage \in {"SEND_SETUP", "WAIT_SETUP", "ACTIVE"}
                     \/ m.transmit.kind \in {"setup", "tcp"}) =>
              guest.session = m.session

Inv1 ==
    /\ Typed(mux, conn, list, sock, gin, gout) /\ TypedRest
    /\ Owned(mux, conn, list) /\ Numbered(mux) /\ Cabled /\ Linked(mux, gin, gout)

---------------------------------------
(* Folds over a sequence.  The operators that the model folds are written *)
(* out here as one step, so that a fold has a run: its value after each *)
(* element. *)

LEMMA Least ==
  ASSUME NEW T, T \subseteq Nat, T # {}
  PROVE  \E m \in T : \A j \in T : m <= j
<1>. DEFINE R == OpToRel(<, Nat)
<1>1. \A j, m \in Nat : j < m => <<j, m>> \in R BY DEF OpToRel
<1>2. IsWellFoundedOn(R, Nat) BY NatLessThanWellFounded, Zenon
<1>. HIDE DEF R
<1>3. PICK m \in T : \A j \in T : ~(<<j, m>> \in R) BY <1>2, WFMin, Zenon
<1>4. \A j \in T : m <= j
  <2>1. ASSUME NEW j \in T PROVE m <= j
    <3>1. j \in Nat /\ m \in Nat /\ ~(j < m) BY <1>1, <1>3
    <3>. QED BY <3>1
  <2>. QED BY <2>1
<1>. QED BY <1>4

LEMMA Induct ==
  ASSUME NEW T, 0 \in T, \A m \in Nat : m \in T => m + 1 \in T
  PROVE  Nat \subseteq T
<1> DEFINE B == {m \in Nat : m \notin T}
<1> SUFFICES ASSUME B # {} PROVE FALSE
  OBVIOUS
<1>1. PICK m \in B : \A j \in B : m <= j BY Least
<1>2. m - 1 \in Nat /\ m - 1 \notin B BY <1>1
<1> QED BY <1>1, <1>2

LEMMA MaxOf == ASSUME NEW n \in Nat, NEW s \in SUBSET (1..n), n \in s PROVE Max(s) = n
<1> DEFINE P(x) == x \in s /\ \A y \in s : x >= y
<1>1. P(n) OBVIOUS
<1>2. \A x : P(x) => x = n OBVIOUS
<1>3. Max(s) = CHOOSE x : P(x) BY DEF Max
<1> HIDE DEF P
<1> QED BY <1>1, <1>2, <1>3

Step(what, ks, a, b) ==
  CASE what = "feed" -> input_frame(a, b)
    [] what = "poll" -> PollOne(a, b)
    [] OTHER -> IF b \in ks THEN a ELSE Append(a, b)

Folded(what, ks, g, base, s, n) ==
  /\ g \in [SUBSET (1..n) -> {g[d] : d \in SUBSET (1..n)}]
  /\ \A d \in SUBSET (1..n) :
       g[d] = IF d = {} THEN base ELSE Step(what, ks, g[d \ {Max(d)}], s[Max(d)])

LEMMA FoldExists ==
  ASSUME NEW what, NEW ks, NEW base, NEW q, NEW n \in Nat
  PROVE \E g : Folded(what, ks, g, base, q, n)
<1> DEFINE Has(m) == \E g : g = [d \in SUBSET (1..m) |-> IF d = {} THEN base ELSE Step(what, ks, g[d \ {Max(d)}], q[Max(d)])]
<1>1. Has(0)
  <2> DEFINE g == [d \in SUBSET (1..0) |-> base]
  <2>0. \A d \in SUBSET (1..0) : d = {} OBVIOUS
  <2>1. g = [d \in SUBSET (1..0) |-> IF d = {} THEN base ELSE Step(what, ks, g[d \ {Max(d)}], q[Max(d)])]
    BY <2>0
  <2> QED BY <2>1
<1>2. ASSUME NEW m \in Nat, Has(m) PROVE Has(m + 1)
  <2>1. PICK g : g = [d \in SUBSET (1..m) |-> IF d = {} THEN base ELSE Step(what, ks, g[d \ {Max(d)}], q[Max(d)])]
    BY <1>2
  <2> DEFINE h == [d \in SUBSET (1..m+1) |-> IF m+1 \in d THEN Step(what, ks, g[d \ {m+1}], q[m+1]) ELSE g[d]]
  <2>2. ASSUME NEW d \in SUBSET (1..m+1)
        PROVE  h[d] = IF d = {} THEN base ELSE Step(what, ks, h[d \ {Max(d)}], q[Max(d)])
    <3>1. CASE m + 1 \in d
      <4>1. Max(d) = m + 1 BY <3>1, MaxOf
      <4>2. d \ {m+1} \in SUBSET (1..m) /\ m+1 \notin d \ {m+1} OBVIOUS
      <4>3. d \ {m+1} \in SUBSET (1..m+1) OBVIOUS
      <4> QED BY <3>1, <4>1, <4>2, <4>3
    <3>2. CASE m + 1 \notin d
      <4>1. d \in SUBSET (1..m) BY <3>2
      <4>2. \A x : d \ {x} \subseteq (1..m) /\ m+1 \notin d \ {x} /\ d \ {x} \subseteq (1..m+1)
        BY <4>1, <3>2
      <4>3. d \ {Max(d)} \in SUBSET (1..m) /\ m+1 \notin d \ {Max(d)} /\ d \ {Max(d)} \in SUBSET (1..m+1)
        BY <4>2
      <4>4. h[d] = g[d] /\ h[d \ {Max(d)}] = g[d \ {Max(d)}] BY <4>3, <3>2
      <4> QED BY <4>1, <4>4, <2>1
    <3> QED BY <3>1, <3>2
  <2>3. h = [d \in SUBSET (1..m+1) |-> IF d = {} THEN base ELSE Step(what, ks, h[d \ {Max(d)}], q[Max(d)])]
    BY <2>2
  <2> QED BY <2>3
<1> HIDE DEF Has
<1>3. \A m \in Nat : Has(m)
  <2> DEFINE T == {m \in Nat : Has(m)}
  <2>1. 0 \in T /\ \A m \in Nat : m \in T => m + 1 \in T BY <1>1, <1>2
  <2> HIDE DEF T
  <2>2. Nat \subseteq T BY <2>1, Induct
  <2> QED BY <2>2 DEF T
<1>4. Has(n) BY <1>3
<1>5. PICK g : g = [d \in SUBSET (1..n) |-> IF d = {} THEN base ELSE Step(what, ks, g[d \ {Max(d)}], q[Max(d)])]
  BY <1>4 DEF Has
<1>6. g \in [SUBSET (1..n) -> {g[d] : d \in SUBSET (1..n)}] BY <1>5
<1>7. \A d \in SUBSET (1..n) : g[d] = IF d = {} THEN base ELSE Step(what, ks, g[d \ {Max(d)}], q[Max(d)])
  BY <1>5
<1> QED BY <1>6, <1>7 DEF Folded

LEMMA FeedRun ==
  ASSUME NEW base, NEW q, NEW S, q \in Seq(S)
  PROVE \E run : /\ run[0] = base
                 /\ \A i \in 1..Len(q) : run[i] = input_frame(run[i-1], q[i])
                 /\ usb_mux_feed(base, q) = run[Len(q)]
<1> DEFINE D == DOMAIN q
<1> DEFINE it == CHOOSE iter : iter = [d \in SUBSET D |-> IF d = {} THEN base ELSE input_frame(iter[d \ {Max(d)}], q[Max(d)])]
<1>0. Len(q) \in Nat /\ D = 1..Len(q) OBVIOUS
<1>2. usb_mux_feed(base, q) = it[D] BY DEF usb_mux_feed, FoldLeft, MapThenFoldSet
<1>1. it = [d \in SUBSET D |-> IF d = {} THEN base ELSE input_frame(it[d \ {Max(d)}], q[Max(d)])]
  <2>1. \E g : g = [d \in SUBSET D |-> IF d = {} THEN base ELSE input_frame(g[d \ {Max(d)}], q[Max(d)])]
    <3> HIDE DEF D
    <3>1. PICK g : Folded("feed", {}, g, base, q, Len(q)) BY FoldExists, <1>0
    <3>2. g = [d \in SUBSET D |-> IF d = {} THEN base ELSE input_frame(g[d \ {Max(d)}], q[Max(d)])]
      BY <3>1, <1>0 DEF Folded, Step
    <3> QED BY <3>2
  <2> HIDE DEF D
  <2> QED BY <2>1
<1> HIDE DEF it, D
<1> DEFINE run == [i \in 0..Len(q) |-> it[1..i]]
<1>3. run[0] = base
  <2>1. 1..0 = {} /\ {} \in SUBSET D OBVIOUS
  <2>2. it[{}] = base BY <1>1, <2>1
  <2>3. run[0] = it[1..0] BY <1>0
  <2> QED BY <2>1, <2>2, <2>3
<1>4. ASSUME NEW i \in 1..Len(q) PROVE run[i] = input_frame(run[i-1], q[i])
  <2>1. 1..i \in SUBSET D /\ 1..i # {}
    <3>1. i \in 1..i BY <1>0
    <3>2. 1..i \subseteq 1..Len(q) BY <1>0
    <3> QED BY <3>1, <3>2, <1>0
  <2>5. i - 1 \in 0..Len(q) /\ i \in 0..Len(q) BY <1>0
  <2>2. Max(1..i) = i BY MaxOf, <1>0
  <2>3. (1..i) \ {i} = 1..(i-1) BY <1>0
  <2>4. it[1..i] = input_frame(it[(1..i) \ {i}], q[i]) BY <1>1, <2>1, <2>2
  <2> QED BY <2>4, <2>3, <2>5
<1>5. run[Len(q)] = it[D] BY <1>0
<1> HIDE DEF run
<1> QED BY <1>2, <1>3, <1>4, <1>5

LEMMA PollRun ==
  ASSUME NEW base, NEW q, NEW S, q \in Seq(S)
  PROVE \E run : /\ run[0] = base
                 /\ \A i \in 1..Len(q) : run[i] = PollOne(run[i-1], q[i])
                 /\ FoldLeft(PollOne, base, q) = run[Len(q)]
<1> DEFINE D == DOMAIN q
<1> DEFINE it == CHOOSE iter : iter = [d \in SUBSET D |-> IF d = {} THEN base ELSE PollOne(iter[d \ {Max(d)}], q[Max(d)])]
<1>0. Len(q) \in Nat /\ D = 1..Len(q) OBVIOUS
<1>2. FoldLeft(PollOne, base, q) = it[D] BY DEF FoldLeft, MapThenFoldSet
<1>1. it = [d \in SUBSET D |-> IF d = {} THEN base ELSE PollOne(it[d \ {Max(d)}], q[Max(d)])]
  <2>1. \E g : g = [d \in SUBSET D |-> IF d = {} THEN base ELSE PollOne(g[d \ {Max(d)}], q[Max(d)])]
    <3> HIDE DEF D
    <3>1. PICK g : Folded("poll", {}, g, base, q, Len(q)) BY FoldExists, <1>0
    <3>2. g = [d \in SUBSET D |-> IF d = {} THEN base ELSE PollOne(g[d \ {Max(d)}], q[Max(d)])]
      BY <3>1, <1>0 DEF Folded, Step
    <3> QED BY <3>2
  <2> HIDE DEF D
  <2> QED BY <2>1
<1> HIDE DEF it, D
<1> DEFINE run == [i \in 0..Len(q) |-> it[1..i]]
<1>3. run[0] = base
  <2>1. 1..0 = {} /\ {} \in SUBSET D OBVIOUS
  <2>2. it[{}] = base BY <1>1, <2>1
  <2>3. run[0] = it[1..0] BY <1>0
  <2> QED BY <2>1, <2>2, <2>3
<1>4. ASSUME NEW i \in 1..Len(q) PROVE run[i] = PollOne(run[i-1], q[i])
  <2>1. 1..i \in SUBSET D /\ 1..i # {}
    <3>1. i \in 1..i BY <1>0
    <3>2. 1..i \subseteq 1..Len(q) BY <1>0
    <3> QED BY <3>1, <3>2, <1>0
  <2>5. i - 1 \in 0..Len(q) /\ i \in 0..Len(q) BY <1>0
  <2>2. Max(1..i) = i BY MaxOf, <1>0
  <2>3. (1..i) \ {i} = 1..(i-1) BY <1>0
  <2>4. it[1..i] = PollOne(it[(1..i) \ {i}], q[i]) BY <1>1, <2>1, <2>2
  <2> QED BY <2>4, <2>3, <2>5
<1>5. run[Len(q)] = it[D] BY <1>0
<1> HIDE DEF run
<1> QED BY <1>2, <1>3, <1>4, <1>5

LEMMA WithoutRun ==
  ASSUME NEW ks, NEW q, NEW S, q \in Seq(S)
  PROVE \E run : /\ run[0] = <<>>
                 /\ \A i \in 1..Len(q) : run[i] = (IF q[i] \in ks THEN run[i-1] ELSE Append(run[i-1], q[i]))
                 /\ Without(q, ks) = run[Len(q)]
<1> DEFINE D == DOMAIN q
<1> DEFINE it == CHOOSE iter : iter = [d \in SUBSET D |-> IF d = {} THEN <<>> ELSE (IF q[Max(d)] \in ks THEN iter[d \ {Max(d)}] ELSE Append(iter[d \ {Max(d)}], q[Max(d)]))]
<1>0. Len(q) \in Nat /\ D = 1..Len(q) OBVIOUS
<1>2. Without(q, ks) = it[D] BY DEF Without, FoldLeft, MapThenFoldSet
<1>1. it = [d \in SUBSET D |-> IF d = {} THEN <<>> ELSE (IF q[Max(d)] \in ks THEN it[d \ {Max(d)}] ELSE Append(it[d \ {Max(d)}], q[Max(d)]))]
  <2>1. \E g : g = [d \in SUBSET D |-> IF d = {} THEN <<>> ELSE (IF q[Max(d)] \in ks THEN g[d \ {Max(d)}] ELSE Append(g[d \ {Max(d)}], q[Max(d)]))]
    <3> HIDE DEF D
    <3>1. PICK g : Folded("keep", ks, g, <<>>, q, Len(q)) BY FoldExists, <1>0
    <3>2. g = [d \in SUBSET D |-> IF d = {} THEN <<>> ELSE (IF q[Max(d)] \in ks THEN g[d \ {Max(d)}] ELSE Append(g[d \ {Max(d)}], q[Max(d)]))]
      BY <3>1, <1>0 DEF Folded, Step
    <3> QED BY <3>2
  <2> HIDE DEF D
  <2> QED BY <2>1
<1> HIDE DEF it, D
<1> DEFINE run == [i \in 0..Len(q) |-> it[1..i]]
<1>3. run[0] = <<>>
  <2>1. 1..0 = {} /\ {} \in SUBSET D OBVIOUS
  <2>2. it[{}] = <<>> BY <1>1, <2>1
  <2>3. run[0] = it[1..0] BY <1>0
  <2> QED BY <2>1, <2>2, <2>3
<1>4. ASSUME NEW i \in 1..Len(q) PROVE run[i] = (IF q[i] \in ks THEN run[i-1] ELSE Append(run[i-1], q[i]))
  <2>1. 1..i \in SUBSET D /\ 1..i # {}
    <3>1. i \in 1..i BY <1>0
    <3>2. 1..i \subseteq 1..Len(q) BY <1>0
    <3> QED BY <3>1, <3>2, <1>0
  <2>5. i - 1 \in 0..Len(q) /\ i \in 0..Len(q) BY <1>0
  <2>2. Max(1..i) = i BY MaxOf, <1>0
  <2>3. (1..i) \ {i} = 1..(i-1) BY <1>0
  <2>4. it[1..i] = (IF q[i] \in ks THEN it[(1..i) \ {i}] ELSE Append(it[(1..i) \ {i}], q[i]))
    BY <1>1, <2>1, <2>2
  <2> QED BY <2>4, <2>3, <2>5
<1>5. run[Len(q)] = it[D] BY <1>0
<1> HIDE DEF run
<1> QED BY <1>2, <1>3, <1>4, <1>5

---------------------------------------
(* Sequences. *)

LEMMA AppendFacts ==
  ASSUME NEW S, NEW s \in Seq(S), NEW e \in S
  PROVE  /\ Append(s, e) \in Seq(S) /\ Len(Append(s, e)) = Len(s) + 1 /\ Append(s, e) # <<>>
         /\ \A j \in 1..(Len(s) + 1) : Append(s, e)[j] = IF j <= Len(s) THEN s[j] ELSE e
         /\ ToSet(Append(s, e)) = ToSet(s) \cup {e}
         /\ IsInjective(s) /\ e \notin ToSet(s) => IsInjective(Append(s, e))
<1> DEFINE t == Append(s, e)
<1>1. t \in Seq(S) /\ Len(t) = Len(s) + 1 /\ Len(s) \in Nat OBVIOUS
<1>2. DOMAIN t = 1..(Len(s) + 1) /\ DOMAIN s = 1..Len(s) OBVIOUS
<1>3. \A j \in 1..(Len(s) + 1) : t[j] = IF j <= Len(s) THEN s[j] ELSE e OBVIOUS
<1> HIDE DEF t
<1>4. ToSet(t) = ToSet(s) \cup {e} BY <1>1, <1>2, <1>3 DEF ToSet
<1>5. IsInjective(s) /\ e \notin ToSet(s) => IsInjective(t)
  BY <1>1, <1>2, <1>3 DEF ToSet, IsInjective
<1>6. t # <<>> BY <1>1
<1> QED BY <1>1, <1>3, <1>4, <1>5, <1>6 DEF t

LEMMA ToSetIn ==
  ASSUME NEW S, NEW s \in Seq(S)
  PROVE  /\ ToSet(s) \subseteq S
         /\ \A x \in ToSet(s) : \E j \in 1..Len(s) : s[j] = x
         /\ \A j \in 1..Len(s) : s[j] \in ToSet(s)
BY DEF ToSet

LEMMA WithoutFacts ==
  ASSUME NEW l \in Seq(Opens), NEW ks, IsInjective(l)
  PROVE  /\ Without(l, ks) \in Seq(Opens) /\ IsInjective(Without(l, ks))
         /\ ToSet(Without(l, ks)) = ToSet(l) \ ks
         /\ Len(Without(l, ks)) <= Len(l)
<1>1. PICK run : /\ run[0] = <<>>
                 /\ \A i \in 1..Len(l) :
                      run[i] = (IF l[i] \in ks THEN run[i - 1] ELSE Append(run[i - 1], l[i]))
                 /\ Without(l, ks) = run[Len(l)]
  BY WithoutRun
<1>2. Len(l) \in Nat /\ \A j \in 1..Len(l) : l[j] \in Opens OBVIOUS
<1>3. \A i, j \in 1..Len(l) : l[i] = l[j] => i = j BY DEF IsInjective
<1> DEFINE Good(n) == /\ run[n] \in Seq(Opens) /\ IsInjective(run[n])
                      /\ ToSet(run[n]) = {l[j] : j \in 1..n} \ ks /\ Len(run[n]) <= n
<1>4. Good(0)
  <2>1. <<>> \in Seq(Opens) /\ IsInjective(<<>>) /\ ToSet(<<>>) = {} /\ Len(<<>>) = 0
    BY DEF IsInjective, ToSet
  <2>2. {l[j] : j \in 1..0} = {} OBVIOUS
  <2> QED BY <1>1, <2>1, <2>2
<1>5. ASSUME NEW n \in Nat, n + 1 <= Len(l), Good(n) PROVE Good(n + 1)
  <2> DEFINE e == l[n + 1]
  <2>1. n + 1 \in 1..Len(l) /\ n + 1 - 1 = n /\ e \in Opens BY <1>2, <1>5
  <2>2. {l[j] : j \in 1..(n + 1)} = {l[j] : j \in 1..n} \cup {e}
    <3>1. 1..(n + 1) = 1..n \cup {n + 1} OBVIOUS
    <3> QED BY <3>1
  <2>3. e \notin {l[j] : j \in 1..n}
    <3>1. \A j \in 1..n : j \in 1..Len(l) /\ j # n + 1 BY <1>2, <2>1
    <3> QED BY <3>1, <2>1, <1>3
  <2>4. run[n + 1] = IF e \in ks THEN run[n] ELSE Append(run[n], e) BY <1>1, <2>1
  <2> HIDE DEF e
  <2>5. CASE e \in ks
    <3>1. run[n] \in Seq(Opens) /\ Len(run[n]) \in Nat BY <1>5
    <3>2. {l[j] : j \in 1..(n + 1)} \ ks = {l[j] : j \in 1..n} \ ks BY <2>5, <2>2
    <3> QED BY <2>5, <2>4, <3>1, <3>2, <1>5
  <2>6. CASE e \notin ks
    <3>1. e \notin ToSet(run[n]) BY <2>3, <1>5
    <3>2. /\ Append(run[n], e) \in Seq(Opens) /\ Len(Append(run[n], e)) = Len(run[n]) + 1
          /\ ToSet(Append(run[n], e)) = ToSet(run[n]) \cup {e}
          /\ IsInjective(Append(run[n], e))
      BY AppendFacts, <2>1, <1>5, <3>1
    <3>3. run[n] \in Seq(Opens) /\ Len(run[n]) \in Nat BY <1>5
    <3>4. {l[j] : j \in 1..(n + 1)} \ ks = ({l[j] : j \in 1..n} \ ks) \cup {e} BY <2>6, <2>2
    <3>5. run[n + 1] = Append(run[n], e) BY <2>6, <2>4
    <3>6. ToSet(run[n + 1]) = {l[j] : j \in 1..(n + 1)} \ ks BY <1>5, <3>2, <3>4, <3>5
    <3>7. Len(run[n + 1]) <= n + 1 BY <1>5, <3>2, <3>3, <3>5
    <3> QED BY <3>2, <3>5, <3>6, <3>7
  <2> QED BY <2>5, <2>6
<1> DEFINE T == {n \in Nat : n <= Len(l) => Good(n)}
<1>6. 0 \in T /\ \A n \in Nat : n \in T => n + 1 \in T
  <2>1. \A n \in Nat : n + 1 <= Len(l) => n <= Len(l) BY <1>2
  <2> HIDE DEF Good
  <2> QED BY <1>4, <1>5, <2>1
<1> HIDE DEF T
<1>7. Nat \subseteq T BY <1>6, Induct
<1>8. Good(Len(l))
  <2>1. Len(l) \in T /\ Len(l) <= Len(l) BY <1>7, <1>2
  <2> QED BY <2>1 DEF T
<1>9. ToSet(l) = {l[j] : j \in 1..Len(l)} BY DEF ToSet
<1> QED BY <1>8, <1>9, <1>1

---------------------------------------
(* Numbers modulo a constant. *)

LEMMA DivMod ==
  ASSUME NEW a \in Int, NEW b \in Nat \ {0}
  PROVE  /\ a \div b \in Int /\ a % b \in 0..(b - 1)
         /\ a = b * (a \div b) + (a % b)
<1>1. a \div b \in Int OBVIOUS
<1>2. a % b \in 0..(b - 1) OBVIOUS
<1>3. a = b * (a \div b) + (a % b) OBVIOUS
<1> QED BY <1>1, <1>2, <1>3

LEMMA ModUnique ==
  ASSUME NEW a \in Int, NEW b \in Nat \ {0}, NEW q \in Int, NEW r \in 0..(b - 1), a = b * q + r
  PROVE  a % b = r
<1> DEFINE d == a \div b
           m == a % b
<1>1. d \in Int /\ m \in 0..(b - 1) /\ a = b * d + m BY DivMod
<1> HIDE DEF d, m
<1>2. ~(d >= q + 1)
  <2> SUFFICES ASSUME d >= q + 1 PROVE FALSE
    OBVIOUS
  <2>1. b * (d - q - 1) >= 0
    <3>1. d - q - 1 \in Nat BY <1>1
    <3> QED BY <3>1
  <2>2. b * (d - q - 1) = b * d - b * q - b BY <1>1
  <2> QED BY <1>1, <2>1, <2>2
<1>3. ~(q >= d + 1)
  <2> SUFFICES ASSUME q >= d + 1 PROVE FALSE
    OBVIOUS
  <2>1. b * (q - d - 1) >= 0
    <3>1. q - d - 1 \in Nat BY <1>1
    <3> QED BY <3>1
  <2>2. b * (q - d - 1) = b * q - b * d - b BY <1>1
  <2> QED BY <1>1, <2>1, <2>2
<1>4. d = q BY <1>1, <1>2, <1>3
<1> QED BY <1>1, <1>4 DEF m

LEMMA ModAdd ==
  ASSUME NEW a \in Int, NEW b \in Nat \ {0}, NEW d \in Int
  PROVE  ((a % b) + d) % b = (a + d) % b
<1> DEFINE m == a % b
           e == m + d
           r == e % b
           p == a \div b
           q == e \div b
<1>1. p \in Int /\ m \in 0..(b - 1) /\ a = b * p + m BY DivMod
<1>2. e \in Int BY <1>1
<1>3. q \in Int /\ r \in 0..(b - 1) /\ e = b * q + r BY <1>2, DivMod
<1>4. a + d \in Int /\ p + q \in Int /\ a + d = b * (p + q) + r
  <2>1. b * (p + q) = b * p + b * q BY <1>1, <1>3
  <2>2. e = m + d OBVIOUS
  <2> HIDE DEF m, e, r, p, q
  <2> QED BY <1>1, <1>2, <1>3, <2>1, <2>2
<1> HIDE DEF r, p, q
<1>5. (a + d) % b = r BY <1>3, <1>4, ModUnique
<1> QED BY <1>5 DEF r

---------------------------------------
(* The constants, and the pieces of sequences. *)

LEMMA Consts ==
  /\ USB_MUX_CHANNELS \in Nat \ {0} /\ RX_SIZE \in Nat \ {0} /\ TX_SIZE \in Nat \ {0}
  /\ MAX_PAYLOAD \in Nat \ {0} /\ WINDOW_UNIT \in Nat \ {0} /\ SEQ \in Nat \ {0}
  /\ PORTS \in Nat /\ PORTS > 1 /\ SOCKET \in Nat \ {0} /\ GUEST_WINDOW \in Nat \ {0}
  /\ MaxQueue \in Nat \ {0} /\ CONFIGS \in Nat \ {0} /\ MaxFaults \in Nat
  /\ GUEST_ISN \in 0..(SEQ - 1) /\ MUX_CONFIG \in Nat /\ Versions \subseteq {1, 2}
  /\ Up \in [Opens -> Nat] /\ Down \in [1..(PORTS - 1) -> Nat]
<1>1. /\ USB_MUX_CHANNELS \in Nat \ {0} /\ RX_SIZE \in Nat \ {0} /\ TX_SIZE \in Nat \ {0}
      /\ MAX_PAYLOAD \in Nat \ {0} /\ WINDOW_UNIT \in Nat \ {0} /\ PORTS \in Nat /\ PORTS > 1
  BY MuxAssumption
<1>2. SEQ \in Nat \ {0}
  <2>1. SEQ \in Nat /\ SEQ > 2 * RX_SIZE BY MuxAssumption
  <2> QED BY <1>1, <2>1
<1>3. /\ SOCKET \in Nat \ {0} /\ GUEST_WINDOW \in Nat \ {0} /\ MaxQueue \in Nat \ {0}
      /\ CONFIGS \in Nat \ {0} /\ MaxFaults \in Nat
  BY ServiceAssumption
<1>4. MUX_CONFIG \in Nat
  <2>1. MUX_CONFIG \in 0..(CONFIGS - 1) BY ServiceAssumption
  <2> QED BY <1>3, <2>1
<1>5. /\ GUEST_ISN \in 0..(SEQ - 1) /\ Versions \subseteq {1, 2}
      /\ Up \in [Opens -> Nat] /\ Down \in [1..(PORTS - 1) -> Nat]
  BY ServiceAssumption
<1> QED BY <1>1, <1>2, <1>3, <1>4, <1>5

LEMMA SlotFacts ==
  /\ 0 \in Slots /\ Slots \subseteq Nat /\ -1 \notin Slots
  /\ 0 \notin Ports /\ Ports \subseteq Nat /\ Ports \subseteq 0..(PORTS - 1)
  /\ 1 \in 0..(PORTS - 1) /\ 0 \in 0..(PORTS - 1) /\ 0 \in 0..(SEQ - 1)
BY Consts DEF Slots, Ports

LEMMA LeastIs ==
  ASSUME NEW S, S \subseteq Nat, S # {}
  PROVE  LeastOf(S) \in S /\ \A y \in S : LeastOf(S) <= y
<1>1. \E x \in S : \A y \in S : x <= y BY Least
<1> QED BY <1>1 DEF LeastOf

LEMMA WindowIs ==
  ASSUME NEW free \in Int
  PROVE  Window(free) \in Int /\ Window(free) <= free
<1>1. /\ free \div WINDOW_UNIT \in Int /\ free % WINDOW_UNIT \in 0..(WINDOW_UNIT - 1)
      /\ free = WINDOW_UNIT * (free \div WINDOW_UNIT) + (free % WINDOW_UNIT)
  BY DivMod, Consts
<1>2. Window(free) = WINDOW_UNIT * (free \div WINDOW_UNIT) BY <1>1, Consts DEF Window
<1> QED BY <1>1, <1>2, Consts

LEMMA MinusIs ==
  ASSUME NEW a \in Int, NEW b \in Int
  PROVE  Minus(a, b) \in 0..(SEQ - 1) /\ a % SEQ \in 0..(SEQ - 1)
<1>1. a - b \in Int OBVIOUS
<1> QED BY <1>1, DivMod, Consts DEF Minus

LEMMA FirstPart ==
  ASSUME NEW S, NEW s \in Seq(S), NEW n \in 0..Len(s)
  PROVE  /\ SubSeq(s, 1, n) \in Seq(S) /\ Len(SubSeq(s, 1, n)) = n
         /\ \A j \in 1..n : SubSeq(s, 1, n)[j] = s[j]
<1>1. Len(SubSeq(s, 1, n)) = n OBVIOUS
<1>2. \A j \in 1..n : SubSeq(s, 1, n)[j] = s[j] OBVIOUS
<1>3. SubSeq(s, 1, n) \in Seq(S)
  <2>1. \A j \in 1..n : s[j] \in S OBVIOUS
  <2> QED BY <2>1
<1> QED BY <1>1, <1>2, <1>3

LEMMA LastPart ==
  ASSUME NEW S, NEW s \in Seq(S), NEW n \in 0..Len(s)
  PROVE  /\ SubSeq(s, n + 1, Len(s)) \in Seq(S) /\ Len(SubSeq(s, n + 1, Len(s))) = Len(s) - n
         /\ \A j \in 1..(Len(s) - n) : SubSeq(s, n + 1, Len(s))[j] = s[n + j]
<1>0. Len(s) \in Nat /\ \A j \in 1..Len(s) : s[j] \in S OBVIOUS
<1>1. Len(SubSeq(s, n + 1, Len(s))) = Len(s) - n BY <1>0
<1>2. \A j \in 1..(Len(s) - n) : SubSeq(s, n + 1, Len(s))[j] = s[n + j] BY <1>0
<1>3. SubSeq(s, n + 1, Len(s)) \in Seq(S)
  <2>1. \A j \in (n + 1)..Len(s) : s[j] \in S BY <1>0
  <2> QED BY <2>1, <1>0
<1> QED BY <1>1, <1>2, <1>3

LEMMA ConcatFacts ==
  ASSUME NEW S, NEW s \in Seq(S), NEW t \in Seq(S)
  PROVE  /\ s \o t \in Seq(S) /\ Len(s \o t) = Len(s) + Len(t)
         /\ \A j \in 1..Len(s) : (s \o t)[j] = s[j]
         /\ \A j \in 1..Len(t) : (s \o t)[Len(s) + j] = t[j]
         /\ \A j \in 1..(Len(s) + Len(t)) : (s \o t)[j] = IF j <= Len(s) THEN s[j] ELSE t[j - Len(s)]
OBVIOUS

LEMMA TailFacts ==
  ASSUME NEW S, NEW s \in Seq(S), s # <<>>
  PROVE  /\ Tail(s) \in Seq(S) /\ Len(Tail(s)) = Len(s) - 1 /\ Len(s) >= 1
         /\ \A j \in 1..(Len(s) - 1) : Tail(s)[j] = s[j + 1]
         /\ Head(s) = s[1] /\ s[1] \in S
OBVIOUS

---------------------------------------
(* The mux: what each of its operations does to one channel. *)

Put(u, i, c) == [u EXCEPT !.channel[i] = c]

LEMMA PutFacts ==
  ASSUME NEW u \in Muxes, NEW i \in Slots, NEW c \in Channels
  PROVE  /\ Put(u, i, c) \in Muxes
         /\ \A j \in Slots : Put(u, i, c).channel[j] = IF j = i THEN c ELSE u.channel[j]
         /\ Put(u, i, c).stage = u.stage /\ Put(u, i, c).next_port = u.next_port
         /\ Put(u, i, c).transmit = u.transmit /\ Put(u, i, c).session = u.session
         /\ Put(u, i, c).round_robin = u.round_robin
BY DEF Put, Muxes

LEMMA MuxFields ==
  ASSUME NEW u \in Muxes
  PROVE  /\ u.stage \in {"SEND_VERSION", "WAIT_VERSION", "SEND_SETUP", "WAIT_SETUP", "ACTIVE"}
         /\ u.next_port \in 0..(PORTS - 1) /\ u.round_robin \in Slots /\ u.transmit \in HostFrames
         /\ u.channel \in [Slots -> Channels] /\ u.session \in Nat \ {0} /\ u # NoMux
BY DEF Muxes, NoMux

LEMMA ChannelFields ==
  ASSUME NEW c \in Channels
  PROVE  /\ c.state \in Live \cup {"UNUSED", "CLOSING", "CLOSED"}
         /\ c.local \in 0..(PORTS - 1) /\ c.remote \in {0, Service}
         /\ c.send_next \in 0..(SEQ - 1) /\ c.send_acked \in 0..(SEQ - 1)
         /\ c.receive_next \in 0..(SEQ - 1) /\ c.peer_window \in Int
         /\ c.receive \in Seq(DownBytes) /\ Len(c.receive) <= RX_SIZE /\ Len(c.receive) \in Nat
         /\ c.send \in Seq(UpBytes) /\ Len(c.send) <= TX_SIZE /\ Len(c.send) \in Nat
         /\ c.ack_pending \in BOOLEAN /\ c.why \in Whys /\ c.sent \in Nat
BY DEF Channels, UpTo

LEMMA FreshTyped == FreshChannel \in Channels
<1>1. <<>> \in UpTo(DownBytes, RX_SIZE) /\ <<>> \in UpTo(UpBytes, TX_SIZE) BY Consts DEF UpTo
<1> QED BY <1>1, SlotFacts DEF FreshChannel, Channels, Whys

LEMMA InitTyped ==
  ASSUME NEW x \in Nat \ {0}
  PROVE  usb_mux_init(x) \in Muxes
BY FreshTyped, SlotFacts DEF usb_mux_init, Muxes, HostFrames

Connected(u, port) ==
  [FreshChannel EXCEPT !.state = "CONNECT", !.local = u.next_port, !.remote = port]

LEMMA ConnectIs ==
  ASSUME NEW u \in Muxes, CanConnect(u)
  PROVE  /\ ConnectSlot(u) \in Slots /\ u.stage = "ACTIVE"
         /\ u.channel[ConnectSlot(u)].state \in {"UNUSED", "CLOSED"}
         /\ u.next_port \in Ports /\ Connected(u, Service) \in Channels
         /\ usb_mux_connect(u, Service) \in Muxes
         /\ usb_mux_connect(u, Service) =
              [Put(u, ConnectSlot(u), Connected(u, Service))
                 EXCEPT !.next_port = (u.next_port + 1) % PORTS]
         /\ usb_mux_connect(u, Service).channel
              = Put(u, ConnectSlot(u), Connected(u, Service)).channel
         /\ usb_mux_connect(u, Service).next_port = (u.next_port + 1) % PORTS
         /\ usb_mux_connect(u, Service).stage = u.stage
         /\ usb_mux_connect(u, Service).transmit = u.transmit
         /\ usb_mux_connect(u, Service).session = u.session
<1>1. Free(u) \subseteq Slots /\ Free(u) # {} /\ Free(u) \subseteq Nat
  BY SlotFacts DEF Free, CanConnect
<1>2. ConnectSlot(u) \in Free(u) BY <1>1, LeastIs DEF ConnectSlot
<1>3. ConnectSlot(u) \in Slots /\ u.channel[ConnectSlot(u)].state \in {"UNUSED", "CLOSED"}
  BY <1>2 DEF Free
<1>4. u.next_port \in Ports /\ u.stage = "ACTIVE" /\ u.next_port \in 0..(PORTS - 1)
  BY MuxFields DEF CanConnect, usb_mux_ready, Ports
<1>5. Connected(u, Service) \in Channels BY <1>4, FreshTyped DEF Connected, Channels, Live
<1>6. (u.next_port + 1) % PORTS \in 0..(PORTS - 1)
  <2>1. u.next_port + 1 \in Int /\ PORTS \in Nat \ {0} BY <1>4, Consts
  <2> QED BY <2>1, DivMod
<1> DEFINE i == ConnectSlot(u)
           v == Put(u, i, Connected(u, Service))
<1>7. v \in Muxes BY <1>3, <1>5, PutFacts
<1>8. usb_mux_connect(u, Service) = [v EXCEPT !.next_port = (u.next_port + 1) % PORTS]
  BY <1>3, MuxFields DEF usb_mux_connect, Put, Muxes, Connected
<1>9. v.stage = u.stage /\ v.transmit = u.transmit /\ v.session = u.session BY <1>3, <1>5, PutFacts
<1> HIDE DEF v
<1>10. /\ [v EXCEPT !.next_port = (u.next_port + 1) % PORTS] \in Muxes
       /\ [v EXCEPT !.next_port = (u.next_port + 1) % PORTS].channel = v.channel
       /\ [v EXCEPT !.next_port = (u.next_port + 1) % PORTS].next_port = (u.next_port + 1) % PORTS
       /\ [v EXCEPT !.next_port = (u.next_port + 1) % PORTS].stage = v.stage
       /\ [v EXCEPT !.next_port = (u.next_port + 1) % PORTS].transmit = v.transmit
       /\ [v EXCEPT !.next_port = (u.next_port + 1) % PORTS].session = v.session
  BY <1>6, <1>7 DEF Muxes
<1> QED BY <1>3, <1>4, <1>5, <1>8, <1>9, <1>10 DEF v

LEMMA WriteIs ==
  ASSUME NEW u \in Muxes, NEW i \in Slots, NEW b \in Seq(UpBytes)
  PROVE  usb_mux_write(u, i, b) =
           IF u.stage = "ACTIVE" /\ u.channel[i].state = "OPEN"
           THEN Put(u, i, [u.channel[i] EXCEPT !.send = @ \o b]) ELSE u
BY DEF usb_mux_write, usb_mux_ready, Put, Muxes

LEMMA ReadIs ==
  ASSUME NEW u \in Muxes, NEW i \in Slots, NEW n \in 0..Len(u.channel[i].receive)
  PROVE  usb_mux_read(u, i, n) =
           Put(u, i, [u.channel[i] EXCEPT !.receive = SubSeq(@, n + 1, Len(@)),
                         !.ack_pending = @ \/ (n > 0 /\ u.channel[i].state = "OPEN")])
<1> DEFINE t == SubSeq(u.channel[i].receive, n + 1, Len(u.channel[i].receive))
<1>1. /\ usb_mux_read(u, i, n) =
             [u EXCEPT !.channel[i].receive = t,
                       !.channel[i].ack_pending = @ \/ (n > 0 /\ u.channel[i].state = "OPEN")]
      /\ [u.channel[i] EXCEPT !.receive = SubSeq(@, n + 1, Len(@)),
                         !.ack_pending = @ \/ (n > 0 /\ u.channel[i].state = "OPEN")]
           = [u.channel[i] EXCEPT !.receive = t,
                         !.ack_pending = @ \/ (n > 0 /\ u.channel[i].state = "OPEN")]
  BY DEF usb_mux_read, Muxes
<1> HIDE DEF t
<1>2. u.channel \in [Slots -> Channels] /\ u.channel[i] \in Channels BY MuxFields
<1>3. [u EXCEPT !.channel[i].receive = t,
                !.channel[i].ack_pending = @ \/ (n > 0 /\ u.channel[i].state = "OPEN")]
        = Put(u, i, [u.channel[i] EXCEPT !.receive = t,
                         !.ack_pending = @ \/ (n > 0 /\ u.channel[i].state = "OPEN")])
  BY <1>2, Zenon DEF Put, Muxes, Channels
<1> QED BY <1>1, <1>3

LEMMA CloseIs ==
  ASSUME NEW u \in Muxes, NEW i \in Slots
  PROVE  usb_mux_close(u, i) =
           IF u.channel[i].state \in {"UNUSED", "CLOSED"} THEN u
           ELSE Put(u, i, [u.channel[i] EXCEPT !.send = <<>>, !.receive = <<>>,
                            !.state = IF u.stage = "ACTIVE" THEN "CLOSING" ELSE "CLOSED"])
BY MuxFields DEF usb_mux_close, usb_mux_ready, Put, Muxes

Errored(c, why, n) == [c EXCEPT !.state = "ERROR", !.why = why, !.sent = n, !.send = <<>>]

LEMMA ErrorIs ==
  ASSUME NEW u \in Muxes, NEW i \in Slots, NEW why, NEW n
  PROVE  channel_error(u, i, why, n) = Put(u, i, Errored(u.channel[i], why, n))
<1>1. u.channel \in [Slots -> Channels] BY MuxFields
<1> QED BY <1>1, Zenon DEF channel_error, Errored, Put, Muxes, Channels

\* tcp_frame: the frame of channel i, and the channel after it
Flags(c) == IF c.state = "CONNECT" THEN "syn" ELSE IF c.state = "CLOSING" THEN "rst" ELSE "ack"

Bits(c) == IF c.state = "OPEN" THEN Sendable(c) ELSE 0

FrameOf(u, i) ==
  [kind |-> "tcp", session |-> u.session, local |-> u.channel[i].local,
   remote |-> u.channel[i].remote, flags |-> Flags(u.channel[i]),
   seq |-> u.channel[i].send_next, ack |-> u.channel[i].receive_next,
   window |-> Window(RX_SIZE - Len(u.channel[i].receive)),
   data |-> SubSeq(u.channel[i].send, 1, Bits(u.channel[i]))]

AfterFrame(c) ==
  IF c.state = "CLOSING"
  THEN [FreshChannel EXCEPT !.state = "CLOSED", !.local = c.local, !.remote = c.remote]
  ELSE [c EXCEPT !.send = SubSeq(@, Bits(c) + 1, Len(@)),
                 !.send_next = (@ + Bits(c) + (IF Flags(c) = "syn" THEN 1 ELSE 0)) % SEQ,
                 !.ack_pending = FALSE,
                 !.state = IF Flags(c) = "syn" THEN "SYN_SENT" ELSE "OPEN"]

LEMMA SendableIs ==
  ASSUME NEW c \in Channels
  PROVE  /\ Sendable(c) \in 0..Len(c.send)
         /\ Sendable(c) > 0 => Minus(c.send_next, c.send_acked) + Sendable(c) <= c.peer_window
<1> DEFINE d == Minus(c.send_next, c.send_acked)
           a == IF d < c.peer_window THEN c.peer_window - d ELSE 0
<1>1. d \in Nat
  <2>1. c.send_next \in Int /\ c.send_acked \in Int BY ChannelFields
  <2>2. d \in 0..(SEQ - 1) BY <2>1, MinusIs
  <2> QED BY <2>2
<1>2. Len(c.send) \in Nat /\ MAX_PAYLOAD \in Nat /\ c.peer_window \in Int BY ChannelFields, Consts
<1>3. Sendable(c) = LeastOf({Len(c.send), MAX_PAYLOAD, a}) BY DEF Sendable
<1> HIDE DEF d
<1>4. a \in Nat BY <1>1, <1>2
<1> HIDE DEF a
<1>5. /\ Sendable(c) \in {Len(c.send), MAX_PAYLOAD, a}
      /\ \A y \in {Len(c.send), MAX_PAYLOAD, a} : Sendable(c) <= y
  <2>1. {Len(c.send), MAX_PAYLOAD, a} \subseteq Nat /\ {Len(c.send), MAX_PAYLOAD, a} # {}
    BY <1>2, <1>4
  <2> QED BY <1>3, <2>1, LeastIs
<1>6. Sendable(c) \in Nat /\ Sendable(c) <= Len(c.send) /\ Sendable(c) <= a BY <1>5, <1>2, <1>4
<1> QED BY <1>1, <1>2, <1>6 DEF a, d

LEMMA BitsIs ==
  ASSUME NEW c \in Channels
  PROVE  /\ Bits(c) \in 0..Len(c.send)
         /\ Bits(c) > 0 => /\ c.state = "OPEN"
                           /\ Minus(c.send_next, c.send_acked) + Bits(c) <= c.peer_window
BY SendableIs, ChannelFields DEF Bits

LEMMA FrameTyped ==
  ASSUME NEW u \in Muxes, NEW i \in Slots, u.channel[i].local \in Ports,
         u.channel[i].remote = Service
  PROVE  /\ FrameOf(u, i) \in HostTcp /\ FrameOf(u, i) \in HostFrames
         /\ AfterFrame(u.channel[i]) \in Channels
<1> DEFINE c == u.channel[i]
           n == Bits(c)
<1>1. c \in Channels /\ u.session \in Nat \ {0} BY MuxFields
<1>2. n \in 0..Len(c.send) BY <1>1, BitsIs
<1>3. /\ c.send \in Seq(UpBytes) /\ Len(c.send) <= TX_SIZE /\ Len(c.send) \in Nat
      /\ c.send_next \in 0..(SEQ - 1) /\ c.receive_next \in 0..(SEQ - 1)
      /\ Len(c.receive) \in Nat /\ c.local \in 0..(PORTS - 1)
  BY <1>1, ChannelFields
<1>4. Window(RX_SIZE - Len(c.receive)) \in Int /\ Window(RX_SIZE - Len(c.receive)) <= RX_SIZE
  <2>1. RX_SIZE - Len(c.receive) \in Int /\ RX_SIZE \in Nat BY <1>3, Consts
  <2>2. /\ Window(RX_SIZE - Len(c.receive)) \in Int
        /\ Window(RX_SIZE - Len(c.receive)) <= RX_SIZE - Len(c.receive)
    BY <2>1, WindowIs
  <2> HIDE DEF c
  <2> QED BY <2>1, <2>2, <1>3
<1>5. /\ SubSeq(c.send, 1, n) \in Seq(UpBytes) /\ Len(SubSeq(c.send, 1, n)) = n
      /\ SubSeq(c.send, n + 1, Len(c.send)) \in UpTo(UpBytes, TX_SIZE)
  <2>1. SubSeq(c.send, 1, n) \in Seq(UpBytes) /\ Len(SubSeq(c.send, 1, n)) = n
    BY <1>2, <1>3, FirstPart
  <2>2. /\ SubSeq(c.send, n + 1, Len(c.send)) \in Seq(UpBytes)
        /\ Len(SubSeq(c.send, n + 1, Len(c.send))) = Len(c.send) - n
    BY <1>2, <1>3, LastPart
  <2>3. Len(c.send) - n <= TX_SIZE BY <1>2, <1>3, Consts
  <2> HIDE DEF n, c
  <2> QED BY <2>1, <2>2, <2>3 DEF UpTo
<1>6. Flags(c) # "ack" => n = 0 BY DEF Flags, Bits
<1>7. n = 0 => SubSeq(c.send, 1, n) = <<>> BY <1>5
<1>8. Flags(c) \in {"syn", "rst", "ack"} BY DEF Flags
<1>9. \A x \in {0, 1} : (c.send_next + n + x) % SEQ \in 0..(SEQ - 1)
  <2>1. \A x \in {0, 1} : c.send_next + n + x \in Int BY <1>2, <1>3
  <2> QED BY <2>1, Consts, DivMod
<1>10. FrameOf(u, i) \in HostTcp
  <2> DEFINE w == Window(RX_SIZE - Len(c.receive))
             d == SubSeq(c.send, 1, n)
             g == Flags(c)
  <2>1. FrameOf(u, i) = [kind |-> "tcp", session |-> u.session, local |-> c.local,
             remote |-> c.remote, flags |-> g, seq |-> c.send_next, ack |-> c.receive_next,
             window |-> w, data |-> d]
    BY DEF FrameOf
  <2>2. /\ w \in Int /\ w <= RX_SIZE /\ d \in Seq(UpBytes) /\ g \in {"syn", "rst", "ack"}
        /\ g # "ack" => d = <<>>
    BY <1>4, <1>5, <1>6, <1>7, <1>8
  <2>3. c.local \in Ports /\ c.remote = Service OBVIOUS
  <2> HIDE DEF w, d, g, n, c
  <2> QED BY <2>1, <2>2, <2>3, <1>1, <1>3 DEF HostTcp
<1>11. AfterFrame(c) \in Channels
  <2>1. CASE c.state = "CLOSING" BY <2>1, <1>3, FreshTyped DEF AfterFrame, Channels
  <2>2. CASE c.state # "CLOSING"
    <3> DEFINE t == SubSeq(c.send, n + 1, Len(c.send))
               x == IF Flags(c) = "syn" THEN 1 ELSE 0
               y == (c.send_next + n + x) % SEQ
               z == IF Flags(c) = "syn" THEN "SYN_SENT" ELSE "OPEN"
    <3>1. AfterFrame(c) = [c EXCEPT !.send = t, !.send_next = y, !.ack_pending = FALSE,
                                    !.state = z]
      BY <2>2, <1>1 DEF AfterFrame, Channels
    <3>2. t \in UpTo(UpBytes, TX_SIZE) /\ y \in 0..(SEQ - 1) /\ z \in {"SYN_SENT", "OPEN"}
      <4>1. x \in {0, 1} OBVIOUS
      <4> HIDE DEF x
      <4> QED BY <4>1, <1>5, <1>9
    <3> HIDE DEF t, y, z, c
    <3> QED BY <3>1, <3>2, <1>1 DEF Channels, Live
  <2> QED BY <2>1, <2>2
<1> QED BY <1>10, <1>11 DEF HostFrames

\* a mux after the frame of channel i
Framed(u, i) ==
  [Put(u, i, AfterFrame(u.channel[i]))
     EXCEPT !.transmit = FrameOf(u, i), !.round_robin = (i + 1) % USB_MUX_CHANNELS]

LEMMA FrameIs ==
  ASSUME NEW u \in Muxes, NEW i \in Slots
  PROVE  tcp_frame(u, i) = Framed(u, i)
<1> DEFINE c == u.channel[i]
<1>1. c \in Channels BY MuxFields
<1>2. (CASE c.state = "CONNECT" -> "syn" [] c.state = "CLOSING" -> "rst" [] OTHER -> "ack")
        = Flags(c)
  BY DEF Flags
<1>3. Flags(c) = "rst" <=> c.state = "CLOSING" BY DEF Flags
<1>4. tcp_frame(u, i) =
        [u EXCEPT !.transmit = FrameOf(u, i), !.channel[i] = AfterFrame(c),
                  !.round_robin = (i + 1) % USB_MUX_CHANNELS]
  BY <1>2, <1>3, Zenon DEF tcp_frame, FrameOf, AfterFrame, Bits
<1>5. [u EXCEPT !.transmit = FrameOf(u, i), !.channel[i] = AfterFrame(c),
                  !.round_robin = (i + 1) % USB_MUX_CHANNELS] = Framed(u, i)
  BY DEF Framed, Put, Muxes
<1> QED BY <1>4, <1>5

LEMMA FramedFacts ==
  ASSUME NEW u \in Muxes, NEW i \in Slots, u.channel[i].local \in Ports,
         u.channel[i].remote = Service
  PROVE  /\ Framed(u, i) \in Muxes
         /\ \A j \in Slots : Framed(u, i).channel[j]
                               = IF j = i THEN AfterFrame(u.channel[i]) ELSE u.channel[j]
         /\ Framed(u, i).stage = u.stage /\ Framed(u, i).next_port = u.next_port
         /\ Framed(u, i).transmit = FrameOf(u, i) /\ Framed(u, i).session = u.session
<1> DEFINE v == Put(u, i, AfterFrame(u.channel[i]))
           f == FrameOf(u, i)
           r == (i + 1) % USB_MUX_CHANNELS
<1>1. AfterFrame(u.channel[i]) \in Channels /\ f \in HostFrames BY FrameTyped
<1>2. r \in Slots
  <2>1. i + 1 \in Int /\ USB_MUX_CHANNELS \in Nat \ {0} BY SlotFacts, Consts
  <2> QED BY <2>1, DivMod DEF Slots
<1>3. /\ v \in Muxes /\ v.stage = u.stage /\ v.next_port = u.next_port /\ v.session = u.session
      /\ \A j \in Slots : v.channel[j] = IF j = i THEN AfterFrame(u.channel[i]) ELSE u.channel[j]
  BY <1>1, PutFacts
<1>4. Framed(u, i) = [v EXCEPT !.transmit = f, !.round_robin = r] BY DEF Framed
<1> HIDE DEF v, f, r
<1>5. /\ [v EXCEPT !.transmit = f, !.round_robin = r] \in Muxes
      /\ [v EXCEPT !.transmit = f, !.round_robin = r].channel = v.channel
      /\ [v EXCEPT !.transmit = f, !.round_robin = r].stage = v.stage
      /\ [v EXCEPT !.transmit = f, !.round_robin = r].next_port = v.next_port
      /\ [v EXCEPT !.transmit = f, !.round_robin = r].session = v.session
      /\ [v EXCEPT !.transmit = f, !.round_robin = r].transmit = f
  BY <1>1, <1>2, <1>3 DEF Muxes
<1> QED BY <1>3, <1>4, <1>5 DEF f

\* usb_mux_output: nothing, a frame of the handshake, or a channel's frame
LEMMA OutputIs ==
  ASSUME NEW u \in Muxes
  PROVE  \/ usb_mux_output(u) = u
         \/ /\ u.transmit = NoFrame /\ u.stage = "SEND_VERSION"
            /\ usb_mux_output(u) = [u EXCEPT !.transmit = [kind |-> "version", session |-> u.session],
                                             !.stage = "WAIT_VERSION"]
         \/ /\ u.transmit = NoFrame /\ u.stage = "SEND_SETUP"
            /\ usb_mux_output(u) = [u EXCEPT !.transmit = [kind |-> "setup", session |-> u.session],
                                             !.stage = "WAIT_SETUP"]
         \/ /\ u.transmit = NoFrame /\ u.stage = "ACTIVE"
            /\ \E i \in Slots : HasFrame(u.channel[i]) /\ usb_mux_output(u) = Framed(u, i)
<1>1. CASE u.transmit # NoFrame BY <1>1 DEF usb_mux_output
<1> SUFFICES ASSUME u.transmit = NoFrame PROVE
         \/ usb_mux_output(u) = u
         \/ /\ u.stage = "SEND_VERSION"
            /\ usb_mux_output(u) = [u EXCEPT !.transmit = [kind |-> "version", session |-> u.session],
                                             !.stage = "WAIT_VERSION"]
         \/ /\ u.stage = "SEND_SETUP"
            /\ usb_mux_output(u) = [u EXCEPT !.transmit = [kind |-> "setup", session |-> u.session],
                                             !.stage = "WAIT_SETUP"]
         \/ /\ u.stage = "ACTIVE"
            /\ \E i \in Slots : HasFrame(u.channel[i]) /\ usb_mux_output(u) = Framed(u, i)
  BY <1>1
<1>2. u.stage # "FAILED" BY MuxFields
<1>3. CASE u.stage = "ACTIVE" /\ NextSlots(u) # {}
  <2>1. usb_mux_output(u) = CHOOSE v \in {tcp_frame(u, i) : i \in NextSlots(u)} : TRUE
    BY <1>2, <1>3 DEF usb_mux_output
  <2>2. \E i \in NextSlots(u) : usb_mux_output(u) = tcp_frame(u, i) BY <1>3, <2>1
  <2>3. PICK i \in Slots : HasFrame(u.channel[i]) /\ usb_mux_output(u) = tcp_frame(u, i)
    BY <2>2 DEF NextSlots
  <2> QED BY <2>3, <1>3, FrameIs
<1>4. CASE ~(u.stage = "ACTIVE" /\ NextSlots(u) # {})
  <2>1. CASE u.stage = "SEND_VERSION" BY <2>1 DEF usb_mux_output
  <2>2. CASE u.stage = "SEND_SETUP" BY <2>2 DEF usb_mux_output
  <2>3. CASE u.stage \notin {"SEND_VERSION", "SEND_SETUP"} BY <2>3, <1>2, <1>4 DEF usb_mux_output
  <2> QED BY <2>1, <2>2, <2>3
<1> QED BY <1>3, <1>4

LEMMA CompleteIs ==
  ASSUME NEW u \in Muxes
  PROVE  /\ usb_mux_output_complete(u) \in Muxes
         /\ usb_mux_output_complete(u).channel = u.channel
         /\ usb_mux_output_complete(u).next_port = u.next_port
         /\ usb_mux_output_complete(u).session = u.session
         /\ usb_mux_output_complete(u).transmit = NoFrame
         /\ usb_mux_output_complete(u).stage
              = IF u.stage = "WAIT_SETUP" THEN "ACTIVE" ELSE u.stage
BY DEF usb_mux_output_complete, Muxes, HostFrames

\* the handshake frames of usb_mux_output, and the version frame of the guest
LEMMA StageFacts ==
  ASSUME NEW u \in Muxes
  PROVE  /\ \A f \in HostFrames, s \in {"WAIT_VERSION", "WAIT_SETUP"} :
              LET v == [u EXCEPT !.transmit = f, !.stage = s] IN
              /\ v \in Muxes /\ v.channel = u.channel /\ v.next_port = u.next_port
              /\ v.session = u.session /\ v.transmit = f /\ v.stage = s
         /\ \A s \in {"SEND_SETUP", "ACTIVE"} :
              LET v == [u EXCEPT !.stage = s] IN
              /\ v \in Muxes /\ v.channel = u.channel /\ v.next_port = u.next_port
              /\ v.session = u.session /\ v.transmit = u.transmit /\ v.stage = s
BY DEF Muxes

---------------------------------------
(* input_frame: what a stream frame of the guest does to its channel. *)

Opened(c, f) ==
  [c EXCEPT !.send_acked = f.ack, !.receive_next = (f.seq + 1) % SEQ,
            !.peer_window = f.window, !.state = "OPEN", !.ack_pending = TRUE]

AckedBy(c, f) == [c EXCEPT !.send_acked = f.ack, !.peer_window = f.window]

Filled(c, f) ==
  [c EXCEPT !.receive = @ \o f.data, !.receive_next = (@ + Len(f.data)) % SEQ,
            !.ack_pending = @ \/ f.data # <<>>]

OpenAnswer(c, f) ==
  IF f.flags # "ack" THEN Errored(c, "flags", 0)
  ELSE IF Minus(f.ack, c.send_acked) > Minus(c.send_next, c.send_acked)
  THEN Errored(c, "ack", 0)
  ELSE IF f.seq # c.receive_next
  THEN IF Minus(c.receive_next, f.seq) >= Len(f.data) /\ Minus(c.receive_next, f.seq) <= RX_SIZE
       THEN [AckedBy(c, f) EXCEPT !.ack_pending = TRUE]
       ELSE Errored(AckedBy(c, f), "order", 0)
  ELSE IF Len(f.data) > RX_SIZE - Len(c.receive)
  THEN Errored(AckedBy(c, f), "window", 0)
  ELSE Filled(AckedBy(c, f), f)

Answer(c, f) ==
  IF f.flags = "rst" THEN Errored(c, "reset", f.sent)
  ELSE IF c.state = "SYN_SENT"
  THEN IF f.flags = "synack" /\ f.data = <<>> /\ f.ack = c.send_next
       THEN Opened(c, f) ELSE Errored(c, "handshake", 0)
  ELSE IF c.state = "OPEN" THEN OpenAnswer(c, f)
  ELSE Errored(c, "flags", 0)

LEMMA GuestTcpFields ==
  ASSUME NEW f \in GuestTcp
  PROVE  /\ f.kind = "tcp" /\ f.session \in Nat \ {0} /\ f.local \in Ports /\ f.remote = Service
         /\ f.flags \in {"synack", "rst", "ack"} /\ f.seq \in 0..(SEQ - 1)
         /\ f.ack \in 0..(SEQ - 1) /\ f.data \in Seq(DownBytes) /\ Len(f.data) \in Nat
         /\ f.sent \in Nat /\ f.window \in Int /\ f.window <= GUEST_WINDOW
         /\ f.flags # "ack" => f.data = <<>> /\ Len(f.data) = 0
         /\ f.flags = "synack" => f.seq = GUEST_ISN
         /\ f.flags = "ack" => f.seq = (GUEST_ISN + 1 + f.sent) % SEQ
         /\ \A j \in 1..Len(f.data) :
              f.data[j] = [session |-> f.session, port |-> f.local, i |-> f.sent + j]
BY DEF GuestTcp

LEMMA GuestFrameKinds ==
  ASSUME NEW f \in GuestFrames
  PROVE  /\ f.kind \in {"version", "control", "tcp"} /\ f.session \in Nat \ {0}
         /\ f.kind = "tcp" => f \in GuestTcp
         /\ f.kind = "control" => f.notice \in BOOLEAN
BY DEF GuestFrames, GuestTcp

LEMMA HostTcpFields ==
  ASSUME NEW h \in HostTcp
  PROVE  /\ h.kind = "tcp" /\ h.session \in Nat \ {0} /\ h.local \in Ports /\ h.remote = Service
         /\ h.flags \in {"syn", "rst", "ack"} /\ h.seq \in 0..(SEQ - 1)
         /\ h.ack \in 0..(SEQ - 1) /\ h.window \in Int /\ h.window <= RX_SIZE
         /\ h.data \in Seq(UpBytes) /\ Len(h.data) \in Nat
         /\ h.flags # "ack" => h.data = <<>> /\ Len(h.data) = 0
BY DEF HostTcp

LEMMA HostFrameKinds ==
  ASSUME NEW h \in HostFrames
  PROVE  /\ h.kind \in {"none", "version", "setup", "tcp"}
         /\ h.kind = "none" <=> h = NoFrame
         /\ h # NoFrame => h.session \in Nat \ {0}
         /\ h.kind = "tcp" => h \in HostTcp
BY DEF HostFrames, HostTcp, NoFrame

LEMMA AnswerTyped ==
  ASSUME NEW c \in Channels, NEW f \in GuestTcp
  PROVE  /\ Answer(c, f) \in Channels /\ Answer(c, f).local = c.local
         /\ Answer(c, f).remote = c.remote /\ Answer(c, f).state \in {"OPEN", "ERROR"}
<1> DEFINE Same1(d) == /\ d \in Channels /\ d.local = c.local /\ d.remote = c.remote
<1>1. ASSUME NEW d \in Channels, NEW w \in Whys, NEW n \in Nat
      PROVE  /\ Errored(d, w, n) \in Channels /\ Errored(d, w, n).state = "ERROR"
             /\ Errored(d, w, n).local = d.local /\ Errored(d, w, n).remote = d.remote
  <2>1. <<>> \in UpTo(UpBytes, TX_SIZE) BY Consts DEF UpTo
  <2> QED BY <2>1 DEF Errored, Channels, Live
<1>2. Same1(AckedBy(c, f)) /\ AckedBy(c, f).state = c.state /\ AckedBy(c, f).receive = c.receive
      /\ AckedBy(c, f).receive_next = c.receive_next
  BY GuestTcpFields DEF AckedBy, Channels
<1>3. Same1(Opened(c, f)) /\ Opened(c, f).state = "OPEN"
  <2>1. (f.seq + 1) % SEQ \in 0..(SEQ - 1)
    <3>1. f.seq + 1 \in Int BY GuestTcpFields
    <3> QED BY <3>1, MinusIs
  <2> QED BY <2>1, GuestTcpFields DEF Opened, Channels, Live
<1>4. Len(f.data) <= RX_SIZE - Len(c.receive) =>
        Same1(Filled(AckedBy(c, f), f)) /\ Filled(AckedBy(c, f), f).state = c.state
  <2> DEFINE a == AckedBy(c, f)
  <2>1. c.receive \in Seq(DownBytes) /\ Len(c.receive) \in Nat /\ f.data \in Seq(DownBytes)
        /\ Len(f.data) \in Nat /\ c.receive_next \in 0..(SEQ - 1) /\ RX_SIZE \in Nat
    BY GuestTcpFields, ChannelFields, Consts
  <2>2. Len(f.data) <= RX_SIZE - Len(c.receive) => c.receive \o f.data \in UpTo(DownBytes, RX_SIZE)
    <3>1. c.receive \o f.data \in Seq(DownBytes)
          /\ Len(c.receive \o f.data) = Len(c.receive) + Len(f.data)
      BY <2>1, ConcatFacts
    <3> DEFINE t == c.receive \o f.data
               x == Len(c.receive)
               y == Len(f.data)
    <3>2. x \in Nat /\ y \in Nat /\ RX_SIZE \in Nat /\ t \in Seq(DownBytes) /\ Len(t) = x + y
      BY <3>1, <2>1
    <3> SUFFICES y <= RX_SIZE - x => t \in UpTo(DownBytes, RX_SIZE)
      OBVIOUS
    <3> HIDE DEF t, x, y
    <3> QED BY <3>2 DEF UpTo
  <2>3. (c.receive_next + Len(f.data)) % SEQ \in 0..(SEQ - 1)
    <3>1. c.receive_next + Len(f.data) \in Int BY <2>1
    <3> QED BY <3>1, MinusIs
  <2>4. a \in Channels /\ a.receive = c.receive /\ a.receive_next = c.receive_next
        /\ a.local = c.local /\ a.remote = c.remote /\ a.state = c.state
    BY <1>2
  <2> DEFINE t == c.receive \o f.data
             y == (c.receive_next + Len(f.data)) % SEQ
             z == a.ack_pending \/ f.data # <<>>
  <2>5. Filled(a, f) = [a EXCEPT !.receive = t, !.receive_next = y, !.ack_pending = z]
    BY <2>4 DEF Filled, Channels
  <2> SUFFICES ASSUME Len(f.data) <= RX_SIZE - Len(c.receive)
               PROVE  Same1(Filled(a, f)) /\ Filled(a, f).state = c.state
    OBVIOUS
  <2>6. t \in UpTo(DownBytes, RX_SIZE) /\ y \in 0..(SEQ - 1) /\ z \in BOOLEAN BY <2>2, <2>3
  <2> HIDE DEF t, y, z, a
  <2> QED BY <2>4, <2>5, <2>6, Zenon DEF Channels
<1>5. [AckedBy(c, f) EXCEPT !.ack_pending = TRUE] \in Channels
      /\ [AckedBy(c, f) EXCEPT !.ack_pending = TRUE].local = c.local
      /\ [AckedBy(c, f) EXCEPT !.ack_pending = TRUE].remote = c.remote
      /\ [AckedBy(c, f) EXCEPT !.ack_pending = TRUE].state = c.state
  BY <1>2 DEF Channels
<1>6. \A w \in Whys, n \in Nat :
        /\ Same1(Errored(c, w, n)) /\ Errored(c, w, n).state = "ERROR"
        /\ Same1(Errored(AckedBy(c, f), w, n)) /\ Errored(AckedBy(c, f), w, n).state = "ERROR"
  BY <1>1, <1>2
<1>7. {"reset", "handshake", "flags", "ack", "order", "window"} \subseteq Whys /\ f.sent \in Nat
      /\ Len(c.receive) \in Nat /\ Len(f.data) \in Nat /\ RX_SIZE \in Nat
  BY GuestTcpFields, ChannelFields, Consts DEF Whys
<1>8. c.state = "OPEN" => Same1(OpenAnswer(c, f)) /\ OpenAnswer(c, f).state \in {"OPEN", "ERROR"}
  <2> SUFFICES ASSUME c.state = "OPEN"
               PROVE  Same1(OpenAnswer(c, f)) /\ OpenAnswer(c, f).state \in {"OPEN", "ERROR"}
    OBVIOUS
  <2>1. Len(f.data) > RX_SIZE - Len(c.receive) \/ Len(f.data) <= RX_SIZE - Len(c.receive)
    <3> DEFINE x == Len(c.receive)
               y == Len(f.data)
    <3>1. x \in Nat /\ y \in Nat /\ RX_SIZE \in Nat BY <1>7
    <3> SUFFICES y > RX_SIZE - x \/ y <= RX_SIZE - x
      OBVIOUS
    <3> HIDE DEF x, y
    <3> QED BY <3>1
  <2>2. \A w \in {"flags", "ack", "order", "window"} :
          /\ Same1(Errored(c, w, 0)) /\ Errored(c, w, 0).state = "ERROR"
          /\ Same1(Errored(AckedBy(c, f), w, 0)) /\ Errored(AckedBy(c, f), w, 0).state = "ERROR"
    BY <1>6, <1>7
  <2> DEFINE e1 == Errored(c, "flags", 0)
             e2 == Errored(c, "ack", 0)
             e3 == Errored(AckedBy(c, f), "order", 0)
             e4 == Errored(AckedBy(c, f), "window", 0)
             o1 == [AckedBy(c, f) EXCEPT !.ack_pending = TRUE]
             o2 == Filled(AckedBy(c, f), f)
  <2>3. \/ OpenAnswer(c, f) \in {e1, e2, e3, e4, o1}
        \/ OpenAnswer(c, f) = o2 /\ Len(f.data) <= RX_SIZE - Len(c.receive)
    BY <2>1 DEF OpenAnswer
  <2>4. \A d \in {e1, e2, e3, e4, o1} : Same1(d) /\ d.state \in {"OPEN", "ERROR"} BY <2>2, <1>5
  <2> HIDE DEF e1, e2, e3, e4, o1, o2
  <2>5. Len(f.data) <= RX_SIZE - Len(c.receive) => Same1(o2) /\ o2.state \in {"OPEN", "ERROR"}
    BY <1>4 DEF o2
  <2> QED BY <2>3, <2>4, <2>5
<1>9. /\ Same1(Errored(c, "reset", f.sent)) /\ Errored(c, "reset", f.sent).state = "ERROR"
      /\ \A w \in {"flags", "handshake"} :
           Same1(Errored(c, w, 0)) /\ Errored(c, w, 0).state = "ERROR"
  BY <1>6, <1>7
<1>10. CASE f.flags = "rst" BY <1>9, <1>10 DEF Answer
<1>11. CASE f.flags # "rst" /\ c.state = "SYN_SENT" BY <1>9, <1>11, <1>3 DEF Answer
<1>12. CASE f.flags # "rst" /\ c.state = "OPEN" BY <1>8, <1>12 DEF Answer
<1>13. CASE f.flags # "rst" /\ c.state \notin {"SYN_SENT", "OPEN"} BY <1>9, <1>13 DEF Answer
<1> QED BY <1>10, <1>11, <1>12, <1>13

LEMMA TcpIs ==
  ASSUME NEW u \in Muxes, NEW i \in Slots, NEW f \in GuestTcp
  PROVE  TcpInput(u, i, f) = Put(u, i, Answer(u.channel[i], f))
<1> DEFINE c == u.channel[i]
<1>1. c \in Channels /\ u.channel \in [Slots -> Channels] BY MuxFields
<1>2. \A w, n : channel_error(u, i, w, n) = Put(u, i, Errored(c, w, n)) BY ErrorIs
<1>3. [u EXCEPT !.channel[i].send_acked = f.ack, !.channel[i].peer_window = f.window]
        = Put(u, i, AckedBy(c, f))
  BY <1>1 DEF Put, AckedBy, Muxes, Channels
<1> DEFINE v == Put(u, i, AckedBy(c, f))
<1>4. AckedBy(c, f) \in Channels BY <1>1, GuestTcpFields DEF AckedBy, Channels
<1>5. v \in Muxes /\ v.channel[i] = AckedBy(c, f) BY <1>4, PutFacts
<1>6. \A d : Put(v, i, d) = Put(u, i, d) BY <1>1 DEF Put, Muxes
<1>7. \A w, n : channel_error(v, i, w, n) = Put(u, i, Errored(AckedBy(c, f), w, n))
  <2>1. \A w, n : channel_error(v, i, w, n) = Put(v, i, Errored(AckedBy(c, f), w, n))
    <3> HIDE DEF v
    <3> TAKE w, n
    <3>1. channel_error(v, i, w, n) = Put(v, i, Errored(v.channel[i], w, n)) BY <1>5, ErrorIs
    <3> QED BY <3>1, <1>5
  <2> QED BY <2>1, <1>6
<1>8. [v EXCEPT !.channel[i].ack_pending = TRUE]
        = Put(u, i, [AckedBy(c, f) EXCEPT !.ack_pending = TRUE])
  <2>1. [v EXCEPT !.channel[i].ack_pending = TRUE]
          = Put(v, i, [AckedBy(c, f) EXCEPT !.ack_pending = TRUE])
    <3> HIDE DEF v
    <3> QED BY <1>5 DEF Put, Muxes
  <2> QED BY <2>1, <1>6
<1>9. [v EXCEPT !.channel[i].receive = @ \o f.data,
                !.channel[i].receive_next = (@ + Len(f.data)) % SEQ,
                !.channel[i].ack_pending = @ \/ f.data # <<>>]
        = Put(u, i, Filled(AckedBy(c, f), f))
  <2> DEFINE a == AckedBy(c, f)
             t == a.receive \o f.data
             y == (a.receive_next + Len(f.data)) % SEQ
             z == a.ack_pending \/ f.data # <<>>
  <2>1. [v EXCEPT !.channel[i].receive = @ \o f.data,
                !.channel[i].receive_next = (@ + Len(f.data)) % SEQ,
                !.channel[i].ack_pending = @ \/ f.data # <<>>]
          = [v EXCEPT !.channel[i].receive = t, !.channel[i].receive_next = y,
                      !.channel[i].ack_pending = z]
    <3> HIDE DEF v
    <3> QED BY <1>4, <1>5 DEF Muxes, Channels
  <2>2. Filled(a, f) = [a EXCEPT !.receive = t, !.receive_next = y, !.ack_pending = z]
    BY <1>4 DEF Filled, Channels
  <2> HIDE DEF t, y, z
  <2>3. [v EXCEPT !.channel[i].receive = t, !.channel[i].receive_next = y,
                  !.channel[i].ack_pending = z]
          = Put(v, i, [a EXCEPT !.receive = t, !.receive_next = y, !.ack_pending = z])
    <3> HIDE DEF v, a
    <3> QED BY <1>4, <1>5, Zenon DEF Put, Muxes, Channels, a
  <2> QED BY <2>1, <2>2, <2>3, <1>6
<1>10. OpenInput(u, i, f) = Put(u, i, OpenAnswer(c, f))
  <2> DEFINE acked == [u EXCEPT !.channel[i].send_acked = f.ack, !.channel[i].peer_window = f.window]
             over == Minus(f.ack, c.send_acked) > Minus(c.send_next, c.send_acked)
             behind == Minus(c.receive_next, f.seq)
             late == behind >= Len(f.data) /\ behind <= RX_SIZE
             full == Len(f.data) > RX_SIZE - Len(c.receive)
             again == [acked EXCEPT !.channel[i].ack_pending = TRUE]
             filled == [acked EXCEPT !.channel[i].receive = @ \o f.data,
                                     !.channel[i].receive_next = (@ + Len(f.data)) % SEQ,
                                     !.channel[i].ack_pending = @ \/ f.data # <<>>]
             a == AckedBy(c, f)
             late1 == [a EXCEPT !.ack_pending = TRUE]
  <2>1. OpenInput(u, i, f) = IF f.flags # "ack" THEN channel_error(u, i, "flags", 0)
                             ELSE IF over THEN channel_error(u, i, "ack", 0)
                             ELSE IF f.seq # c.receive_next
                             THEN IF late THEN again ELSE channel_error(acked, i, "order", 0)
                             ELSE IF full THEN channel_error(acked, i, "window", 0) ELSE filled
    BY Zenon DEF OpenInput
  <2>2. OpenAnswer(c, f) = IF f.flags # "ack" THEN Errored(c, "flags", 0)
                           ELSE IF over THEN Errored(c, "ack", 0)
                           ELSE IF f.seq # c.receive_next
                           THEN IF late THEN late1 ELSE Errored(a, "order", 0)
                           ELSE IF full THEN Errored(a, "window", 0) ELSE Filled(a, f)
    BY Zenon DEF OpenAnswer
  <2>3. acked = v BY <1>3
  <2>4. again = Put(u, i, late1) /\ filled = Put(u, i, Filled(a, f))
    <3> HIDE DEF acked, v
    <3>1. /\ again = [v EXCEPT !.channel[i].ack_pending = TRUE]
          /\ filled = [v EXCEPT !.channel[i].receive = @ \o f.data,
                                !.channel[i].receive_next = (@ + Len(f.data)) % SEQ,
                                !.channel[i].ack_pending = @ \/ f.data # <<>>]
      BY <2>3, Zenon
    <3> HIDE DEF c, again, filled
    <3> QED BY <3>1, <1>8, <1>9, Zenon
  <2>5. \A w, k : channel_error(acked, i, w, k) = Put(u, i, Errored(a, w, k))
    <3> HIDE DEF acked, v
    <3> QED BY <2>3, <1>7, Zenon
  <2> HIDE DEF acked, over, late, full, again, filled, a, late1, c
  <2> QED BY <1>2, <2>1, <2>2, <2>4, <2>5, Zenon
<1>11. [u EXCEPT !.channel[i] =
          [c EXCEPT !.send_acked = f.ack, !.receive_next = (f.seq + 1) % SEQ,
                    !.peer_window = f.window, !.state = "OPEN", !.ack_pending = TRUE]]
         = Put(u, i, Opened(c, f))
  BY DEF Put, Opened
<1>12. CASE f.flags = "rst" BY <1>12, <1>2 DEF TcpInput, Answer
<1>13. CASE f.flags # "rst" /\ c.state = "SYN_SENT"
  <2>1. CASE f.flags = "synack" /\ f.data = <<>> /\ f.ack = c.send_next
    BY <1>13, <2>1, <1>11 DEF TcpInput, Answer
  <2>2. CASE ~(f.flags = "synack" /\ f.data = <<>> /\ f.ack = c.send_next)
    BY <1>13, <2>2, <1>2 DEF TcpInput, Answer
  <2> QED BY <2>1, <2>2
<1>14. CASE f.flags # "rst" /\ c.state = "OPEN" BY <1>14, <1>10 DEF TcpInput, Answer
<1>15. CASE f.flags # "rst" /\ c.state \notin {"SYN_SENT", "OPEN"}
  BY <1>15, <1>2 DEF TcpInput, Answer
<1> QED BY <1>12, <1>13, <1>14, <1>15

Mishap(u, f) ==
  \/ u.stage = "WAIT_VERSION" /\ f.kind # "version"
  \/ u.stage \in {"SEND_VERSION", "SEND_SETUP", "WAIT_SETUP"}
  \/ u.stage = "ACTIVE" /\ (f.kind = "version" \/ (f.kind = "control" /\ ~f.notice))

\* input_frame: the mux fails, or a stage of the handshake ends, or nothing
\* happens, or one channel gets its answer
LEMMA InputIs ==
  ASSUME NEW u \in Muxes, NEW f \in GuestFrames
  PROVE  \/ input_frame(u, f).stage = "FAILED" /\ Mishap(u, f)
         \/ /\ u.stage = "WAIT_VERSION" /\ f.kind = "version"
            /\ \E s \in {"SEND_SETUP", "ACTIVE"} : input_frame(u, f) = [u EXCEPT !.stage = s]
         \/ u.stage = "ACTIVE" /\ f.kind = "control" /\ input_frame(u, f) = u
         \/ u.stage = "ACTIVE" /\ f \in GuestTcp /\ Addressed(u, f) = {} /\ input_frame(u, f) = u
         \/ /\ u.stage = "ACTIVE" /\ f \in GuestTcp
            /\ \E i \in Slots : /\ i \in Addressed(u, f)
                                /\ input_frame(u, f) = Put(u, i, Answer(u.channel[i], f))
<1>1. usb_mux_cancel(u).stage = "FAILED" BY DEF usb_mux_cancel, Muxes
<1>2. u.stage \in {"SEND_VERSION", "WAIT_VERSION", "SEND_SETUP", "WAIT_SETUP", "ACTIVE"}
  BY MuxFields
<1>3. f.kind \in {"version", "control", "tcp"} /\ (f.kind = "tcp" => f \in GuestTcp)
  BY GuestFrameKinds
<1>4. CASE u.stage = "WAIT_VERSION"
  <2>1. CASE f.kind = "version" BY <1>4, <2>1 DEF input_frame
  <2>2. CASE f.kind # "version" BY <1>4, <2>2, <1>1 DEF input_frame, Mishap
  <2> QED BY <2>1, <2>2
<1>5. CASE u.stage \in {"SEND_VERSION", "SEND_SETUP", "WAIT_SETUP"}
  BY <1>5, <1>1 DEF input_frame, Mishap
<1>6. CASE u.stage = "ACTIVE" /\ f.kind = "control" BY <1>6, <1>1 DEF input_frame, Mishap
<1>7. CASE u.stage = "ACTIVE" /\ f.kind = "version" BY <1>7, <1>1 DEF input_frame, Mishap
<1>8. CASE u.stage = "ACTIVE" /\ f.kind = "tcp"
  <2>1. f \in GuestTcp BY <1>8, <1>3
  <2>2. CASE Addressed(u, f) = {} BY <1>8, <2>1, <2>2 DEF input_frame
  <2>3. CASE Addressed(u, f) # {}
    <3>1. input_frame(u, f) = CHOOSE v \in {TcpInput(u, i, f) : i \in Addressed(u, f)} : TRUE
      BY <1>8, <2>3 DEF input_frame
    <3>2. \E i \in Addressed(u, f) : input_frame(u, f) = TcpInput(u, i, f) BY <2>3, <3>1
    <3>3. PICK i \in Slots : i \in Addressed(u, f) /\ input_frame(u, f) = TcpInput(u, i, f)
      BY <3>2 DEF Addressed
    <3>4. input_frame(u, f) = Put(u, i, Answer(u.channel[i], f)) BY <3>3, <2>1, TcpIs
    <3> QED BY <3>3, <3>4, <2>1, <1>8
  <2> QED BY <2>2, <2>3
<1> QED BY <1>2, <1>3, <1>4, <1>5, <1>6, <1>7, <1>8

---------------------------------------
(* A part of the invariant, step by step: the channels and who owns them. *)

\* a mux of which only channel i has changed, and stays live or dead
LEMMA OwnedKept ==
  ASSUME NEW m \in Muxes, NEW n \in Muxes, NEW C, NEW L, Owned(m, C, L), NEW i \in Slots,
         \A j \in Slots : j # i => n.channel[j] = m.channel[j],
         n.channel[i].state \in Live <=> m.channel[i].state \in Live,
         \A k \in ToSet(L) : C[k].chan \in Slots \cup {-1}
  PROVE  Owned(n, C, L)
<1>1. m # NoMux /\ n # NoMux BY MuxFields
<1>2. \A j \in Slots : n.channel[j].state \in Live <=> m.channel[j].state \in Live OBVIOUS
<1> QED BY <1>1, <1>2 DEF Owned

LEMMA NumberedKept ==
  ASSUME NEW m \in Muxes, NEW n \in Muxes, Numbered(m), NEW i \in Slots,
         \A j \in Slots : j # i => n.channel[j] = m.channel[j],
         m.channel[i].state # "UNUSED", n.channel[i].state # "UNUSED",
         n.channel[i].local = m.channel[i].local, n.channel[i].remote = m.channel[i].remote,
         n.next_port = m.next_port
  PROVE  Numbered(n)
<1>1. m # NoMux /\ n # NoMux BY MuxFields
<1>2. \A j \in Slots : /\ n.channel[j].local = m.channel[j].local
                       /\ n.channel[j].remote = m.channel[j].remote
                       /\ n.channel[j].state = "UNUSED" <=> m.channel[j].state = "UNUSED"
                       /\ n.channel[j].state = "UNUSED" => n.channel[j] = m.channel[j]
  OBVIOUS
<1> QED BY <1>1, <1>2 DEF Numbered

LEMMA AddressedFacts ==
  ASSUME NEW u \in Muxes, NEW f \in GuestTcp, NEW i \in Slots, i \in Addressed(u, f), Numbered(u)
  PROVE  /\ u.channel[i].state \in {"CONNECT", "SYN_SENT", "OPEN"}
         /\ u.channel[i].local = f.local /\ u.channel[i] \in Channels
<1>1. u # NoMux /\ u.channel[i] \in Channels BY MuxFields
<1>2. u.channel[i].local = f.local /\ f.local \in Ports BY GuestTcpFields DEF Addressed
<1>3. u.channel[i].state # "UNUSED"
  <2>1. u.channel[i].state = "UNUSED" => u.channel[i].local = 0 BY <1>1 DEF Numbered, FreshChannel
  <2> QED BY <2>1, <1>2, SlotFacts
<1>4. u.channel[i].state \notin {"CLOSED", "CLOSING", "ERROR"} BY DEF Addressed
<1> QED BY <1>1, <1>2, <1>3, <1>4 DEF Channels, Live

\* the guest's frames lose their head
LEMMA LinkedTail ==
  ASSUME NEW m \in Muxes, NEW n \in Muxes, NEW gi \in Seq(GuestFrames), gi # <<>>, NEW go,
         Same, Linked(m, gi, go), n.session = m.session, n.transmit = m.transmit
  PROVE  Linked(n, Tail(gi), go)
<1>1. m # NoMux /\ n # NoMux BY MuxFields
<1>2. /\ Len(Tail(gi)) = Len(gi) - 1 /\ Len(gi) \in Nat
      /\ \A j \in 1..(Len(gi) - 1) : Tail(gi)[j] = gi[j + 1]
  BY TailFacts
<1>3. guest.session = m.session BY <1>1 DEF Linked
<1>4. \A j \in 1..Len(Tail(gi)) : Tail(gi)[j].session = m.session
  <2>1. \A j \in 1..Len(gi) : gi[j].session = m.session BY <1>1 DEF Linked
  <2>2. \A j \in 1..Len(Tail(gi)) : j + 1 \in 1..Len(gi) /\ Tail(gi)[j] = gi[j + 1] BY <1>2
  <2> QED BY <2>1, <2>2
<1>5. /\ go # NoFrame => dev.address
      /\ go.kind \in {"setup", "tcp"} => go.session = guest.session
      /\ host.attached /\ host.stage = "READY" /\ dev.address
      /\ go # NoFrame => go.session = m.session
      /\ m.transmit # NoFrame => m.transmit.session = m.session
  BY <1>1 DEF Linked
<1> QED BY <1>1, <1>3, <1>4, <1>5 DEF Linked

Mid1(m, C, L, K, gi, go) ==
  Typed(m, C, L, K, gi, go) /\ Owned(m, C, L) /\ Numbered(m) /\ Linked(m, gi, go)

LEMMA FrameStep1 ==
  ASSUME NEW u \in Muxes, NEW C, NEW L, NEW K, NEW gi, NEW go, gi # <<>>, Same,
         Mid1(u, C, L, K, gi, go)
  PROVE  \/ input_frame(u, gi[1]).stage = "FAILED"
         \/ /\ input_frame(u, gi[1]) \in Muxes
            /\ Mid1(input_frame(u, gi[1]), C, L, K, Tail(gi), go)
<1> DEFINE f == gi[1]
           v == input_frame(u, f)
<1>0. C \in [Opens -> Conns] /\ L \in Seq(Opens) /\ gi \in Seq(GuestFrames) /\ Len(gi) <= MaxQueue
  BY DEF Mid1, Typed, UpTo
<1>1. /\ f \in GuestFrames /\ Tail(gi) \in Seq(GuestFrames) /\ Len(Tail(gi)) = Len(gi) - 1
  BY <1>0, TailFacts
<1>2. u # NoMux /\ Owned(u, C, L) /\ Numbered(u) /\ Linked(u, gi, go) /\ Typed(u, C, L, K, gi, go)
  BY MuxFields DEF Mid1
<1>3. \A k \in ToSet(L) : C[k].chan \in Slots \cup {-1} BY <1>0, ToSetIn DEF Conns
<1>4. Tail(gi) \in UpTo(GuestFrames, MaxQueue)
  <2>1. Len(gi) \in Nat /\ MaxQueue \in Nat BY <1>0, Consts
  <2> QED BY <1>0, <1>1, <2>1 DEF UpTo
<1>5. ASSUME NEW n \in Muxes, Owned(n, C, L), Numbered(n), n.session = u.session,
             n.transmit = u.transmit
      PROVE  Mid1(n, C, L, K, Tail(gi), go)
  <2>1. Linked(n, Tail(gi), go) BY <1>0, <1>2, <1>5, LinkedTail
  <2> QED BY <1>2, <1>4, <1>5, <2>1 DEF Mid1, Typed
<1>6. Mid1(u, C, L, K, Tail(gi), go) BY <1>2, <1>5
<1>7. ASSUME NEW s \in {"SEND_SETUP", "ACTIVE"} , v = [u EXCEPT !.stage = s]
      PROVE  v \in Muxes /\ Mid1(v, C, L, K, Tail(gi), go)
  <2>1. /\ v \in Muxes /\ v.channel = u.channel /\ v.next_port = u.next_port
        /\ v.session = u.session /\ v.transmit = u.transmit /\ v # NoMux
    <3> HIDE DEF v
    <3>1. /\ v \in Muxes /\ v.channel = u.channel /\ v.next_port = u.next_port
          /\ v.session = u.session /\ v.transmit = u.transmit
      BY <1>7, StageFacts, Zenon
    <3> QED BY <3>1, MuxFields
  <2>2. Owned(v, C, L) BY <1>2, <2>1 DEF Owned
  <2>3. Numbered(v) BY <1>2, <2>1 DEF Numbered
  <2> HIDE DEF v
  <2> QED BY <2>1, <2>2, <2>3, <1>5
<1>8. ASSUME f \in GuestTcp, NEW i \in Slots, i \in Addressed(u, f),
             v = Put(u, i, Answer(u.channel[i], f))
      PROVE  v \in Muxes /\ Mid1(v, C, L, K, Tail(gi), go)
  <2> HIDE DEF f, v
  <2>1. /\ u.channel[i].state \in {"CONNECT", "SYN_SENT", "OPEN"}
        /\ u.channel[i].local = f.local /\ u.channel[i] \in Channels
    BY <1>2, <1>8, AddressedFacts
  <2> DEFINE c == Answer(u.channel[i], f)
  <2>2. /\ c \in Channels /\ c.local = u.channel[i].local
        /\ c.remote = u.channel[i].remote /\ c.state \in {"OPEN", "ERROR"}
    BY <1>8, <2>1, AnswerTyped
  <2> HIDE DEF c
  <2>3. /\ v \in Muxes /\ v.next_port = u.next_port /\ v.session = u.session
        /\ v.transmit = u.transmit
        /\ \A j \in Slots : v.channel[j] = IF j = i THEN c ELSE u.channel[j]
    BY <1>8, <2>2, PutFacts DEF c
  <2>4. Owned(v, C, L)
    <3>1. \A j \in Slots : j # i => v.channel[j] = u.channel[j] BY <2>3
    <3>2. v.channel[i].state \in Live /\ u.channel[i].state \in Live BY <2>1, <2>2, <2>3 DEF Live
    <3> QED BY <1>2, <1>3, <2>3, <3>1, <3>2, OwnedKept
  <2>5. Numbered(v)
    <3>1. \A j \in Slots : j # i => v.channel[j] = u.channel[j] BY <2>3
    <3>2. /\ v.channel[i].state # "UNUSED" /\ u.channel[i].state # "UNUSED"
          /\ v.channel[i].local = u.channel[i].local /\ v.channel[i].remote = u.channel[i].remote
      BY <2>1, <2>2, <2>3
    <3> QED BY <1>2, <2>3, <3>1, <3>2, NumberedKept
  <2> QED BY <2>3, <2>4, <2>5, <1>5
<1> HIDE DEF f, v
<1>9. \/ v.stage = "FAILED"
      \/ \E s \in {"SEND_SETUP", "ACTIVE"} : v = [u EXCEPT !.stage = s]
      \/ v = u
      \/ f \in GuestTcp /\ \E i \in Slots : i \in Addressed(u, f)
                                            /\ v = Put(u, i, Answer(u.channel[i], f))
  BY <1>1, InputIs DEF v
<1> QED BY <1>6, <1>7, <1>8, <1>9 DEF v, f

LEMMA LinkedOut ==
  ASSUME NEW m \in Muxes, NEW n \in Muxes, NEW gi, NEW go, Same, Linked(m, gi, go),
         n.session = m.session, n.transmit.session = m.session,
         n.stage \in {"SEND_SETUP", "WAIT_SETUP", "ACTIVE"} \/ n.transmit.kind \in {"setup", "tcp"} =>
           m.stage \in {"SEND_SETUP", "WAIT_SETUP", "ACTIVE"}
  PROVE  Linked(n, gi, go)
<1>1. m # NoMux /\ n # NoMux BY MuxFields
<1> QED BY <1>1 DEF Linked

LEMMA AfterFrameFacts ==
  ASSUME NEW c \in Channels, HasFrame(c)
  PROVE  /\ c.state \in {"CONNECT", "CLOSING", "OPEN"}
         /\ AfterFrame(c).local = c.local /\ AfterFrame(c).remote = c.remote
         /\ AfterFrame(c).state = CASE c.state = "CONNECT" -> "SYN_SENT"
                                    [] c.state = "CLOSING" -> "CLOSED"
                                    [] OTHER -> "OPEN"
<1>1. c.state \in {"CONNECT", "CLOSING", "OPEN"} BY DEF HasFrame
<1>2. CASE c.state = "CLOSING" BY <1>2, <1>1 DEF AfterFrame, FreshChannel
<1>3. CASE c.state # "CLOSING" BY <1>3, <1>1 DEF AfterFrame, Channels, Flags
<1> QED BY <1>2, <1>3, <1>1

LEMMA OutputStep1 ==
  ASSUME NEW u \in Muxes, NEW C, NEW L, NEW K, NEW gi, NEW go, Same, Mid1(u, C, L, K, gi, go)
  PROVE  /\ usb_mux_output(u) \in Muxes
         /\ Mid1(usb_mux_output(u), C, L, K, gi, go)
<1> DEFINE v == usb_mux_output(u)
<1>1. u # NoMux /\ Owned(u, C, L) /\ Numbered(u) /\ Linked(u, gi, go) /\ Typed(u, C, L, K, gi, go)
  BY MuxFields DEF Mid1
<1>2. \A k \in ToSet(L) : C[k].chan \in Slots \cup {-1}
  <2>1. C \in [Opens -> Conns] /\ L \in Seq(Opens) BY <1>1 DEF Typed
  <2> QED BY <2>1, ToSetIn DEF Conns
<1>3. ASSUME NEW k \in {"version", "setup"}, NEW s \in {"WAIT_VERSION", "WAIT_SETUP"},
             k = "setup" <=> s = "WAIT_SETUP", k = "setup" => u.stage = "SEND_SETUP",
             v = [u EXCEPT !.transmit = [kind |-> k, session |-> u.session], !.stage = s]
      PROVE  v \in Muxes /\ Mid1(v, C, L, K, gi, go)
  <2> HIDE DEF v
  <2> DEFINE h == [kind |-> k, session |-> u.session]
  <2>1. h \in HostFrames /\ h.kind = k /\ h.session = u.session BY MuxFields DEF HostFrames
  <2> HIDE DEF h
  <2>2. /\ v \in Muxes /\ v.channel = u.channel /\ v.next_port = u.next_port
        /\ v.session = u.session /\ v.transmit = h /\ v.stage = s
    <3>1. v = [u EXCEPT !.transmit = h, !.stage = s] BY <1>3 DEF h
    <3> QED BY <3>1, <2>1 DEF Muxes
  <2>3. v # NoMux BY <2>2, MuxFields
  <2>4. Owned(v, C, L) BY <1>1, <2>2, <2>3 DEF Owned
  <2>5. Numbered(v) BY <1>1, <2>2, <2>3 DEF Numbered
  <2>6. Linked(v, gi, go) BY <1>1, <1>3, <2>1, <2>2, LinkedOut, Zenon
  <2> QED BY <1>1, <2>2, <2>4, <2>5, <2>6 DEF Mid1, Typed
<1>4. ASSUME u.stage = "ACTIVE", NEW i \in Slots, HasFrame(u.channel[i]), v = Framed(u, i)
      PROVE  v \in Muxes /\ Mid1(v, C, L, K, gi, go)
  <2> HIDE DEF v
  <2>1. u.channel[i] \in Channels BY MuxFields
  <2> DEFINE c == AfterFrame(u.channel[i])
  <2>2. /\ u.channel[i].state \in {"CONNECT", "CLOSING", "OPEN"}
        /\ c.local = u.channel[i].local /\ c.remote = u.channel[i].remote
        /\ c.state = CASE u.channel[i].state = "CONNECT" -> "SYN_SENT"
                       [] u.channel[i].state = "CLOSING" -> "CLOSED"
                       [] OTHER -> "OPEN"
    BY <1>4, <2>1, AfterFrameFacts
  <2> HIDE DEF c
  <2>3. u.channel[i].local \in Ports /\ u.channel[i].remote = Service BY <1>1, <2>2 DEF Numbered
  <2>4. /\ v \in Muxes /\ v.stage = u.stage /\ v.next_port = u.next_port
        /\ v.session = u.session /\ v.transmit = FrameOf(u, i)
        /\ \A j \in Slots : v.channel[j] = IF j = i THEN c ELSE u.channel[j]
    BY <1>4, <2>3, FramedFacts DEF c
  <2>5. \A j \in Slots : j # i => v.channel[j] = u.channel[j] BY <2>4
  <2>6. Owned(v, C, L)
    <3>1. v.channel[i].state \in Live <=> u.channel[i].state \in Live BY <2>2, <2>4 DEF Live
    <3> QED BY <1>1, <1>2, <2>4, <2>5, <3>1, OwnedKept
  <2>7. Numbered(v)
    <3>1. /\ v.channel[i].state # "UNUSED" /\ u.channel[i].state # "UNUSED"
          /\ v.channel[i].local = u.channel[i].local /\ v.channel[i].remote = u.channel[i].remote
      BY <2>2, <2>4
    <3> QED BY <1>1, <2>4, <2>5, <3>1, NumberedKept
  <2>8. Linked(v, gi, go)
    <3>1. v.transmit.session = u.session BY <2>4 DEF FrameOf
    <3> QED BY <1>1, <1>4, <2>4, <3>1, LinkedOut
  <2> QED BY <1>1, <2>4, <2>6, <2>7, <2>8 DEF Mid1, Typed
<1> HIDE DEF v
<1>5. \/ v = u
      \/ /\ u.stage = "SEND_VERSION"
         /\ v = [u EXCEPT !.transmit = [kind |-> "version", session |-> u.session],
                          !.stage = "WAIT_VERSION"]
      \/ /\ u.stage = "SEND_SETUP"
         /\ v = [u EXCEPT !.transmit = [kind |-> "setup", session |-> u.session],
                          !.stage = "WAIT_SETUP"]
      \/ /\ u.stage = "ACTIVE"
         /\ \E i \in Slots : HasFrame(u.channel[i]) /\ v = Framed(u, i)
  BY OutputIs DEF v
<1>6. v \in Muxes /\ Mid1(v, C, L, K, gi, go) BY <1>3, <1>4, <1>5
<1> QED BY <1>6 DEF v

LEMMA CompleteStep1 ==
  ASSUME NEW u \in Muxes, NEW C, NEW L, NEW K, NEW gi, Same, Mid1(u, C, L, K, gi, NoFrame)
  PROVE  /\ usb_mux_output_complete(u) \in Muxes
         /\ Mid1(usb_mux_output_complete(u), C, L, K, gi, u.transmit)
<1> DEFINE v == usb_mux_output_complete(u)
<1>1. /\ u # NoMux /\ Owned(u, C, L) /\ Numbered(u) /\ Linked(u, gi, NoFrame)
      /\ Typed(u, C, L, K, gi, NoFrame)
  BY MuxFields DEF Mid1
<1>2. /\ v \in Muxes /\ v.channel = u.channel /\ v.next_port = u.next_port
      /\ v.session = u.session /\ v.transmit = NoFrame
      /\ v.stage = IF u.stage = "WAIT_SETUP" THEN "ACTIVE" ELSE u.stage
  BY CompleteIs
<1> HIDE DEF v
<1>3. v # NoMux /\ u.transmit \in HostFrames BY <1>2, MuxFields
<1>4. Owned(v, C, L) BY <1>1, <1>2, <1>3 DEF Owned
<1>5. Numbered(v) BY <1>1, <1>2, <1>3 DEF Numbered
<1>6. Linked(v, gi, u.transmit) BY <1>1, <1>2, <1>3 DEF Linked, NoFrame
<1>7. Typed(v, C, L, K, gi, u.transmit) BY <1>1, <1>2, <1>3 DEF Typed
<1> QED BY <1>2, <1>4, <1>5, <1>6, <1>7 DEF Mid1, v

---------------------------------------
(* PollOne: what the transport does to one connection of its list. *)

States == [u : Muxes, conn : [Opens -> Conns], list : Seq(Opens), sock : [Opens -> Pipes]]

LEMMA StateFields ==
  ASSUME NEW S \in States
  PROVE  /\ S.u \in Muxes /\ S.conn \in [Opens -> Conns] /\ S.list \in Seq(Opens)
         /\ S.sock \in [Opens -> Pipes]
         /\ S = [u |-> S.u, conn |-> S.conn, list |-> S.list, sock |-> S.sock]
BY DEF States

LEMMA ConnFields ==
  ASSUME NEW c \in Conns
  PROVE  /\ c.thread \in {"new", "waiting", "using", "failed", "closed"} /\ c.chan \in Slots \cup {-1}
         /\ c.ready \in BOOLEAN /\ c.canceled \in BOOLEAN /\ c.fd \in BOOLEAN
         /\ c.error \in Whys \cup {"ended"} /\ c.sent \in Nat
BY DEF Conns

LEMMA PipeFields ==
  ASSUME NEW p \in Pipes
  PROVE  /\ p.up \in Seq(UpBytes) /\ Len(p.up) \in Nat /\ Len(p.up) <= SOCKET
         /\ p.down \in Seq(DownBytes) /\ Len(p.down) \in Nat /\ Len(p.down) <= SOCKET
         /\ p = [up |-> p.up, down |-> p.down]
BY DEF Pipes, UpTo

\* the channel after n bytes went to the client and the bytes b came from it
Passed(c, n, b) ==
  [c EXCEPT !.receive = SubSeq(@, n + 1, Len(@)),
            !.ack_pending = @ \/ (n > 0 /\ c.state = "OPEN"),
            !.send = IF c.state = "OPEN" THEN @ \o b ELSE @]

PipeAfter(p, c, n, m) ==
  [up |-> SubSeq(p.up, m + 1, Len(p.up)), down |-> p.down \o SubSeq(c.receive, 1, n)]

LEMMA PassedFacts ==
  ASSUME NEW c \in Channels, NEW n \in 0..Len(c.receive), NEW b \in Seq(UpBytes),
         Len(c.send) + Len(b) <= TX_SIZE
  PROVE  /\ Passed(c, n, b) \in Channels /\ Passed(c, n, b).state = c.state
         /\ Passed(c, n, b).local = c.local /\ Passed(c, n, b).remote = c.remote
         /\ Passed(c, n, b).send_next = c.send_next /\ Passed(c, n, b).send_acked = c.send_acked
         /\ Passed(c, n, b).receive_next = c.receive_next
         /\ Passed(c, n, b).peer_window = c.peer_window
         /\ Passed(c, n, b).why = c.why /\ Passed(c, n, b).sent = c.sent
         /\ Passed(c, n, b).receive = SubSeq(c.receive, n + 1, Len(c.receive))
         /\ Passed(c, n, b).send = IF c.state = "OPEN" THEN c.send \o b ELSE c.send
<1> DEFINE t == SubSeq(c.receive, n + 1, Len(c.receive))
           z == c.ack_pending \/ (n > 0 /\ c.state = "OPEN")
           s == IF c.state = "OPEN" THEN c.send \o b ELSE c.send
<1>1. /\ c.receive \in Seq(DownBytes) /\ Len(c.receive) <= RX_SIZE /\ Len(c.receive) \in Nat
      /\ c.send \in Seq(UpBytes) /\ Len(c.send) <= TX_SIZE /\ Len(c.send) \in Nat
      /\ c.ack_pending \in BOOLEAN
  BY ChannelFields
<1>2. t \in UpTo(DownBytes, RX_SIZE)
  <2>1. t \in Seq(DownBytes) /\ Len(t) = Len(c.receive) - n BY <1>1, LastPart
  <2>2. Len(c.receive) - n <= RX_SIZE BY <1>1, Consts
  <2> HIDE DEF t
  <2> QED BY <2>1, <2>2 DEF UpTo
<1>3. s \in UpTo(UpBytes, TX_SIZE)
  <2>1. c.send \o b \in Seq(UpBytes) /\ Len(c.send \o b) = Len(c.send) + Len(b) BY <1>1, ConcatFacts
  <2>2. c.send \o b \in UpTo(UpBytes, TX_SIZE) BY <2>1 DEF UpTo
  <2>3. c.send \in UpTo(UpBytes, TX_SIZE) BY <1>1 DEF UpTo
  <2> QED BY <2>2, <2>3
<1>4. z \in BOOLEAN OBVIOUS
<1>5. Passed(c, n, b) = [c EXCEPT !.receive = t, !.ack_pending = z, !.send = s]
  BY DEF Passed, Channels
<1> HIDE DEF t, z, s
<1>6. LET d == [c EXCEPT !.receive = t, !.ack_pending = z, !.send = s] IN
      /\ d \in Channels /\ d.state = c.state /\ d.local = c.local /\ d.remote = c.remote
      /\ d.send_next = c.send_next /\ d.send_acked = c.send_acked
      /\ d.receive_next = c.receive_next /\ d.peer_window = c.peer_window
      /\ d.why = c.why /\ d.sent = c.sent /\ d.receive = t /\ d.send = s
  BY <1>2, <1>3, <1>4 DEF Channels
<1> QED BY <1>5, <1>6 DEF t, s

LEMMA PassIs ==
  ASSUME NEW u \in Muxes, u.stage = "ACTIVE", NEW i \in Slots,
         NEW n \in 0..Len(u.channel[i].receive), NEW b \in Seq(UpBytes)
  PROVE  usb_mux_write(usb_mux_read(u, i, n), i, b) = Put(u, i, Passed(u.channel[i], n, b))
<1> DEFINE c == u.channel[i]
           t == SubSeq(c.receive, n + 1, Len(c.receive))
           z == c.ack_pending \/ (n > 0 /\ c.state = "OPEN")
           d == [c EXCEPT !.receive = t, !.ack_pending = z]
           v == Put(u, i, d)
<1>1. c \in Channels /\ u.channel \in [Slots -> Channels] BY MuxFields
<1>2. /\ c.receive \in Seq(DownBytes) /\ Len(c.receive) <= RX_SIZE /\ Len(c.receive) \in Nat
  BY <1>1, ChannelFields
<1>3. t \in UpTo(DownBytes, RX_SIZE)
  <2>1. t \in Seq(DownBytes) /\ Len(t) = Len(c.receive) - n BY <1>2, LastPart
  <2>2. Len(c.receive) - n <= RX_SIZE BY <1>2, Consts
  <2> HIDE DEF t
  <2> QED BY <2>1, <2>2 DEF UpTo
<1>4. usb_mux_read(u, i, n) = v
  <2>1. usb_mux_read(u, i, n) =
           Put(u, i, [c EXCEPT !.receive = SubSeq(@, n + 1, Len(@)),
                         !.ack_pending = @ \/ (n > 0 /\ c.state = "OPEN")])
    BY ReadIs
  <2>2. [c EXCEPT !.receive = SubSeq(@, n + 1, Len(@)),
                  !.ack_pending = @ \/ (n > 0 /\ c.state = "OPEN")] = d
    BY <1>1 DEF Channels
  <2> HIDE DEF c, d
  <2> QED BY <2>1, <2>2
<1>5. /\ d \in Channels /\ d.state = c.state /\ d.send = c.send
      /\ \A s : [d EXCEPT !.send = s] = [c EXCEPT !.receive = t, !.ack_pending = z, !.send = s]
      /\ d = [c EXCEPT !.receive = t, !.ack_pending = z, !.send = c.send]
  <2>1. z \in BOOLEAN OBVIOUS
  <2> HIDE DEF t, z
  <2> QED BY <1>1, <1>3, <2>1 DEF Channels
<1>6. Passed(c, n, b) = IF c.state = "OPEN"
                        THEN [c EXCEPT !.receive = t, !.ack_pending = z, !.send = c.send \o b]
                        ELSE [c EXCEPT !.receive = t, !.ack_pending = z, !.send = c.send]
  BY <1>1 DEF Passed, Channels
<1> HIDE DEF c, d, t, z
<1>7. v \in Muxes /\ v.channel[i] = d /\ v.stage = "ACTIVE" /\ \A x : Put(v, i, x) = Put(u, i, x)
  <2>0. d \in Channels BY <1>5
  <2>1. v \in Muxes /\ v.channel[i] = d /\ v.stage = "ACTIVE" BY <2>0, PutFacts
  <2>2. \A x : Put(v, i, x) = Put(u, i, x) BY <1>1 DEF Put, Muxes
  <2> QED BY <2>1, <2>2
<1> HIDE DEF v
<1>8. usb_mux_write(v, i, b) = IF d.state = "OPEN" THEN Put(v, i, [d EXCEPT !.send = @ \o b]) ELSE v
  BY <1>7, WriteIs
<1>9. [d EXCEPT !.send = @ \o b] = [d EXCEPT !.send = c.send \o b] BY <1>5 DEF Channels
<1> QED BY <1>4, <1>5, <1>6, <1>7, <1>8, <1>9, Zenon DEF v, c

LEMMA ToClientIs ==
  ASSUME NEW S \in States, NEW k \in Opens, S.conn[k].chan \in Slots
  PROVE  /\ ToClient(S, k) \in 0..Len(S.u.channel[S.conn[k].chan].receive)
         /\ ToClient(S, k) <= SOCKET - Len(S.sock[k].down)
         /\ Hung(k) => ToClient(S, k) = 0
<1> DEFINE r == Len(S.u.channel[S.conn[k].chan].receive)
           a == SOCKET - Len(S.sock[k].down)
<1>1. S.u.channel[S.conn[k].chan] \in Channels /\ S.sock[k] \in Pipes BY StateFields, MuxFields
<1>2. r \in Nat /\ a \in Nat
  <2>1. Len(S.sock[k].down) \in Nat /\ Len(S.sock[k].down) <= SOCKET /\ SOCKET \in Nat
    BY <1>1, PipeFields, Consts
  <2>2. r \in Nat BY <1>1, ChannelFields
  <2> QED BY <2>1, <2>2
<1>3. ToClient(S, k) = IF Hung(k) THEN 0 ELSE LeastOf({r, a}) BY DEF ToClient
<1> HIDE DEF r, a
<1>4. LeastOf({r, a}) \in {r, a} /\ LeastOf({r, a}) <= r /\ LeastOf({r, a}) <= a
  <2>1. {r, a} \subseteq Nat /\ {r, a} # {} BY <1>2
  <2>2. LeastOf({r, a}) \in {r, a} /\ \A y \in {r, a} : LeastOf({r, a}) <= y BY <2>1, LeastIs
  <2> QED BY <2>2
<1>5. ToClient(S, k) \in 0..r /\ ToClient(S, k) <= a BY <1>2, <1>3, <1>4
<1> QED BY <1>3, <1>5 DEF r, a

LEMMA FromClientIs ==
  ASSUME NEW S \in States, NEW k \in Opens, S.conn[k].chan \in Slots
  PROVE  /\ FromClient(S, k) \in 0..Len(S.sock[k].up)
         /\ FromClient(S, k) <= TX_SIZE - Len(S.u.channel[S.conn[k].chan].send)
<1> DEFINE r == Len(S.sock[k].up)
           a == TX_SIZE - Len(S.u.channel[S.conn[k].chan].send)
<1>1. S.u.channel[S.conn[k].chan] \in Channels /\ S.sock[k] \in Pipes BY StateFields, MuxFields
<1>2. r \in Nat /\ a \in Nat
  <2>1. /\ Len(S.u.channel[S.conn[k].chan].send) \in Nat /\ TX_SIZE \in Nat
        /\ Len(S.u.channel[S.conn[k].chan].send) <= TX_SIZE
    BY <1>1, ChannelFields, Consts
  <2>2. r \in Nat BY <1>1, PipeFields
  <2> QED BY <2>1, <2>2
<1>3. FromClient(S, k) = LeastOf({r, a}) BY DEF FromClient, Space
<1> HIDE DEF r, a
<1>4. LeastOf({r, a}) \in {r, a} /\ LeastOf({r, a}) <= r /\ LeastOf({r, a}) <= a
  <2>1. {r, a} \subseteq Nat /\ {r, a} # {} BY <1>2
  <2>2. LeastOf({r, a}) \in {r, a} /\ \A y \in {r, a} : LeastOf({r, a}) <= y BY <2>1, LeastIs
  <2> QED BY <2>2
<1>5. FromClient(S, k) \in 0..r /\ FromClient(S, k) <= a BY <1>2, <1>3, <1>4
<1> QED BY <1>5 DEF r, a

LEMMA PipeAfterFacts ==
  ASSUME NEW p \in Pipes, NEW c \in Channels, NEW n \in 0..Len(c.receive),
         n <= SOCKET - Len(p.down), NEW m \in 0..Len(p.up)
  PROVE  PipeAfter(p, c, n, m) \in Pipes
<1>1. /\ p.up \in Seq(UpBytes) /\ Len(p.up) \in Nat /\ Len(p.up) <= SOCKET
      /\ p.down \in Seq(DownBytes) /\ Len(p.down) \in Nat /\ Len(p.down) <= SOCKET
      /\ c.receive \in Seq(DownBytes) /\ Len(c.receive) \in Nat /\ SOCKET \in Nat
  BY PipeFields, ChannelFields, Consts
<1> DEFINE x == SubSeq(p.up, m + 1, Len(p.up))
           y == SubSeq(c.receive, 1, n)
           z == p.down \o y
<1>2. x \in Seq(UpBytes) /\ Len(x) = Len(p.up) - m BY <1>1, LastPart
<1>3. y \in Seq(DownBytes) /\ Len(y) = n BY <1>1, FirstPart
<1>4. x \in UpTo(UpBytes, SOCKET)
  <2>1. Len(p.up) - m <= SOCKET BY <1>1
  <2> HIDE DEF x
  <2> QED BY <1>2, <2>1 DEF UpTo
<1> HIDE DEF y
<1>5. z \in Seq(DownBytes) /\ Len(z) = Len(p.down) + n
  <2>1. p.down \in Seq(DownBytes) /\ y \in Seq(DownBytes) BY <1>1, <1>3
  <2>2. z \in Seq(DownBytes) /\ Len(z) = Len(p.down) + Len(y) BY <2>1, ConcatFacts
  <2> HIDE DEF z
  <2> QED BY <1>3, <2>2
<1>6. z \in UpTo(DownBytes, SOCKET)
  <2>1. Len(p.down) + n <= SOCKET BY <1>1
  <2> HIDE DEF z
  <2> QED BY <1>5, <2>1 DEF UpTo
<1> HIDE DEF x, z
<1> QED BY <1>4, <1>6 DEF Pipes, PipeAfter, x, y, z

LEMMA MovedIs ==
  ASSUME NEW S \in States, NEW k \in Opens, NEW i \in Slots, S.conn[k].chan = i,
         S.u.stage = "ACTIVE", NEW n \in 0..Len(S.u.channel[i].receive),
         n <= SOCKET - Len(S.sock[k].down), NEW m \in 0..Len(S.sock[k].up),
         m <= TX_SIZE - Len(S.u.channel[i].send)
  PROVE  LET c == Passed(S.u.channel[i], n, SubSeq(S.sock[k].up, 1, m))
             p == PipeAfter(S.sock[k], S.u.channel[i], n, m)
         IN  /\ Moved(S, k, n, m) = [u |-> Put(S.u, i, c), conn |-> S.conn, list |-> S.list,
                                     sock |-> [S.sock EXCEPT ![k] = p]]
             /\ Moved(S, k, n, m) \in States
             /\ c \in Channels /\ p \in Pipes
             /\ SubSeq(S.sock[k].up, 1, m) \in Seq(UpBytes)
             /\ Len(S.u.channel[i].send) + Len(SubSeq(S.sock[k].up, 1, m)) <= TX_SIZE
<1> DEFINE o == S.u.channel[i]
           b == SubSeq(S.sock[k].up, 1, m)
           c == Passed(o, n, b)
           p == PipeAfter(S.sock[k], o, n, m)
<1>1. S.u \in Muxes /\ o \in Channels /\ S.sock[k] \in Pipes BY StateFields, MuxFields
<1>2. b \in Seq(UpBytes) /\ Len(b) = m
  <2>1. S.sock[k].up \in Seq(UpBytes) BY <1>1, PipeFields
  <2> QED BY <2>1, FirstPart
<1>3. Len(o.send) + Len(b) <= TX_SIZE
  <2>1. Len(o.send) \in Nat /\ TX_SIZE \in Nat BY <1>1, ChannelFields, Consts
  <2> HIDE DEF b
  <2> QED BY <1>2, <2>1
<1>4. p \in Pipes BY <1>1, PipeAfterFacts
<1>5. c \in Channels
  <2> HIDE DEF b
  <2> QED BY <1>1, <1>2, <1>3, PassedFacts
<1>6. usb_mux_write(usb_mux_read(S.u, i, n), i, b) = Put(S.u, i, c)
  <2> HIDE DEF b
  <2> QED BY <1>1, <1>2, PassIs
<1>7. Moved(S, k, n, m) = [S EXCEPT !.u = usb_mux_write(usb_mux_read(@, i, n), i, b), !.sock[k] = p]
  BY DEF Moved, PipeAfter, States
<1>8. Put(S.u, i, c) \in Muxes
  <2> HIDE DEF c
  <2> QED BY <1>1, <1>5, PutFacts
<1> HIDE DEF c, p, b
<1>9. Moved(S, k, n, m) = [u |-> Put(S.u, i, c), conn |-> S.conn, list |-> S.list,
                           sock |-> [S.sock EXCEPT ![k] = p]]
  BY <1>6, <1>7 DEF States
<1>10. Moved(S, k, n, m) \in States BY <1>4, <1>8, <1>9 DEF States
<1> QED BY <1>2, <1>3, <1>4, <1>5, <1>9, <1>10 DEF c, p, b

\* what is left of a connection that the transport forgets
Left(S, k, why) ==
  IF Hung(k) THEN Gone(S.conn[k].thread)
  ELSE [S.conn[k] EXCEPT !.fd = FALSE, !.error = why,
                         !.sent = S.u.channel[S.conn[k].chan].sent]

LEMMA ClosedIs ==
  ASSUME NEW S \in States, NEW k \in Opens, NEW why, NEW v
  PROVE  Closed(S, k, why, v) =
           [u |-> v, conn |-> [S.conn EXCEPT ![k] = Left(S, k, why)],
            list |-> Without(S.list, {k}),
            sock |-> [S.sock EXCEPT ![k] = [up |-> <<>>, down |-> S.sock[k].down]]]
<1>1. Closed(S, k, why, v) =
        [S EXCEPT !.u = v, !.list = Without(S.list, {k}), !.sock[k].up = <<>>,
                  !.conn[k] = Left(S, k, why)]
  BY DEF Closed, Left, States
<1>2. S.sock \in [Opens -> Pipes] /\ [S.sock[k] EXCEPT !.up = <<>>] = [up |-> <<>>, down |-> S.sock[k].down]
  BY DEF States, Pipes
<1> QED BY <1>1, <1>2 DEF States

LEMMA TransferIs ==
  ASSUME NEW S \in States, NEW k \in Opens, NEW T \in States, T.conn = S.conn,
         Moved(S, k, ToClient(S, k), FromClient(S, k)) = T
  PROVE  Transfer(S, k) =
           [u |-> T.u, conn |-> [S.conn EXCEPT ![k] = [S.conn[k] EXCEPT !.ready = TRUE,
                                                          !.canceled = HangUpSeen(S, k)]],
            list |-> T.list, sock |-> T.sock]
<1>1. Transfer(S, k) = [T EXCEPT !.conn[k] = [@ EXCEPT !.ready = TRUE, !.canceled = HangUpSeen(S, k)]]
  BY DEF Transfer
<1> QED BY <1>1 DEF States

LEMMA PollIs ==
  ASSUME NEW u, NEW S, list \in Seq(S), pollWithMux(u)
  PROVE \E run : /\ run[0] = [u |-> u, conn |-> conn, list |-> list, sock |-> sock]
                 /\ \A i \in 1..Len(list) : run[i] = PollOne(run[i - 1], list[i])
                 /\ mux' = run[Len(list)].u /\ conn' = run[Len(list)].conn
                 /\ list' = run[Len(list)].list /\ sock' = run[Len(list)].sock
                 /\ UNCHANGED accepting
<1> DEFINE b == [u |-> u, conn |-> conn, list |-> list, sock |-> sock]
<1>1. PICK run : /\ run[0] = b
                 /\ \A i \in 1..Len(list) : run[i] = PollOne(run[i - 1], list[i])
                 /\ FoldLeft(PollOne, b, list) = run[Len(list)]
  BY PollRun, Zenon
<1>2. /\ mux' = FoldLeft(PollOne, b, list).u /\ conn' = FoldLeft(PollOne, b, list).conn
      /\ list' = FoldLeft(PollOne, b, list).list /\ sock' = FoldLeft(PollOne, b, list).sock
      /\ UNCHANGED accepting
  BY DEF pollWithMux
<1> HIDE DEF b
<1> QED BY <1>1, <1>2 DEF b

\* what one visit of a connection can be
Connects(S, k, T) ==
  /\ ~S.conn[k].canceled /\ S.conn[k].chan = -1 /\ CanConnect(S.u)
  /\ T = [u |-> usb_mux_connect(S.u, Service),
          conn |-> [S.conn EXCEPT ![k] = [S.conn[k] EXCEPT !.chan = ConnectSlot(S.u)]],
          list |-> S.list, sock |-> S.sock]

Cancels(S, k, T) ==
  /\ S.conn[k].canceled
  /\ T = Closed(S, k, S.conn[k].error,
                IF S.conn[k].chan # -1 THEN usb_mux_close(S.u, S.conn[k].chan) ELSE S.u)

Delivers(S, k, T) ==
  \E i \in Slots : \E n \in 0..Len(S.u.channel[i].receive) :
    /\ ~S.conn[k].canceled /\ S.conn[k].chan = i /\ S.u.stage = "ACTIVE"
    /\ S.conn[k].ready /\ ~Hung(k) /\ n < Len(S.u.channel[i].receive)
    /\ n <= SOCKET - Len(S.sock[k].down)
    /\ T = Moved(S, k, n, 0)

Fails(S, k, T) ==
  \E i \in Slots : \E n \in 0..Len(S.u.channel[i].receive) :
    /\ ~S.conn[k].canceled /\ S.conn[k].chan = i /\ S.u.stage = "ACTIVE"
    /\ S.u.channel[i].state = "ERROR"
    /\ n = IF S.conn[k].ready /\ ~Hung(k) THEN Len(S.u.channel[i].receive) ELSE 0
    /\ n <= SOCKET - Len(S.sock[k].down)
    /\ T = Closed(Moved(S, k, n, 0), k, S.u.channel[i].why, usb_mux_close(S.u, i))

Transfers(S, k, T) ==
  \E i \in Slots : \E n \in 0..Len(S.u.channel[i].receive), m \in 0..Len(S.sock[k].up) :
    /\ ~S.conn[k].canceled /\ S.conn[k].chan = i /\ S.u.stage = "ACTIVE"
    /\ S.u.channel[i].state = "OPEN"
    /\ S.conn[k].ready /\ ~Hung(k) => n = Len(S.u.channel[i].receive)
    /\ n <= SOCKET - Len(S.sock[k].down) /\ m <= TX_SIZE - Len(S.u.channel[i].send)
    /\ n = ToClient(S, k) /\ m = FromClient(S, k)
    /\ T = Transfer(S, k)

LEMMA StateWith ==
  ASSUME NEW S \in States, NEW x, NEW y
  PROVE  [S EXCEPT !.u = x, !.conn = y] = [u |-> x, conn |-> y, list |-> S.list, sock |-> S.sock]
<1> DEFINE r == [u |-> x, conn |-> S.conn, list |-> S.list, sock |-> S.sock]
<1>1. [S EXCEPT !.u = x] = r BY DEF States
<1>2. [r EXCEPT !.conn = y] = [u |-> x, conn |-> y, list |-> S.list, sock |-> S.sock]
  OBVIOUS
<1> HIDE DEF r
<1> QED BY <1>1, <1>2

LEMMA PollCases ==
  ASSUME NEW S \in States, NEW k \in Opens,
         S.conn[k].chan # -1 => S.u.channel[S.conn[k].chan].state \in Live
  PROVE  \/ PollOne(S, k) = S
         \/ Connects(S, k, PollOne(S, k))
         \/ Cancels(S, k, PollOne(S, k))
         \/ Delivers(S, k, PollOne(S, k))
         \/ Fails(S, k, PollOne(S, k))
         \/ Transfers(S, k, PollOne(S, k))
<1> DEFINE c == S.conn[k]
           i == c.chan
           o == S.u.channel[i]
           n == ToClient(S, k)
           l == Len(o.receive)
<1>1. S.u \in Muxes /\ c \in Conns /\ S.sock[k] \in Pipes BY StateFields
<1>2. c.canceled \in BOOLEAN /\ c.ready \in BOOLEAN /\ i \in Slots \cup {-1} BY <1>1, ConnFields
<1>3. CASE c.canceled
  <2>1. PollOne(S, k) = Closed(S, k, c.error, IF i # -1 THEN usb_mux_close(S.u, i) ELSE S.u)
    BY <1>3 DEF PollOne
  <2> QED BY <1>3, <2>1 DEF Cancels
<1>4. CASE ~c.canceled /\ i = -1
  <2>1. CASE CanConnect(S.u)
    <3>1. PollOne(S, k) = [S EXCEPT !.u = usb_mux_connect(@, Service), !.conn[k].chan = ConnectSlot(S.u)]
      BY <1>4, <2>1 DEF PollOne
    <3>2. [S EXCEPT !.u = usb_mux_connect(@, Service), !.conn[k].chan = ConnectSlot(S.u)]
            = [u |-> usb_mux_connect(S.u, Service),
               conn |-> [S.conn EXCEPT ![k] = [S.conn[k] EXCEPT !.chan = ConnectSlot(S.u)]],
               list |-> S.list, sock |-> S.sock]
      <4> DEFINE u2 == usb_mux_connect(S.u, Service)
                 s2 == ConnectSlot(S.u)
      <4>1. [S EXCEPT !.u = usb_mux_connect(@, Service), !.conn[k].chan = ConnectSlot(S.u)]
              = [S EXCEPT !.u = u2, !.conn[k].chan = s2]
        BY StateFields
      <4> HIDE DEF u2, s2
      <4>2. [S EXCEPT !.u = u2, !.conn[k].chan = s2]
              = [u |-> u2, conn |-> [S.conn EXCEPT ![k] = [S.conn[k] EXCEPT !.chan = s2]],
                 list |-> S.list, sock |-> S.sock]
        <5> HIDE DEF c, i, o, n, l
        <5>1. [S.conn EXCEPT ![k].chan = s2] = [S.conn EXCEPT ![k] = [S.conn[k] EXCEPT !.chan = s2]]
          BY StateFields
        <5>2. [S EXCEPT !.u = u2, !.conn[k].chan = s2]
                = [S EXCEPT !.u = u2, !.conn = [S.conn EXCEPT ![k].chan = s2]]
          BY DEF States
        <5> DEFINE c2 == [S.conn EXCEPT ![k].chan = s2]
        <5>3. [S EXCEPT !.u = u2, !.conn = c2] = [u |-> u2, conn |-> c2, list |-> S.list, sock |-> S.sock]
          BY StateWith
        <5> QED BY <5>1, <5>2, <5>3
      <4> QED BY <4>1, <4>2 DEF u2, s2
    <3>3. ~S.conn[k].canceled /\ S.conn[k].chan = -1 BY <1>4
    <3>4. PollOne(S, k)
            = [u |-> usb_mux_connect(S.u, Service),
               conn |-> [S.conn EXCEPT ![k] = [S.conn[k] EXCEPT !.chan = ConnectSlot(S.u)]],
               list |-> S.list, sock |-> S.sock]
      BY <3>1, <3>2, Zenon
    <3> HIDE DEF c, i, o, n, l
    <3> QED BY <2>1, <3>3, <3>4, Zenon DEF Connects
  <2>2. CASE ~CanConnect(S.u) BY <1>4, <2>2 DEF PollOne
  <2> QED BY <2>1, <2>2
<1>5. CASE ~c.canceled /\ i # -1 /\ ~usb_mux_ready(S.u) BY <1>5 DEF PollOne
<1>6. CASE ~c.canceled /\ i # -1 /\ usb_mux_ready(S.u)
  <2>1. PollOne(S, k) = Serve(S, k) BY <1>6 DEF PollOne
  <2>2. i \in Slots /\ S.u.stage = "ACTIVE" BY <1>2, <1>6 DEF usb_mux_ready
  <2>3. n \in 0..l /\ n <= SOCKET - Len(S.sock[k].down) /\ (Hung(k) => n = 0) /\ l \in Nat
    <3>1. o \in Channels BY <2>2, <1>1, MuxFields
    <3> QED BY <2>2, <3>1, ToClientIs, ChannelFields
  <2>4. o.state \in Live BY <1>6
  <2>5. /\ 0 \in 0..l /\ 0 <= SOCKET - Len(S.sock[k].down)
    <3>1. Len(S.sock[k].down) \in Nat /\ Len(S.sock[k].down) <= SOCKET /\ SOCKET \in Nat
      BY <1>1, PipeFields, Consts
    <3>2. 0 <= SOCKET - Len(S.sock[k].down) BY <3>1
    <3>3. 0 \in 0..l
      <4> HIDE DEF l, n
      <4> QED BY <2>3
    <3> QED BY <3>2, <3>3
  <2>6. CASE c.ready /\ ~Hung(k) /\ n < l
    <3>1. Serve(S, k) = Moved(S, k, n, 0)
      <4> HIDE DEF n, l
      <4>1. n # l BY <2>3, <2>6
      <4> QED BY <2>6, <4>1, Zenon DEF Serve, n, l
    <3> HIDE DEF n
    <3>2. Delivers(S, k, Moved(S, k, n, 0)) BY <1>6, <2>2, <2>3, <2>6 DEF Delivers
    <3> QED BY <2>1, <3>1, <3>2
  <2>7. CASE ~(c.ready /\ ~Hung(k) /\ n < l)
    <3>1. c.ready /\ ~Hung(k) => n = l
      <4> HIDE DEF l, n
      <4> QED BY <2>3, <2>7
    <3>2. CASE o.state = "ERROR"
      <4>1. Serve(S, k) = Closed(Moved(S, k, IF c.ready THEN n ELSE 0, 0), k, o.why, usb_mux_close(S.u, i))
        BY <3>2, <3>1, <2>7 DEF Serve
      <4> DEFINE x == IF c.ready THEN n ELSE 0
      <4>2. x \in 0..l /\ x <= SOCKET - Len(S.sock[k].down)
            /\ x = IF c.ready /\ ~Hung(k) THEN l ELSE 0
        BY <2>3, <2>5, <3>1
      <4> HIDE DEF x
      <4>3. Fails(S, k, Closed(Moved(S, k, x, 0), k, o.why, usb_mux_close(S.u, i)))
        BY <4>2, <3>2, <1>6, <2>2 DEF Fails
      <4> QED BY <2>1, <4>1, <4>3 DEF x
    <3>3. CASE o.state = "OPEN"
      <4>1. Serve(S, k) = Transfer(S, k) BY <3>3, <3>1, <2>7 DEF Serve
      <4>2. /\ FromClient(S, k) \in 0..Len(S.sock[k].up)
            /\ FromClient(S, k) <= TX_SIZE - Len(o.send)
        BY <2>2, FromClientIs
      <4>3. Transfers(S, k, Transfer(S, k)) BY <4>2, <3>1, <3>3, <2>2, <2>3, <1>6 DEF Transfers
      <4> QED BY <2>1, <4>1, <4>3
    <3>4. CASE o.state \in {"CONNECT", "SYN_SENT"}
      <4>1. Serve(S, k) = S BY <3>4, <2>7 DEF Serve
      <4> QED BY <2>1, <4>1
    <3> QED BY <3>2, <3>3, <3>4, <2>4 DEF Live
  <2> QED BY <2>6, <2>7
<1> QED BY <1>2, <1>3, <1>4, <1>5, <1>6

LEMMA LinkedKept ==
  ASSUME NEW m \in Muxes, NEW n \in Muxes, NEW gi, NEW go, Linked(m, gi, go),
         n.session = m.session, n.transmit = m.transmit, n.stage = m.stage
  PROVE  Linked(n, gi, go)
<1>1. m # NoMux /\ n # NoMux BY MuxFields
<1> QED BY <1>1 DEF Linked

LEMMA GoneTyped ==
  ASSUME NEW t \in {"new", "waiting", "using", "failed", "closed"}
  PROVE  /\ Gone(t) \in Conns /\ Gone(t).thread = t /\ Gone(t).chan = -1 /\ Gone(t).error = "none"
         /\ Gone(t).canceled = FALSE /\ Gone(t).ready = FALSE /\ Gone(t).fd = FALSE
         /\ Gone(t).sent = 0
BY DEF Gone, FreshConn, Conns, Whys

LEMMA LeftFacts ==
  ASSUME NEW S \in States, NEW k \in Opens, NEW why \in Whys \cup {"ended"}, Hung(k) \/ S.conn[k].chan # -1,
         S.conn[k].canceled => S.conn[k].thread \in {"closed", "failed"}
  PROVE  /\ Left(S, k, why) \in Conns /\ Left(S, k, why).thread = S.conn[k].thread
         /\ Left(S, k, why).canceled => Left(S, k, why).thread \in {"closed", "failed"}
<1> DEFINE c == S.conn[k]
           n == S.u.channel[c.chan].sent
<1>1. c \in Conns /\ S.u \in Muxes BY StateFields
<1>2. CASE Hung(k) BY <1>1, <1>2, GoneTyped, ConnFields DEF Left
<1>3. CASE ~Hung(k)
  <2>1. c.chan \in Slots BY <1>1, <1>3, ConnFields
  <2>2. n \in Nat
    <3>1. S.u.channel[c.chan] \in Channels BY <1>1, <2>1, MuxFields
    <3> QED BY <3>1, ChannelFields
  <2>3. Left(S, k, why) = [c EXCEPT !.fd = FALSE, !.error = why, !.sent = n] BY <1>3 DEF Left
  <2> HIDE DEF n
  <2> QED BY <1>1, <2>2, <2>3 DEF Conns
<1> QED BY <1>2, <1>3

\* the connection k leaves the list, and its channel is given up
LEMMA OwnedLess ==
  ASSUME NEW m \in Muxes, NEW n \in Muxes, NEW C \in [Opens -> Conns], NEW L \in Seq(Opens),
         Owned(m, C, L), NEW k \in ToSet(L), NEW c \in Conns,
         c.canceled => c.thread \in {"closed", "failed"},
         C[k].chan = -1 => n = m,
         C[k].chan # -1 => /\ \A j \in Slots : j # C[k].chan => n.channel[j] = m.channel[j]
                           /\ n.channel[C[k].chan].state \notin Live
  PROVE  Owned(n, [C EXCEPT ![k] = c], Without(L, {k}))
<1> DEFINE M == Without(L, {k})
           D == [C EXCEPT ![k] = c]
<1>1. m # NoMux /\ n # NoMux /\ ToSet(L) \subseteq Opens /\ IsInjective(L) /\ Len(L) <= USB_MUX_CHANNELS
  BY MuxFields, ToSetIn DEF Owned
<1>2. IsInjective(M) /\ M \in Seq(Opens) /\ ToSet(M) = ToSet(L) \ {k} /\ Len(M) <= Len(L)
  BY <1>1, WithoutFacts
<1>3. Len(M) <= USB_MUX_CHANNELS
  <2>1. Len(M) \in Nat /\ Len(L) \in Nat /\ USB_MUX_CHANNELS \in Nat BY <1>2, Consts
  <2> HIDE DEF M
  <2> QED BY <1>1, <1>2, <2>1
<1>4. \A j \in Opens : D[j] = IF j = k THEN c ELSE C[j] OBVIOUS
<1>5. \A j \in ToSet(L) : C[j].chan \in Slots \cup {-1} BY <1>1 DEF Conns
<1> HIDE DEF M, D
<1>6. \A j \in Opens : D[j].canceled => D[j].thread \in {"closed", "failed"}
  BY <1>4, Zenon DEF Owned
<1>7. ASSUME NEW j \in ToSet(M)
      PROVE  /\ D[j].thread # "new" /\ D[j].error = "none" /\ (D[j].fd \/ D[j].thread = "failed")
             /\ D[j].chan # -1 => n.channel[D[j].chan].state \in Live
  <2>1. j \in ToSet(L) /\ j # k /\ D[j] = C[j] BY <1>1, <1>2, <1>4
  <2>2. C[j].chan # -1 => C[j].chan # C[k].chan /\ m.channel[C[j].chan].state \in Live
    BY <2>1 DEF Owned
  <2>3. C[j].thread # "new" /\ C[j].error = "none" /\ (C[j].fd \/ C[j].thread = "failed")
    BY <2>1 DEF Owned
  <2> QED BY <2>1, <2>2, <2>3, <1>5
<1>8. ASSUME NEW i \in Slots, n.channel[i].state \in Live PROVE \E j \in ToSet(M) : D[j].chan = i
  <2>1. i # C[k].chan /\ n.channel[i] = m.channel[i] BY <1>8, SlotFacts
  <2>2. PICK j \in ToSet(L) : C[j].chan = i BY <1>1, <1>8, <2>1 DEF Owned
  <2> QED BY <1>1, <1>2, <1>4, <2>1, <2>2
<1>9. \A i, j \in ToSet(M) : i # j /\ D[i].chan = D[j].chan => D[i].chan = -1
  BY <1>1, <1>2, <1>4 DEF Owned
<1>10. Owned(n, D, M) BY <1>1, <1>2, <1>3, <1>6, <1>7, <1>8, <1>9 DEF Owned
<1> QED BY <1>10 DEF D, M

\* the connection k and its channel change, and stay with each other
LEMMA OwnedMoved ==
  ASSUME NEW m \in Muxes, NEW n \in Muxes, NEW C \in [Opens -> Conns], NEW L \in Seq(Opens),
         Owned(m, C, L), NEW k \in ToSet(L), NEW c \in Conns, NEW i \in Slots,
         c.canceled => c.thread \in {"closed", "failed"}, c.thread = C[k].thread,
         c.error = C[k].error, c.chan = C[k].chan, c.fd = C[k].fd,
         \A j \in Slots : j # i => n.channel[j] = m.channel[j],
         n.channel[i].state = m.channel[i].state
  PROVE  Owned(n, [C EXCEPT ![k] = c], L)
<1> DEFINE D == [C EXCEPT ![k] = c]
<1>1. m # NoMux /\ n # NoMux /\ ToSet(L) \subseteq Opens BY MuxFields, ToSetIn
<1>2. \A j \in Opens : D[j] = IF j = k THEN c ELSE C[j] OBVIOUS
<1> HIDE DEF D
<1>3. \A j \in Opens : /\ D[j].thread = C[j].thread /\ D[j].error = C[j].error
                       /\ D[j].chan = C[j].chan /\ D[j].fd = C[j].fd
  BY <1>2
<1>4. \A j \in Slots : n.channel[j].state = m.channel[j].state OBVIOUS
<1>5. \A j \in ToSet(L) : C[j].chan \in Slots \cup {-1} BY <1>1 DEF Conns
<1>6. \A j \in Opens : D[j].canceled => D[j].thread \in {"closed", "failed"} BY <1>2 DEF Owned
<1>7. \A j \in ToSet(L) :
         /\ D[j].thread # "new" /\ D[j].error = "none" /\ (D[j].fd \/ D[j].thread = "failed")
         /\ D[j].chan # -1 => n.channel[D[j].chan].state \in Live
  BY <1>1, <1>3, <1>4, <1>5 DEF Owned
<1>8. Owned(n, D, L) BY <1>1, <1>3, <1>4, <1>6, <1>7 DEF Owned
<1> QED BY <1>8 DEF D

\* the connection k gets a channel
LEMMA OwnedConnect ==
  ASSUME NEW m \in Muxes, NEW n \in Muxes, NEW C \in [Opens -> Conns], NEW L \in Seq(Opens),
         Owned(m, C, L), NEW k \in ToSet(L), NEW i \in Slots, C[k].chan = -1,
         m.channel[i].state \notin Live, n.channel[i].state = "CONNECT",
         \A j \in Slots : j # i => n.channel[j] = m.channel[j]
  PROVE  Owned(n, [C EXCEPT ![k] = [C[k] EXCEPT !.chan = i]], L)
<1> DEFINE c == [C[k] EXCEPT !.chan = i]
           D == [C EXCEPT ![k] = c]
<1>1. m # NoMux /\ n # NoMux /\ ToSet(L) \subseteq Opens BY MuxFields, ToSetIn
<1>2. /\ c.thread = C[k].thread /\ c.error = C[k].error /\ c.canceled = C[k].canceled /\ c.chan = i
      /\ c.fd = C[k].fd
  BY <1>1 DEF Conns
<1> HIDE DEF c
<1>3. \A j \in Opens : D[j] = IF j = k THEN c ELSE C[j] OBVIOUS
<1> HIDE DEF D
<1>4. \A j \in Opens : /\ D[j].thread = C[j].thread /\ D[j].error = C[j].error
                       /\ D[j].canceled = C[j].canceled /\ D[j].fd = C[j].fd
                       /\ D[j].chan = IF j = k THEN i ELSE C[j].chan
  BY <1>2, <1>3
<1>5. ASSUME NEW j \in ToSet(L), j # k, C[j].chan # -1
      PROVE  C[j].chan # i /\ C[j].chan \in Slots /\ n.channel[C[j].chan].state \in Live
  <2>1. C[j].chan \in Slots BY <1>1, <1>5 DEF Conns
  <2>2. m.channel[C[j].chan].state \in Live BY <1>5 DEF Owned
  <2> QED BY <2>1, <2>2
<1>6. \A j \in ToSet(L) : D[j].chan # -1 => n.channel[D[j].chan].state \in Live
  BY <1>1, <1>4, <1>5 DEF Live
<1>7. \A s \in Slots : n.channel[s].state \in Live => \E j \in ToSet(L) : D[j].chan = s
  <2> SUFFICES ASSUME NEW s \in Slots, n.channel[s].state \in Live
               PROVE  \E j \in ToSet(L) : D[j].chan = s
    OBVIOUS
  <2>1. CASE s = i BY <2>1, <1>1, <1>4
  <2>2. CASE s # i
    <3>1. PICK j \in ToSet(L) : C[j].chan = s BY <2>2, <1>1 DEF Owned
    <3>2. j # k BY <3>1, SlotFacts
    <3> QED BY <3>1, <3>2, <1>1, <1>4
  <2> QED BY <2>1, <2>2
<1>8. \A j, l \in ToSet(L) : j # l /\ D[j].chan = D[l].chan => D[j].chan = -1
  <2> SUFFICES ASSUME NEW j \in ToSet(L), NEW l \in ToSet(L), j # l, D[j].chan = D[l].chan
               PROVE  D[j].chan = -1
    OBVIOUS
  <2>1. CASE j # k /\ l # k BY <2>1, <1>1, <1>4 DEF Owned
  <2>2. CASE j = k \/ l = k BY <2>2, <1>1, <1>4, <1>5, SlotFacts
  <2> QED BY <2>1, <2>2
<1>9. Owned(n, D, L) BY <1>1, <1>4, <1>6, <1>7, <1>8 DEF Owned
<1> QED BY <1>9 DEF D, c

LEMMA NumberedConnect ==
  ASSUME NEW u \in Muxes, Numbered(u), CanConnect(u)
  PROVE  Numbered(usb_mux_connect(u, Service))
<1> DEFINE v == usb_mux_connect(u, Service)
           i == ConnectSlot(u)
           c == Connected(u, Service)
<1>1. /\ i \in Slots /\ u.next_port \in Ports /\ c \in Channels /\ v \in Muxes
      /\ v.channel = Put(u, i, c).channel /\ v.next_port = (u.next_port + 1) % PORTS
  BY ConnectIs
<1>2. c.state = "CONNECT" /\ c.local = u.next_port /\ c.remote = Service
  BY DEF Connected, FreshChannel
<1>3. u # NoMux /\ v # NoMux BY <1>1, MuxFields
<1>4. \A j \in Slots : v.channel[j] = IF j = i THEN c ELSE u.channel[j]
  <2> HIDE DEF v, i, c
  <2> QED BY <1>1, PutFacts
<1> HIDE DEF v, i, c
<1>5. u.next_port \in Nat /\ u.next_port # 0 /\ u.next_port < PORTS /\ PORTS \in Nat \ {0}
  BY <1>1, Consts DEF Ports
<1>6. v.next_port # 0 => v.next_port = u.next_port + 1
  <2>1. CASE u.next_port = PORTS - 1
    <3>1. (u.next_port + 1) % PORTS = 0
      <4>1. u.next_port + 1 \in Int /\ 0 \in 0..(PORTS - 1) /\ u.next_port + 1 = PORTS * 1 + 0
        BY <1>5, <2>1
      <4> QED BY <4>1, <1>5, ModUnique
    <3> QED BY <1>1, <3>1
  <2>2. CASE u.next_port # PORTS - 1
    <3>1. (u.next_port + 1) % PORTS = u.next_port + 1
      <4> DEFINE a == u.next_port + 1
      <4>1. a \in Int /\ a \in 0..(PORTS - 1) /\ a = PORTS * 0 + a BY <1>5, <2>2
      <4> HIDE DEF a
      <4>2. a % PORTS = a BY <4>1, <1>5, ModUnique
      <4> QED BY <4>2 DEF a
    <3> QED BY <1>1, <3>1
  <2> QED BY <2>1, <2>2
<1>7. ASSUME NEW j \in Slots, j # i, u.channel[j].state # "UNUSED"
      PROVE  u.channel[j].local \in Ports /\ u.channel[j].remote = Service /\ u.channel[j].local < u.next_port
  BY <1>3, <1>5, <1>7 DEF Numbered
<1>8. ASSUME NEW j \in Slots, v.channel[j].state # "UNUSED"
      PROVE  /\ v.channel[j].local \in Ports /\ v.channel[j].remote = Service
             /\ v.next_port # 0 => v.channel[j].local < v.next_port
             /\ \A l \in Slots : v.channel[l].state # "UNUSED" /\ l # j =>
                   v.channel[l].local # v.channel[j].local
  <2>1. CASE j = i
    <3>1. v.channel[j].local \in Ports /\ v.channel[j].remote = Service /\ v.channel[j].local = u.next_port
      BY <1>1, <1>2, <1>4, <2>1
    <3>2. v.next_port # 0 => v.channel[j].local < v.next_port BY <3>1, <1>5, <1>6
    <3>3. ASSUME NEW l \in Slots, v.channel[l].state # "UNUSED", l # j
          PROVE  v.channel[l].local # v.channel[j].local
      <4>1. u.channel[l].local \in Ports /\ u.channel[l].local < u.next_port /\ v.channel[l] = u.channel[l]
        BY <1>4, <1>7, <2>1, <3>3
      <4> QED BY <4>1, <3>1, <1>5, SlotFacts
    <3> QED BY <3>1, <3>2, <3>3
  <2>2. CASE j # i
    <3>1. /\ u.channel[j].local \in Ports /\ u.channel[j].remote = Service
          /\ u.channel[j].local < u.next_port /\ v.channel[j] = u.channel[j]
      BY <1>4, <1>7, <1>8, <2>2
    <3>2. v.next_port # 0 => v.channel[j].local < v.next_port
      <4>1. u.channel[j].local \in Nat BY <3>1, SlotFacts
      <4> QED BY <3>1, <4>1, <1>5, <1>6
    <3>3. ASSUME NEW l \in Slots, v.channel[l].state # "UNUSED", l # j
          PROVE  v.channel[l].local # v.channel[j].local
      <4>1. CASE l = i
        <5>1. v.channel[l].local = u.next_port BY <1>2, <1>4, <4>1
        <5> QED BY <5>1, <3>1, <1>5, SlotFacts
      <4>2. CASE l # i BY <1>3, <1>4, <1>8, <2>2, <3>1, <3>3, <4>2 DEF Numbered
      <4> QED BY <4>1, <4>2
    <3> QED BY <3>1, <3>2, <3>3
  <2> QED BY <2>1, <2>2
<1>9. \A j \in Slots : v.channel[j].state = "UNUSED" => v.channel[j] = FreshChannel
  BY <1>2, <1>3, <1>4 DEF Numbered
<1>10. Numbered(v) BY <1>3, <1>8, <1>9 DEF Numbered
<1> QED BY <1>10 DEF v

\* usb_mux_close of a live channel
LEMMA CloseFacts ==
  ASSUME NEW u \in Muxes, NEW i \in Slots, u.channel[i].state \in Live, Numbered(u)
  PROVE  LET v == usb_mux_close(u, i) IN
         /\ v \in Muxes /\ Numbered(v) /\ v.stage = u.stage /\ v.next_port = u.next_port
         /\ v.session = u.session /\ v.transmit = u.transmit
         /\ \A j \in Slots : j # i => v.channel[j] = u.channel[j]
         /\ v.channel[i] = [u.channel[i] EXCEPT !.send = <<>>, !.receive = <<>>,
                             !.state = IF u.stage = "ACTIVE" THEN "CLOSING" ELSE "CLOSED"]
         /\ v.channel[i].state \in {"CLOSING", "CLOSED"} /\ v.channel[i].state \notin Live
<1> DEFINE v == usb_mux_close(u, i)
           c == u.channel[i]
           s == IF u.stage = "ACTIVE" THEN "CLOSING" ELSE "CLOSED"
           d == [c EXCEPT !.send = <<>>, !.receive = <<>>, !.state = s]
<1>1. v = Put(u, i, d) BY CloseIs DEF Live
<1>2. s \in {"CLOSING", "CLOSED"} /\ c \in Channels BY MuxFields
<1> HIDE DEF s, c
<1>3. /\ d \in Channels /\ d.state = s /\ d.local = c.local /\ d.remote = c.remote
  <2>1. <<>> \in UpTo(DownBytes, RX_SIZE) /\ <<>> \in UpTo(UpBytes, TX_SIZE) BY Consts DEF UpTo
  <2> QED BY <1>2, <2>1 DEF Channels
<1> HIDE DEF d, v
<1>4. /\ v \in Muxes /\ v.stage = u.stage /\ v.next_port = u.next_port
      /\ v.session = u.session /\ v.transmit = u.transmit
      /\ \A j \in Slots : v.channel[j] = IF j = i THEN d ELSE u.channel[j]
  BY <1>1, <1>3, PutFacts
<1>5. /\ \A j \in Slots : j # i => v.channel[j] = u.channel[j]
      /\ v.channel[i] = d
  BY <1>4
<1>6. v.channel[i].state \in {"CLOSING", "CLOSED"} /\ v.channel[i].state \notin Live
  BY <1>2, <1>3, <1>5 DEF Live
<1>7. Numbered(v)
  <2>1. u.channel[i].state # "UNUSED" /\ v.channel[i].state # "UNUSED" BY <1>6 DEF Live
  <2>2. v.channel[i].local = u.channel[i].local /\ v.channel[i].remote = u.channel[i].remote
    BY <1>3, <1>5 DEF c
  <2> QED BY <1>4, <1>5, <2>1, <2>2, NumberedKept
<1> QED BY <1>4, <1>5, <1>6, <1>7 DEF v, d, c, s

\* the transport's view while it polls
Poll1(S, gi, go) ==
  /\ S \in States /\ Mid1(S.u, S.conn, S.list, S.sock, gi, go)
  /\ \A j \in Opens : S.conn[j].thread = conn[j].thread

LEMMA Poll1From ==
  ASSUME NEW S, NEW T \in States, NEW gi, NEW go, Poll1(S, gi, go),
         Owned(T.u, T.conn, T.list), Numbered(T.u), T.u.session = S.u.session,
         T.u.transmit = S.u.transmit, T.u.stage = S.u.stage,
         \A j \in Opens : T.conn[j].thread = S.conn[j].thread
  PROVE  Poll1(T, gi, go)
<1>1. S.u \in Muxes /\ T.u \in Muxes /\ T.conn \in [Opens -> Conns] /\ T.list \in Seq(Opens)
      /\ T.sock \in [Opens -> Pipes]
  BY StateFields DEF Poll1
<1>2. Linked(T.u, gi, go) BY <1>1, LinkedKept DEF Poll1, Mid1
<1>3. Typed(T.u, T.conn, T.list, T.sock, gi, go) BY <1>1 DEF Poll1, Mid1, Typed
<1> QED BY <1>2, <1>3 DEF Poll1, Mid1

LEMMA PollFacts ==
  ASSUME NEW S, NEW gi, NEW go, Poll1(S, gi, go), NEW k \in ToSet(S.list)
  PROVE  /\ S \in States /\ k \in Opens /\ S.u \in Muxes /\ S.u # NoMux
         /\ S.conn \in [Opens -> Conns] /\ S.conn[k] \in Conns
         /\ S.list \in Seq(Opens) /\ S.sock \in [Opens -> Pipes] /\ S.sock[k] \in Pipes
         /\ S.conn[k].chan \in Slots \cup {-1}
         /\ Owned(S.u, S.conn, S.list) /\ Numbered(S.u)
         /\ S.conn[k].chan # -1 => S.u.channel[S.conn[k].chan].state \in Live
         /\ S.conn[k].canceled => Hung(k) /\ S.conn[k].thread \in {"closed", "failed"}
         /\ S.conn[k].thread = conn[k].thread /\ S.conn[k].error = "none"
<1>1. S \in States /\ S.u \in Muxes /\ S.u # NoMux /\ Owned(S.u, S.conn, S.list) /\ Numbered(S.u)
  BY StateFields, MuxFields DEF Poll1, Mid1
<1>2. k \in Opens BY <1>1, StateFields, ToSetIn
<1>3. S.conn[k] \in Conns /\ S.sock[k] \in Pipes BY <1>1, <1>2, StateFields
<1>4. S.conn[k].thread = conn[k].thread BY <1>2 DEF Poll1
<1> QED BY <1>1, <1>2, <1>3, <1>4, StateFields, ConnFields DEF Owned, Hung

\* closing the connection k, with or without a channel
Unplug(S, k) == IF S.conn[k].chan # -1 THEN usb_mux_close(S.u, S.conn[k].chan) ELSE S.u

LEMMA CloseStep1 ==
  ASSUME NEW S, NEW gi, NEW go, Poll1(S, gi, go), NEW k \in ToSet(S.list),
         NEW why \in Whys \cup {"ended"}, Hung(k) \/ S.conn[k].chan # -1
  PROVE  /\ Poll1(Closed(S, k, why, Unplug(S, k)), gi, go)
         /\ ToSet(Closed(S, k, why, Unplug(S, k)).list) = ToSet(S.list) \ {k}
<1> DEFINE v == Unplug(S, k)
           T == Closed(S, k, why, v)
           c == Left(S, k, why)
           p == [up |-> <<>>, down |-> S.sock[k].down]
           i == S.conn[k].chan
<1>1. /\ S \in States /\ k \in Opens /\ S.u \in Muxes /\ S.conn \in [Opens -> Conns]
      /\ S.list \in Seq(Opens) /\ S.sock \in [Opens -> Pipes] /\ S.sock[k] \in Pipes
      /\ i \in Slots \cup {-1} /\ Owned(S.u, S.conn, S.list) /\ Numbered(S.u)
      /\ i # -1 => S.u.channel[i].state \in Live
      /\ S.conn[k].canceled => S.conn[k].thread \in {"closed", "failed"}
  BY PollFacts
<1>2. T = [u |-> v, conn |-> [S.conn EXCEPT ![k] = c], list |-> Without(S.list, {k}),
           sock |-> [S.sock EXCEPT ![k] = p]]
  BY <1>1, ClosedIs
<1>3. c \in Conns /\ c.thread = S.conn[k].thread /\ (c.canceled => c.thread \in {"closed", "failed"})
  BY <1>1, LeftFacts
<1>4. p \in Pipes
  <2>1. S.sock[k].down \in UpTo(DownBytes, SOCKET) /\ <<>> \in UpTo(UpBytes, SOCKET)
    BY <1>1, Consts DEF Pipes, UpTo
  <2> QED BY <2>1 DEF Pipes
<1>5. /\ v \in Muxes /\ Numbered(v) /\ v.stage = S.u.stage /\ v.session = S.u.session
      /\ v.transmit = S.u.transmit
      /\ i = -1 => v = S.u
      /\ i # -1 => /\ \A j \in Slots : j # i => v.channel[j] = S.u.channel[j]
                   /\ v.channel[i].state \notin Live
  <2>1. CASE i = -1 BY <1>1, <2>1 DEF Unplug
  <2>2. CASE i # -1
    <3>1. i \in Slots /\ S.u.channel[i].state \in Live /\ v = usb_mux_close(S.u, i)
      BY <1>1, <2>2 DEF Unplug
    <3> DEFINE w == usb_mux_close(S.u, i)
    <3> HIDE DEF i
    <3>2. /\ w \in Muxes /\ Numbered(w) /\ w.stage = S.u.stage /\ w.session = S.u.session
          /\ w.transmit = S.u.transmit /\ \A j \in Slots : j # i => w.channel[j] = S.u.channel[j]
          /\ w.channel[i].state \notin Live
      BY <1>1, <3>1, CloseFacts
    <3> HIDE DEF w
    <3>3. v = w BY <3>1 DEF w
    <3> QED BY <2>2, <3>2, <3>3
  <2> QED BY <2>1, <2>2
<1>6. Without(S.list, {k}) \in Seq(Opens) /\ ToSet(Without(S.list, {k})) = ToSet(S.list) \ {k}
  <2>1. IsInjective(S.list) BY <1>1 DEF Owned
  <2> QED BY <1>1, <2>1, WithoutFacts
<1>7. Owned(v, [S.conn EXCEPT ![k] = c], Without(S.list, {k}))
  <2> HIDE DEF c
  <2> QED BY <1>1, <1>3, <1>5, OwnedLess
<1> HIDE DEF T, c, p, v
<1>8. T \in States BY <1>1, <1>2, <1>3, <1>4, <1>5, <1>6 DEF States
<1>9. \A j \in Opens : T.conn[j].thread = S.conn[j].thread BY <1>1, <1>2, <1>3
<1>10. T.u = v /\ T.conn = [S.conn EXCEPT ![k] = c] /\ T.list = Without(S.list, {k}) BY <1>2
<1>11. Poll1(T, gi, go)
  <2>1. Owned(T.u, T.conn, T.list) /\ Numbered(T.u) BY <1>5, <1>7, <1>10
  <2>2. T.u.session = S.u.session /\ T.u.transmit = S.u.transmit /\ T.u.stage = S.u.stage
    BY <1>5, <1>10
  <2> QED BY <1>8, <1>9, <2>1, <2>2, Poll1From
<1> QED BY <1>6, <1>10, <1>11 DEF T, v

\* bytes move between the channel and the socket of the connection k
Refreshed(S, k, n, m, ready, canceled) ==
  [u |-> Moved(S, k, n, m).u,
   conn |-> [S.conn EXCEPT ![k] = [S.conn[k] EXCEPT !.ready = ready, !.canceled = canceled]],
   list |-> Moved(S, k, n, m).list, sock |-> Moved(S, k, n, m).sock]

Shifted(S, k, i, M) ==
  /\ M.conn = S.conn /\ M.list = S.list /\ M \in States
  /\ M.u.stage = "ACTIVE" /\ M.u.channel[i].state = S.u.channel[i].state
  /\ M.u.channel[i].sent = S.u.channel[i].sent

LEMMA MoveStep1 ==
  ASSUME NEW S, NEW gi, NEW go, Poll1(S, gi, go), NEW k \in ToSet(S.list),
         NEW i \in Slots, S.conn[k].chan = i,
         S.u.stage = "ACTIVE", NEW n \in 0..Len(S.u.channel[i].receive),
         n <= SOCKET - Len(S.sock[k].down), NEW m \in 0..Len(S.sock[k].up),
         m <= TX_SIZE - Len(S.u.channel[i].send), NEW ready \in BOOLEAN, NEW canceled \in BOOLEAN,
         canceled => Hung(k)
  PROVE  /\ Shifted(S, k, i, Moved(S, k, n, m))
         /\ Poll1(Refreshed(S, k, n, m, ready, canceled), gi, go)
<1> DEFINE M == Moved(S, k, n, m)
           c == [S.conn[k] EXCEPT !.ready = ready, !.canceled = canceled]
           b == SubSeq(S.sock[k].up, 1, m)
           d == Passed(S.u.channel[i], n, b)
           p == PipeAfter(S.sock[k], S.u.channel[i], n, m)
           T == [u |-> M.u, conn |-> [S.conn EXCEPT ![k] = c], list |-> M.list, sock |-> M.sock]
<1>1. /\ S \in States /\ k \in Opens /\ S.u \in Muxes /\ S.conn \in [Opens -> Conns]
      /\ S.conn[k] \in Conns /\ S.list \in Seq(Opens)
      /\ Owned(S.u, S.conn, S.list) /\ Numbered(S.u)
      /\ S.u.channel[i].state \in Live /\ S.conn[k].thread = conn[k].thread
  BY PollFacts, SlotFacts
<1>2. /\ M = [u |-> Put(S.u, i, d), conn |-> S.conn, list |-> S.list,
              sock |-> [S.sock EXCEPT ![k] = p]]
      /\ M \in States /\ d \in Channels /\ b \in Seq(UpBytes)
      /\ Len(S.u.channel[i].send) + Len(b) <= TX_SIZE
  <2>1. S \in States /\ k \in Opens /\ S.conn[k].chan = i /\ S.u.stage = "ACTIVE" BY <1>1
  <2>2. n <= SOCKET - Len(S.sock[k].down) /\ m <= TX_SIZE - Len(S.u.channel[i].send) OBVIOUS
  <2>3. n \in 0..Len(S.u.channel[i].receive) /\ m \in 0..Len(S.sock[k].up) OBVIOUS
  <2>4. ASSUME NEW R \in States, NEW j \in Opens, R.conn[j].chan = i, R.u.stage = "ACTIVE",
               n \in 0..Len(R.u.channel[i].receive), n <= SOCKET - Len(R.sock[j].down),
               m \in 0..Len(R.sock[j].up), m <= TX_SIZE - Len(R.u.channel[i].send)
        PROVE  LET x == Passed(R.u.channel[i], n, SubSeq(R.sock[j].up, 1, m))
                   y == PipeAfter(R.sock[j], R.u.channel[i], n, m)
               IN  /\ Moved(R, j, n, m) = [u |-> Put(R.u, i, x), conn |-> R.conn, list |-> R.list,
                                     sock |-> [R.sock EXCEPT ![j] = y]]
                   /\ Moved(R, j, n, m) \in States
                   /\ x \in Channels /\ y \in Pipes
                   /\ SubSeq(R.sock[j].up, 1, m) \in Seq(UpBytes)
                   /\ Len(R.u.channel[i].send) + Len(SubSeq(R.sock[j].up, 1, m)) <= TX_SIZE
    BY <2>4, MovedIs
  <2> QED BY <2>1, <2>2, <2>3, <2>4
<1>3. S.u.channel[i] \in Channels BY <1>1, MuxFields
<1>4. /\ d.state = S.u.channel[i].state /\ d.sent = S.u.channel[i].sent
      /\ d.local = S.u.channel[i].local /\ d.remote = S.u.channel[i].remote
  <2> HIDE DEF b
  <2> QED BY <1>3 DEF Passed, Channels
<1> HIDE DEF b, d, p, M
<1>5. M.u = Put(S.u, i, d) /\ M.conn = S.conn /\ M.list = S.list BY <1>2
<1>6. /\ M.u \in Muxes /\ M.u.stage = S.u.stage /\ M.u.next_port = S.u.next_port
      /\ M.u.session = S.u.session /\ M.u.transmit = S.u.transmit
      /\ \A j \in Slots : M.u.channel[j] = IF j = i THEN d ELSE S.u.channel[j]
  BY <1>1, <1>2, <1>5, PutFacts
<1>7. /\ \A j \in Slots : j # i => M.u.channel[j] = S.u.channel[j]
      /\ M.u.channel[i] = d
  BY <1>6
<1>8. Numbered(M.u)
  <2>1. S.u.channel[i].state # "UNUSED" BY <1>1 DEF Live
  <2> QED BY <1>1, <1>4, <1>6, <1>7, <2>1, NumberedKept
<1>9. /\ c \in Conns /\ c.thread = S.conn[k].thread /\ c.chan = S.conn[k].chan
      /\ c.error = S.conn[k].error /\ c.canceled = canceled /\ c.fd = S.conn[k].fd
  BY <1>1 DEF Conns
<1>10. c.canceled => c.thread \in {"closed", "failed"} BY <1>1, <1>9 DEF Hung
<1> HIDE DEF c
<1>11. Owned(M.u, [S.conn EXCEPT ![k] = c], S.list)
  BY <1>1, <1>4, <1>6, <1>7, <1>9, <1>10, OwnedMoved, Zenon
<1>12. T \in States BY <1>1, <1>2, <1>9, StateFields DEF States
<1>13. \A j \in Opens : T.conn[j].thread = S.conn[j].thread BY <1>1, <1>9
<1>14. T.u = M.u /\ T.conn = [S.conn EXCEPT ![k] = c] /\ T.list = S.list BY <1>5
<1> HIDE DEF T
<1>15. Poll1(T, gi, go)
  <2>1. Owned(T.u, T.conn, T.list) /\ Numbered(T.u) BY <1>8, <1>11, <1>14
  <2>2. T.u.session = S.u.session /\ T.u.transmit = S.u.transmit /\ T.u.stage = S.u.stage
    BY <1>6, <1>14
  <2> QED BY <1>12, <1>13, <2>1, <2>2, Poll1From
<1> QED BY <1>2, <1>4, <1>5, <1>6, <1>7, <1>15 DEF T, M, c, Shifted, Refreshed

LEMMA ConnectStep1 ==
  ASSUME NEW S, NEW gi, NEW go, Poll1(S, gi, go), NEW k \in ToSet(S.list), NEW T,
         Connects(S, k, T)
  PROVE  Poll1(T, gi, go) /\ T.list = S.list
<1> DEFINE v == usb_mux_connect(S.u, Service)
           i == ConnectSlot(S.u)
           D == [S.conn EXCEPT ![k] = [S.conn[k] EXCEPT !.chan = i]]
<1>1. /\ S \in States /\ k \in Opens /\ S.u \in Muxes /\ S.conn \in [Opens -> Conns]
      /\ S.conn[k] \in Conns /\ S.list \in Seq(Opens) /\ S.sock \in [Opens -> Pipes]
      /\ Owned(S.u, S.conn, S.list) /\ Numbered(S.u)
  BY PollFacts
<1>2. S.conn[k].chan = -1 /\ CanConnect(S.u)
      /\ T = [u |-> v, conn |-> D, list |-> S.list, sock |-> S.sock]
  BY DEF Connects
<1>3. /\ i \in Slots /\ S.u.channel[i].state \in {"UNUSED", "CLOSED"} /\ v \in Muxes
      /\ Connected(S.u, Service) \in Channels
      /\ v.channel = Put(S.u, i, Connected(S.u, Service)).channel
      /\ v.stage = S.u.stage /\ v.transmit = S.u.transmit /\ v.session = S.u.session
  <2> HIDE DEF v, i
  <2> QED BY <1>1, <1>2, ConnectIs DEF v, i
<1>4. Numbered(v) BY <1>1, <1>2, NumberedConnect
<1> HIDE DEF v, i
<1>5. \A j \in Slots : v.channel[j] = IF j = i THEN Connected(S.u, Service) ELSE S.u.channel[j]
  BY <1>1, <1>3, PutFacts
<1>6. v.channel[i].state = "CONNECT" /\ S.u.channel[i].state \notin Live
  BY <1>3, <1>5 DEF Connected, FreshChannel, Live
<1>7. \A j \in Slots : j # i => v.channel[j] = S.u.channel[j] BY <1>5
<1>8. Owned(v, D, S.list) BY <1>1, <1>2, <1>3, <1>6, <1>7, OwnedConnect
<1>9. D \in [Opens -> Conns] /\ \A j \in Opens : D[j].thread = S.conn[j].thread
  BY <1>1, <1>3 DEF Conns
<1> HIDE DEF D
<1>10. T \in States BY <1>1, <1>2, <1>3, <1>9 DEF States
<1>11. T.u = v /\ T.conn = D /\ T.list = S.list BY <1>2
<1>12. Poll1(T, gi, go)
  <2>1. Owned(T.u, T.conn, T.list) /\ Numbered(T.u) BY <1>4, <1>8, <1>11
  <2>2. T.u.session = S.u.session /\ T.u.transmit = S.u.transmit /\ T.u.stage = S.u.stage
    BY <1>3, <1>11
  <2>3. \A j \in Opens : T.conn[j].thread = S.conn[j].thread BY <1>9, <1>11
  <2> QED BY <1>10, <2>1, <2>2, <2>3, Poll1From
<1> QED BY <1>11, <1>12

\* a failed channel loses the same when it is closed, however much of it was read
LEMMA CloseMoved ==
  ASSUME NEW S \in States, NEW k \in Opens, NEW i \in Slots, S.conn[k].chan = i,
         S.u.stage = "ACTIVE", NEW n \in 0..Len(S.u.channel[i].receive),
         n <= SOCKET - Len(S.sock[k].down), S.u.channel[i].state = "ERROR"
  PROVE  usb_mux_close(Moved(S, k, n, 0).u, i) = usb_mux_close(S.u, i)
<1> DEFINE o == S.u.channel[i]
           b == SubSeq(S.sock[k].up, 1, 0)
           d == Passed(o, n, b)
           M == Moved(S, k, n, 0)
<1>1. S.u \in Muxes /\ o \in Channels /\ S.sock[k] \in Pipes BY StateFields, MuxFields
<1>2. /\ 0 \in 0..Len(S.sock[k].up) /\ 0 <= TX_SIZE - Len(o.send)
  <2>1. /\ Len(o.send) \in Nat /\ Len(o.send) <= TX_SIZE
        /\ TX_SIZE \in Nat /\ Len(S.sock[k].up) \in Nat
    BY <1>1, ChannelFields, PipeFields, Consts
  <2> HIDE DEF o
  <2> QED BY <2>1
<1>3. /\ M.u = Put(S.u, i, d) /\ d \in Channels /\ b \in Seq(UpBytes)
      /\ Len(o.send) + Len(b) <= TX_SIZE
  BY <1>2, MovedIs
<1>4. d.state = "ERROR"
  <2> HIDE DEF b, o
  <2> QED BY <1>1, <1>3, PassedFacts DEF o
<1> DEFINE x == [o EXCEPT !.send = <<>>, !.receive = <<>>, !.state = "CLOSING"]
           y == [d EXCEPT !.send = <<>>, !.receive = <<>>, !.state = "CLOSING"]
<1>5. x = y
  <2> DEFINE t == SubSeq(o.receive, n + 1, Len(o.receive))
  <2>1. d = [o EXCEPT !.receive = t, !.ack_pending = o.ack_pending, !.send = o.send]
    BY <1>1 DEF Passed, Channels
  <2> HIDE DEF t, d, o
  <2>2. d = [o EXCEPT !.receive = t] BY <1>1, <2>1 DEF Channels
  <2> QED BY <1>1, <2>2 DEF Channels
<1>6. usb_mux_close(S.u, i) = Put(S.u, i, x) BY <1>1, CloseIs
<1> HIDE DEF d, M, b, o, x, y
<1>7. M.u \in Muxes /\ M.u.stage = "ACTIVE" /\ M.u.channel[i] = d BY <1>1, <1>3, PutFacts
<1>8. usb_mux_close(M.u, i) = Put(M.u, i, y) BY <1>4, <1>7, CloseIs DEF y
<1>9. Put(M.u, i, y) = Put(S.u, i, y)
  <2>1. S.u \in Muxes /\ S.u.channel \in [Slots -> Channels] BY <1>1, MuxFields
  <2> DEFINE u == S.u
  <2>2. M.u = Put(u, i, d) /\ u \in Muxes /\ u.channel \in [Slots -> Channels] BY <1>3, <2>1
  <2> HIDE DEF u
  <2> QED BY <2>2 DEF Put, Muxes, u
<1> QED BY <1>5, <1>6, <1>8, <1>9 DEF M

LEMMA PollStep1 ==
  ASSUME NEW S, NEW gi, NEW go, Poll1(S, gi, go), NEW k \in ToSet(S.list)
  PROVE  Poll1(PollOne(S, k), gi, go) /\ ToSet(S.list) \ {k} \subseteq ToSet(PollOne(S, k).list)
<1> DEFINE T == PollOne(S, k)
<1> SUFFICES Poll1(T, gi, go) /\ ToSet(S.list) \ {k} \subseteq ToSet(T.list)
  OBVIOUS
<1>1. /\ S \in States /\ k \in Opens /\ S.u \in Muxes /\ S.conn \in [Opens -> Conns]
      /\ S.conn[k] \in Conns /\ S.sock[k] \in Pipes
      /\ S.conn[k].chan # -1 => S.u.channel[S.conn[k].chan].state \in Live
      /\ S.conn[k].canceled => Hung(k)
      /\ S.conn[k].error = "none" /\ S.conn[k].ready \in BOOLEAN /\ S.conn[k].canceled \in BOOLEAN
  BY PollFacts, ConnFields
<1>2. \/ T = S \/ Connects(S, k, T) \/ Cancels(S, k, T) \/ Delivers(S, k, T)
      \/ Fails(S, k, T) \/ Transfers(S, k, T)
  BY <1>1, PollCases
<1> HIDE DEF T
<1>3. CASE Connects(S, k, T) BY <1>3, ConnectStep1
<1>4. CASE Cancels(S, k, T)
  <2>1. Hung(k) /\ T = Closed(S, k, "none", Unplug(S, k)) BY <1>1, <1>4 DEF Cancels, Unplug
  <2>2. "none" \in Whys \cup {"ended"} BY DEF Whys
  <2>3. /\ Poll1(Closed(S, k, "none", Unplug(S, k)), gi, go)
        /\ ToSet(Closed(S, k, "none", Unplug(S, k)).list) = ToSet(S.list) \ {k}
    BY <2>1, <2>2, CloseStep1
  <2> QED BY <2>1, <2>3
<1>5. ASSUME NEW i \in Slots, NEW n \in 0..Len(S.u.channel[i].receive),
             S.conn[k].chan = i, S.u.stage = "ACTIVE", n <= SOCKET - Len(S.sock[k].down)
      PROVE  /\ Poll1(Moved(S, k, n, 0), gi, go) /\ Moved(S, k, n, 0).list = S.list
             /\ Moved(S, k, n, 0).conn = S.conn
             /\ Moved(S, k, n, 0) \in States
  <2> DEFINE M == Moved(S, k, n, 0)
  <2>1. /\ 0 \in 0..Len(S.sock[k].up) /\ 0 <= TX_SIZE - Len(S.u.channel[i].send)
    <3>1. S.u.channel[i] \in Channels BY <1>1, MuxFields
    <3>2. /\ Len(S.u.channel[i].send) \in Nat /\ Len(S.u.channel[i].send) <= TX_SIZE
          /\ TX_SIZE \in Nat /\ Len(S.sock[k].up) \in Nat
      BY <1>1, <3>1, ChannelFields, PipeFields, Consts
    <3> QED BY <3>2
  <2> DEFINE ready == S.conn[k].ready
             canceled == S.conn[k].canceled
             c == [S.conn[k] EXCEPT !.ready = ready, !.canceled = canceled]
             R == Refreshed(S, k, n, 0, ready, canceled)
  <2>2. ready \in BOOLEAN /\ canceled \in BOOLEAN /\ (canceled => Hung(k)) BY <1>1
  <2> HIDE DEF ready, canceled
  <2>6. Shifted(S, k, i, M) /\ Poll1(R, gi, go) BY <1>5, <2>1, <2>2, MoveStep1
  <2>7. R = [u |-> M.u, conn |-> [S.conn EXCEPT ![k] = c], list |-> M.list, sock |-> M.sock]
    BY DEF Refreshed
  <2> HIDE DEF R, M
  <2>3. M.conn = S.conn /\ M.list = S.list /\ M \in States /\ Poll1(R, gi, go) BY <2>6 DEF Shifted
  <2>4. c = S.conn[k] /\ [S.conn EXCEPT ![k] = S.conn[k]] = S.conn
    BY <1>1 DEF Conns, ready, canceled
  <2> HIDE DEF c
  <2>5. R = M BY <2>3, <2>4, <2>7, StateFields
  <2> QED BY <2>3, <2>5 DEF M
<1>6. CASE Delivers(S, k, T)
  <2>1. PICK i \in Slots : \E n \in 0..Len(S.u.channel[i].receive) :
          /\ S.conn[k].chan = i /\ S.u.stage = "ACTIVE"
          /\ n <= SOCKET - Len(S.sock[k].down) /\ T = Moved(S, k, n, 0)
    BY <1>6 DEF Delivers
  <2> QED BY <2>1, <1>5
<1>7. CASE Fails(S, k, T)
  <2>1. PICK i \in Slots : \E n \in 0..Len(S.u.channel[i].receive) :
          /\ S.conn[k].chan = i /\ S.u.stage = "ACTIVE" /\ S.u.channel[i].state = "ERROR"
          /\ n <= SOCKET - Len(S.sock[k].down)
          /\ T = Closed(Moved(S, k, n, 0), k, S.u.channel[i].why, usb_mux_close(S.u, i))
    BY <1>7 DEF Fails
  <2>2. PICK n \in 0..Len(S.u.channel[i].receive) :
          /\ n <= SOCKET - Len(S.sock[k].down)
          /\ T = Closed(Moved(S, k, n, 0), k, S.u.channel[i].why, usb_mux_close(S.u, i))
    BY <2>1
  <2> DEFINE M == Moved(S, k, n, 0)
             v == usb_mux_close(S.u, i)
  <2>3. Poll1(M, gi, go) /\ M.list = S.list /\ M.conn = S.conn BY <2>1, <2>2, <1>5
  <2>4. usb_mux_close(M.u, i) = v BY <1>1, <2>1, <2>2, CloseMoved
  <2>5. S.u.channel[i].why \in Whys \cup {"ended"}
    <3>1. S.u.channel[i] \in Channels BY <1>1, MuxFields
    <3> QED BY <3>1, ChannelFields
  <2>6. T = Closed(M, k, S.u.channel[i].why, v) BY <2>2
  <2> HIDE DEF M, v
  <2>7. k \in ToSet(M.list) /\ M.conn[k].chan = i /\ i # -1 BY <2>1, <2>3, SlotFacts
  <2>8. v = Unplug(M, k) BY <2>4, <2>7 DEF Unplug
  <2> DEFINE w == S.u.channel[i].why
  <2> HIDE DEF w
  <2>9. /\ Poll1(Closed(M, k, w, Unplug(M, k)), gi, go)
        /\ ToSet(Closed(M, k, w, Unplug(M, k)).list) = ToSet(M.list) \ {k}
    <3>1. Hung(k) \/ M.conn[k].chan # -1 BY <2>7
    <3> QED BY <2>3, <2>5, <2>7, <3>1, CloseStep1 DEF w
  <2> QED BY <2>3, <2>6, <2>8, <2>9 DEF w
<1>8. CASE Transfers(S, k, T)
  <2>1. PICK i \in Slots : \E n \in 0..Len(S.u.channel[i].receive), m \in 0..Len(S.sock[k].up) :
          /\ S.conn[k].chan = i /\ S.u.stage = "ACTIVE"
          /\ n <= SOCKET - Len(S.sock[k].down) /\ m <= TX_SIZE - Len(S.u.channel[i].send)
          /\ n = ToClient(S, k) /\ m = FromClient(S, k)
          /\ T = Transfer(S, k)
    BY <1>8 DEF Transfers
  <2>2. PICK n \in 0..Len(S.u.channel[i].receive), m \in 0..Len(S.sock[k].up) :
          /\ n <= SOCKET - Len(S.sock[k].down) /\ m <= TX_SIZE - Len(S.u.channel[i].send)
          /\ n = ToClient(S, k) /\ m = FromClient(S, k)
          /\ T = Transfer(S, k)
    BY <2>1
  <2> DEFINE M == Moved(S, k, n, m)
             ready == TRUE
             canceled == HangUpSeen(S, k)
             c == [S.conn[k] EXCEPT !.ready = ready, !.canceled = canceled]
             R == Refreshed(S, k, n, m, ready, canceled)
  <2>3. ready \in BOOLEAN /\ canceled \in BOOLEAN /\ (canceled => Hung(k)) BY DEF HangUpSeen
  <2> HIDE DEF ready, canceled
  <2>7. Shifted(S, k, i, M) /\ Poll1(R, gi, go) BY <2>1, <2>2, <2>3, MoveStep1
  <2>8. R = [u |-> M.u, conn |-> [S.conn EXCEPT ![k] = c], list |-> M.list, sock |-> M.sock]
    BY DEF Refreshed
  <2>4. M.conn = S.conn /\ M.list = S.list /\ M \in States /\ Poll1(R, gi, go) BY <2>7 DEF Shifted
  <2>5. T = R
    <3>1. Moved(S, k, ToClient(S, k), FromClient(S, k)) = M BY <2>2
    <3> HIDE DEF M
    <3>2. Transfer(S, k) =
           [u |-> M.u, conn |-> [S.conn EXCEPT ![k] = [S.conn[k] EXCEPT !.ready = TRUE,
                                                          !.canceled = HangUpSeen(S, k)]],
            list |-> M.list, sock |-> M.sock]
      BY <1>1, <2>4, <3>1, TransferIs
    <3> QED BY <2>2, <2>8, <3>2 DEF ready, canceled, c
  <2> HIDE DEF M, c, R
  <2>6. T.list = S.list BY <2>4, <2>5, <2>8
  <2> QED BY <2>4, <2>5, <2>6
<1>9. CASE T = S BY <1>9
<1> QED BY <1>2, <1>3, <1>4, <1>6, <1>7, <1>8, <1>9

---------------------------------------
(* The two loops of a turn: the frames that the mux is fed, and the *)
(* connections that are polled.  A set G that every round stays in is what *)
(* the loop ends in. *)

LEMMA FeedLoop ==
  ASSUME NEW G, NEW S, NEW gi \in Seq(S), NEW u, <<u, gi>> \in G,
         \A m, q : <<m, q>> \in G /\ q \in Seq(S) /\ q # <<>> =>
                     \/ input_frame(m, q[1]).stage = "FAILED"
                     \/ <<input_frame(m, q[1]), Tail(q)>> \in G,
         NEW n \in 0..Len(gi)
  PROVE  \/ usb_mux_feed(u, SubSeq(gi, 1, n)).stage = "FAILED"
         \/ <<usb_mux_feed(u, SubSeq(gi, 1, n)), SubSeq(gi, n + 1, Len(gi))>> \in G
<1> DEFINE s == SubSeq(gi, 1, n)
           rest(j) == SubSeq(gi, j + 1, Len(gi))
<1>0. Len(gi) \in Nat OBVIOUS
<1>1. s \in Seq(S) /\ Len(s) = n /\ \A j \in 1..n : s[j] = gi[j] BY FirstPart
<1>2. PICK run : /\ run[0] = u
                 /\ \A j \in 1..n : run[j] = input_frame(run[j - 1], gi[j])
                 /\ usb_mux_feed(u, s) = run[n]
  <2> HIDE DEF s
  <2>1. PICK run : /\ run[0] = u
                   /\ \A j \in 1..Len(s) : run[j] = input_frame(run[j - 1], s[j])
                   /\ usb_mux_feed(u, s) = run[Len(s)]
    <3>1. s \in Seq(S) BY <1>1
    <3> QED BY <3>1, FeedRun
  <2>2. \A j \in 1..n : run[j] = input_frame(run[j - 1], gi[j]) BY <1>1, <2>1
  <2> QED BY <1>1, <2>1, <2>2
<1> HIDE DEF s
<1> DEFINE Good(j) == run[j].stage = "FAILED" \/ <<run[j], rest(j)>> \in G
<1>3. Good(0)
  <2>1. rest(0) = gi OBVIOUS
  <2> HIDE DEF rest
  <2> QED BY <1>2, <2>1
<1>4. ASSUME NEW j \in Nat, j + 1 <= n, Good(j) PROVE Good(j + 1)
  <2>1. j + 1 \in 1..n /\ (j + 1) - 1 = j /\ j \in 0..Len(gi) /\ j < Len(gi) /\ j + 1 \in 1..Len(gi)
    BY <1>4, <1>0
  <2>2. run[j + 1] = input_frame(run[j], gi[j + 1]) BY <1>2, <2>1
  <2>3. CASE run[j].stage = "FAILED" BY <2>2, <2>3 DEF input_frame
  <2>4. CASE <<run[j], rest(j)>> \in G
    <3>1. /\ rest(j) \in Seq(S) /\ Len(rest(j)) = Len(gi) - j
          /\ \A i \in 1..(Len(gi) - j) : rest(j)[i] = gi[j + i]
      BY <2>1, LastPart
    <3>2. rest(j + 1) \in Seq(S) /\ Len(rest(j + 1)) = Len(gi) - (j + 1)
          /\ \A i \in 1..(Len(gi) - (j + 1)) : rest(j + 1)[i] = gi[(j + 1) + i]
      <4>1. j + 1 \in 0..Len(gi) BY <2>1, <1>0
      <4> QED BY <4>1, LastPart
    <3> HIDE DEF rest
    <3>3. rest(j) # <<>> /\ rest(j)[1] = gi[j + 1] BY <3>1, <2>1, <1>0
    <3>4. Tail(rest(j)) = rest(j + 1)
      <4>1. /\ Tail(rest(j)) \in Seq(S) /\ Len(Tail(rest(j))) = Len(rest(j)) - 1
            /\ \A i \in 1..(Len(rest(j)) - 1) : Tail(rest(j))[i] = rest(j)[i + 1]
        BY <3>1, <3>3, TailFacts
      <4>2. Len(Tail(rest(j))) = Len(rest(j + 1)) BY <4>1, <3>1, <3>2, <1>0
      <4>3. ASSUME NEW i \in 1..Len(rest(j + 1)) PROVE Tail(rest(j))[i] = rest(j + 1)[i]
        <5>1. /\ i \in 1..(Len(rest(j)) - 1) /\ i + 1 \in 1..(Len(gi) - j)
              /\ i \in 1..(Len(gi) - (j + 1)) /\ j + (i + 1) = (j + 1) + i
          BY <3>1, <3>2, <1>0, <4>3
        <5>2. Tail(rest(j))[i] = rest(j)[i + 1] /\ rest(j)[i + 1] = gi[j + (i + 1)]
          BY <3>1, <4>1, <5>1
        <5>3. rest(j + 1)[i] = gi[(j + 1) + i] BY <3>2, <5>1
        <5> QED BY <5>1, <5>2, <5>3
      <4> DEFINE x == Tail(rest(j))
                 y == rest(j + 1)
      <4>4. x \in Seq(S) /\ y \in Seq(S) /\ Len(x) = Len(y) /\ \A i \in 1..Len(y) : x[i] = y[i]
        BY <3>2, <4>1, <4>2, <4>3
      <4> HIDE DEF x, y
      <4>5. x = y BY <4>4
      <4> QED BY <4>5 DEF x, y
    <3> QED BY <2>2, <2>4, <3>1, <3>3, <3>4
  <2> QED BY <1>4, <2>3, <2>4
<1> DEFINE N == {j \in Nat : j <= n => Good(j)}
<1>5. 0 \in N /\ \A j \in Nat : j \in N => j + 1 \in N
  <2> HIDE DEF Good
  <2>1. \A j \in Nat : j + 1 <= n => j <= n OBVIOUS
  <2> QED BY <1>3, <1>4, <2>1
<1> HIDE DEF N
<1>6. n \in N BY <1>5, Induct
<1>7. Good(n) BY <1>6 DEF N
<1> QED BY <1>2, <1>7 DEF s

LEMMA PollLoop ==
  ASSUME NEW G, NEW u, list \in Seq(Opens), IsInjective(list), pollWithMux(u),
         [u |-> u, conn |-> conn, list |-> list, sock |-> sock] \in G,
         \A S : \A k \in ToSet(S.list) : S \in G =>
           PollOne(S, k) \in G /\ ToSet(S.list) \ {k} \subseteq ToSet(PollOne(S, k).list)
  PROVE  /\ \E S \in G : mux' = S.u /\ conn' = S.conn /\ list' = S.list /\ sock' = S.sock
         /\ UNCHANGED accepting
<1>1. PICK run : /\ run[0] = [u |-> u, conn |-> conn, list |-> list, sock |-> sock]
                 /\ \A i \in 1..Len(list) : run[i] = PollOne(run[i - 1], list[i])
                 /\ mux' = run[Len(list)].u /\ conn' = run[Len(list)].conn
                 /\ list' = run[Len(list)].list /\ sock' = run[Len(list)].sock
                 /\ UNCHANGED accepting
  BY PollIs
<1>2. Len(list) \in Nat /\ \A i, j \in 1..Len(list) : list[i] = list[j] => i = j BY DEF IsInjective
<1> DEFINE Good(j) == /\ run[j] \in G
                      /\ \A i \in (j + 1)..Len(list) : list[i] \in ToSet(run[j].list)
<1>3. Good(0)
  <2>1. run[0].list = list BY <1>1
  <2>2. \A i \in 1..Len(list) : list[i] \in ToSet(list) BY ToSetIn
  <2> QED BY <1>1, <2>1, <2>2
<1>4. ASSUME NEW j \in Nat, j + 1 <= Len(list), Good(j) PROVE Good(j + 1)
  <2>1. j + 1 \in 1..Len(list) /\ (j + 1) - 1 = j /\ j + 1 \in (j + 1)..Len(list) BY <1>2, <1>4
  <2>2. run[j + 1] = PollOne(run[j], list[j + 1]) /\ list[j + 1] \in ToSet(run[j].list) /\ run[j] \in G
    BY <1>1, <1>4, <2>1
  <2>3. /\ run[j + 1] \in G
        /\ ToSet(run[j].list) \ {list[j + 1]} \subseteq ToSet(run[j + 1].list)
    BY <2>2
  <2>4. ASSUME NEW i \in ((j + 1) + 1)..Len(list) PROVE list[i] \in ToSet(run[j + 1].list)
    <3>1. i \in (j + 1)..Len(list) /\ i \in 1..Len(list) /\ i # j + 1 BY <1>2, <2>4
    <3>2. list[i] \in ToSet(run[j].list) /\ list[i] # list[j + 1] BY <1>2, <1>4, <2>1, <3>1
    <3> QED BY <2>3, <3>2
  <2> QED BY <2>3, <2>4
<1> DEFINE N == {j \in Nat : j <= Len(list) => Good(j)}
<1>5. 0 \in N /\ \A j \in Nat : j \in N => j + 1 \in N
  <2> HIDE DEF Good
  <2>1. \A j \in Nat : j + 1 <= Len(list) => j <= Len(list) BY <1>2
  <2> QED BY <1>3, <1>4, <2>1
<1> HIDE DEF N
<1>6. Len(list) \in N BY <1>2, <1>5, Induct
<1>7. Good(Len(list)) BY <1>2, <1>6 DEF N
<1> QED BY <1>1, <1>7

LEMMA InitStep1 ==
  ASSUME Inv1, mux = NoMux, Current, host.stage = "READY"
  PROVE  /\ usb_mux_init(faults + 1) \in Muxes
         /\ Mid1(usb_mux_init(faults + 1), conn, list, sock, gin, gout)
<1> DEFINE u == usb_mux_init(faults + 1)
<1>1. faults \in Nat /\ faults + 1 \in Nat \ {0} BY Consts DEF Inv1, TypedRest
<1>2. u \in Muxes /\ u # NoMux
  <2>1. u \in Muxes BY <1>1, InitTyped
  <2> QED BY <2>1, MuxFields
<1>3. /\ \A i \in Slots : u.channel[i] = FreshChannel
      /\ u.stage = "SEND_VERSION" /\ u.transmit = NoFrame
  BY DEF usb_mux_init
<1> HIDE DEF u
<1>4. \A i \in Slots : u.channel[i].state = "UNUSED" /\ "UNUSED" \notin Live
  BY <1>3 DEF FreshChannel, Live
<1>5. Owned(u, conn, list) BY <1>2, <1>4 DEF Inv1, Owned
<1>6. Numbered(u) BY <1>2, <1>3, <1>4 DEF Numbered
<1>7. gin = <<>> /\ gout = NoFrame /\ guest = NoSession /\ host.attached /\ Same /\ dev.address
  BY DEF Inv1, Linked, Cabled, Current, Same
<1>8. Linked(u, gin, gout)
  <2>1. Len(gin) = 0 /\ guest.session = 0 /\ gout.kind = "none" BY <1>7 DEF NoSession, NoFrame
  <2>2. u.transmit.kind = "none" BY <1>3 DEF NoFrame
  <2> QED BY <1>2, <1>3, <1>7, <2>1, <2>2 DEF Linked
<1>9. Typed(u, conn, list, sock, gin, gout) BY <1>2 DEF Inv1, Typed
<1> QED BY <1>2, <1>5, <1>6, <1>8, <1>9 DEF Mid1, u

LEMMA FeedAll1 ==
  ASSUME NEW u, NEW C, NEW L, NEW K, NEW gi, NEW go, u \in Muxes, Same, Mid1(u, C, L, K, gi, go),
         NEW n \in 0..Len(gi)
  PROVE  \/ usb_mux_feed(u, SubSeq(gi, 1, n)).stage = "FAILED"
         \/ /\ usb_mux_feed(u, SubSeq(gi, 1, n)) \in Muxes
            /\ Mid1(usb_mux_feed(u, SubSeq(gi, 1, n)), C, L, K, SubSeq(gi, n + 1, Len(gi)), go)
<1> DEFINE G == {x \in Muxes \X Seq(GuestFrames) : Mid1(x[1], C, L, K, x[2], go)}
<1>1. gi \in Seq(GuestFrames) BY DEF Mid1, Typed, UpTo
<1>2. <<u, gi>> \in G BY <1>1
<1>3. ASSUME NEW m, NEW q, <<m, q>> \in G, q # <<>>
      PROVE  \/ input_frame(m, q[1]).stage = "FAILED"
             \/ <<input_frame(m, q[1]), Tail(q)>> \in G
  <2>1. m \in Muxes /\ q \in Seq(GuestFrames) /\ Mid1(m, C, L, K, q, go) BY <1>3
  <2>2. Tail(q) \in Seq(GuestFrames) BY <2>1, <1>3, TailFacts
  <2>3. \/ input_frame(m, q[1]).stage = "FAILED"
        \/ input_frame(m, q[1]) \in Muxes /\ Mid1(input_frame(m, q[1]), C, L, K, Tail(q), go)
    BY <2>1, <1>3, FrameStep1
  <2> QED BY <2>2, <2>3
<1> DEFINE v == usb_mux_feed(u, SubSeq(gi, 1, n))
           q == SubSeq(gi, n + 1, Len(gi))
<1> HIDE DEF G
<1>4. v.stage = "FAILED" \/ <<v, q>> \in G BY <1>1, <1>2, <1>3, FeedLoop
<1> HIDE DEF v, q
<1>5. v.stage = "FAILED" \/ (v \in Muxes /\ Mid1(v, C, L, K, q, go)) BY <1>4 DEF G
<1> QED BY <1>5 DEF v, q

LEMMA PollAll1 ==
  ASSUME NEW u \in Muxes, NEW gi, NEW go, Mid1(u, conn, list, sock, gi, go), pollWithMux(u)
  PROVE  /\ Mid1(mux', conn', list', sock', gi, go) /\ UNCHANGED accepting
         /\ mux' \in Muxes /\ \A j \in Opens : conn'[j].thread = conn[j].thread
<1> DEFINE G == {S \in States : Poll1(S, gi, go)}
           b == [u |-> u, conn |-> conn, list |-> list, sock |-> sock]
<1>1. conn \in [Opens -> Conns] /\ list \in Seq(Opens) /\ sock \in [Opens -> Pipes] /\ IsInjective(list)
  BY DEF Mid1, Typed, Owned
<1>2. b \in G BY <1>1 DEF States, Poll1
<1>3. ASSUME NEW S, NEW k \in ToSet(S.list), S \in G
      PROVE  PollOne(S, k) \in G /\ ToSet(S.list) \ {k} \subseteq ToSet(PollOne(S, k).list)
  <2>1. Poll1(S, gi, go) BY <1>3
  <2>2. Poll1(PollOne(S, k), gi, go) /\ ToSet(S.list) \ {k} \subseteq ToSet(PollOne(S, k).list)
    BY <2>1, PollStep1
  <2> QED BY <2>2 DEF Poll1
<1> HIDE DEF G
<1>4. /\ \E S \in G : mux' = S.u /\ conn' = S.conn /\ list' = S.list /\ sock' = S.sock
      /\ UNCHANGED accepting
  BY <1>1, <1>2, <1>3, PollLoop
<1>5. PICK S \in G : mux' = S.u /\ conn' = S.conn /\ list' = S.list /\ sock' = S.sock BY <1>4
<1>6. Poll1(S, gi, go) /\ S.u \in Muxes BY <1>5, StateFields DEF G
<1> QED BY <1>4, <1>5, <1>6 DEF Poll1

LEMMA ServeStep1 ==
  ASSUME Inv1, NEW n, Serving(n)
  PROVE  \/ LinkLost /\ UNCHANGED faults
         \/ /\ Mid1(mux', conn', list', sock', gin', gout') /\ mux' \in Muxes
            /\ \A j \in Opens : conn'[j].thread = conn[j].thread
            /\ UNCHANGED <<accepting, wrote, got, host, dev, guest, faults>>
<1>1. PICK u : /\ u = IF mux = NoMux THEN usb_mux_init(faults + 1) ELSE mux
               /\ Current /\ host.stage = "READY"
               /\ n \in IF gin = <<>> THEN {0} ELSE 1..Len(gin)
               /\ UNCHANGED faults
               /\ \E fed \in {usb_mux_feed(u, SubSeq(gin, 1, n))} :
                  \E out \in {usb_mux_output(fed)} :
                     IF fed.stage = "FAILED"
                     THEN LinkLost
                     ELSE LET goes == gout = NoFrame /\ out.transmit # NoFrame IN
                          /\ pollWithMux(IF goes THEN usb_mux_output_complete(out) ELSE out)
                          /\ gout' = IF goes THEN out.transmit ELSE gout
                          /\ gin' = SubSeq(gin, n + 1, Len(gin))
                          /\ UNCHANGED <<wrote, got, host, dev, guest>>
  BY DEF Serving
<1> DEFINE fed == usb_mux_feed(u, SubSeq(gin, 1, n))
           out == usb_mux_output(fed)
           goes == gout = NoFrame /\ out.transmit # NoFrame
           v == IF goes THEN usb_mux_output_complete(out) ELSE out
           go == IF goes THEN out.transmit ELSE gout
           gi == SubSeq(gin, n + 1, Len(gin))
<1>2. IF fed.stage = "FAILED" THEN LinkLost
      ELSE /\ pollWithMux(v) /\ gout' = go /\ gin' = gi
           /\ UNCHANGED <<wrote, got, host, dev, guest>>
  BY <1>1
<1>3. Same BY <1>1 DEF Current, Same
<1>4. n \in 0..Len(gin)
  <2>1. Len(gin) \in Nat BY DEF Inv1, Typed, UpTo
  <2> QED BY <1>1, <2>1
<1>5. u \in Muxes /\ Mid1(u, conn, list, sock, gin, gout)
  <2>1. CASE mux = NoMux BY <1>1, <2>1, InitStep1
  <2>2. CASE mux # NoMux BY <1>1, <2>2 DEF Inv1, Typed, Mid1
  <2> QED BY <2>1, <2>2
<1> SUFFICES ASSUME fed.stage # "FAILED"
             PROVE  /\ Mid1(mux', conn', list', sock', gin', gout') /\ mux' \in Muxes
                    /\ \A j \in Opens : conn'[j].thread = conn[j].thread
                    /\ UNCHANGED <<accepting, wrote, got, host, dev, guest, faults>>
  BY <1>1, <1>2
<1>6. fed \in Muxes /\ Mid1(fed, conn, list, sock, gi, gout) BY <1>3, <1>4, <1>5, FeedAll1
<1> HIDE DEF fed, gi
<1>7. out \in Muxes /\ Mid1(out, conn, list, sock, gi, gout) BY <1>3, <1>6, OutputStep1
<1> HIDE DEF out
<1>8. v \in Muxes /\ Mid1(v, conn, list, sock, gi, go)
  <2>1. CASE goes
    <3>1. Mid1(out, conn, list, sock, gi, NoFrame) BY <1>7, <2>1
    <3>2. usb_mux_output_complete(out) \in Muxes
          /\ Mid1(usb_mux_output_complete(out), conn, list, sock, gi, out.transmit)
      BY <1>3, <1>7, <3>1, CompleteStep1
    <3> QED BY <2>1, <3>2
  <2>2. CASE ~goes BY <1>7, <2>2
  <2> QED BY <2>1, <2>2
<1> HIDE DEF v, go
<1>9. /\ Mid1(mux', conn', list', sock', gi, go) /\ UNCHANGED accepting
      /\ mux' \in Muxes /\ \A j \in Opens : conn'[j].thread = conn[j].thread
  BY <1>2, <1>8, PollAll1
<1> QED BY <1>1, <1>2, <1>9

---------------------------------------
(* The steps of the clients. *)

LEMMA ClientStep1 ==
  ASSUME Inv1, UNCHANGED <<linkVars, faults>>, conn' \in [Opens -> Conns], list' \in Seq(Opens),
         sock' \in [Opens -> Pipes], accepting' \in BOOLEAN, wrote' \in [Opens -> Nat],
         got' \in [Opens -> Seq(DownBytes)], Owned(mux, conn', list')
  PROVE  Inv1'
<1>1. UNCHANGED <<host, mux, dev, guest, gout, gin, faults>> BY DEF linkVars
<1>2. Typed(mux', conn', list', sock', gin', gout') /\ TypedRest' BY <1>1 DEF Inv1, Typed, TypedRest
<1>3. Owned(mux', conn', list') /\ Numbered(mux') BY <1>1 DEF Inv1
<1>4. Cabled' /\ Linked(mux, gin, gout)' BY <1>1 DEF Inv1, Cabled, Linked, Same
<1> QED BY <1>2, <1>3, <1>4 DEF Inv1

\* the connection k changes, and neither the list nor what holds its channel
LEMMA OwnedSame ==
  ASSUME NEW m, NEW C \in [Opens -> Conns], NEW L \in Seq(Opens), Owned(m, C, L), NEW k \in Opens,
         NEW c \in Conns, c.canceled => c.thread \in {"closed", "failed"},
         k \in ToSet(L) => /\ c.thread # "new" /\ c.error = "none" /\ c.chan = C[k].chan
                           /\ c.fd \/ c.thread = "failed"
  PROVE  [C EXCEPT ![k] = c] \in [Opens -> Conns] /\ Owned(m, [C EXCEPT ![k] = c], L)
<1> DEFINE D == [C EXCEPT ![k] = c]
<1>1. D \in [Opens -> Conns] /\ ToSet(L) \subseteq Opens BY ToSetIn
<1>2. \A j \in Opens : D[j] = IF j = k THEN c ELSE C[j] OBVIOUS
<1> HIDE DEF D
<1>3. \A j \in ToSet(L) : /\ D[j].chan = C[j].chan /\ D[j].thread # "new" /\ D[j].error = "none"
                          /\ D[j].fd \/ D[j].thread = "failed"
  BY <1>1, <1>2 DEF Owned
<1>4. \A j \in Opens : D[j].canceled => D[j].thread \in {"closed", "failed"} BY <1>2 DEF Owned
<1>5. \A j \in ToSet(L) : D[j].chan # -1 => m # NoMux /\ m.channel[D[j].chan].state \in Live
  BY <1>1, <1>3 DEF Owned
<1>6. m # NoMux => \A i \in Slots : m.channel[i].state \in Live => \E j \in ToSet(L) : D[j].chan = i
  BY <1>1, <1>3 DEF Owned
<1>7. \A j, l \in ToSet(L) : j # l /\ D[j].chan = D[l].chan => D[j].chan = -1
  BY <1>1, <1>3 DEF Owned
<1>8. Owned(m, D, L) BY <1>3, <1>4, <1>5, <1>6, <1>7 DEF Owned
<1> QED BY <1>1, <1>8 DEF D

LEMMA InvParts ==
  ASSUME Inv1
  PROVE  /\ conn \in [Opens -> Conns] /\ list \in Seq(Opens) /\ sock \in [Opens -> Pipes]
         /\ accepting \in BOOLEAN /\ wrote \in [Opens -> Nat] /\ got \in [Opens -> Seq(DownBytes)]
         /\ Owned(mux, conn, list) /\ IsInjective(list) /\ ToSet(list) \subseteq Opens
         /\ Numbered(mux) /\ mux \in Muxes \cup {NoMux}
BY ToSetIn DEF Inv1, Typed, TypedRest, Owned

LEMMA OpenStep1 == ASSUME Inv1, NEW k \in Opens, Open(k) PROVE Inv1'
<1>1. conn[k].thread = "new" /\ conn[k] \in Conns /\ k \notin ToSet(list)
  BY InvParts DEF Open, Owned
<1>2. UNCHANGED <<accepting, sock, wrote, got, linkVars, faults>> BY DEF Open
<1>3. CASE Room
  <2> DEFINE c == [FreshConn EXCEPT !.thread = "waiting", !.fd = TRUE]
             M == Append(list, k)
  <2>1. conn' = [conn EXCEPT ![k] = c] /\ list' = M BY <1>3 DEF Open
  <2>2. c \in Conns /\ ~c.canceled /\ c.thread = "waiting" /\ c.error = "none" /\ c.chan = -1
        /\ c.fd
    BY DEF FreshConn, Conns, Whys
  <2> HIDE DEF c
  <2>3. conn' \in [Opens -> Conns] /\ Owned(mux, conn', list)
    BY <1>1, <2>1, <2>2, InvParts, OwnedSame
  <2>4. /\ M \in Seq(Opens) /\ Len(M) = Len(list) + 1 /\ ToSet(M) = ToSet(list) \cup {k}
        /\ IsInjective(M)
    BY <1>1, InvParts, AppendFacts
  <2> HIDE DEF M
  <2>5. Len(M) <= USB_MUX_CHANNELS
    <3>1. Len(list) \in Nat /\ Len(list) < USB_MUX_CHANNELS /\ USB_MUX_CHANNELS \in Nat
      BY <1>3, InvParts, Consts DEF Room
    <3> QED BY <2>4, <3>1
  <2>6. conn'[k] = c /\ \A j \in Opens : j # k => conn'[j] = conn[j] BY <2>1, InvParts
  <2>7. Owned(mux, conn', M)
    <3>1. \A j \in ToSet(M) : j = k \/ j \in ToSet(list) BY <2>4
    <3>2. \A j \in ToSet(M) :
            /\ conn'[j].thread # "new" /\ conn'[j].error = "none"
            /\ conn'[j].fd \/ conn'[j].thread = "failed"
            /\ conn'[j].chan # -1 => mux # NoMux /\ mux.channel[conn'[j].chan].state \in Live
      BY <2>2, <2>3, <2>6, <3>1 DEF Owned
    <3>3. mux # NoMux => \A i \in Slots :
            mux.channel[i].state \in Live => \E j \in ToSet(M) : conn'[j].chan = i
      BY <2>3, <2>4 DEF Owned
    <3>4. \A j, l \in ToSet(M) : j # l /\ conn'[j].chan = conn'[l].chan => conn'[j].chan = -1
      BY <2>2, <2>3, <2>6, <3>1 DEF Owned
    <3> QED BY <2>3, <2>4, <2>5, <3>2, <3>3, <3>4 DEF Owned
  <2> QED BY <1>2, <2>1, <2>3, <2>4, <2>7, InvParts, ClientStep1
<1>4. CASE ~Room
  <2>1. conn' = [conn EXCEPT ![k] = Gone("failed")] /\ list' = list BY <1>4 DEF Open
  <2>2. conn' \in [Opens -> Conns] /\ Owned(mux, conn', list)
    BY <1>1, <2>1, InvParts, GoneTyped, OwnedSame
  <2> QED BY <1>2, <2>1, <2>2, InvParts, ClientStep1
<1> QED BY <1>3, <1>4

\* a request without a channel leaves the list
LEMMA OwnedOut ==
  ASSUME Inv1, NEW k \in Opens, NEW c \in Conns, c.canceled => c.thread \in {"closed", "failed"},
         k \in ToSet(list) => conn[k].chan = -1
  PROVE  /\ [conn EXCEPT ![k] = c] \in [Opens -> Conns] /\ Without(list, {k}) \in Seq(Opens)
         /\ Owned(mux, [conn EXCEPT ![k] = c], Without(list, {k}))
<1> DEFINE M == Without(list, {k})
           D == [conn EXCEPT ![k] = c]
<1>1. /\ M \in Seq(Opens) /\ IsInjective(M) /\ ToSet(M) = ToSet(list) \ {k} /\ Len(M) <= Len(list)
  BY InvParts, WithoutFacts
<1>2. Len(M) <= USB_MUX_CHANNELS
  <2>1. Len(M) \in Nat /\ Len(list) \in Nat /\ USB_MUX_CHANNELS \in Nat /\ Len(list) <= USB_MUX_CHANNELS
    BY <1>1, InvParts, Consts DEF Owned
  <2> HIDE DEF M
  <2> QED BY <1>1, <2>1
<1>3. D \in [Opens -> Conns] /\ \A j \in Opens : D[j] = IF j = k THEN c ELSE conn[j] BY InvParts
<1> HIDE DEF M, D
<1>4. \A j \in ToSet(M) : j \in ToSet(list) /\ j # k /\ D[j] = conn[j] BY <1>1, <1>3, InvParts
<1>5. \A j \in Opens : D[j].canceled => D[j].thread \in {"closed", "failed"}
  BY <1>3, InvParts DEF Owned
<1>6. /\ \A j \in ToSet(M) :
            /\ D[j].thread # "new" /\ D[j].error = "none" /\ (D[j].fd \/ D[j].thread = "failed")
            /\ D[j].chan # -1 => mux # NoMux /\ mux.channel[D[j].chan].state \in Live
      /\ \A j, l \in ToSet(M) : j # l /\ D[j].chan = D[l].chan => D[j].chan = -1
  BY <1>4, InvParts DEF Owned
<1>7. mux # NoMux => \A i \in Slots :
        mux.channel[i].state \in Live => \E j \in ToSet(M) : D[j].chan = i
  <2> SUFFICES ASSUME mux # NoMux, NEW i \in Slots, mux.channel[i].state \in Live
               PROVE  \E j \in ToSet(M) : D[j].chan = i
    OBVIOUS
  <2>1. PICK j \in ToSet(list) : conn[j].chan = i BY InvParts DEF Owned
  <2>2. j # k BY <2>1, SlotFacts
  <2> QED BY <1>1, <1>4, <2>1, <2>2
<1>8. Owned(mux, D, M) BY <1>1, <1>2, <1>5, <1>6, <1>7 DEF Owned
<1> QED BY <1>1, <1>3, <1>8 DEF D, M

\* openPort's failure branch
LEMMA FailedStep1 ==
  ASSUME Inv1, NEW k \in Opens, conn[k].thread = "waiting",
         conn' = [conn EXCEPT ![k] = Failed(k)], list' = WithoutFailed(k),
         UNCHANGED <<accepting, sock, wrote, got, linkVars, faults>>
  PROVE  Inv1'
<1>1. conn[k] \in Conns BY InvParts
<1>2. CASE k \in ToSet(list) /\ conn[k].chan # -1
  <2> DEFINE c == [conn[k] EXCEPT !.thread = "failed", !.canceled = TRUE, !.fd = FALSE]
  <2>1. conn' = [conn EXCEPT ![k] = c] /\ list' = list BY <1>2 DEF Failed, WithoutFailed
  <2>2. c \in Conns /\ c.thread = "failed" /\ c.error = conn[k].error /\ c.chan = conn[k].chan
    BY <1>1 DEF Conns
  <2>3. conn[k].error = "none" BY <1>2, InvParts DEF Owned
  <2> HIDE DEF c
  <2>5. [conn EXCEPT ![k] = c] \in [Opens -> Conns] /\ Owned(mux, [conn EXCEPT ![k] = c], list)
    BY <2>2, <2>3, InvParts, OwnedSame
  <2>4. conn' \in [Opens -> Conns] /\ Owned(mux, conn', list) BY <2>1, <2>5
  <2> QED BY <2>1, <2>4, InvParts, ClientStep1
<1>3. CASE ~(k \in ToSet(list) /\ conn[k].chan # -1)
  <2>1. conn' = [conn EXCEPT ![k] = Gone("failed")] BY <1>3 DEF Failed
  <2>2. Gone("failed") \in Conns /\ ~Gone("failed").canceled BY GoneTyped
  <2>3. CASE conn[k].chan = -1
    <3>1. list' = Without(list, {k}) BY <2>3 DEF WithoutFailed
    <3>2. conn' \in [Opens -> Conns] /\ list' \in Seq(Opens) /\ Owned(mux, conn', list')
      BY <2>1, <2>2, <2>3, <3>1, OwnedOut, Zenon
    <3> QED BY <3>2, InvParts, ClientStep1
  <2>4. CASE conn[k].chan # -1
    <3>1. list' = list /\ k \notin ToSet(list) BY <1>3, <2>4 DEF WithoutFailed
    <3> DEFINE c == Gone("failed")
    <3> HIDE DEF c
    <3>3. [conn EXCEPT ![k] = c] \in [Opens -> Conns] /\ Owned(mux, [conn EXCEPT ![k] = c], list)
      BY <2>2, <3>1, InvParts, OwnedSame DEF c
    <3>2. conn' \in [Opens -> Conns] /\ Owned(mux, conn', list) BY <2>1, <3>3 DEF c
    <3> QED BY <3>1, <3>2, InvParts, ClientStep1
  <2> QED BY <2>3, <2>4
<1> QED BY <1>2, <1>3

LEMMA WakeStep1 == ASSUME Inv1, NEW k \in Opens, Wake(k) PROVE Inv1'
<1>1. conn[k].thread = "waiting" /\ UNCHANGED <<accepting, sock, wrote, got, linkVars, faults>>
  BY DEF Wake
<1>2. CASE conn[k].error # "none"
  <2>1. conn' = [conn EXCEPT ![k] = Failed(k)] /\ list' = WithoutFailed(k) BY <1>2 DEF Wake
  <2> QED BY <1>1, <2>1, FailedStep1
<1>3. CASE conn[k].error = "none"
  <2> DEFINE c == [conn[k] EXCEPT !.thread = "using"]
  <2>1. conn' = [conn EXCEPT ![k] = c] /\ list' = list BY <1>3 DEF Wake
  <2>2. conn[k] \in Conns /\ ~conn[k].canceled /\ (k \in ToSet(list) => conn[k].fd)
    BY <1>1, InvParts DEF Owned
  <2>3. c \in Conns /\ ~c.canceled /\ c.thread = "using" /\ c.error = "none" /\ c.chan = conn[k].chan
        /\ c.fd = conn[k].fd
    BY <1>3, <2>2 DEF Conns
  <2> HIDE DEF c
  <2>5. [conn EXCEPT ![k] = c] \in [Opens -> Conns] /\ Owned(mux, [conn EXCEPT ![k] = c], list)
    BY <1>3, <2>2, <2>3, InvParts, OwnedSame
  <2>4. conn' \in [Opens -> Conns] /\ Owned(mux, conn', list) BY <2>1, <2>5
  <2> QED BY <1>1, <2>1, <2>4, InvParts, ClientStep1
<1> QED BY <1>2, <1>3

LEMMA GiveUpStep1 == ASSUME Inv1, NEW k \in Opens, GiveUp(k) PROVE Inv1'
BY FailedStep1 DEF GiveUp

\* the client closes its end
LEMMA FinishedStep1 ==
  ASSUME Inv1, NEW k \in Opens, NEW c \in Conns, Finished(k, c), c.thread = "closed",
         k \in ToSet(list) => c.error = "none" /\ c.chan = conn[k].chan /\ c.fd
  PROVE  Inv1'
<1> DEFINE p == [sock[k] EXCEPT !.down = <<>>]
<1>1. /\ conn' = [conn EXCEPT ![k] = c] /\ sock' = [sock EXCEPT ![k] = p]
      /\ wrote' = [wrote EXCEPT ![k] = 0] /\ got' = [got EXCEPT ![k] = <<>>]
      /\ UNCHANGED <<list, accepting, linkVars, faults>>
  BY DEF Finished
<1>2. p \in Pipes
  <2>1. sock[k] \in Pipes /\ <<>> \in UpTo(DownBytes, SOCKET) BY InvParts, Consts DEF UpTo
  <2> QED BY <2>1 DEF Pipes
<1> HIDE DEF p
<1>3. conn' \in [Opens -> Conns] /\ Owned(mux, conn', list) BY <1>1, InvParts, OwnedSame
<1>4. sock' \in [Opens -> Pipes] /\ wrote' \in [Opens -> Nat] /\ got' \in [Opens -> Seq(DownBytes)]
  BY <1>1, <1>2, InvParts
<1> QED BY <1>1, <1>3, <1>4, InvParts, ClientStep1

\* a client that still uses its socket is in the list while the transport's end is open
LEMMA UsingOpen ==
  ASSUME Inv1, NEW k \in Opens, conn[k].thread = "using"
  PROVE  /\ k \in ToSet(list) => conn[k].fd /\ conn[k].error = "none"
         /\ conn[k] \in Conns /\ ~conn[k].canceled
BY InvParts DEF Owned

LEMMA ClientEofStep1 == ASSUME Inv1, NEW k \in Opens, ClientEof(k) PROVE Inv1'
<1>1. ~conn[k].fd /\ conn[k].thread = "using" /\ Finished(k, Gone("closed")) BY DEF ClientEof
<1>2. k \notin ToSet(list) BY <1>1, UsingOpen
<1>3. Gone("closed") \in Conns /\ Gone("closed").thread = "closed" BY GoneTyped
<1> QED BY <1>1, <1>2, <1>3, FinishedStep1

LEMMA ClientCloseStep1 == ASSUME Inv1, NEW k \in Opens, ClientClose(k) PROVE Inv1'
<1> DEFINE c == IF conn[k].fd THEN [conn[k] EXCEPT !.thread = "closed"] ELSE Gone("closed")
<1>1. conn[k].thread = "using" /\ Finished(k, c) BY DEF ClientClose
<1>2. /\ k \in ToSet(list) => conn[k].fd /\ conn[k].error = "none"
      /\ conn[k] \in Conns
  BY <1>1, UsingOpen
<1>3. /\ c \in Conns /\ c.thread = "closed"
      /\ conn[k].fd => c.error = conn[k].error /\ c.chan = conn[k].chan /\ c.fd
  BY <1>2, GoneTyped DEF Conns
<1> HIDE DEF c
<1>4. k \in ToSet(list) => c.error = "none" /\ c.chan = conn[k].chan /\ c.fd BY <1>2, <1>3
<1>5. c \in Conns /\ c.thread = "closed" /\ Finished(k, c) BY <1>1, <1>3
<1> QED BY <1>4, <1>5, FinishedStep1

LEMMA ClientWriteStep1 == ASSUME Inv1, NEW k \in Opens, ClientWrite(k) PROVE Inv1'
<1> DEFINE e == [from |-> k, i |-> wrote[k] + 1]
           b == Append(sock[k].up, e)
           p == [sock[k] EXCEPT !.up = b]
<1>1. /\ Len(sock[k].up) < SOCKET /\ sock' = [sock EXCEPT ![k] = p]
      /\ wrote' = [wrote EXCEPT ![k] = @ + 1]
      /\ UNCHANGED <<conn, list, accepting, got, linkVars, faults>>
  BY InvParts DEF ClientWrite, Pipes
<1>2. sock[k] \in Pipes /\ wrote[k] \in Nat BY InvParts
<1>3. e \in UpBytes BY <1>2 DEF UpBytes
<1>4. b \in UpTo(UpBytes, SOCKET)
  <2>1. sock[k].up \in Seq(UpBytes) /\ Len(sock[k].up) \in Nat /\ SOCKET \in Nat
    BY <1>2, PipeFields, Consts
  <2> HIDE DEF e
  <2>2. b \in Seq(UpBytes) /\ Len(b) = Len(sock[k].up) + 1 BY <1>3, <2>1, AppendFacts
  <2> HIDE DEF b
  <2> QED BY <1>1, <2>1, <2>2 DEF UpTo
<1> HIDE DEF b
<1>5. p \in Pipes BY <1>2, <1>4 DEF Pipes
<1> HIDE DEF p
<1>6. sock' \in [Opens -> Pipes] /\ wrote' \in [Opens -> Nat] BY <1>1, <1>2, <1>5, InvParts
<1> QED BY <1>1, <1>6, InvParts, ClientStep1

LEMMA ClientReadStep1 == ASSUME Inv1, NEW k \in Opens, ClientRead(k) PROVE Inv1'
<1> DEFINE b == Tail(sock[k].down)
           p == [sock[k] EXCEPT !.down = b]
           e == Head(sock[k].down)
<1>1. /\ sock[k].down # <<>> /\ sock' = [sock EXCEPT ![k] = p]
      /\ got' = [got EXCEPT ![k] = Append(got[k], e)]
      /\ UNCHANGED <<conn, list, accepting, wrote, linkVars, faults>>
  BY InvParts DEF ClientRead, Pipes
<1>2. sock[k] \in Pipes /\ got[k] \in Seq(DownBytes) BY InvParts
<1>3. /\ sock[k].down \in Seq(DownBytes) /\ Len(sock[k].down) \in Nat
      /\ Len(sock[k].down) <= SOCKET /\ SOCKET \in Nat
  BY <1>2, PipeFields, Consts
<1>4. b \in Seq(DownBytes) /\ Len(b) = Len(sock[k].down) - 1 /\ e \in DownBytes
  BY <1>1, <1>3, TailFacts
<1> HIDE DEF b, e
<1>5. b \in UpTo(DownBytes, SOCKET) /\ Append(got[k], e) \in Seq(DownBytes)
  <2>1. b \in UpTo(DownBytes, SOCKET) BY <1>3, <1>4 DEF UpTo
  <2>2. Append(got[k], e) \in Seq(DownBytes) BY <1>2, <1>4
  <2> QED BY <2>1, <2>2
<1>6. p \in Pipes BY <1>2, <1>5 DEF Pipes
<1> HIDE DEF p
<1>7. sock' \in [Opens -> Pipes] /\ got' \in [Opens -> Seq(DownBytes)] BY <1>1, <1>5, <1>6, InvParts
<1> QED BY <1>1, <1>7, InvParts, ClientStep1

LEMMA ActivityStep1 == ASSUME Inv1, hasServiceActivity PROVE Inv1'
<1>1. UNCHANGED <<list, accepting, sock, wrote, got, linkVars, faults>> BY DEF hasServiceActivity
<1> DEFINE On(k) == [conn[k] EXCEPT !.canceled = TRUE]
<1>2. \A k \in Opens : conn'[k] = conn[k] \/ (conn'[k] = On(k) /\ Hung(k)) BY DEF hasServiceActivity
<1>3. \A k \in Opens : /\ conn[k] \in Conns /\ On(k) \in Conns
                       /\ On(k).thread = conn[k].thread /\ On(k).error = conn[k].error
                       /\ On(k).chan = conn[k].chan /\ On(k).fd = conn[k].fd
  <2>1. conn \in [Opens -> Conns] BY InvParts
  <2>2. \A c \in Conns : LET d == [c EXCEPT !.canceled = TRUE] IN
          /\ d \in Conns /\ d.thread = c.thread /\ d.error = c.error
          /\ d.chan = c.chan /\ d.fd = c.fd
    BY DEF Conns
  <2> QED BY <2>1, <2>2
<1> HIDE DEF On
<1>4. \A k \in Opens : /\ conn'[k] \in Conns
                       /\ conn'[k].thread = conn[k].thread /\ conn'[k].error = conn[k].error
                       /\ conn'[k].chan = conn[k].chan /\ conn'[k].fd = conn[k].fd
                       /\ conn'[k].canceled => conn[k].canceled \/ Hung(k)
  BY <1>2, <1>3
<1>5. conn' \in [Opens -> Conns]
  <2>1. DOMAIN conn' = Opens /\ conn' = [k \in Opens |-> conn'[k]] BY DEF hasServiceActivity
  <2> QED BY <2>1, <1>4
<1>6. Owned(mux, conn', list)
  <2>1. \A k \in Opens : conn'[k].canceled => conn'[k].thread \in {"closed", "failed"}
    BY <1>4, InvParts DEF Owned, Hung
  <2>2. \A k \in ToSet(list) :
         /\ conn'[k].thread # "new" /\ conn'[k].error = "none" /\ (conn'[k].fd \/ conn'[k].thread = "failed")
         /\ conn'[k].chan # -1 => mux # NoMux /\ mux.channel[conn'[k].chan].state \in Live
    <3>1. \A k \in ToSet(list) :
           /\ k \in Opens
           /\ conn[k].thread # "new" /\ conn[k].error = "none" /\ (conn[k].fd \/ conn[k].thread = "failed")
           /\ conn[k].chan # -1 => mux # NoMux /\ mux.channel[conn[k].chan].state \in Live
      BY InvParts DEF Owned
    <3> QED BY <1>4, <3>1
  <2>3. mux # NoMux => \A i \in Slots :
          mux.channel[i].state \in Live => \E j \in ToSet(list) : conn'[j].chan = i
    <3>1. mux # NoMux => \A i \in Slots :
            mux.channel[i].state \in Live => \E j \in ToSet(list) : conn[j].chan = i
      BY InvParts DEF Owned
    <3>2. \A j \in ToSet(list) : conn'[j].chan = conn[j].chan BY <1>4, InvParts
    <3> QED BY <3>1, <3>2
  <2>4. \A j, l \in ToSet(list) : j # l /\ conn'[j].chan = conn'[l].chan => conn'[j].chan = -1
    BY <1>4, InvParts DEF Owned
  <2> QED BY <2>1, <2>2, <2>3, <2>4, InvParts DEF Owned
<1> QED BY <1>1, <1>5, <1>6, InvParts, ClientStep1

---------------------------------------
(* The steps of the emulator thread. *)

\* endSession, beginSession, reconnectSession: what stays in the list has no channel
LEMMA DropFacts ==
  ASSUME Inv1, NEW ks, NEW why \in {"ended", "link"}, Dropped(ks, why),
         \A k \in ToSet(list) \ ks : conn[k].chan = -1
  PROVE  /\ conn' \in [Opens -> Conns] /\ list' \in Seq(Opens) /\ sock' \in [Opens -> Pipes]
         /\ Owned(NoMux, conn', list')
<1>1. /\ list' \in Seq(Opens) /\ IsInjective(list') /\ ToSet(list') = ToSet(list) \ ks
      /\ Len(list') <= Len(list)
  BY InvParts, WithoutFacts DEF Dropped
<1>2. Len(list') <= USB_MUX_CHANNELS
  <2>1. Len(list') \in Nat /\ Len(list) \in Nat /\ USB_MUX_CHANNELS \in Nat /\ Len(list) <= USB_MUX_CHANNELS
    BY <1>1, InvParts, Consts DEF Owned
  <2> QED BY <1>1, <2>1
<1> DEFINE c(k) == [conn[k] EXCEPT !.error = why, !.fd = FALSE]
           p(k) == [sock[k] EXCEPT !.up = <<>>]
<1>3. \A k \in Opens : /\ conn[k] \in Conns /\ c(k) \in Conns /\ sock[k] \in Pipes /\ p(k) \in Pipes
                       /\ c(k).thread = conn[k].thread /\ c(k).canceled = conn[k].canceled
  <2>1. \A k \in Opens : conn[k] \in Conns /\ sock[k] \in Pipes BY InvParts
  <2>2. <<>> \in UpTo(UpBytes, SOCKET) /\ why \in Whys \cup {"ended"} BY Consts DEF UpTo, Whys
  <2> QED BY <2>1, <2>2, Zenon DEF Conns, Pipes
<1> HIDE DEF c, p
<1>4. /\ conn' = [k \in Opens |-> IF k \notin ks THEN conn[k]
                                  ELSE IF Hung(k) THEN Gone(conn[k].thread) ELSE c(k)]
      /\ sock' = [k \in Opens |-> IF k \in ks THEN p(k) ELSE sock[k]]
  BY DEF Dropped, c, p
<1>5. \A k \in Opens : /\ Gone(conn[k].thread) \in Conns /\ ~Gone(conn[k].thread).canceled
                       /\ conn[k].canceled => conn[k].thread \in {"closed", "failed"}
  <2>1. \A k \in Opens : conn[k].thread \in {"new", "waiting", "using", "failed", "closed"}
    BY <1>3, ConnFields
  <2>2. \A k \in Opens : Gone(conn[k].thread) \in Conns /\ ~Gone(conn[k].thread).canceled
    BY <2>1, GoneTyped
  <2> QED BY <2>2, InvParts DEF Owned
<1>6. conn' \in [Opens -> Conns] /\ sock' \in [Opens -> Pipes] BY <1>3, <1>4, <1>5
<1>7. \A k \in Opens : conn'[k].canceled => conn'[k].thread \in {"closed", "failed"}
  BY <1>3, <1>4, <1>5
<1>8. \A k \in ToSet(list') : conn'[k] = conn[k] /\ k \in ToSet(list) /\ conn[k].chan = -1
  BY <1>1, <1>4, InvParts
<1>9. Owned(NoMux, conn', list')
  <2>1. \A k \in ToSet(list') :
         /\ conn'[k].thread # "new" /\ conn'[k].error = "none"
         /\ (conn'[k].fd \/ conn'[k].thread = "failed") /\ conn'[k].chan = -1
    BY <1>8, InvParts DEF Owned
  <2> QED BY <1>1, <1>2, <1>7, <2>1 DEF Owned
<1> QED BY <1>1, <1>6, <1>9

\* a step after which there is no mux
LEMMA DropStep1 ==
  ASSUME Inv1, NEW ks, NEW why \in {"ended", "link"}, Dropped(ks, why),
         \A k \in ToSet(list) \ ks : conn[k].chan = -1,
         accepting' \in BOOLEAN, UNCHANGED <<wrote, got>>, mux' = NoMux,
         host' \in Hosts, host'.control = "IDLE", dev' \in Devices, guest' \in Guests,
         guest'.session = 0 => guest' = NoSession, faults' \in 0..MaxFaults,
         gin' \in UpTo(GuestFrames, MaxQueue), gout' \in HostFrames,
         Cabled', Linked(NoMux, gin, gout)'
  PROVE  Inv1'
<1>1. /\ conn' \in [Opens -> Conns] /\ list' \in Seq(Opens) /\ sock' \in [Opens -> Pipes]
      /\ Owned(NoMux, conn', list')
  BY DropFacts
<1>2. Typed(mux', conn', list', sock', gin', gout') BY <1>1 DEF Typed
<1>3. TypedRest' BY InvParts DEF TypedRest
<1>4. Owned(mux, conn, list)' /\ Numbered(mux)' BY <1>1 DEF Numbered
<1>5. Linked(mux, gin, gout)' OBVIOUS
<1> QED BY <1>2, <1>3, <1>4, <1>5 DEF Inv1

LEMMA InvRest ==
  ASSUME Inv1
  PROVE  /\ host \in Hosts /\ dev \in Devices /\ guest \in Guests /\ faults \in 0..MaxFaults
         /\ guest.session = 0 => guest = NoSession
         /\ gin \in UpTo(GuestFrames, MaxQueue) /\ gout \in HostFrames
         /\ Cabled /\ Linked(mux, gin, gout)
         /\ host.control # "IDLE" =>
              host.stage \in {"DEVICE", "ADDRESS", "CONFIG_HEAD", "CONFIG_BODY", "CONFIG_SET"}
BY DEF Inv1, Typed, TypedRest

LEMMA Plugs ==
  /\ \A g \in Nat : /\ FreshHost(g) \in Hosts /\ FreshHost(g).control = "IDLE"
                    /\ FreshHost(g).gen = g /\ FreshHost(g).attached
                    /\ FreshHost(g).stage = "WAIT_DEVICE"
                    /\ FreshDevice(g) \in Devices /\ FreshDevice(g).gen = g
                    /\ ~FreshDevice(g).unplugged /\ ~FreshDevice(g).address
  /\ Detached \in Hosts /\ Detached.control = "IDLE" /\ ~Detached.attached
  /\ Detached.stage = "WAIT_DEVICE"
  /\ [Detached EXCEPT !.stage = "OFF"] \in Hosts
  /\ [Detached EXCEPT !.stage = "OFF"].control = "IDLE"
  /\ ~[Detached EXCEPT !.stage = "OFF"].attached
  /\ [Detached EXCEPT !.stage = "OFF"].stage = "OFF"
  /\ NoSession \in Guests /\ NoSession.session = 0
  /\ <<>> \in UpTo(GuestFrames, MaxQueue) /\ NoFrame \in HostFrames /\ NoFrame.kind = "none"
<1>1. \A g \in Nat : /\ FreshHost(g) \in Hosts /\ FreshHost(g).control = "IDLE"
                     /\ FreshHost(g).gen = g /\ FreshHost(g).attached
                     /\ FreshHost(g).stage = "WAIT_DEVICE"
                     /\ FreshDevice(g) \in Devices /\ FreshDevice(g).gen = g
                     /\ ~FreshDevice(g).unplugged /\ ~FreshDevice(g).address
  BY DEF FreshHost, FreshDevice, Hosts, Devices
<1>2. /\ Detached \in Hosts /\ Detached.control = "IDLE" /\ ~Detached.attached
      /\ Detached.stage = "WAIT_DEVICE"
      /\ [Detached EXCEPT !.stage = "OFF"] \in Hosts
      /\ [Detached EXCEPT !.stage = "OFF"].control = "IDLE"
      /\ ~[Detached EXCEPT !.stage = "OFF"].attached
      /\ [Detached EXCEPT !.stage = "OFF"].stage = "OFF"
  BY DEF Detached, FreshHost, Hosts
<1>3. NoSession \in Guests /\ NoSession.session = 0
  BY SlotFacts DEF NoSession, NoStream, Guests, Streams, StreamRecords
<1>4. <<>> \in UpTo(GuestFrames, MaxQueue) /\ NoFrame \in HostFrames /\ NoFrame.kind = "none"
  BY Consts DEF UpTo, HostFrames, NoFrame
<1> QED BY <1>1, <1>2, <1>3, <1>4

LEMMA Unplugged ==
  ASSUME Inv1, dev' = [dev EXCEPT !.unplugged = TRUE]
  PROVE  dev' \in Devices /\ dev'.unplugged /\ dev'.gen = dev.gen /\ dev'.address = dev.address
BY InvRest DEF Devices

LEMMA LinkLostStep1 == ASSUME Inv1, LinkLost, faults' \in 0..MaxFaults PROVE Inv1'
<1>1. /\ Dropped(Assigned, "link") /\ accepting' = TRUE /\ mux' = NoMux /\ host' = Detached
      /\ dev' = [dev EXCEPT !.unplugged = TRUE] /\ gout' = NoFrame /\ gin' = <<>>
      /\ UNCHANGED <<wrote, got, guest>>
  BY DEF LinkLost, reconnectSession
<1>2. \A k \in ToSet(list) \ Assigned : conn[k].chan = -1 BY DEF Assigned
<1>3. Cabled' /\ Linked(NoMux, gin, gout)' BY <1>1, Unplugged, Plugs DEF Cabled, Linked
<1> QED BY <1>1, <1>2, <1>3, Unplugged, Plugs, InvRest, DropStep1

LEMMA ServingStep1 == ASSUME Inv1, NEW n, Serving(n) PROVE Inv1'
<1>1. CASE LinkLost /\ UNCHANGED faults BY <1>1, InvRest, LinkLostStep1
<1>2. CASE /\ Mid1(mux', conn', list', sock', gin', gout') /\ mux' \in Muxes
           /\ \A j \in Opens : conn'[j].thread = conn[j].thread
           /\ UNCHANGED <<accepting, wrote, got, host, dev, guest, faults>>
  <2>1. TypedRest' /\ Cabled' BY <1>2 DEF Inv1, TypedRest, Cabled
  <2>2. Linked(mux, gin, gout)' BY <1>2 DEF Mid1, Linked, Same
  <2>3. Typed(mux, conn, list, sock, gin, gout)' /\ Owned(mux, conn, list)' /\ Numbered(mux)'
    BY <1>2 DEF Mid1
  <2> QED BY <2>1, <2>2, <2>3 DEF Inv1
<1> QED BY <1>1, <1>2, ServeStep1

LEMMA FaultTyped == ASSUME Inv1, Fault PROVE faults' \in 0..MaxFaults
BY InvRest, Consts DEF Fault

LEMMA LinkFailsStep1 == ASSUME Inv1, LinkFails PROVE Inv1'
BY FaultTyped, LinkLostStep1 DEF LinkFails

LEMMA StaleHostStep1 == ASSUME Inv1, StaleHost PROVE Inv1'
<1>1. /\ host.attached /\ ~Current /\ host' = FreshHost(dev.gen) /\ mux' = NoMux
      /\ UNCHANGED <<dev, guest, gout, gin, faults>>
  BY DEF StaleHost
<1>2. dev.gen \in Nat BY InvRest DEF Devices
<1>3. /\ host' \in Hosts /\ host'.control = "IDLE" /\ host'.gen = dev.gen /\ host'.attached
      /\ host'.stage = "WAIT_DEVICE"
  BY <1>1, <1>2, Plugs
<1>4. Cabled' BY <1>1, <1>2, <1>3, InvRest DEF Cabled
<1>5. host.stage # "OFF" /\ ~dev.unplugged BY <1>1, InvRest DEF Cabled
<1>6. gin = <<>> /\ gout = NoFrame /\ guest = NoSession
  <2>1. CASE mux = NoMux BY <1>5, <2>1, InvRest DEF Linked
  <2>2. CASE mux # NoMux BY <1>1, <2>2, InvRest DEF Linked, Current, Same
  <2> QED BY <2>1, <2>2
<1>7. Linked(NoMux, gin, gout)' BY <1>1, <1>6, Plugs DEF Linked
<1>8. CASE mux = NoMux
  <2>1. UNCHANGED <<clientVars, mux>> BY <1>1, <1>8 DEF StaleHost
  <2>2. Typed(mux, conn, list, sock, gin, gout)' /\ Owned(mux, conn, list)' /\ Numbered(mux)'
    BY <1>1, <2>1 DEF Inv1, Typed, clientVars
  <2>3. TypedRest' BY <1>1, <1>3, <2>1 DEF Inv1, TypedRest, clientVars
  <2>4. Linked(mux, gin, gout)' BY <1>1, <1>7
  <2> QED BY <1>4, <2>2, <2>3, <2>4 DEF Inv1
<1>9. CASE mux # NoMux
  <2>1. /\ Dropped(Assigned, "link") /\ accepting' = TRUE /\ UNCHANGED <<wrote, got>>
    BY <1>9 DEF StaleHost, reconnectSession
  <2>2. \A k \in ToSet(list) \ Assigned : conn[k].chan = -1 BY DEF Assigned
  <2>3. UNCHANGED <<dev, guest, gout, gin, faults>> /\ mux' = NoMux BY <1>1
  <2>4. /\ accepting' \in BOOLEAN /\ dev' \in Devices /\ guest' \in Guests
        /\ guest'.session = 0 => guest' = NoSession
        /\ faults' \in 0..MaxFaults /\ gin' \in UpTo(GuestFrames, MaxQueue) /\ gout' \in HostFrames
    BY <2>1, <2>3, InvRest
  <2> QED BY <1>3, <1>4, <1>7, <2>1, <2>2, <2>3, <2>4, DropStep1
<1> QED BY <1>8, <1>9

LEMMA ReattachStep1 == ASSUME Inv1, Reattach PROVE Inv1'
<1>1. /\ ~host.attached /\ host.stage # "OFF" /\ ~dev.unplugged /\ host' = FreshHost(dev.gen)
      /\ UNCHANGED <<clientVars, mux, dev, guest, gout, gin, faults>>
  BY DEF Reattach
<1>2. dev.gen \in Nat BY InvRest DEF Devices
<1>3. /\ host' \in Hosts /\ host'.control = "IDLE" /\ host'.gen = dev.gen /\ host'.attached
      /\ host'.stage = "WAIT_DEVICE"
  BY <1>1, <1>2, Plugs
<1>4. mux = NoMux /\ gin = <<>> /\ gout = NoFrame /\ guest = NoSession BY <1>1, InvRest DEF Linked
<1>5. Cabled' /\ Linked(mux, gin, gout)' BY <1>1, <1>2, <1>3, <1>4, Plugs DEF Cabled, Linked
<1>6. Typed(mux, conn, list, sock, gin, gout)' /\ Owned(mux, conn, list)' /\ Numbered(mux)'
  BY <1>1 DEF Inv1, Typed, clientVars
<1>7. TypedRest' BY <1>1, <1>3 DEF Inv1, TypedRest, clientVars
<1> QED BY <1>5, <1>6, <1>7 DEF Inv1

LEMMA RequestTyped ==
  ASSUME Inv1, NEW s \in {"DEVICE", "ADDRESS", "CONFIG_HEAD", "CONFIG_BODY", "CONFIG_SET"}
  PROVE  /\ Request(s) \in Hosts /\ Request(s).stage = s /\ Request(s).gen = host.gen
         /\ Request(s).attached = host.attached
BY InvRest DEF Request, Hosts

\* the enumeration, before there is a mux
LEMMA HostStep1 ==
  ASSUME Inv1, mux = NoMux, UNCHANGED <<clientVars, mux, faults>>, host' \in Hosts,
         host'.control # "IDLE" =>
           host'.stage \in {"DEVICE", "ADDRESS", "CONFIG_HEAD", "CONFIG_BODY", "CONFIG_SET"},
         host.attached, host'.attached, host'.gen = host.gen, host'.stage # "OFF",
         dev' \in Devices, dev'.gen = dev.gen, dev'.unplugged = dev.unplugged,
         gin' = <<>>, gout' = NoFrame, guest' = NoSession
  PROVE  Inv1'
<1>1. Cabled' BY InvRest DEF Cabled
<1>2. Linked(mux, gin, gout)' BY Plugs DEF Linked
<1>3. TypedRest' BY Plugs DEF Inv1, TypedRest, clientVars
<1>4. Typed(mux, conn, list, sock, gin, gout)' /\ Owned(mux, conn, list)' /\ Numbered(mux)'
  BY Plugs DEF Inv1, Typed, clientVars
<1> QED BY <1>1, <1>2, <1>3, <1>4 DEF Inv1

LEMMA NoMuxYet ==
  ASSUME Inv1, Current, host.stage # "READY"
  PROVE  mux = NoMux /\ gin = <<>> /\ gout = NoFrame /\ guest = NoSession /\ host.attached
BY InvRest DEF Linked, Cabled, Current

LEMMA PollIdleStep1 == ASSUME Inv1, PollIdle PROVE Inv1'
<1>1. Current /\ host.control = "IDLE" /\ host.stage # "READY" /\ UNCHANGED <<clientVars, mux, faults>>
  BY DEF PollIdle
<1>2. mux = NoMux /\ gin = <<>> /\ gout = NoFrame /\ guest = NoSession /\ host.attached
  BY <1>1, NoMuxYet
<1>3. host \in Hosts /\ dev \in Devices BY InvRest
<1>4. CASE /\ host' = [host EXCEPT !.stage = "WAIT_RESET"]
           /\ dev' = [dev EXCEPT !.reset = TRUE, !.enumerated = FALSE, !.address = FALSE]
           /\ guest' = NoSession /\ gout' = NoFrame /\ gin' = <<>>
  <2>1. /\ host' \in Hosts /\ host'.control = "IDLE" /\ host'.attached /\ host'.gen = host.gen
        /\ host'.stage # "OFF"
    BY <1>1, <1>2, <1>3, <1>4 DEF Hosts
  <2>2. dev' \in Devices /\ dev'.gen = dev.gen /\ dev'.unplugged = dev.unplugged
    BY <1>3, <1>4 DEF Devices
  <2> QED BY <1>1, <1>2, <1>4, <2>1, <2>2, HostStep1
<1>5. CASE /\ host' = [host EXCEPT !.stage = "WAIT_ENUM"] /\ dev' = [dev EXCEPT !.enum = TRUE]
           /\ UNCHANGED <<guest, gout, gin>>
  <2>1. /\ host' \in Hosts /\ host'.control = "IDLE" /\ host'.attached /\ host'.gen = host.gen
        /\ host'.stage # "OFF"
    BY <1>1, <1>2, <1>3, <1>5 DEF Hosts
  <2>2. dev' \in Devices /\ dev'.gen = dev.gen /\ dev'.unplugged = dev.unplugged
    BY <1>3, <1>5 DEF Devices
  <2> QED BY <1>1, <1>2, <1>5, <2>1, <2>2, HostStep1
<1>6. CASE (host' = Request("DEVICE") \/ host' = Request("CONFIG_HEAD")) /\ UNCHANGED <<dev, guest, gout, gin>>
  BY <1>1, <1>2, <1>3, <1>6, RequestTyped, HostStep1
<1> QED BY <1>4, <1>5, <1>6 DEF PollIdle

LEMMA NextStageTyped ==
  ASSUME Inv1, host.control # "IDLE"
  PROVE  /\ NextStage \in Hosts /\ NextStage.gen = host.gen /\ NextStage.attached = host.attached
         /\ NextStage.control # "IDLE" =>
              NextStage.stage \in {"DEVICE", "ADDRESS", "CONFIG_HEAD", "CONFIG_BODY", "CONFIG_SET"}
         /\ NextStage.stage # "OFF"
<1>1. host \in Hosts /\ host.stage \in {"DEVICE", "ADDRESS", "CONFIG_HEAD", "CONFIG_BODY", "CONFIG_SET"}
  BY InvRest
<1> DEFINE a == [host EXCEPT !.stage = "ADDRESS", !.control = "IDLE", !.index = @ + 1]
           b == [host EXCEPT !.stage = "READY", !.control = "IDLE"]
<1>2. /\ a \in Hosts /\ a.gen = host.gen /\ a.attached = host.attached /\ a.control = "IDLE"
      /\ a.stage = "ADDRESS"
  <2> DEFINE n == host.index + 1
  <2>1. n \in Nat /\ a = [host EXCEPT !.stage = "ADDRESS", !.control = "IDLE", !.index = n]
    BY <1>1 DEF Hosts
  <2> HIDE DEF n
  <2> QED BY <1>1, <2>1 DEF Hosts
<1>3. /\ b \in Hosts /\ b.gen = host.gen /\ b.attached = host.attached /\ b.control = "IDLE"
      /\ b.stage = "READY"
  BY <1>1 DEF Hosts
<1>4. NextStage \in {Request("ADDRESS"), Request("CONFIG_HEAD"), Request("CONFIG_BODY"),
                     Request("CONFIG_SET"), a, b}
  BY <1>1 DEF NextStage
<1> HIDE DEF a, b
<1> QED BY <1>2, <1>3, <1>4, RequestTyped

LEMMA PollControlStep1 == ASSUME Inv1, PollControl PROVE Inv1'
<1>1. /\ Current /\ host.control # "IDLE" /\ UNCHANGED <<clientVars, mux, guest, gout, gin, faults>>
      /\ dev' = [dev EXCEPT !.address = @ \/ (host.stage = "ADDRESS" /\ host.control = "SETUP")]
  BY DEF PollControl
<1>2. /\ host \in Hosts /\ dev \in Devices
      /\ host.stage \in {"DEVICE", "ADDRESS", "CONFIG_HEAD", "CONFIG_BODY", "CONFIG_SET"}
  BY <1>1, InvRest
<1>3. mux = NoMux /\ gin = <<>> /\ gout = NoFrame /\ guest = NoSession /\ host.attached
  BY <1>1, <1>2, NoMuxYet
<1>4. dev' \in Devices /\ dev'.gen = dev.gen /\ dev'.unplugged = dev.unplugged
  BY <1>1, <1>2 DEF Devices
<1> DEFINE h(x) == [host EXCEPT !.control = x]
<1>5. \A x \in {"DATA", "STATUS"} :
        /\ h(x) \in Hosts /\ h(x).gen = host.gen /\ h(x).attached = host.attached
        /\ h(x).stage = host.stage
  BY <1>2 DEF Hosts
<1>6. host.control \in {"SETUP", "DATA", "STATUS"} BY <1>1, <1>2 DEF Hosts
<1>7. host' \in {h("DATA"), h("STATUS"), NextStage} BY <1>6 DEF PollControl
<1> HIDE DEF h
<1>8. /\ host' \in Hosts /\ host'.gen = host.gen /\ host'.attached = host.attached
      /\ host'.control # "IDLE" =>
           host'.stage \in {"DEVICE", "ADDRESS", "CONFIG_HEAD", "CONFIG_BODY", "CONFIG_SET"}
      /\ host'.stage # "OFF"
  BY <1>1, <1>2, <1>5, <1>7, NextStageTyped
<1> QED BY <1>1, <1>3, <1>4, <1>8, HostStep1

LEMMA BootStep1 ==
  ASSUME Inv1, Dropped(ToSet(list), "ended"), accepting' \in BOOLEAN, UNCHANGED <<wrote, got>>,
         mux' = NoMux, host' = FreshHost(0), dev' = FreshDevice(0), guest' = NoSession,
         gout' = NoFrame, gin' = <<>>, faults' \in 0..MaxFaults
  PROVE  Inv1'
<1>1. Cabled' /\ Linked(NoMux, gin, gout)' BY Plugs DEF Cabled, Linked
<1> QED BY <1>1, Plugs, DropStep1

LEMMA RebootStep1 == ASSUME Inv1, Reboot PROVE Inv1'
BY FaultTyped, BootStep1 DEF Reboot, beginSession

LEMMA StopStep1 == ASSUME Inv1, Stop PROVE Inv1'
<1>1. /\ Dropped(ToSet(list), "ended") /\ accepting' = FALSE /\ mux' = NoMux
      /\ host' = [Detached EXCEPT !.stage = "OFF"]
      /\ UNCHANGED <<wrote, got, dev, guest, gout, gin>> /\ faults' \in 0..MaxFaults
  BY FaultTyped DEF Stop, endSession
<1>2. Cabled' /\ Linked(NoMux, gin, gout)' BY <1>1, InvRest, Plugs DEF Cabled, Linked
<1> QED BY <1>1, <1>2, Plugs, InvRest, DropStep1

LEMMA StartStep1 == ASSUME Inv1, Start PROVE Inv1'
<1>1. /\ Dropped(ToSet(list), "ended") /\ accepting' = TRUE /\ host.stage = "OFF"
      /\ gout' = NoFrame /\ gin' = <<>> /\ UNCHANGED <<mux, wrote, got, faults>>
  BY DEF Start, beginSession
<1>2. mux = NoMux BY <1>1, InvRest DEF Linked
<1>3. CASE host' = FreshHost(0) /\ dev' = FreshDevice(0) /\ guest' = NoSession
  BY <1>1, <1>2, <1>3, InvRest, BootStep1
<1>4. CASE host' = Detached /\ dev' = [dev EXCEPT !.unplugged = TRUE] /\ UNCHANGED guest
  <2>1. Cabled' /\ Linked(NoMux, gin, gout)' BY <1>1, <1>4, Unplugged, Plugs DEF Cabled, Linked
  <2> QED BY <1>1, <1>2, <1>4, <2>1, Unplugged, Plugs, InvRest, DropStep1
<1> QED BY <1>3, <1>4 DEF Start

---------------------------------------
(* The steps of the guest. *)

LEMMA GuestStep1 ==
  ASSUME Inv1, UNCHANGED <<clientVars, host, mux>>, dev' \in Devices, guest' \in Guests,
         guest'.session = 0 => guest' = NoSession, faults' \in 0..MaxFaults,
         gin' \in UpTo(GuestFrames, MaxQueue), gout' \in HostFrames,
         Cabled', Linked(mux, gin, gout)'
  PROVE  Inv1'
<1>1. TypedRest' BY DEF Inv1, TypedRest, clientVars
<1>2. Typed(mux, conn, list, sock, gin, gout)' /\ Owned(mux, conn, list)' /\ Numbered(mux)'
  BY DEF Inv1, Typed, clientVars
<1> QED BY <1>1, <1>2 DEF Inv1

LEMMA QueueFacts ==
  ASSUME Inv1, NEW f \in GuestFrames, Len(gin) < MaxQueue
  PROVE  /\ Append(gin, f) \in UpTo(GuestFrames, MaxQueue)
         /\ Append(gin, f) \in Seq(GuestFrames) /\ Len(Append(gin, f)) = Len(gin) + 1
         /\ \A j \in 1..(Len(gin) + 1) :
              Append(gin, f)[j] = IF j <= Len(gin) THEN gin[j] ELSE f
<1>1. gin \in Seq(GuestFrames) /\ Len(gin) \in Nat /\ MaxQueue \in Nat BY InvRest, Consts DEF UpTo
<1> DEFINE q == Append(gin, f)
<1>2. /\ q \in Seq(GuestFrames) /\ Len(q) = Len(gin) + 1
      /\ \A j \in 1..(Len(gin) + 1) : q[j] = IF j <= Len(gin) THEN gin[j] ELSE f
  BY <1>1, AppendFacts
<1> HIDE DEF q
<1>3. q \in UpTo(GuestFrames, MaxQueue)
  <2> DEFINE n == Len(gin)
  <2>1. n \in Nat /\ n < MaxQueue /\ Len(q) = n + 1 BY <1>1, <1>2
  <2> HIDE DEF n
  <2>2. Len(q) <= MaxQueue BY <1>1, <2>1
  <2> QED BY <1>2, <2>2 DEF UpTo
<1> QED BY <1>2, <1>3 DEF q

\* the guest queues a frame f, and may have taken the one it was handed
LEMMA SaysStep1 ==
  ASSUME Inv1, UNCHANGED <<clientVars, host, mux, dev>>, NEW f \in GuestFrames,
         Len(gin) < MaxQueue, gin' = Append(gin, f), gout' \in {gout, NoFrame},
         host.stage = "OFF" \/ mux # NoMux, f.session = guest'.session,
         guest' \in Guests, guest'.session # 0, faults' \in 0..MaxFaults,
         \/ guest'.session = guest.session
         \/ gout # NoFrame /\ gout' = NoFrame /\ guest'.session = gout.session
  PROVE  Inv1'
<1>1. gin' \in UpTo(GuestFrames, MaxQueue) /\ gout' \in HostFrames /\ dev' \in Devices
  BY QueueFacts, InvRest, Plugs
<1>2. Cabled' BY InvRest DEF Cabled
<1>3. CASE mux = NoMux
  <2>1. host.stage = "OFF" BY <1>3
  <2>2. Linked(mux, gin, gout)' BY <1>3, <2>1, InvRest, Plugs DEF Linked
  <2> QED BY <1>1, <1>2, <2>2, GuestStep1
<1>4. CASE mux # NoMux
  <2>1. Same /\ dev.address /\ guest'.session = mux.session BY <1>4, InvRest, Plugs DEF Linked
  <2>2. \A j \in 1..Len(gin') : gin'[j].session = mux.session
    <3>1. \A j \in 1..Len(gin) : gin[j].session = mux.session BY <1>4, <2>1, InvRest DEF Linked
    <3>2. Len(gin) \in Nat BY InvRest DEF UpTo
    <3> QED BY <2>1, <3>1, <3>2, QueueFacts
  <2>3. Linked(mux, gin, gout)' BY <1>4, <2>1, <2>2, InvRest, Plugs DEF Linked, Same
  <2> QED BY <1>1, <1>2, <2>3, GuestStep1
<1> QED BY <1>3, <1>4

\* the guest's streams change, and nothing is queued
LEMMA StreamStep1 ==
  ASSUME Inv1, UNCHANGED <<clientVars, host, mux, dev, gin, faults>>, gout' \in {gout, NoFrame},
         guest' \in Guests, guest'.session = guest.session, guest.session # 0 \/ guest' = guest
  PROVE  Inv1'
<1>1. gout' \in HostFrames /\ Cabled' BY InvRest, Plugs DEF Cabled
<1>2. guest'.session = 0 => guest' = NoSession /\ guest = NoSession BY InvRest
<1>3. guest = NoSession => guest' = NoSession BY Plugs
<1>4. Linked(mux, gin, gout)' BY <1>3, InvRest, Plugs DEF Linked, Same
<1> QED BY <1>1, <1>2, <1>4, InvRest, GuestStep1

LEMMA GuestFields ==
  ASSUME Inv1, NEW p \in Ports
  PROVE  /\ guest.stream[p] \in Streams /\ guest.session \in Nat
         /\ guest.stream[p].state # "none" => guest.session # 0
         /\ \A s \in Streams : /\ [guest EXCEPT !.stream[p] = s] \in Guests
                               /\ [guest EXCEPT !.stream[p] = s].session = guest.session
                               /\ [guest EXCEPT !.stream[p] = s].stream[p] = s
                               /\ \A q \in Ports : q # p =>
                                    [guest EXCEPT !.stream[p] = s].stream[q] = guest.stream[q]
<1>1. guest \in Guests /\ (guest.session = 0 => guest = NoSession) BY InvRest
<1>2. NoSession.stream[p].state = "none" BY DEF NoSession, NoStream
<1> QED BY <1>1, <1>2 DEF Guests

LEMMA StreamFields ==
  ASSUME NEW s \in Streams
  PROVE  /\ s.state \in {"none", "open", "gone"} /\ s.sent \in Nat /\ s.acked \in 0..(SEQ - 1)
         /\ s.window \in Int /\ s.next \in 0..(SEQ - 1) /\ s.buffer \in Seq(UpBytes)
         /\ s.taken \in Seq(UpBytes) /\ s.owes \in BOOLEAN /\ Len(s.buffer) \in Nat
         /\ s.state # "open" => s.sent = 0 /\ s.buffer = <<>> /\ s.taken = <<>>
BY DEF Streams, StreamRecords

\* an open stream with other contents
LEMMA StreamWith ==
  ASSUME NEW s \in Streams, NEW a \in 0..(SEQ - 1), NEW w \in Int, NEW x \in 0..(SEQ - 1),
         NEW b \in Seq(UpBytes), NEW o \in BOOLEAN, NEW tk \in Seq(UpBytes), s.state = "open"
  PROVE  /\ [s EXCEPT !.window = w, !.acked = a, !.next = x, !.buffer = b, !.owes = o] \in Streams
         /\ [s EXCEPT !.taken = tk, !.buffer = b, !.owes = o] \in Streams
<1>1. s \in StreamRecords BY DEF Streams
<1>2. /\ [s EXCEPT !.window = w, !.acked = a, !.next = x, !.buffer = b, !.owes = o] \in StreamRecords
      /\ [s EXCEPT !.window = w, !.acked = a, !.next = x, !.buffer = b, !.owes = o].state = "open"
  BY <1>1 DEF StreamRecords
<1>3. /\ [s EXCEPT !.taken = tk, !.buffer = b, !.owes = o] \in StreamRecords
      /\ [s EXCEPT !.taken = tk, !.buffer = b, !.owes = o].state = "open"
  BY <1>1 DEF StreamRecords
<1> QED BY <1>2, <1>3 DEF Streams

LEMMA NewStreams ==
  /\ NoStream \in Streams /\ [NoStream EXCEPT !.state = "gone"] \in Streams
  /\ \A w \in Int, x \in 0..(SEQ - 1) :
       [NoStream EXCEPT !.state = "open", !.window = w, !.next = x] \in Streams
<1>1. NoStream \in StreamRecords BY SlotFacts DEF NoStream, StreamRecords
<1>2. [NoStream EXCEPT !.state = "gone"] \in StreamRecords BY <1>1 DEF StreamRecords
<1>3. /\ NoStream.sent = 0 /\ NoStream.buffer = <<>> /\ NoStream.taken = <<>>
      /\ [NoStream EXCEPT !.state = "gone"].sent = 0
      /\ [NoStream EXCEPT !.state = "gone"].buffer = <<>>
      /\ [NoStream EXCEPT !.state = "gone"].taken = <<>>
  BY DEF NoStream
<1>4. ASSUME NEW w \in Int, NEW x \in 0..(SEQ - 1)
      PROVE  [NoStream EXCEPT !.state = "open", !.window = w, !.next = x] \in Streams
  <2>1. /\ [NoStream EXCEPT !.state = "open", !.window = w, !.next = x] \in StreamRecords
        /\ [NoStream EXCEPT !.state = "open", !.window = w, !.next = x].state = "open"
    BY <1>1 DEF StreamRecords
  <2> QED BY <2>1 DEF Streams
<1> QED BY <1>1, <1>2, <1>3, <1>4 DEF Streams

LEMMA ReplyTyped ==
  ASSUME Inv1, NEW p \in Ports, guest.session # 0, NEW flags \in {"synack", "rst", "ack"},
         NEW seq \in Int, NEW ack \in 0..(SEQ - 1), NEW data \in Seq(DownBytes),
         flags # "ack" => data = <<>>, flags = "synack" => seq = GUEST_ISN,
         flags = "ack" => seq = GUEST_ISN + 1 + guest.stream[p].sent,
         \A j \in 1..Len(data) :
           data[j] = [session |-> guest.session, port |-> p, i |-> guest.stream[p].sent + j]
  PROVE  /\ Reply(p, flags, seq, ack, data) \in GuestFrames
         /\ Reply(p, flags, seq, ack, data).session = guest.session
<1>1. guest.stream[p] \in Streams /\ guest.session \in Nat \ {0} BY GuestFields
<1> DEFINE b == Len(guest.stream[p].buffer)
           w == Window(GUEST_WINDOW - b)
           x == guest.stream[p].sent
           y == seq % SEQ
<1>2. b \in Nat /\ x \in Nat /\ y \in 0..(SEQ - 1) /\ GUEST_WINDOW \in Nat
  BY <1>1, StreamFields, MinusIs, Consts
<1>3. w \in Int /\ w <= GUEST_WINDOW
  <2>1. GUEST_WINDOW - b \in Int /\ GUEST_WINDOW - b <= GUEST_WINDOW
    <3> HIDE DEF b
    <3> QED BY <1>2
  <2>2. w \in Int /\ w <= GUEST_WINDOW - b BY <2>1, WindowIs
  <2> HIDE DEF b, w
  <2> QED BY <1>2, <2>1, <2>2
<1>4. flags = "synack" => y = GUEST_ISN
  <2>1. GUEST_ISN \in 0..(SEQ - 1) /\ SEQ \in Nat \ {0} BY Consts
  <2>2. GUEST_ISN % SEQ = GUEST_ISN BY <2>1
  <2> QED BY <2>2
<1>5. Reply(p, flags, seq, ack, data) =
        [kind |-> "tcp", session |-> guest.session, local |-> p, remote |-> Service,
         flags |-> flags, seq |-> y, ack |-> ack, data |-> data, sent |-> x, window |-> w]
  BY DEF Reply
<1>6. flags = "ack" => y = (GUEST_ISN + 1 + x) % SEQ OBVIOUS
<1> HIDE DEF w, x, y
<1>7. Reply(p, flags, seq, ack, data) \in GuestTcp
  BY <1>1, <1>2, <1>3, <1>4, <1>5, <1>6 DEF GuestTcp, x
<1> QED BY <1>5, <1>7 DEF GuestFrames

\* the answers without bytes
LEMMA AnswersTyped ==
  ASSUME Inv1, NEW p \in Ports, guest.session # 0, NEW ack \in 0..(SEQ - 1)
  PROVE  /\ Reply(p, "rst", 0, 0, <<>>) \in GuestFrames
         /\ Reply(p, "rst", 0, 0, <<>>).session = guest.session
         /\ Reply(p, "synack", GUEST_ISN, ack, <<>>) \in GuestFrames
         /\ Reply(p, "synack", GUEST_ISN, ack, <<>>).session = guest.session
<1>1. <<>> \in Seq(DownBytes) /\ \A j \in 1..Len(<<>>) : FALSE OBVIOUS
<1>2. GUEST_ISN \in Int /\ 0 \in 0..(SEQ - 1) /\ 0 \in Int BY Consts, SlotFacts
<1> DEFINE e == <<>>
<1>3. e \in Seq(DownBytes) /\ \A j \in 1..Len(e) : FALSE BY <1>1
<1> SUFFICES /\ Reply(p, "rst", 0, 0, e) \in GuestFrames
             /\ Reply(p, "rst", 0, 0, e).session = guest.session
             /\ Reply(p, "synack", GUEST_ISN, ack, e) \in GuestFrames
             /\ Reply(p, "synack", GUEST_ISN, ack, e).session = guest.session
  OBVIOUS
<1>4. e = <<>> OBVIOUS
<1> HIDE DEF e
<1>5. Reply(p, "rst", 0, 0, e) \in GuestFrames /\ Reply(p, "rst", 0, 0, e).session = guest.session
  <2> DEFINE fl == "rst"
  <2>1. /\ fl \in {"synack", "rst", "ack"} /\ (fl # "ack" => e = <<>>) /\ (fl = "synack" => 0 = GUEST_ISN)
        /\ fl = "ack" => 0 = GUEST_ISN + 1 + guest.stream[p].sent
    BY <1>4
  <2>2. \A j \in 1..Len(e) :
          e[j] = [session |-> guest.session, port |-> p, i |-> guest.stream[p].sent + j]
    BY <1>3
  <2> SUFFICES Reply(p, fl, 0, 0, e) \in GuestFrames /\ Reply(p, fl, 0, 0, e).session = guest.session
    OBVIOUS
  <2> HIDE DEF fl
  <2> QED BY <1>2, <1>3, <2>1, <2>2, ReplyTyped
<1>6. /\ Reply(p, "synack", GUEST_ISN, ack, e) \in GuestFrames
      /\ Reply(p, "synack", GUEST_ISN, ack, e).session = guest.session
  <2> DEFINE fl == "synack"
  <2>1. /\ fl \in {"synack", "rst", "ack"} /\ (fl # "ack" => e = <<>>)
        /\ fl = "ack" => GUEST_ISN = GUEST_ISN + 1 + guest.stream[p].sent
    BY <1>4
  <2>2. \A j \in 1..Len(e) :
          e[j] = [session |-> guest.session, port |-> p, i |-> guest.stream[p].sent + j]
    BY <1>3
  <2> SUFFICES /\ Reply(p, fl, GUEST_ISN, ack, e) \in GuestFrames
               /\ Reply(p, fl, GUEST_ISN, ack, e).session = guest.session
    OBVIOUS
  <2> HIDE DEF fl
  <2> QED BY <1>2, <1>3, <2>1, <2>2, ReplyTyped
<1> QED BY <1>5, <1>6

LEMMA GuestDriverStep1 == ASSUME Inv1, GuestDriver PROVE Inv1'
<1>1. UNCHANGED <<clientVars, host, mux, gout, gin, faults>> /\ dev \in Devices
  BY InvRest DEF GuestDriver
<1>2. CASE /\ guest' = guest
           /\ \/ dev' = [dev EXCEPT !.armed = TRUE]
              \/ dev' = [dev EXCEPT !.reset = FALSE]
              \/ dev' = [dev EXCEPT !.enum = FALSE, !.enumerated = TRUE]
  <2>1. /\ dev' \in Devices /\ dev'.gen = dev.gen /\ dev'.unplugged = dev.unplugged
        /\ dev'.address = dev.address
    BY <1>1, <1>2 DEF Devices
  <2>2. Cabled' /\ Linked(mux, gin, gout)' BY <1>1, <1>2, <2>1, InvRest DEF Cabled, Linked, Same
  <2> QED BY <1>1, <1>2, <2>1, <2>2, InvRest, GuestStep1
<1>3. CASE /\ dev.unplugged /\ host.stage # "OFF"
           /\ dev' = [dev EXCEPT !.unplugged = FALSE, !.address = FALSE] /\ guest' = NoSession
  <2>1. dev' \in Devices /\ dev'.gen = dev.gen /\ ~dev'.unplugged BY <1>1, <1>3 DEF Devices
  <2>2. ~host.attached BY <1>3, InvRest DEF Cabled
  <2>3. mux = NoMux /\ gin = <<>> /\ gout = NoFrame BY <1>3, <2>2, InvRest DEF Linked
  <2>4. Cabled' /\ Linked(mux, gin, gout)' BY <1>1, <1>3, <2>1, <2>2, <2>3, Plugs DEF Cabled, Linked
  <2> QED BY <1>1, <1>3, <2>1, <2>4, InvRest, Plugs, GuestStep1
<1> QED BY <1>2, <1>3 DEF GuestDriver

LEMMA GuestCoreResetStep1 == ASSUME Inv1, GuestCoreReset PROVE Inv1'
<1>1. /\ UNCHANGED <<clientVars, host, mux>> /\ dev' = FreshDevice(dev.gen + 1) /\ host.stage # "OFF"
      /\ guest' = NoSession /\ gout' = NoFrame /\ gin' = <<>> /\ faults' \in 0..MaxFaults
  BY FaultTyped DEF GuestCoreReset
<1>2. dev.gen \in Nat /\ host.gen \in Nat BY InvRest DEF Devices, Hosts
<1>3. dev' \in Devices /\ dev'.gen = dev.gen + 1 /\ ~dev'.unplugged BY <1>1, <1>2, Plugs
<1>4. Cabled' BY <1>1, <1>2, <1>3, InvRest DEF Cabled
<1>5. host.attached => host'.gen # dev'.gen BY <1>1, <1>2, <1>3, InvRest DEF Cabled
<1>6. Linked(mux, gin, gout)' BY <1>1, <1>5, InvRest, Plugs DEF Linked, Same
<1> QED BY <1>1, <1>3, <1>4, <1>6, Plugs, GuestStep1

\* what becomes of the stream p, and what the guest answers, when it takes the frame h
StreamAfter(s, h) ==
  [s EXCEPT !.window = h.window, !.acked = Minus(h.ack, GUEST_ISN + 1),
            !.next = (@ + Len(h.data)) % SEQ, !.buffer = @ \o h.data,
            !.owes = @ \/ h.data # <<>>]

LEMMA StreamAfterTyped ==
  ASSUME NEW s \in Streams, NEW h \in HostTcp, s.state = "open"
  PROVE  /\ StreamAfter(s, h) \in Streams /\ StreamAfter(s, h).state = "open"
         /\ StreamAfter(s, h).window = h.window /\ StreamAfter(s, h).sent = s.sent
         /\ StreamAfter(s, h).acked = Minus(h.ack, GUEST_ISN + 1)
         /\ StreamAfter(s, h).next = (s.next + Len(h.data)) % SEQ
         /\ StreamAfter(s, h).buffer = s.buffer \o h.data
         /\ StreamAfter(s, h).taken = s.taken
<1> DEFINE a == Minus(h.ack, GUEST_ISN + 1)
           x == (s.next + Len(h.data)) % SEQ
           b == s.buffer \o h.data
           o == s.owes \/ h.data # <<>>
<1>1. a \in 0..(SEQ - 1)
  <2>1. h.ack \in Int /\ GUEST_ISN + 1 \in Int BY HostTcpFields, Consts
  <2> QED BY <2>1, MinusIs
<1>2. x \in 0..(SEQ - 1)
  <2>1. s.next + Len(h.data) \in Int BY HostTcpFields, StreamFields
  <2> QED BY <2>1, MinusIs
<1>3. b \in Seq(UpBytes) /\ o \in BOOLEAN /\ h.window \in Int BY HostTcpFields, StreamFields
<1>4. StreamAfter(s, h) = [s EXCEPT !.window = h.window, !.acked = a, !.next = x, !.buffer = b, !.owes = o]
  BY DEF StreamAfter, Streams, StreamRecords
<1> HIDE DEF a, x, b, o
<1>5. [s EXCEPT !.window = h.window, !.acked = a, !.next = x, !.buffer = b, !.owes = o] \in Streams
  BY <1>1, <1>2, <1>3, StreamWith
<1>6. LET z == [s EXCEPT !.window = h.window, !.acked = a, !.next = x, !.buffer = b, !.owes = o]
      IN  /\ z.state = "open" /\ z.window = h.window /\ z.sent = s.sent /\ z.acked = a
          /\ z.next = x /\ z.buffer = b /\ z.taken = s.taken
  BY DEF Streams, StreamRecords
<1> QED BY <1>4, <1>5, <1>6 DEF a, x, b, o

\* what the guest does with a stream frame h of the host
LEMMA TakeCases ==
  ASSUME Inv1, gout.kind = "tcp", GuestTake
  PROVE  LET h == gout
             p == h.local
             s == guest.stream[p]
         IN
         \/ /\ h.flags = "syn"
            /\ guest' = [guest EXCEPT !.stream[p] =
                   [NoStream EXCEPT !.state = "open", !.window = h.window, !.next = (h.seq + 1) % SEQ]]
            /\ gin' = Append(gin, Reply(p, "synack", GUEST_ISN, (h.seq + 1) % SEQ, <<>>))
         \/ /\ h.flags = "syn" \/ (h.flags = "ack" /\ s.state # "open")
            /\ gin' = Append(gin, Reply(p, "rst", 0, 0, <<>>)) /\ guest' = guest
         \/ /\ h.flags = "ack" /\ s.state = "open"
            /\ guest' = [guest EXCEPT !.stream[p] = StreamAfter(s, h)] /\ gin' = gin
         \/ /\ h.flags = "rst"
            /\ guest' = [guest EXCEPT !.stream[p] = [NoStream EXCEPT !.state = "gone"]]
            /\ gin' = gin
BY DEF GuestTake, StreamAfter

LEMMA TakeFacts ==
  ASSUME Inv1, GuestTake
  PROVE  /\ UNCHANGED <<clientVars, host, mux, dev, faults>> /\ gout # NoFrame /\ gout' = NoFrame
         /\ Len(gin) < MaxQueue /\ (host.stage = "OFF" \/ mux # NoMux)
         /\ gout.kind \in {"version", "setup", "tcp"} /\ gout.session \in Nat \ {0}
         /\ gout.kind = "tcp" => gout \in HostTcp /\ guest.session = gout.session
<1>1. /\ UNCHANGED <<clientVars, host, mux, dev, faults>> /\ gout # NoFrame /\ gout' = NoFrame
      /\ Len(gin) < MaxQueue
  BY DEF GuestTake
<1>2. gout \in HostFrames /\ Linked(mux, gin, gout) BY InvRest
<1>3. host.stage = "OFF" \/ mux # NoMux BY <1>1, <1>2 DEF Linked
<1>4. gout.kind = "tcp" => guest.session = gout.session BY <1>2 DEF Linked
<1> QED BY <1>1, <1>2, <1>3, <1>4, HostFrameKinds

LEMMA GuestTakeStep1 == ASSUME Inv1, GuestTake PROVE Inv1'
<1>1. /\ UNCHANGED <<clientVars, host, mux, dev, faults>> /\ gout # NoFrame /\ gout' = NoFrame
      /\ Len(gin) < MaxQueue /\ (host.stage = "OFF" \/ mux # NoMux)
      /\ gout.kind \in {"version", "setup", "tcp"} /\ gout.session \in Nat \ {0}
      /\ gout.kind = "tcp" => gout \in HostTcp /\ guest.session = gout.session
  BY TakeFacts
<1>2. CASE gout.kind = "version"
  <2>1. PICK v \in Versions :
          /\ gin' = Append(gin, [kind |-> "version", session |-> gout.session, version |-> v])
          /\ guest' = [NoSession EXCEPT !.session = gout.session]
    BY <1>2 DEF GuestTake
  <2> DEFINE f == [kind |-> "version", session |-> gout.session, version |-> v]
  <2>2. f \in GuestFrames /\ f.session = gout.session BY <1>1 DEF GuestFrames
  <2>3. guest' \in Guests /\ guest'.session = gout.session BY <1>1, <2>1, Plugs DEF Guests
  <2> HIDE DEF f
  <2>4. gin' = Append(gin, f) BY <2>1 DEF f
  <2> QED BY <1>1, <2>2, <2>3, <2>4, InvRest, SaysStep1
<1>3. CASE gout.kind = "setup"
  <2>1. UNCHANGED <<guest, gin>> BY <1>3 DEF GuestTake
  <2> QED BY <1>1, <2>1, InvRest, StreamStep1
<1>4. CASE gout.kind = "tcp"
  <2> DEFINE p == gout.local
             s == guest.stream[p]
  <2>1. /\ gout \in HostTcp /\ p \in Ports /\ s \in Streams /\ guest.session # 0
        /\ gout.seq \in 0..(SEQ - 1) /\ gout.window \in Int
    BY <1>1, <1>4, HostTcpFields, GuestFields
  <2>2. (gout.seq + 1) % SEQ \in 0..(SEQ - 1) /\ 0 \in 0..(SEQ - 1)
    <3>1. gout.seq + 1 \in Int BY <2>1
    <3> QED BY <3>1, MinusIs, SlotFacts
  <2>3. <<>> \in Seq(DownBytes) /\ Len(<<>>) = 0 /\ GUEST_ISN \in Int /\ 0 \in Int BY Consts
  <2>4. CASE /\ guest' = [guest EXCEPT !.stream[p] =
                   [NoStream EXCEPT !.state = "open", !.window = gout.window,
                                    !.next = (gout.seq + 1) % SEQ]]
             /\ gin' = Append(gin, Reply(p, "synack", GUEST_ISN, (gout.seq + 1) % SEQ, <<>>))
    <3> DEFINE t == [NoStream EXCEPT !.state = "open", !.window = gout.window,
                                     !.next = (gout.seq + 1) % SEQ]
               f == Reply(p, "synack", GUEST_ISN, (gout.seq + 1) % SEQ, <<>>)
    <3>1. t \in Streams BY <2>1, <2>2, NewStreams
    <3>2. f \in GuestFrames /\ f.session = guest.session BY <2>1, <2>2, AnswersTyped
    <3> HIDE DEF t, f
    <3>3. guest' \in Guests /\ guest'.session = guest.session BY <2>1, <2>4, <3>1, GuestFields DEF t
    <3>4. gin' = Append(gin, f) BY <2>4 DEF f
    <3> QED BY <1>1, <2>1, <3>2, <3>3, <3>4, InvRest, SaysStep1
  <2>5. CASE gin' = Append(gin, Reply(p, "rst", 0, 0, <<>>)) /\ guest' = guest
    <3> DEFINE f == Reply(p, "rst", 0, 0, <<>>)
    <3>2. f \in GuestFrames /\ f.session = guest.session BY <2>1, <2>2, AnswersTyped
    <3> HIDE DEF f
    <3>4. gin' = Append(gin, f) BY <2>5 DEF f
    <3> QED BY <1>1, <2>1, <2>5, <3>2, <3>4, InvRest, SaysStep1
  <2>6. CASE /\ s.state = "open"
             /\ guest' = [guest EXCEPT !.stream[p] = StreamAfter(s, gout)] /\ gin' = gin
    <3>1. StreamAfter(s, gout) \in Streams BY <2>1, <2>6, StreamAfterTyped
    <3>2. guest' \in Guests /\ guest'.session = guest.session BY <2>1, <2>6, <3>1, GuestFields
    <3> QED BY <1>1, <2>1, <2>6, <3>2, StreamStep1
  <2>7. CASE /\ guest' = [guest EXCEPT !.stream[p] = [NoStream EXCEPT !.state = "gone"]]
             /\ gin' = gin
    <3>2. guest' \in Guests /\ guest'.session = guest.session BY <2>1, <2>7, NewStreams, GuestFields
    <3> QED BY <1>1, <2>1, <2>7, <3>2, StreamStep1
  <2> QED BY <1>4, <2>4, <2>5, <2>6, <2>7, TakeCases, Zenon
<1> QED BY <1>1, <1>2, <1>3, <1>4

\* a stream that is open belongs to a mux, unless the machine is off
LEMMA OpenMux ==
  ASSUME Inv1, guest.session # 0, ~dev.unplugged, host.stage # "OFF"
  PROVE  mux # NoMux
BY InvRest, Plugs DEF Linked

\* the service reads: the stream of p becomes t
LEMMA GuestReadIs ==
  ASSUME Inv1, NEW p \in Ports, GuestRead(p), NEW s, s = guest.stream[p]
  PROVE  \E t \in Streams :
           /\ s \in Streams /\ s.state = "open" /\ guest.session # 0
           /\ guest' = [guest EXCEPT !.stream[p] = t]
           /\ UNCHANGED <<clientVars, host, mux, dev, gout, gin, faults>>
           /\ t.state = s.state /\ t.sent = s.sent /\ t.acked = s.acked /\ t.window = s.window
           /\ t.next = s.next /\ Len(t.buffer) <= Len(s.buffer)
<1> DEFINE b == s.taken \o s.buffer
           t == [s EXCEPT !.taken = b, !.buffer = <<>>, !.owes = TRUE]
<1>0. s \in Streams BY GuestFields
<1>1. /\ s.state = "open" /\ guest' = [guest EXCEPT !.stream[p] = t]
      /\ UNCHANGED <<clientVars, host, mux, dev, gout, gin, faults>>
  BY <1>0 DEF GuestRead, Streams, StreamRecords
<1>2. guest.session # 0 BY <1>1, GuestFields
<1>3. /\ b \in Seq(UpBytes) /\ <<>> \in Seq(UpBytes) /\ s.acked \in 0..(SEQ - 1)
      /\ s.window \in Int /\ s.next \in 0..(SEQ - 1)
      /\ Len(<<>>) = 0 /\ Len(s.buffer) \in Nat
  BY <1>0, StreamFields
<1> HIDE DEF b
<1>4. t \in Streams BY <1>0, <1>1, <1>3, StreamWith
<1>5. /\ t.state = s.state /\ t.sent = s.sent /\ t.acked = s.acked /\ t.window = s.window
      /\ t.next = s.next /\ t.buffer = <<>>
  BY <1>0 DEF Streams, StreamRecords
<1> HIDE DEF t
<1>6. Len(t.buffer) <= Len(s.buffer) BY <1>3, <1>5
<1> QED BY <1>0, <1>1, <1>2, <1>4, <1>5, <1>6

LEMMA GuestReadStep1 == ASSUME Inv1, NEW p \in Ports, GuestRead(p) PROVE Inv1'
<1>1. PICK t \in Streams : /\ guest.session # 0 /\ guest' = [guest EXCEPT !.stream[p] = t]
                           /\ UNCHANGED <<clientVars, host, mux, dev, gout, gin, faults>>
  BY GuestReadIs
<1>2. guest' \in Guests /\ guest'.session = guest.session BY <1>1, GuestFields
<1> QED BY <1>1, <1>2, StreamStep1

LEMMA GuestHangUpStep1 == ASSUME Inv1, NEW p \in Ports, GuestHangUp(p) PROVE Inv1'
<1> DEFINE f == Reply(p, "rst", 0, 0, <<>>)
           t == [NoStream EXCEPT !.state = "gone"]
<1>1. /\ guest.stream[p].state = "open" /\ Len(gin) < MaxQueue /\ ~dev.unplugged
      /\ host.stage # "OFF" /\ gin' = Append(gin, f)
      /\ guest' = [guest EXCEPT !.stream[p] = t]
      /\ UNCHANGED <<clientVars, host, mux, dev, gout, faults>>
  BY DEF GuestHangUp
<1>2. guest.session # 0 BY <1>1, GuestFields
<1>3. mux # NoMux BY <1>1, <1>2, OpenMux
<1>4. f \in GuestFrames /\ f.session = guest.session
  <2>1. 0 \in 0..(SEQ - 1) BY SlotFacts
  <2> QED BY <1>2, <2>1, AnswersTyped
<1>5. t \in Streams BY NewStreams
<1> HIDE DEF f, t
<1>6. guest' \in Guests /\ guest'.session = guest.session BY <1>1, <1>5, GuestFields
<1> QED BY <1>1, <1>2, <1>3, <1>4, <1>6, InvRest, SaysStep1

LEMMA GuestControlStep1 == ASSUME Inv1, NEW notice \in BOOLEAN, GuestControl(notice) PROVE Inv1'
<1> DEFINE f == [kind |-> "control", session |-> guest.session, notice |-> notice]
<1>1. /\ guest.session # 0 /\ Len(gin) < MaxQueue /\ ~dev.unplugged /\ host.stage # "OFF"
      /\ gin' = Append(gin, f) /\ faults' \in 0..MaxFaults
      /\ UNCHANGED <<clientVars, host, mux, dev, guest, gout>>
  BY FaultTyped DEF GuestControl
<1>2. mux # NoMux BY <1>1, OpenMux
<1>3. f \in GuestFrames /\ f.session = guest.session BY <1>1, InvRest DEF GuestFrames, Guests
<1> HIDE DEF f
<1> QED BY <1>1, <1>2, <1>3, InvRest, SaysStep1

\* the bytes a service sends in one frame
SendCount(p) ==
  LET s == guest.stream[p]
      room == s.window - (s.sent - s.acked)
  IN  LeastOf({Down[p] - s.sent, IF room > 0 THEN room ELSE 0})

SentBytes(p, n) ==
  [i \in 1..n |-> [session |-> guest.session, port |-> p, i |-> guest.stream[p].sent + i]]

LEMMA LeastOfTwo ==
  ASSUME NEW a \in Int, NEW b \in Int
  PROVE  LeastOf({a, b}) \in {a, b} /\ LeastOf({a, b}) <= a /\ LeastOf({a, b}) <= b
<1>1. \E x \in {a, b} : \A y \in {a, b} : x <= y BY SMT
<1>2. LeastOf({a, b}) \in {a, b} /\ \A y \in {a, b} : LeastOf({a, b}) <= y BY <1>1 DEF LeastOf
<1> QED BY <1>2

LEMMA SendFacts ==
  ASSUME Inv1, NEW p \in Ports
  PROVE  /\ SendCount(p) \in Int /\ guest.stream[p].sent + SendCount(p) \in Nat
         /\ SendCount(p) > 0 =>
              SendCount(p) <= guest.stream[p].window - (guest.stream[p].sent - guest.stream[p].acked)
         /\ SentBytes(p, SendCount(p)) \in Seq(DownBytes)
         /\ Len(SentBytes(p, SendCount(p))) = IF SendCount(p) > 0 THEN SendCount(p) ELSE 0
         /\ \A j \in 1..Len(SentBytes(p, SendCount(p))) :
              SentBytes(p, SendCount(p))[j]
                = [session |-> guest.session, port |-> p, i |-> guest.stream[p].sent + j]
<1> DEFINE s == guest.stream[p]
           d == Down[p]
           room == s.window - (s.sent - s.acked)
           a == d - s.sent
           b == IF room > 0 THEN room ELSE 0
           n == SendCount(p)
<1>1. s.sent \in Nat /\ s.acked \in Int /\ s.window \in Int /\ d \in Nat
  <2>1. s \in Streams /\ p \in 1..(PORTS - 1) /\ Down \in [1..(PORTS - 1) -> Nat]
    BY GuestFields, Consts DEF Ports
  <2>2. d \in Nat BY <2>1
  <2>3. s.sent \in Nat /\ s.acked \in 0..(SEQ - 1) /\ s.window \in Int BY <2>1, StreamFields
  <2> QED BY <2>2, <2>3
<1>2. n = LeastOf({a, b}) BY DEF SendCount
<1>3. room \in Int /\ a \in Int /\ b \in Int /\ b >= 0 /\ (b > 0 => b = room) /\ s.sent + a = d
  BY <1>1
<1> HIDE DEF room, a, b, n, d
<1>4. n \in {a, b} /\ n <= a /\ n <= b BY <1>2, <1>3, LeastOfTwo
<1>5. n \in Int /\ s.sent + n \in Nat /\ (n > 0 => n <= room) BY <1>1, <1>3, <1>4
<1> DEFINE q == SentBytes(p, n)
           m == IF n > 0 THEN n ELSE 0
<1>6. m \in Nat /\ 1..n = 1..m BY <1>5
<1>7. \A j \in 1..m : [session |-> guest.session, port |-> p, i |-> s.sent + j] \in DownBytes
  BY <1>1, <1>6, GuestFields DEF DownBytes
<1>8. q = [i \in 1..m |-> [session |-> guest.session, port |-> p, i |-> s.sent + i]]
  BY <1>6 DEF SentBytes
<1>9. q \in Seq(DownBytes) /\ Len(q) = m
  <2>1. q \in [1..m -> DownBytes] BY <1>7, <1>8
  <2> HIDE DEF q, m
  <2> QED BY <1>6, <2>1
<1>10. \A j \in 1..Len(q) : q[j] = [session |-> guest.session, port |-> p, i |-> s.sent + j]
  <2>1. Len(q) = m BY <1>9
  <2> HIDE DEF m
  <2> QED BY <1>8, <2>1
<1> QED BY <1>5, <1>9, <1>10 DEF n, room

LEMMA WindowFits == GUEST_WINDOW < SEQ /\ GUEST_WINDOW \in Nat /\ SEQ \in Nat \ {0} /\ RX_SIZE \in Nat
BY Consts, ServiceAssumption

LEMMA ReplyIs ==
  ASSUME Inv1, NEW p \in Ports, NEW flags, NEW seq, NEW ack, NEW data
  PROVE  LET g == Reply(p, flags, seq, ack, data) IN
         /\ g.kind = "tcp" /\ g.local = p /\ g.flags = flags /\ g.ack = ack /\ g.data = data
         /\ g.sent = guest.stream[p].sent
         /\ Len(guest.stream[p].buffer) + g.window <= GUEST_WINDOW
<1> DEFINE x == Len(guest.stream[p].buffer)
           w == Window(GUEST_WINDOW - x)
<1>1. x \in Nat /\ GUEST_WINDOW - x \in Int /\ GUEST_WINDOW \in Nat
  <2>1. guest.stream[p] \in Streams BY GuestFields
  <2>2. x \in Nat /\ GUEST_WINDOW \in Nat BY <2>1, StreamFields, WindowFits
  <2> HIDE DEF x
  <2> QED BY <2>2
<1>2. w \in Int /\ w <= GUEST_WINDOW - x BY <1>1, WindowIs
<1>3. Reply(p, flags, seq, ack, data)
        = [kind |-> "tcp", session |-> guest.session, local |-> p, remote |-> Service,
           flags |-> flags, seq |-> seq % SEQ, ack |-> ack, data |-> data,
           sent |-> guest.stream[p].sent, window |-> w]
  BY DEF Reply
<1> HIDE DEF w, x
<1>4. x + w <= GUEST_WINDOW BY <1>1, <1>2
<1> QED BY <1>3, <1>4 DEF x

\* the service sends n bytes in the frame f: the stream of p becomes t
LEMMA GuestSendIs ==
  ASSUME Inv1, NEW p \in Ports, GuestSend(p), NEW s, s = guest.stream[p], NEW n, n = SendCount(p)
  PROVE  \E f \in GuestFrames, t \in Streams :
           /\ s \in Streams /\ s.state = "open" /\ guest.session # 0 /\ mux # NoMux
           /\ Len(gin) < MaxQueue /\ gin' = Append(gin, f)
           /\ guest' = [guest EXCEPT !.stream[p] = t]
           /\ UNCHANGED <<clientVars, host, mux, dev, gout, faults>>
           /\ f.kind = "tcp" /\ f.local = p /\ f.flags = "ack" /\ f.sent = s.sent
           /\ f.session = guest.session /\ f.ack = s.next /\ f.data = SentBytes(p, n)
           /\ Len(s.buffer) + f.window <= GUEST_WINDOW
           /\ t.state = "open" /\ t.sent = s.sent + n /\ t.acked = s.acked
           /\ t.window = s.window /\ t.next = s.next /\ t.buffer = s.buffer
<1> DEFINE q == SentBytes(p, n)
           x == s.sent + n
           seq == GUEST_ISN + 1 + s.sent
           fl == "ack"
           f == Reply(p, fl, seq, s.next, q)
           o == FALSE
           t == [s EXCEPT !.sent = x, !.owes = o]
<1>0. s \in Streams /\ guest \in Guests BY GuestFields, InvRest
<1>1. /\ s.state = "open" /\ Len(gin) < MaxQueue /\ ~dev.unplugged /\ host.stage # "OFF"
      /\ gin' = Append(gin, f)
      /\ guest' = [guest EXCEPT !.stream[p].sent = @ + n, !.stream[p].owes = FALSE]
      /\ UNCHANGED <<clientVars, host, mux, dev, gout, faults>>
  BY DEF GuestSend, SendCount, SentBytes
<1>2. guest.session # 0 BY <1>1, GuestFields
<1>3. mux # NoMux BY <1>1, <1>2, OpenMux
<1>4. /\ n \in Int /\ x \in Nat /\ q \in Seq(DownBytes)
      /\ \A j \in 1..Len(q) :
           q[j] = [session |-> guest.session, port |-> p, i |-> guest.stream[p].sent + j]
  BY SendFacts
<1>5. /\ seq \in Int /\ s.next \in 0..(SEQ - 1) /\ fl = "ack" /\ o \in BOOLEAN
      /\ seq = GUEST_ISN + 1 + guest.stream[p].sent
  BY <1>0, StreamFields, Consts
<1>6. guest' = [guest EXCEPT !.stream[p] = t] BY <1>0, <1>1 DEF Guests, Streams, StreamRecords
<1> HIDE DEF q, seq, fl, o, x
<1>7. f \in GuestFrames /\ f.session = guest.session BY <1>2, <1>4, <1>5, ReplyTyped
<1>8. /\ f.kind = "tcp" /\ f.local = p /\ f.flags = fl /\ f.sent = s.sent /\ f.ack = s.next
      /\ f.data = q /\ Len(s.buffer) + f.window <= GUEST_WINDOW
  BY ReplyIs
<1> HIDE DEF f
<1>9. /\ t \in StreamRecords /\ t.state = "open" /\ t.sent = x /\ t.acked = s.acked
      /\ t.window = s.window /\ t.next = s.next /\ t.buffer = s.buffer
  <2>1. s \in StreamRecords /\ s.state = "open" /\ x \in Nat /\ o \in BOOLEAN
    BY <1>0, <1>1, <1>4, <1>5 DEF Streams
  <2> HIDE DEF x
  <2> QED BY <2>1, Zenon DEF StreamRecords
<1> HIDE DEF t
<1>10. t \in Streams BY <1>9 DEF Streams
<1> USE <1>7, <1>10
<1> WITNESS f \in GuestFrames, t \in Streams
<1> QED BY <1>0, <1>1, <1>2, <1>3, <1>5, <1>6, <1>7, <1>8, <1>9 DEF q, x

LEMMA GuestSendStep1 == ASSUME Inv1, NEW p \in Ports, GuestSend(p) PROVE Inv1'
<1>1. PICK f \in GuestFrames, t \in Streams :
        /\ guest.session # 0 /\ mux # NoMux /\ Len(gin) < MaxQueue /\ gin' = Append(gin, f)
        /\ guest' = [guest EXCEPT !.stream[p] = t] /\ f.session = guest.session
        /\ UNCHANGED <<clientVars, host, mux, dev, gout, faults>>
  BY GuestSendIs
<1>2. guest' \in Guests /\ guest'.session = guest.session BY <1>1, GuestFields
<1> QED BY <1>1, <1>2, InvRest, SaysStep1

---------------------------------------
(* The invariant holds, and what it says. *)

LEMMA StutterStep1 == ASSUME Inv1, UNCHANGED vars PROVE Inv1'
BY DEF vars, Inv1, Typed, TypedRest, Cabled, Linked, Same

LEMMA InitInv1 == ASSUME Init PROVE Inv1
<1>1. /\ conn = [k \in Opens |-> FreshConn] /\ list = <<>> /\ accepting = TRUE
      /\ sock = [k \in Opens |-> [up |-> <<>>, down |-> <<>>]]
      /\ wrote = [k \in Opens |-> 0] /\ got = [k \in Opens |-> <<>>]
      /\ host = FreshHost(0) /\ mux = NoMux /\ dev = FreshDevice(0) /\ guest = NoSession
      /\ gout = NoFrame /\ gin = <<>> /\ faults = 0
  BY DEF Init
<1>2. FreshConn \in Conns /\ ~FreshConn.canceled BY DEF FreshConn, Conns, Whys
<1>3. [up |-> <<>>, down |-> <<>>] \in Pipes BY Consts DEF Pipes, UpTo
<1>4. Typed(mux, conn, list, sock, gin, gout)
  <2>1. conn \in [Opens -> Conns] /\ sock \in [Opens -> Pipes] BY <1>1, <1>2, <1>3
  <2>2. list \in Seq(Opens) BY <1>1
  <2> QED BY <1>1, <2>1, <2>2, Plugs DEF Typed
<1>5. TypedRest
  <2>1. wrote \in [Opens -> Nat] /\ got \in [Opens -> Seq(DownBytes)]
    <3>1. wrote \in [Opens -> Nat] BY <1>1
    <3> DEFINE e == <<>>
    <3>2. e \in Seq(DownBytes) /\ got = [k \in Opens |-> e] BY <1>1
    <3> HIDE DEF e
    <3> QED BY <3>1, <3>2
  <2>2. accepting \in BOOLEAN /\ faults \in 0..MaxFaults BY <1>1, Consts
  <2>3. host \in Hosts /\ host.control = "IDLE" /\ dev \in Devices /\ guest \in Guests
    BY <1>1, Plugs
  <2> QED BY <1>1, <2>1, <2>2, <2>3 DEF TypedRest
<1>6. Owned(mux, conn, list)
  <2>1. Len(list) = 0 /\ ToSet(list) = {} /\ IsInjective(list) BY <1>1 DEF ToSet, IsInjective
  <2> QED BY <1>1, <1>2, <2>1, Consts DEF Owned
<1>7. Numbered(mux) BY <1>1 DEF Numbered
<1>8. Cabled /\ Linked(mux, gin, gout) BY <1>1, Plugs DEF Cabled, Linked
<1> QED BY <1>4, <1>5, <1>6, <1>7, <1>8 DEF Inv1

LEMMA NextStep1 == ASSUME Inv1, [Next]_vars PROVE Inv1'
<1>1. ASSUME NEW k \in Opens, \/ Open(k) \/ Wake(k) \/ GiveUp(k)
                              \/ ClientWrite(k) \/ ClientRead(k) \/ ClientEof(k) \/ ClientClose(k)
      PROVE  Inv1'
  BY <1>1, OpenStep1, WakeStep1, GiveUpStep1, ClientWriteStep1, ClientReadStep1, ClientEofStep1,
     ClientCloseStep1
<1>2. CASE hasServiceActivity BY <1>2, ActivityStep1
<1>3. CASE EngineTurn
  BY <1>3, ReattachStep1, StaleHostStep1, PollIdleStep1, PollControlStep1, ServingStep1 DEF EngineTurn
<1>4. CASE LinkFails \/ Reboot \/ Stop \/ Start
  BY <1>4, LinkFailsStep1, RebootStep1, StopStep1, StartStep1
<1>5. CASE GuestDriver \/ GuestCoreReset \/ GuestTake
  BY <1>5, GuestDriverStep1, GuestCoreResetStep1, GuestTakeStep1
<1>6. ASSUME NEW p \in Ports, GuestSend(p) \/ GuestRead(p) \/ GuestHangUp(p)
      PROVE  Inv1'
  BY <1>6, GuestSendStep1, GuestReadStep1, GuestHangUpStep1
<1>7. ASSUME NEW notice \in BOOLEAN, GuestControl(notice)
      PROVE  Inv1'
  BY <1>7, GuestControlStep1
<1> QED BY <1>1, <1>2, <1>3, <1>4, <1>5, <1>6, <1>7, StutterStep1 DEF Next

LEMMA Invariant1 == Spec => []Inv1
<1>1. Init => Inv1 BY InitInv1
<1>2. Inv1 /\ [Next]_vars => Inv1' BY NextStep1
<1> QED BY <1>1, <1>2, PTL DEF Spec

LEMMA Sound1 == ASSUME Inv1 PROVE ChannelsSound
<1>1. /\ conn \in [Opens -> Conns] /\ sock \in [Opens -> Pipes] /\ mux \in Muxes \cup {NoMux}
      /\ Owned(mux, conn, list) /\ ToSet(list) \subseteq Opens
  BY InvParts
<1>2. \A k \in Opens :
         /\ conn[k].thread \in {"new", "waiting", "using", "failed", "closed"}
         /\ conn[k].chan \in Slots \cup {-1}
         /\ Len(sock[k].up) <= SOCKET /\ Len(sock[k].down) <= SOCKET
  BY <1>1, ConnFields, PipeFields
<1>3. mux # NoMux => \A i \in Slots : mux.channel[i] \in Channels BY <1>1, MuxFields
<1>4. mux # NoMux =>
        /\ mux.stage \in {"SEND_VERSION", "WAIT_VERSION", "SEND_SETUP", "WAIT_SETUP", "ACTIVE"}
        /\ \A i \in Slots : /\ Len(mux.channel[i].receive) <= RX_SIZE
                            /\ Len(mux.channel[i].send) <= TX_SIZE
                            /\ mux.channel[i].local \in 0..(PORTS - 1)
  BY <1>1, <1>3, MuxFields, ChannelFields
<1>5. Len(gin) <= MaxQueue /\ faults \in 0..MaxFaults BY InvRest DEF UpTo
<1>6. TypeOK BY <1>1, <1>2, <1>4, <1>5 DEF TypeOK, Owned
<1>7. ChannelsOwned BY <1>1 DEF ChannelsOwned, Owned, Live
<1> QED BY <1>6, <1>7 DEF ChannelsSound

LEMMA Agree1 == ASSUME Inv1 PROVE SessionsAgree
<1>1. gout \in HostFrames /\ Linked(mux, gin, gout) /\ gin \in Seq(GuestFrames) BY InvRest DEF UpTo
<1>2. gout # NoFrame => /\ dev.address
                        /\ gout.kind # "version" => gout.session = guest.session
  BY <1>1, HostFrameKinds DEF Linked
<1>3. mux # NoMux => \A i \in DOMAIN gin : gin[i].session = mux.session
  <2>1. DOMAIN gin = 1..Len(gin) BY <1>1
  <2>2. gin = <<>> => DOMAIN gin = {} OBVIOUS
  <2> QED BY <1>1, <2>1, <2>2 DEF Linked
<1> QED BY <1>2, <1>3 DEF SessionsAgree

\* A channel of the mux that is in use belongs to exactly one connection of the
\* transport's list and no two connections share one, whoever gave up, was woken or
\* was closed when: for every number of clients, channels, ports and link failures.
\* -pollWithMux: (VMUSBTransport.m) and usb_mux_connect / usb_mux_close agree about
\* what is free, and every buffer stays within its size.
THEOREM ChannelsAreSound == Spec => []ChannelsSound
<1>1. Inv1 => ChannelsSound BY Sound1
<1> QED BY <1>1, Invariant1, PTL

\* The mux that talks to the guest is the one the guest has answered since its
\* controller was last reset: usb_host_poll's generation and address checks keep
\* every frame of an older session away from the mux, and every frame of an older
\* mux away from the guest, through resets, pulled cables, reboots and restarts.
THEOREM SessionsDoAgree == Spec => []SessionsAgree
<1>1. Inv1 => SessionsAgree BY Agree1
<1> QED BY <1>1, Invariant1, PTL

---------------------------------------
(* The second part of the invariant: each stream, from the channel c of the *)
(* mux to the guest's stream s and back.  tr is the frame the mux has ready, *)
(* go the one handed to the guest, gi the guest's frames, p the local port. *)

For(f, p) == f.kind = "tcp" /\ f.local = p

Bytes(f, p) == IF For(f, p) THEN Len(f.data) ELSE 0

Silent(p, gi) == \A j \in 1..Len(gi) : ~For(gi[j], p)

\* the local port p has not been used
Unused(p, tr, gi, go, s) ==
    ~For(go, p) /\ ~For(tr, p) /\ s.state = "none" /\ Silent(p, gi)

\* the connection was asked for, and the guest has not seen it yet
Asked(c, tr, gi, go, s) ==
    /\ \/ /\ For(go, c.local) /\ go.flags = "syn" /\ c.send_next = (go.seq + 1) % SEQ
          /\ ~For(tr, c.local)
       \/ /\ For(tr, c.local) /\ tr.flags = "syn" /\ c.send_next = (tr.seq + 1) % SEQ
          /\ ~For(go, c.local)
    /\ s.state = "none" /\ Silent(c.local, gi)

\* the guest's frames of a channel in state st and a stream in state ss come in
\* their order: an answer first, then bytes, then resets
Ordered(p, st, gi, ss) ==
    \A j \in 1..Len(gi) : For(gi[j], p) =>
      /\ gi[j].flags = "synack" => st = "SYN_SENT" /\ \A h \in 1..(j - 1) : ~For(gi[h], p)
      /\ gi[j].flags = "ack" /\ st = "SYN_SENT" => \E h \in 1..(j - 1) : For(gi[h], p)
      /\ gi[j].flags = "rst" =>
           /\ ss # "open"
           /\ \A h \in (j + 1)..Len(gi) : For(gi[h], p) => gi[h].flags = "rst"

\* a stream that is not open has sent a reset, and a channel that waits has its answer
Answered(p, st, gi, ss) ==
    /\ ss # "open" => \E j \in 1..Len(gi) : For(gi[j], p) /\ gi[j].flags = "rst"
    /\ st = "SYN_SENT" => \E j \in 1..Len(gi) : For(gi[j], p)

\* n counts the bytes of the stream before each frame
Counts(p, gi, ss, sent, n) ==
    /\ \A j \in 1..Len(gi) :
         /\ n[j + 1] = n[j] + Bytes(gi[j], p)
         /\ For(gi[j], p) => \/ gi[j].sent = n[j]
                             \/ /\ gi[j].flags = "rst"
                                /\ \E h \in 1..(j - 1) : For(gi[h], p) /\ gi[h].flags = "rst"
    /\ \A j \in 1..(Len(gi) + 1) : n[j] <= n[Len(gi) + 1]
    /\ ss = "open" => n[Len(gi) + 1] = sent

\* r bytes come before the frames, and t with them
Counted(p, gi, ss, sent, r, t) ==
    \E n \in [1..(Len(gi) + 1) -> Nat] :
       Counts(p, gi, ss, sent, n) /\ n[1] = r /\ n[Len(gi) + 1] = t

\* the guest may send up to what the frame h tells it
Grants(h, p, len, r) ==
    For(h, p) /\ h.flags = "ack" => Minus(h.ack, GUEST_ISN + 1) + h.window + len <= r + RX_SIZE

\* the channel has taken r bytes of the stream, and t are sent: they fit
Roomy(c, tr, go, s, r, t) ==
    /\ c.state = "SYN_SENT" => r = 0
    /\ c.state = "OPEN" => c.receive_next = (GUEST_ISN + 1 + r) % SEQ
    /\ t + Len(c.receive) <= r + RX_SIZE
    /\ s.state = "open" => s.acked + s.window + Len(c.receive) <= r + RX_SIZE
    /\ Grants(go, c.local, Len(c.receive), r) /\ Grants(tr, c.local, Len(c.receive), r)

Received(c, tr, gi, go, s) ==
    \E r, t \in Nat : /\ Counted(c.local, gi, s.state, s.sent, r, t)
                     /\ Roomy(c, tr, go, s, r, t)

\* the bytes of port p on their way to the guest
Sending(p, tr, go) == Bytes(go, p) + Bytes(tr, p)

\* who has heard of x, with F bytes under way, may send into the window w
Edge(nx, F, s, x, w) ==
    s.state = "open" => /\ F <= Minus(nx, x)
                        /\ Len(s.buffer) + F + w - Minus(nx, x) <= GUEST_WINDOW

\* the acknowledgements on their way: nx is the next number of the channel, ak
\* the last acknowledged
Heard(p, st, nx, ak, F, gi, s) ==
    \A j \in 1..Len(gi) : For(gi[j], p) /\ gi[j].flags # "rst" =>
      /\ st = "OPEN" => Minus(nx, gi[j].ack) <= Minus(nx, ak)
      /\ st = "SYN_SENT" => gi[j].ack = nx
      /\ \A h \in 1..(j - 1) : For(gi[h], p) /\ gi[h].flags # "rst" =>
           Minus(nx, gi[j].ack) <= Minus(nx, gi[h].ack)
      /\ Edge(nx, F, s, gi[j].ack, gi[j].window)

\* the channel and the guest's stream agree about what is sent
Sent(c, F, s) ==
    /\ c.state = "OPEN" => Edge(c.send_next, F, s, c.send_acked, c.peer_window)
    /\ s.state = "open" =>
         /\ c.send_next = (s.next + F) % SEQ
         /\ Len(s.buffer) + F <= GUEST_WINDOW

Flowing(c, tr, gi, go, s) ==
    /\ Ordered(c.local, c.state, gi, s.state)
    /\ Answered(c.local, c.state, gi, s.state)
    /\ Received(c, tr, gi, go, s)
    /\ Heard(c.local, c.state, c.send_next, c.send_acked, Sending(c.local, tr, go), gi, s)
    /\ Sent(c, Sending(c.local, tr, go), s)

Talk(c, tr, gi, go, s) ==
    /\ c.state \in {"CONNECT", "SYN_SENT", "OPEN"} => c.peer_window <= GUEST_WINDOW
    /\ c.state \in {"CONNECT", "SYN_SENT"} => Len(c.receive) = 0
    /\ c.state = "CONNECT" => Unused(c.local, tr, gi, go, s)
    /\ c.state = "SYN_SENT" =>
         \/ Asked(c, tr, gi, go, s)
         \/ ~For(go, c.local) /\ ~For(tr, c.local) /\ Flowing(c, tr, gi, go, s)
    /\ c.state = "OPEN" => /\ For(go, c.local) => go.flags = "ack"
                           /\ For(tr, c.local) => tr.flags = "ack"
                           /\ Flowing(c, tr, gi, go, s)

\* the frame f follows what is under way to the stream s, and fits
Fits(f, s, under) ==
    s.state = "open" => /\ f.seq = (s.next + under) % SEQ
                        /\ Len(s.buffer) + under + Len(f.data) <= GUEST_WINDOW

FitsOut(tr, go) ==
    /\ go.kind = "tcp" /\ go.flags = "ack" => Fits(go, guest.stream[go.local], 0)
    /\ tr.kind = "tcp" /\ tr.flags = "ack" =>
         /\ ~(For(go, tr.local) /\ go.flags = "syn")
         /\ Fits(tr, guest.stream[tr.local], Bytes(go, tr.local))

\* the exchange of versions comes first
Early(m, gi, go) ==
    /\ \A j \in 1..Len(gi) : gi[j].kind = "version" =>
         go.kind # "version" /\ m.transmit.kind # "version" /\ m.stage # "SEND_VERSION"
    /\ go.kind = "version" => m.stage = "WAIT_VERSION" /\ m.transmit.kind # "version"
    /\ m.transmit.kind = "version" => m.stage = "WAIT_VERSION"
    /\ m.stage # "ACTIVE" => \A i \in Slots : m.channel[i] = FreshChannel

Blameless(m) == \A i \in Slots : m.channel[i].why \in {"none", "reset"}

Talks(m, gi, go) ==
    \A i \in Slots : Talk(m.channel[i], m.transmit, gi, go, guest.stream[m.channel[i].local])

Ahead(m, gi, go) ==
    m.next_port # 0 => \A p \in m.next_port..(PORTS - 1) :
                          Unused(p, m.transmit, gi, go, guest.stream[p])

Talking(m, gi, go) ==
    IF m = NoMux THEN FitsOut(NoFrame, go)
    ELSE /\ Blameless(m) /\ Early(m, gi, go)
         /\ Same => FitsOut(m.transmit, go) /\ Talks(m, gi, go) /\ Ahead(m, gi, go)

\* a stream has sent no more than its service has to say
Spoken == \A p \in Ports : guest.stream[p].sent <= Down[p]

Inv2 == Inv1 /\ Talking(mux, gin, gout) /\ Spoken

---------------------------------------
(* Sequence numbers. *)

LEMMA SmallMod ==
  ASSUME NEW r \in 0..(SEQ - 1)
  PROVE  r % SEQ = r
<1>1. SEQ \in Nat \ {0} /\ r \in Int /\ r = SEQ * 0 + r BY WindowFits
<1> QED BY <1>1, ModUnique

\* n more bytes are sent
LEMMA MinusMore ==
  ASSUME NEW a \in Int, NEW x \in Int, NEW n \in Nat, Minus(a, x) + n < SEQ
  PROVE  Minus((a + n) % SEQ, x) = Minus(a, x) + n
<1>1. SEQ \in Nat \ {0} /\ a - x \in Int /\ a + n \in Int /\ -x \in Int /\ n \in Int BY WindowFits
<1>2. (((a + n) % SEQ) + (-x)) % SEQ = ((a + n) + (-x)) % SEQ BY <1>1, ModAdd
<1>3. (((a - x) % SEQ) + n) % SEQ = ((a - x) + n) % SEQ BY <1>1, ModAdd
<1>4. Minus(a, x) \in 0..(SEQ - 1) /\ Minus(a, x) = (a - x) % SEQ BY MinusIs DEF Minus
<1>5. (Minus(a, x) + n) % SEQ = Minus(a, x) + n
  <2>1. Minus(a, x) + n \in 0..(SEQ - 1) BY <1>4, <1>1
  <2> QED BY <2>1, SmallMod
<1>6. (a + n) % SEQ \in Int BY <1>1
<1>7. /\ ((a + n) % SEQ) + (-x) = ((a + n) % SEQ) - x /\ (a + n) + (-x) = (a - x) + n
  BY <1>6
<1> QED BY <1>2, <1>3, <1>4, <1>5, <1>7 DEF Minus

LEMMA MinusSame ==
  ASSUME NEW a \in Int, NEW n \in Nat, n < SEQ
  PROVE  Minus((a + n) % SEQ, a) = n /\ Minus(a, a) = 0
<1>1. Minus(a, a) = 0
  <2>1. 0 \in 0..(SEQ - 1) /\ a - a = 0 BY WindowFits
  <2> QED BY <2>1, SmallMod DEF Minus
<1>2. Minus(a, a) + n < SEQ /\ Minus(a, a) + n = n BY <1>1
<1> QED BY <1>1, <1>2, MinusMore

\* f lies between y and a
LEMMA MinusBetween ==
  ASSUME NEW a \in Int, NEW f \in Int, NEW y \in Int, Minus(a, f) <= Minus(a, y)
  PROVE  Minus(f, y) <= Minus(a, y)
<1> DEFINE u == Minus(a, y)
           v == Minus(a, f)
<1>1. u \in 0..(SEQ - 1) /\ v \in 0..(SEQ - 1) /\ SEQ \in Nat \ {0} BY MinusIs, WindowFits
<1>0. a - y \in Int /\ -v \in Int BY <1>1
<1>2. (((a - y) % SEQ) + (-v)) % SEQ = ((a - y) + (-v)) % SEQ
  <2> HIDE DEF u, v
  <2> QED BY <1>0, <1>1, ModAdd
<1>3. (((a - f) % SEQ) + (f - y)) % SEQ = ((a - f) + (f - y)) % SEQ
  <2>1. a - f \in Int /\ f - y \in Int OBVIOUS
  <2> QED BY <2>1, <1>1, ModAdd
<1>4. (((f - y) % SEQ) + v) % SEQ = ((f - y) + v) % SEQ
  <2>1. f - y \in Int /\ v \in Int BY <1>1
  <2> QED BY <2>1, <1>1, ModAdd
<1>5. u = (a - y) % SEQ /\ v = (a - f) % SEQ BY DEF Minus
<1> HIDE DEF u, v
<1> DEFINE w == Minus(f, y)
<1>6. w = (f - y) % SEQ /\ w \in 0..(SEQ - 1) BY MinusIs DEF Minus
<1> HIDE DEF w
<1>7. (v + (f - y)) % SEQ = u
  <2>1. (a - f) + (f - y) = a - y OBVIOUS
  <2> QED BY <2>1, <1>3, <1>5
<1>8. (w + v) % SEQ = u
  <2>1. (f - y) + v = v + (f - y) BY <1>1
  <2> QED BY <2>1, <1>4, <1>6, <1>7
<1>9. CASE w + v < SEQ
  <2>1. w + v \in 0..(SEQ - 1) BY <1>9, <1>1, <1>6
  <2>2. w + v = u BY <2>1, <1>8, SmallMod
  <2> QED BY <2>2, <1>1, <1>6 DEF u, w
<1>10. CASE w + v >= SEQ
  <2>1. w + v - SEQ \in 0..(SEQ - 1) /\ w + v \in Int /\ w + v = SEQ * 1 + (w + v - SEQ)
    BY <1>10, <1>1, <1>6
  <2>2. (w + v) % SEQ = w + v - SEQ BY <2>1, <1>1, ModUnique
  <2>3. u = w + v - SEQ /\ v <= u BY <2>2, <1>8 DEF u, v
  <2>4. FALSE BY <2>3, <1>1, <1>6
  <2> QED BY <2>4
<1> QED BY <1>1, <1>6, <1>9, <1>10

LEMMA ModLess ==
  ASSUME NEW r \in Nat
  PROVE  r % SEQ <= r /\ r % SEQ \in Nat
<1>1. SEQ \in Nat \ {0} /\ r % SEQ \in 0..(SEQ - 1) BY WindowFits, DivMod
<1>2. CASE r < SEQ
  <2>1. r \in 0..(SEQ - 1) BY <1>1, <1>2
  <2> QED BY <2>1, SmallMod
<1>3. CASE r >= SEQ BY <1>1, <1>3
<1> QED BY <1>1, <1>2, <1>3

\* what an acknowledgement says of the guest's stream
LEMMA MinusBase ==
  ASSUME NEW r \in Nat
  PROVE  Minus((GUEST_ISN + 1 + r) % SEQ, GUEST_ISN + 1) <= r
<1>1. SEQ \in Nat \ {0} /\ GUEST_ISN \in Int BY Consts
<1>2. (((GUEST_ISN + 1 + r) % SEQ) + (-(GUEST_ISN + 1))) % SEQ = ((GUEST_ISN + 1 + r) + (-(GUEST_ISN + 1))) % SEQ
  <2>1. GUEST_ISN + 1 + r \in Int /\ -(GUEST_ISN + 1) \in Int BY <1>1
  <2> QED BY <2>1, <1>1, ModAdd
<1>3. (GUEST_ISN + 1 + r) % SEQ \in Int BY <1>1
<1>4. /\ (GUEST_ISN + 1 + r) + (-(GUEST_ISN + 1)) = r
      /\ ((GUEST_ISN + 1 + r) % SEQ) + (-(GUEST_ISN + 1)) = ((GUEST_ISN + 1 + r) % SEQ) - (GUEST_ISN + 1)
  BY <1>1, <1>3
<1>5. Minus((GUEST_ISN + 1 + r) % SEQ, GUEST_ISN + 1) = r % SEQ BY <1>2, <1>4 DEF Minus
<1> QED BY <1>5, ModLess

LEMMA ModPlus ==
  ASSUME NEW a \in Int, NEW n \in Int, NEW k \in Int
  PROVE  (((a + n) % SEQ) + k) % SEQ = (a + (n + k)) % SEQ
<1>1. SEQ \in Nat \ {0} /\ a + n \in Int BY WindowFits
<1>2. (((a + n) % SEQ) + k) % SEQ = ((a + n) + k) % SEQ BY <1>1, ModAdd
<1>3. (a + n) + k = a + (n + k) OBVIOUS
<1> QED BY <1>2, <1>3

---------------------------------------
(* The guest's frames: one is queued behind them, or the first is taken. *)

LEMMA BytesIs ==
  ASSUME NEW f \in GuestFrames \cup HostFrames, NEW p
  PROVE  Bytes(f, p) \in Nat /\ (For(f, p) => Bytes(f, p) = Len(f.data)) /\ (~For(f, p) => Bytes(f, p) = 0)
<1>1. CASE f \in GuestFrames BY <1>1, GuestFrameKinds, GuestTcpFields DEF Bytes, For
<1>2. CASE f \in HostFrames BY <1>2, HostFrameKinds, HostTcpFields DEF Bytes, For
<1> QED BY <1>1, <1>2

LEMMA GuestFor ==
  ASSUME NEW f \in GuestFrames, NEW p, For(f, p)
  PROVE  f \in GuestTcp
BY GuestFrameKinds DEF For

LEMMA Queued ==
  ASSUME NEW gi \in Seq(GuestFrames), NEW g \in GuestFrames
  PROVE  /\ Append(gi, g) \in Seq(GuestFrames) /\ Len(gi) \in Nat
         /\ Len(Append(gi, g)) = Len(gi) + 1
         /\ \A j \in 1..Len(gi) : Append(gi, g)[j] = gi[j] /\ gi[j] \in GuestFrames
         /\ Append(gi, g)[Len(gi) + 1] = g
<1>1. Len(gi) \in Nat OBVIOUS
<1>2. \A j \in 1..(Len(gi) + 1) : Append(gi, g)[j] = IF j <= Len(gi) THEN gi[j] ELSE g
  BY AppendFacts
<1>3. Len(gi) + 1 \in 1..(Len(gi) + 1) /\ ~(Len(gi) + 1 <= Len(gi)) BY <1>1
<1>4. Append(gi, g)[Len(gi) + 1] = g BY <1>2, <1>3
<1> QED BY <1>1, <1>2, <1>4, AppendFacts

LEMMA Taken ==
  ASSUME NEW gi \in Seq(GuestFrames), gi # <<>>
  PROVE  /\ Tail(gi) \in Seq(GuestFrames) /\ Len(gi) \in Nat \ {0}
         /\ Len(Tail(gi)) = Len(gi) - 1 /\ gi[1] \in GuestFrames
         /\ \A j \in 1..(Len(gi) - 1) : Tail(gi)[j] = gi[j + 1] /\ gi[j + 1] \in GuestFrames
<1>1. Len(gi) \in Nat \ {0} OBVIOUS
<1> QED BY <1>1, TailFacts

LEMMA OrderedAppend ==
  ASSUME NEW p, NEW st, NEW gi \in Seq(GuestFrames), NEW g \in GuestFrames, NEW ss, NEW ts,
         Ordered(p, st, gi, ss), ts = "open" => ss = "open",
         For(g, p) =>
           /\ g.flags # "synack"
           /\ g.flags = "ack" /\ st = "SYN_SENT" => \E j \in 1..Len(gi) : For(gi[j], p)
           /\ g.flags = "rst" => ts # "open"
           /\ g.flags # "rst" => ss = "open"
  PROVE  Ordered(p, st, Append(gi, g), ts)
<1> DEFINE L == Len(gi)
           gj == Append(gi, g)
<1>1. L \in Nat /\ Len(gj) = L + 1 /\ gj[L + 1] = g /\ \A j \in 1..L : gj[j] = gi[j] BY Queued
<1> HIDE DEF gj
<1>2. \A j \in 1..L : For(gi[j], p) =>
         /\ gi[j].flags = "synack" => st = "SYN_SENT" /\ \A h \in 1..(j - 1) : ~For(gi[h], p)
         /\ gi[j].flags = "ack" /\ st = "SYN_SENT" => \E h \in 1..(j - 1) : For(gi[h], p)
         /\ gi[j].flags = "rst" =>
              /\ ss # "open"
              /\ \A h \in (j + 1)..L : For(gi[h], p) => gi[h].flags = "rst"
  BY DEF Ordered
<1> HIDE DEF L
<1>3. ASSUME NEW j \in 1..L, For(gj[j], p)
      PROVE  /\ gj[j].flags = "synack" => st = "SYN_SENT" /\ \A h \in 1..(j - 1) : ~For(gj[h], p)
             /\ gj[j].flags = "ack" /\ st = "SYN_SENT" => \E h \in 1..(j - 1) : For(gj[h], p)
             /\ gj[j].flags = "rst" =>
                  /\ ts # "open"
                  /\ \A h \in (j + 1)..(L + 1) : For(gj[h], p) => gj[h].flags = "rst"
  <2>1. gj[j] = gi[j] /\ \A h \in 1..(j - 1) : h \in 1..L /\ gj[h] = gi[h] BY <1>1, <1>3
  <2>2. ASSUME gj[j].flags = "rst", NEW h \in (j + 1)..(L + 1), For(gj[h], p)
        PROVE  gj[h].flags = "rst"
    <3>1. CASE h \in (j + 1)..L BY <1>1, <1>2, <1>3, <2>1, <2>2, <3>1
    <3>2. CASE h = L + 1 BY <1>1, <1>2, <1>3, <2>1, <2>2, <3>2 DEF L
    <3> QED BY <1>1, <3>1, <3>2
  <2> QED BY <1>2, <1>3, <2>1, <2>2
<1>4. ASSUME For(g, p)
      PROVE  /\ g.flags = "synack" => st = "SYN_SENT" /\ \A h \in 1..L : ~For(gj[h], p)
             /\ g.flags = "ack" /\ st = "SYN_SENT" => \E h \in 1..L : For(gj[h], p)
             /\ g.flags = "rst" => ts # "open"
  BY <1>1, <1>4 DEF L
<1>5. ASSUME NEW j \in 1..(L + 1), For(gj[j], p)
      PROVE  /\ gj[j].flags = "synack" => st = "SYN_SENT" /\ \A h \in 1..(j - 1) : ~For(gj[h], p)
             /\ gj[j].flags = "ack" /\ st = "SYN_SENT" => \E h \in 1..(j - 1) : For(gj[h], p)
             /\ gj[j].flags = "rst" =>
                  /\ ts # "open"
                  /\ \A h \in (j + 1)..(L + 1) : For(gj[h], p) => gj[h].flags = "rst"
  <2>1. CASE j \in 1..L BY <1>3, <1>5, <2>1
  <2>2. CASE j = L + 1
    <3>1. j - 1 = L /\ (j + 1)..(L + 1) = {} BY <1>1, <2>2
    <3> QED BY <1>1, <1>4, <1>5, <2>2, <3>1
  <2> QED BY <1>1, <2>1, <2>2
<1> QED BY <1>1, <1>5 DEF Ordered, gj

LEMMA AnsweredAppend ==
  ASSUME NEW p, NEW st, NEW gi \in Seq(GuestFrames), NEW g \in GuestFrames, NEW ss, NEW ts,
         Answered(p, st, gi, ss), ts # "open" => ss # "open" \/ (For(g, p) /\ g.flags = "rst")
  PROVE  Answered(p, st, Append(gi, g), ts)
<1> DEFINE L == Len(gi)
           gj == Append(gi, g)
<1>1. L \in Nat /\ Len(gj) = L + 1 /\ gj[L + 1] = g /\ \A j \in 1..L : gj[j] = gi[j] /\ j \in 1..(L + 1)
  BY Queued
<1>2. L + 1 \in 1..(L + 1) BY <1>1
<1> HIDE DEF gj, L
<1>3. /\ ss # "open" => \E j \in 1..L : For(gi[j], p) /\ gi[j].flags = "rst"
      /\ st = "SYN_SENT" => \E j \in 1..L : For(gi[j], p)
  BY DEF Answered, L
<1>4. /\ ts # "open" => \E j \in 1..(L + 1) : For(gj[j], p) /\ gj[j].flags = "rst"
      /\ st = "SYN_SENT" => \E j \in 1..(L + 1) : For(gj[j], p)
  BY <1>1, <1>2, <1>3
<1> QED BY <1>1, <1>4 DEF Answered, gj

LEMMA OrderedTail ==
  ASSUME NEW p, NEW st, NEW su, NEW gi \in Seq(GuestFrames), gi # <<>>, NEW ss,
         Ordered(p, st, gi, ss),
         \/ ~For(gi[1], p) /\ su = st
         \/ For(gi[1], p) /\ gi[1].flags # "rst" /\ su = "OPEN"
  PROVE  Ordered(p, su, Tail(gi), ss)
<1> DEFINE L == Len(gi)
           gj == Tail(gi)
<1>1. L \in Nat \ {0} /\ Len(gj) = L - 1 /\ \A j \in 1..(L - 1) : gj[j] = gi[j + 1] BY Taken
<1> HIDE DEF gj
<1>2. \A j \in 1..L : For(gi[j], p) =>
         /\ gi[j].flags = "synack" => st = "SYN_SENT" /\ \A h \in 1..(j - 1) : ~For(gi[h], p)
         /\ gi[j].flags = "ack" /\ st = "SYN_SENT" => \E h \in 1..(j - 1) : For(gi[h], p)
         /\ gi[j].flags = "rst" =>
              /\ ss # "open"
              /\ \A h \in (j + 1)..L : For(gi[h], p) => gi[h].flags = "rst"
  BY DEF Ordered
<1> HIDE DEF L
<1>3. ASSUME NEW j \in 1..(L - 1), For(gj[j], p)
      PROVE  /\ gj[j].flags = "synack" => su = "SYN_SENT" /\ \A h \in 1..(j - 1) : ~For(gj[h], p)
             /\ gj[j].flags = "ack" /\ su = "SYN_SENT" => \E h \in 1..(j - 1) : For(gj[h], p)
             /\ gj[j].flags = "rst" =>
                  /\ ss # "open"
                  /\ \A h \in (j + 1)..(L - 1) : For(gj[h], p) => gj[h].flags = "rst"
  <2>1. j + 1 \in 1..L /\ gj[j] = gi[j + 1] /\ (j + 1) - 1 = j /\ 1 \in 1..j BY <1>1
  <2>5. \A h \in 1..(j - 1) : gj[h] = gi[h + 1] /\ h + 1 \in 1..j BY <1>1
  <2>6. ASSUME NEW h \in (j + 1)..(L - 1) PROVE gj[h] = gi[h + 1] /\ h + 1 \in ((j + 1) + 1)..L
    <3>1. h \in 1..(L - 1) BY <1>1
    <3> QED BY <1>1, <3>1
  <2>2. /\ gi[j + 1].flags = "synack" => st = "SYN_SENT" /\ \A h \in 1..j : ~For(gi[h], p)
        /\ gi[j + 1].flags = "ack" /\ st = "SYN_SENT" => \E h \in 1..j : For(gi[h], p)
        /\ gi[j + 1].flags = "rst" =>
             /\ ss # "open"
             /\ \A h \in ((j + 1) + 1)..L : For(gi[h], p) => gi[h].flags = "rst"
    BY <1>2, <1>3, <2>1
  <2>3. gj[j].flags = "synack" => su = "SYN_SENT" /\ \A h \in 1..(j - 1) : ~For(gj[h], p)
    BY <2>1, <2>2, <2>5
  <2>4. gj[j].flags = "ack" /\ su = "SYN_SENT" => \E h \in 1..(j - 1) : For(gj[h], p)
    <3> SUFFICES ASSUME gj[j].flags = "ack", su = "SYN_SENT" PROVE \E h \in 1..(j - 1) : For(gj[h], p)
      OBVIOUS
    <3>1. st = "SYN_SENT" /\ ~For(gi[1], p) OBVIOUS
    <3>2. PICK h \in 1..j : For(gi[h], p) BY <2>1, <2>2, <3>1
    <3>3. h - 1 \in 1..(j - 1) /\ (h - 1) + 1 = h
      <4>1. h # 1 BY <3>1, <3>2
      <4> QED BY <4>1
    <3> QED BY <2>5, <3>2, <3>3
  <2>7. gj[j].flags = "rst" => /\ ss # "open"
                               /\ \A h \in (j + 1)..(L - 1) : For(gj[h], p) => gj[h].flags = "rst"
    BY <2>1, <2>2, <2>6
  <2> QED BY <2>3, <2>4, <2>7
<1> QED BY <1>1, <1>3 DEF Ordered, gj

LEMMA AnsweredTail ==
  ASSUME NEW p, NEW st, NEW su, NEW gi \in Seq(GuestFrames), gi # <<>>, NEW ss,
         Answered(p, st, gi, ss),
         \/ ~For(gi[1], p) /\ su = st
         \/ For(gi[1], p) /\ gi[1].flags # "rst" /\ su = "OPEN"
  PROVE  Answered(p, su, Tail(gi), ss)
<1> DEFINE L == Len(gi)
           gj == Tail(gi)
<1>1. L \in Nat \ {0} /\ Len(gj) = L - 1 /\ \A j \in 1..(L - 1) : gj[j] = gi[j + 1] BY Taken
<1> HIDE DEF gj, L
<1>2. \A j \in 1..L : j = 1 \/ (j - 1 \in 1..(L - 1) /\ gj[j - 1] = gi[j]) BY <1>1
<1>3. /\ ss # "open" => \E j \in 1..L : For(gi[j], p) /\ gi[j].flags = "rst"
      /\ st = "SYN_SENT" => \E j \in 1..L : For(gi[j], p)
  BY DEF Answered, L
<1>4. /\ ss # "open" => \E j \in 1..(L - 1) : For(gj[j], p) /\ gj[j].flags = "rst"
      /\ su = "SYN_SENT" => \E j \in 1..(L - 1) : For(gj[j], p)
  BY <1>2, <1>3
<1> QED BY <1>1, <1>4 DEF Answered, gj

LEMMA CountsAppend ==
  ASSUME NEW p, NEW gi \in Seq(GuestFrames), NEW g \in GuestFrames, NEW ss, NEW ts, NEW x, NEW y,
         NEW n \in [1..(Len(gi) + 1) -> Nat], Counts(p, gi, ss, x, n),
         For(g, p) => \/ g.sent = n[Len(gi) + 1]
                      \/ /\ g.flags = "rst"
                         /\ \E h \in 1..Len(gi) : For(gi[h], p) /\ gi[h].flags = "rst",
         ts = "open" => y = n[Len(gi) + 1] + Bytes(g, p)
  PROVE  Counted(p, Append(gi, g), ts, y, n[1], n[Len(gi) + 1] + Bytes(g, p))
<1> DEFINE L == Len(gi)
           gj == Append(gi, g)
           m == [j \in 1..((L + 1) + 1) |-> IF j <= L + 1 THEN n[j] ELSE n[L + 1] + Bytes(g, p)]
<1>1. L \in Nat /\ Len(gj) = L + 1 /\ gj[L + 1] = g /\ \A j \in 1..L : gj[j] = gi[j] BY Queued
<1> HIDE DEF gj
<1>2. Bytes(g, p) \in Nat /\ n \in [1..(L + 1) -> Nat] BY BytesIs
<1>3. /\ \A j \in 1..L : n[j + 1] = n[j] + Bytes(gi[j], p)
      /\ \A j \in 1..L : For(gi[j], p) =>
            \/ gi[j].sent = n[j]
            \/ gi[j].flags = "rst" /\ \E h \in 1..(j - 1) : For(gi[h], p) /\ gi[h].flags = "rst"
      /\ \A j \in 1..(L + 1) : n[j] <= n[L + 1]
  BY DEF Counts
<1>4. For(g, p) => \/ g.sent = n[L + 1]
                   \/ g.flags = "rst" /\ \E h \in 1..L : For(gi[h], p) /\ gi[h].flags = "rst"
  OBVIOUS
<1>5. ts = "open" => y = n[L + 1] + Bytes(g, p) OBVIOUS
<1> HIDE DEF L
<1>6. /\ m \in [1..((L + 1) + 1) -> Nat]
      /\ \A j \in 1..(L + 1) : m[j] = n[j] /\ n[j] \in Nat
      /\ m[(L + 1) + 1] = n[L + 1] + Bytes(g, p)
  <2>1. \A j \in 1..((L + 1) + 1) : (IF j <= L + 1 THEN n[j] ELSE n[L + 1] + Bytes(g, p)) \in Nat
    BY <1>1, <1>2
  <2>2. \A j \in 1..(L + 1) : j \in 1..((L + 1) + 1) /\ j <= L + 1 BY <1>1
  <2>3. (L + 1) + 1 \in 1..((L + 1) + 1) /\ ~((L + 1) + 1 <= L + 1) BY <1>1
  <2> QED BY <1>2, <2>1, <2>2, <2>3
<1> HIDE DEF m
<1>7. \A j \in 1..(L + 1) : m[j + 1] = m[j] + Bytes(gj[j], p)
  <2> TAKE j \in 1..(L + 1)
  <2>1. CASE j \in 1..L
    <3>1. j + 1 \in 1..(L + 1) /\ j \in 1..(L + 1) BY <1>1, <2>1
    <3> QED BY <1>1, <1>3, <1>6, <2>1, <3>1
  <2>2. CASE j = L + 1 BY <1>1, <1>6, <2>2
  <2> QED BY <1>1, <2>1, <2>2
<1>8. \A j \in 1..(L + 1) : For(gj[j], p) =>
         \/ gj[j].sent = m[j]
         \/ gj[j].flags = "rst" /\ \E h \in 1..(j - 1) : For(gj[h], p) /\ gj[h].flags = "rst"
  <2> SUFFICES ASSUME NEW j \in 1..(L + 1), For(gj[j], p)
               PROVE  \/ gj[j].sent = m[j]
                      \/ /\ gj[j].flags = "rst"
                         /\ \E h \in 1..(j - 1) : For(gj[h], p) /\ gj[h].flags = "rst"
    OBVIOUS
  <2>0. \A h \in 1..(j - 1) : gj[h] = gi[h] BY <1>1
  <2>1. CASE j \in 1..L
    <3>1. gj[j] = gi[j] /\ m[j] = n[j] BY <1>1, <1>6, <2>1
    <3> QED BY <1>3, <2>0, <2>1, <3>1
  <2>2. CASE j = L + 1
    <3>1. j - 1 = L /\ gj[j] = g /\ m[j] = n[L + 1] BY <1>1, <1>6, <2>2
    <3> QED BY <1>4, <2>0, <3>1
  <2> QED BY <1>1, <2>1, <2>2
<1>9. \A j \in 1..((L + 1) + 1) : m[j] <= m[(L + 1) + 1]
  <2> TAKE j \in 1..((L + 1) + 1)
  <2>1. CASE j \in 1..(L + 1)
    <3>1. m[j] = n[j] /\ n[j] \in Nat BY <1>6, <2>1
    <3>2. n[j] <= n[L + 1] BY <1>3, <2>1
    <3>3. n[L + 1] \in Nat
      <4>1. L + 1 \in 1..(L + 1) BY <1>1
      <4> QED BY <1>6, <4>1
    <3> QED BY <1>2, <1>6, <3>1, <3>2, <3>3
  <2>2. CASE j = (L + 1) + 1 BY <1>6, <2>2, <1>1
  <2> QED BY <1>1, <2>1, <2>2
<1>10. Counts(p, gj, ts, y, m)
  <2>1. ts = "open" => m[(L + 1) + 1] = y BY <1>5, <1>6
  <2> QED BY <1>1, <1>7, <1>8, <1>9, <2>1 DEF Counts
<1>11. m[1] = n[1]
  <2>1. 1 \in 1..(L + 1) BY <1>1
  <2> QED BY <1>6, <2>1
<1>12. m \in [1..(Len(gj) + 1) -> Nat] /\ m[Len(gj) + 1] = n[L + 1] + Bytes(g, p) BY <1>1, <1>6
<1>13. Counted(p, gj, ts, y, n[1], n[L + 1] + Bytes(g, p)) BY <1>10, <1>11, <1>12 DEF Counted
<1> QED BY <1>13 DEF gj, L

LEMMA CountsTail ==
  ASSUME NEW p, NEW gi \in Seq(GuestFrames), gi # <<>>, NEW ss, NEW x,
         NEW n \in [1..(Len(gi) + 1) -> Nat], Counts(p, gi, ss, x, n),
         For(gi[1], p) => gi[1].flags # "rst"
  PROVE  /\ Counted(p, Tail(gi), ss, x, n[1] + Bytes(gi[1], p), n[Len(gi) + 1])
         /\ n[1] + Bytes(gi[1], p) <= n[Len(gi) + 1] /\ (For(gi[1], p) => gi[1].sent = n[1])
<1> DEFINE L == Len(gi)
           gj == Tail(gi)
           m == [j \in 1..L |-> n[j + 1]]
<1>1. L \in Nat \ {0} /\ Len(gj) = L - 1 /\ \A j \in 1..(L - 1) : gj[j] = gi[j + 1] BY Taken
<1> HIDE DEF gj
<1>2. n \in [1..(L + 1) -> Nat] OBVIOUS
<1>3. /\ \A j \in 1..L : n[j + 1] = n[j] + Bytes(gi[j], p)
      /\ \A j \in 1..L : For(gi[j], p) =>
            \/ gi[j].sent = n[j]
            \/ gi[j].flags = "rst" /\ \E h \in 1..(j - 1) : For(gi[h], p) /\ gi[h].flags = "rst"
      /\ \A j \in 1..(L + 1) : n[j] <= n[L + 1]
      /\ ss = "open" => n[L + 1] = x
  BY DEF Counts
<1> HIDE DEF L
<1>4. /\ 1 \in 1..L /\ 1 \in 1..(L + 1) /\ L + 1 \in 1..(L + 1) /\ 1 + 1 \in 1..(L + 1)
      /\ (L - 1) + 1 = L /\ L \in 1..L
  BY <1>1
<1>5. m \in [1..L -> Nat] /\ \A j \in 1..L : m[j] = n[j + 1] /\ j + 1 \in 1..(L + 1) BY <1>1, <1>2
<1> HIDE DEF m
<1>6. m[1] = n[1] + Bytes(gi[1], p) /\ m[L] = n[L + 1] /\ m[1] <= n[L + 1] BY <1>3, <1>4, <1>5
<1>7. For(gi[1], p) => gi[1].sent = n[1]
  <2>1. 1..(1 - 1) = {} OBVIOUS
  <2> QED BY <1>3, <1>4, <2>1
<1>8. \A j \in 1..(L - 1) : m[j + 1] = m[j] + Bytes(gj[j], p)
  <2> TAKE j \in 1..(L - 1)
  <2>1. j \in 1..L /\ j + 1 \in 1..L BY <1>1
  <2> QED BY <1>1, <1>3, <1>5, <2>1
<1>9. \A j \in 1..(L - 1) : For(gj[j], p) =>
         \/ gj[j].sent = m[j]
         \/ gj[j].flags = "rst" /\ \E h \in 1..(j - 1) : For(gj[h], p) /\ gj[h].flags = "rst"
  <2> SUFFICES ASSUME NEW j \in 1..(L - 1), For(gj[j], p), gj[j].sent # m[j]
               PROVE  /\ gj[j].flags = "rst"
                      /\ \E h \in 1..(j - 1) : For(gj[h], p) /\ gj[h].flags = "rst"
    OBVIOUS
  <2>0. j \in Nat /\ 1 <= j /\ j <= L - 1 /\ L \in Nat BY <1>1
  <2>1. j \in 1..L /\ j + 1 \in 1..L /\ (j + 1) - 1 = j BY <2>0
  <2>2. gi[j + 1].flags = "rst" /\ \E h \in 1..j : For(gi[h], p) /\ gi[h].flags = "rst"
    <3>1. For(gi[j + 1], p) /\ gi[j + 1].sent # n[j + 1] /\ gj[j] = gi[j + 1] BY <1>1, <1>5, <2>1
    <3> QED BY <1>3, <2>1, <3>1
  <2>3. PICK h \in 1..j : For(gi[h], p) /\ gi[h].flags = "rst" BY <2>2
  <2>4. h - 1 \in 1..(j - 1) /\ (h - 1) + 1 = h /\ h - 1 \in 1..(L - 1)
    <3>1. h # 1 BY <2>3
    <3>2. h \in Nat /\ 1 <= h /\ h <= j BY <2>0
    <3> QED BY <2>0, <3>1, <3>2
  <2>5. gj[h - 1] = gi[h] BY <1>1, <2>4
  <2> QED BY <1>1, <2>2, <2>3, <2>4, <2>5
<1>10. \A j \in 1..L : m[j] <= m[L] BY <1>3, <1>5, <1>6
<1>11. Counts(p, gj, ss, x, m)
  <2>1. (L - 1) + 1 = L BY <1>1
  <2> QED BY <1>1, <1>3, <1>6, <1>8, <1>9, <1>10, <2>1 DEF Counts
<1>12. m \in [1..(Len(gj) + 1) -> Nat] /\ m[Len(gj) + 1] = n[L + 1] BY <1>1, <1>4, <1>5, <1>6
<1>13. n[1] + Bytes(gi[1], p) <= n[L + 1] /\ n[1] \in Nat /\ n[L + 1] \in Nat BY <1>2, <1>4, <1>6
<1>14. Counted(p, gj, ss, x, n[1] + Bytes(gi[1], p), n[L + 1]) BY <1>6, <1>11, <1>12 DEF Counted
<1> QED BY <1>7, <1>13, <1>14 DEF gj, L

LEMMA CountedFacts ==
  ASSUME NEW p, NEW gi \in Seq(GuestFrames), NEW ss, NEW x, NEW r, NEW t, Counted(p, gi, ss, x, r, t)
  PROVE  r \in Nat /\ t \in Nat /\ (ss = "open" => t = x)
<1>1. PICK n \in [1..(Len(gi) + 1) -> Nat] :
         Counts(p, gi, ss, x, n) /\ n[1] = r /\ n[Len(gi) + 1] = t
  BY DEF Counted
<1>2. Len(gi) \in Nat /\ 1 \in 1..(Len(gi) + 1) /\ Len(gi) + 1 \in 1..(Len(gi) + 1) OBVIOUS
<1> QED BY <1>1, <1>2 DEF Counts

LEMMA CountedAppend ==
  ASSUME NEW p, NEW gi \in Seq(GuestFrames), NEW g \in GuestFrames, NEW ss, NEW ts, NEW x, NEW y,
         NEW r, NEW t, Counted(p, gi, ss, x, r, t),
         For(g, p) => \/ g.sent = t
                      \/ /\ g.flags = "rst"
                         /\ \E h \in 1..Len(gi) : For(gi[h], p) /\ gi[h].flags = "rst",
         ts = "open" => y = t + Bytes(g, p)
  PROVE  Counted(p, Append(gi, g), ts, y, r, t + Bytes(g, p))
<1>1. PICK n \in [1..(Len(gi) + 1) -> Nat] :
         Counts(p, gi, ss, x, n) /\ n[1] = r /\ n[Len(gi) + 1] = t
  BY DEF Counted
<1>2. For(g, p) => \/ g.sent = n[Len(gi) + 1]
                   \/ /\ g.flags = "rst"
                      /\ \E h \in 1..Len(gi) : For(gi[h], p) /\ gi[h].flags = "rst"
  BY <1>1
<1>3. ts = "open" => y = n[Len(gi) + 1] + Bytes(g, p) BY <1>1
<1>4. Counted(p, Append(gi, g), ts, y, n[1], n[Len(gi) + 1] + Bytes(g, p))
  BY <1>1, <1>2, <1>3, CountsAppend
<1> QED BY <1>1, <1>4

LEMMA CountedTail ==
  ASSUME NEW p, NEW gi \in Seq(GuestFrames), gi # <<>>, NEW ss, NEW x, NEW r, NEW t,
         Counted(p, gi, ss, x, r, t), For(gi[1], p) => gi[1].flags # "rst"
  PROVE  /\ Counted(p, Tail(gi), ss, x, r + Bytes(gi[1], p), t)
         /\ r + Bytes(gi[1], p) <= t /\ (For(gi[1], p) => gi[1].sent = r)
<1>1. PICK n \in [1..(Len(gi) + 1) -> Nat] :
         Counts(p, gi, ss, x, n) /\ n[1] = r /\ n[Len(gi) + 1] = t
  BY DEF Counted
<1>2. /\ n[1] + Bytes(gi[1], p) <= n[Len(gi) + 1]
      /\ For(gi[1], p) => gi[1].sent = n[1]
  BY <1>1, CountsTail
<1>3. Counted(p, Tail(gi), ss, x, n[1] + Bytes(gi[1], p), n[Len(gi) + 1]) BY <1>1, CountsTail
<1> QED BY <1>1, <1>2, <1>3

\* no frame of the port is queued, and none was
LEMMA CountedSilent ==
  ASSUME NEW p, NEW gi \in Seq(GuestFrames), Silent(p, gi), NEW ss, ss # "open", NEW x
  PROVE  Counted(p, gi, ss, x, 0, 0)
<1> DEFINE n == [j \in 1..(Len(gi) + 1) |-> 0]
<1>0. Len(gi) \in Nat /\ 1 \in 1..(Len(gi) + 1) /\ Len(gi) + 1 \in 1..(Len(gi) + 1) OBVIOUS
<1>1. n \in [1..(Len(gi) + 1) -> Nat] /\ \A j \in 1..(Len(gi) + 1) : n[j] = 0 OBVIOUS
<1>2. \A j \in 1..Len(gi) : ~For(gi[j], p) /\ Bytes(gi[j], p) = 0 /\ j \in 1..(Len(gi) + 1) /\ j + 1 \in 1..(Len(gi) + 1)
  BY <1>0 DEF Silent, Bytes
<1> HIDE DEF n
<1>3. Counts(p, gi, ss, x, n) BY <1>0, <1>1, <1>2 DEF Counts
<1> QED BY <1>0, <1>1, <1>3 DEF Counted

LEMMA HeardAppend ==
  ASSUME NEW p, NEW st, NEW nx, NEW ak, NEW F, NEW s, NEW gi \in Seq(GuestFrames), NEW g \in GuestFrames,
         Heard(p, st, nx, ak, F, gi, s),
         For(g, p) /\ g.flags # "rst" =>
           /\ st = "OPEN" => Minus(nx, g.ack) <= Minus(nx, ak)
           /\ st = "SYN_SENT" => g.ack = nx
           /\ \A h \in 1..Len(gi) : For(gi[h], p) /\ gi[h].flags # "rst" =>
                Minus(nx, g.ack) <= Minus(nx, gi[h].ack)
           /\ Edge(nx, F, s, g.ack, g.window)
  PROVE  Heard(p, st, nx, ak, F, Append(gi, g), s)
<1> DEFINE L == Len(gi)
           gj == Append(gi, g)
           Good(q, j) ==
             /\ st = "OPEN" => Minus(nx, q[j].ack) <= Minus(nx, ak)
             /\ st = "SYN_SENT" => q[j].ack = nx
             /\ \A h \in 1..(j - 1) : For(q[h], p) /\ q[h].flags # "rst" =>
                  Minus(nx, q[j].ack) <= Minus(nx, q[h].ack)
             /\ Edge(nx, F, s, q[j].ack, q[j].window)
<1>1. L \in Nat /\ Len(gj) = L + 1 /\ gj[L + 1] = g /\ \A j \in 1..L : gj[j] = gi[j] BY Queued
<1> HIDE DEF gj
<1>2. \A j \in 1..L : For(gi[j], p) /\ gi[j].flags # "rst" => Good(gi, j) BY DEF Heard
<1> HIDE DEF L
<1>3. \A j \in 1..(L + 1) : For(gj[j], p) /\ gj[j].flags # "rst" => Good(gj, j)
  <2> SUFFICES ASSUME NEW j \in 1..(L + 1), For(gj[j], p), gj[j].flags # "rst" PROVE Good(gj, j)
    OBVIOUS
  <2>0. \A h \in 1..(j - 1) : gj[h] = gi[h] BY <1>1
  <2>1. CASE j \in 1..L
    <3>1. gj[j] = gi[j] BY <1>1, <2>1
    <3>2. Good(gi, j) BY <1>2, <2>1, <3>1
    <3> QED BY <2>0, <3>1, <3>2
  <2>2. CASE j = L + 1
    <3>1. j - 1 = L /\ gj[j] = g BY <1>1, <2>2
    <3> QED BY <2>0, <3>1 DEF L
  <2> QED BY <1>1, <2>1, <2>2
<1> QED BY <1>1, <1>3 DEF Heard, gj

\* the state of the channel may change when the first frame opens it or acknowledges
LEMMA HeardTail ==
  ASSUME NEW p, NEW st, NEW su, NEW nx, NEW ak, NEW al, NEW F, NEW s,
         NEW gi \in Seq(GuestFrames), gi # <<>>, Heard(p, st, nx, ak, F, gi, s),
         \/ st = su /\ ak = al
         \/ su = "OPEN" /\ For(gi[1], p) /\ gi[1].flags # "rst" /\ al = gi[1].ack
  PROVE  Heard(p, su, nx, al, F, Tail(gi), s)
<1> DEFINE L == Len(gi)
           gj == Tail(gi)
<1>1. L \in Nat \ {0} /\ Len(gj) = L - 1 /\ \A j \in 1..(L - 1) : gj[j] = gi[j + 1] BY Taken
<1> HIDE DEF gj
<1>2. \A j \in 1..L : For(gi[j], p) /\ gi[j].flags # "rst" =>
        /\ st = "OPEN" => Minus(nx, gi[j].ack) <= Minus(nx, ak)
        /\ st = "SYN_SENT" => gi[j].ack = nx
        /\ \A h \in 1..(j - 1) : For(gi[h], p) /\ gi[h].flags # "rst" =>
             Minus(nx, gi[j].ack) <= Minus(nx, gi[h].ack)
        /\ Edge(nx, F, s, gi[j].ack, gi[j].window)
  BY DEF Heard
<1> HIDE DEF L
<1>3. ASSUME NEW j \in 1..(L - 1), For(gj[j], p), gj[j].flags # "rst"
      PROVE  /\ su = "OPEN" => Minus(nx, gj[j].ack) <= Minus(nx, al)
             /\ su = "SYN_SENT" => gj[j].ack = nx
             /\ \A h \in 1..(j - 1) : For(gj[h], p) /\ gj[h].flags # "rst" =>
                  Minus(nx, gj[j].ack) <= Minus(nx, gj[h].ack)
             /\ Edge(nx, F, s, gj[j].ack, gj[j].window)
  <2>0. j \in Nat /\ 1 <= j /\ j <= L - 1 /\ L \in Nat BY <1>1
  <2>1. j + 1 \in 1..L /\ (j + 1) - 1 = j /\ 1 \in 1..j BY <2>0
  <2>2. gj[j] = gi[j + 1] BY <1>1
  <2>3. \A h \in 1..(j - 1) : gj[h] = gi[h + 1] /\ h + 1 \in 1..j
    <3> TAKE h \in 1..(j - 1)
    <3>1. h \in 1..(L - 1) /\ h + 1 \in 1..j BY <2>0
    <3> QED BY <1>1, <3>1
  <2>4. /\ st = "OPEN" => Minus(nx, gi[j + 1].ack) <= Minus(nx, ak)
        /\ st = "SYN_SENT" => gi[j + 1].ack = nx
        /\ \A h \in 1..j : For(gi[h], p) /\ gi[h].flags # "rst" =>
             Minus(nx, gi[j + 1].ack) <= Minus(nx, gi[h].ack)
        /\ Edge(nx, F, s, gi[j + 1].ack, gi[j + 1].window)
    <3>1. For(gi[j + 1], p) /\ gi[j + 1].flags # "rst" BY <1>3, <2>2
    <3> HIDE DEF Edge
    <3> QED BY <1>2, <2>1, <3>1
  <2>5. CASE st = su /\ ak = al BY <2>2, <2>3, <2>4, <2>5
  <2>6. CASE su = "OPEN" /\ For(gi[1], p) /\ gi[1].flags # "rst" /\ al = gi[1].ack
    <3>1. Minus(nx, gi[j + 1].ack) <= Minus(nx, gi[1].ack) BY <2>1, <2>4, <2>6
    <3> QED BY <2>2, <2>3, <2>4, <2>6, <3>1
  <2> QED BY <2>5, <2>6
<1> QED BY <1>1, <1>3 DEF Heard, gj

\* the frames that the guest has queued have numbers
LEMMA QueuedFields ==
  ASSUME NEW gi \in Seq(GuestFrames), NEW j \in 1..Len(gi), NEW p, For(gi[j], p)
  PROVE  gi[j] \in GuestTcp /\ gi[j].ack \in 0..(SEQ - 1) /\ gi[j].window \in Int
<1>1. gi[j] \in GuestFrames OBVIOUS
<1> QED BY <1>1, GuestFor, GuestTcpFields

\* the stream has taken what is under way, or has read, or is closed
LEMMA HeardStream ==
  ASSUME NEW p, NEW st, NEW nx, NEW ak, NEW F, NEW G, NEW s, NEW t, NEW gi \in Seq(GuestFrames),
         Heard(p, st, nx, ak, F, gi, s),
         \A x, w \in Int : Edge(nx, F, s, x, w) => Edge(nx, G, t, x, w)
  PROVE  Heard(p, st, nx, ak, G, gi, t)
<1>1. ASSUME NEW j \in 1..Len(gi), For(gi[j], p), gi[j].flags # "rst"
      PROVE  Edge(nx, G, t, gi[j].ack, gi[j].window)
  <2>1. gi[j].ack \in Int /\ gi[j].window \in Int BY <1>1, QueuedFields
  <2>2. Edge(nx, F, s, gi[j].ack, gi[j].window) BY <1>1 DEF Heard
  <2> QED BY <2>1, <2>2
<1> QED BY <1>1 DEF Heard

\* n more bytes are sent
LEMMA EdgeMore ==
  ASSUME NEW nx \in Int, NEW F \in Nat, NEW n \in Nat, NEW s \in Streams, NEW x \in Int, NEW w \in Int,
         Edge(nx, F, s, x, w), Minus(nx, x) + n < SEQ
  PROVE  Edge((nx + n) % SEQ, F + n, s, x, w)
<1>1. Minus((nx + n) % SEQ, x) = Minus(nx, x) + n /\ Minus(nx, x) \in Int BY MinusMore, MinusIs
<1>2. Len(s.buffer) \in Nat /\ GUEST_WINDOW \in Nat BY StreamFields, WindowFits
<1> DEFINE a == Minus(nx, x)
           b == Minus((nx + n) % SEQ, x)
           l == Len(s.buffer)
<1>3. s.state = "open" => F <= a /\ l + F + w - a <= GUEST_WINDOW BY DEF Edge
<1>4. b = a + n /\ a \in Int /\ l \in Nat /\ GUEST_WINDOW \in Nat BY <1>1, <1>2
<1> HIDE DEF a, b, l
<1>5. s.state = "open" => F + n <= b /\ l + (F + n) + w - b <= GUEST_WINDOW BY <1>3, <1>4
<1> QED BY <1>5 DEF Edge, a, b, l

LEMMA HeardMore ==
  ASSUME NEW p, NEW nx \in Int, NEW ak \in Int, NEW F \in Nat, NEW n \in Nat, NEW s \in Streams,
         NEW gi \in Seq(GuestFrames), Heard(p, "OPEN", nx, ak, F, gi, s), Minus(nx, ak) + n < SEQ
  PROVE  Heard(p, "OPEN", (nx + n) % SEQ, ak, F + n, gi, s)
<1> DEFINE ny == (nx + n) % SEQ
<1>1. ASSUME NEW j \in 1..Len(gi), For(gi[j], p), gi[j].flags # "rst"
      PROVE  /\ Minus(nx, gi[j].ack) <= Minus(nx, ak)
             /\ \A h \in 1..(j - 1) : For(gi[h], p) /\ gi[h].flags # "rst" =>
                  Minus(nx, gi[j].ack) <= Minus(nx, gi[h].ack)
             /\ Edge(nx, F, s, gi[j].ack, gi[j].window)
  BY <1>1 DEF Heard
<1>2. Minus(nx, ak) \in Int /\ SEQ \in Int BY MinusIs, WindowFits
<1>3. ASSUME NEW j \in 1..Len(gi), For(gi[j], p), gi[j].flags # "rst"
      PROVE  /\ gi[j].ack \in Int /\ gi[j].window \in Int /\ Minus(nx, gi[j].ack) \in Int
             /\ Minus(nx, gi[j].ack) + n < SEQ
             /\ Minus(ny, gi[j].ack) = Minus(nx, gi[j].ack) + n
  <2>1. gi[j].ack \in Int /\ gi[j].window \in Int BY <1>3, QueuedFields
  <2>2. Minus(nx, gi[j].ack) \in Int
    <3>1. Minus(nx, gi[j].ack) \in 0..(SEQ - 1) BY <2>1, MinusIs
    <3> QED BY <3>1, WindowFits
  <2>3. Minus(nx, gi[j].ack) + n < SEQ BY <1>1, <1>2, <1>3, <2>2
  <2> QED BY <2>1, <2>2, <2>3, MinusMore
<1>4. Minus(ny, ak) = Minus(nx, ak) + n BY MinusMore
<1> HIDE DEF ny
<1>5. ASSUME NEW j \in 1..Len(gi), For(gi[j], p), gi[j].flags # "rst"
      PROVE  /\ Minus(ny, gi[j].ack) <= Minus(ny, ak)
             /\ \A h \in 1..(j - 1) : For(gi[h], p) /\ gi[h].flags # "rst" =>
                  Minus(ny, gi[j].ack) <= Minus(ny, gi[h].ack)
             /\ Edge(ny, F + n, s, gi[j].ack, gi[j].window)
  <2>1. Minus(ny, gi[j].ack) <= Minus(ny, ak) BY <1>1, <1>2, <1>3, <1>4, <1>5
  <2>2. ASSUME NEW h \in 1..(j - 1), For(gi[h], p), gi[h].flags # "rst"
        PROVE  Minus(ny, gi[j].ack) <= Minus(ny, gi[h].ack)
    <3>1. h \in 1..Len(gi) OBVIOUS
    <3> QED BY <1>1, <1>3, <1>5, <2>2, <3>1
  <2>3. Edge(ny, F + n, s, gi[j].ack, gi[j].window) BY <1>1, <1>3, <1>5, EdgeMore DEF ny
  <2> QED BY <2>1, <2>2, <2>3
<1>6. Heard(p, "OPEN", ny, ak, F + n, gi, s) BY <1>5 DEF Heard
<1> QED BY <1>6 DEF ny

---------------------------------------
(* What the channel has received of the stream. *)

LEMMA NoFrameIs ==
  NoFrame \in HostFrames /\ \A p : ~For(NoFrame, p) /\ Bytes(NoFrame, p) = 0
BY DEF NoFrame, HostFrames, For, Bytes

LEMMA GrantFields ==
  ASSUME NEW h \in HostFrames, NEW p, For(h, p)
  PROVE  /\ h \in HostTcp /\ h.ack \in 0..(SEQ - 1) /\ h.window \in Int
         /\ Minus(h.ack, GUEST_ISN + 1) \in 0..(SEQ - 1) /\ Minus(h.ack, GUEST_ISN + 1) \in Int
<1>1. h \in HostTcp BY HostFrameKinds DEF For
<1>2. h.ack \in 0..(SEQ - 1) /\ h.window \in Int /\ h.ack \in Int BY <1>1, HostTcpFields
<1>3. GUEST_ISN + 1 \in Int BY Consts
<1>4. Minus(h.ack, GUEST_ISN + 1) \in 0..(SEQ - 1) BY <1>2, <1>3, MinusIs
<1>5. Minus(h.ack, GUEST_ISN + 1) \in Int BY <1>4, WindowFits
<1> QED BY <1>1, <1>2, <1>4, <1>5

\* the channel has taken more of the stream than it has in its buffer
LEMMA GrantsMore ==
  ASSUME NEW h \in HostFrames, NEW p, NEW l \in Nat, NEW k \in Nat, NEW r \in Nat, NEW q \in Nat,
         Grants(h, p, l, r), k + r <= l + q
  PROVE  Grants(h, p, k, q)
<1> SUFFICES ASSUME For(h, p), h.flags = "ack"
             PROVE  Minus(h.ack, GUEST_ISN + 1) + h.window + k <= q + RX_SIZE
  BY DEF Grants
<1> DEFINE a == Minus(h.ack, GUEST_ISN + 1)
<1>1. a \in Int /\ h.window \in Int /\ RX_SIZE \in Nat BY GrantFields, WindowFits
<1>2. a + h.window + l <= r + RX_SIZE BY DEF Grants
<1> HIDE DEF a
<1>3. a + h.window + k <= q + RX_SIZE BY <1>1, <1>2
<1> QED BY <1>3 DEF a

LEMMA RoomyMore ==
  ASSUME NEW c \in Channels, NEW d \in Channels, NEW tr \in HostFrames, NEW go \in HostFrames,
         NEW s \in Streams, NEW r \in Nat, NEW q \in Nat, NEW t \in Nat,
         Roomy(c, tr, go, s, r, t), d.local = c.local, Len(d.receive) + r <= Len(c.receive) + q,
         d.state = "SYN_SENT" => q = 0,
         d.state = "OPEN" => d.receive_next = (GUEST_ISN + 1 + q) % SEQ
  PROVE  Roomy(d, tr, go, s, q, t)
<1> DEFINE l == Len(c.receive)
           k == Len(d.receive)
<1>1. l \in Nat /\ k \in Nat /\ k + r <= l + q BY ChannelFields
<1>2. /\ t + l <= r + RX_SIZE
      /\ s.state = "open" => s.acked + s.window + l <= r + RX_SIZE
      /\ Grants(go, c.local, l, r) /\ Grants(tr, c.local, l, r)
  BY DEF Roomy
<1> HIDE DEF l, k
<1>3. s.acked \in Int /\ s.window \in Int /\ RX_SIZE \in Nat BY StreamFields, WindowFits
<1>4. t + k <= q + RX_SIZE BY <1>1, <1>2, <1>3
<1>5. s.state = "open" => s.acked + s.window + k <= q + RX_SIZE BY <1>1, <1>2, <1>3
<1>6. Grants(go, d.local, k, q) /\ Grants(tr, d.local, k, q) BY <1>1, <1>2, GrantsMore
<1> QED BY <1>4, <1>5, <1>6 DEF Roomy, k

LEMMA ReceivedLess ==
  ASSUME NEW c \in Channels, NEW d \in Channels, NEW tr \in HostFrames, NEW go \in HostFrames,
         NEW gi \in Seq(GuestFrames), NEW s \in Streams, Received(c, tr, gi, go, s),
         d.local = c.local, d.state = c.state, d.receive_next = c.receive_next,
         Len(d.receive) <= Len(c.receive)
  PROVE  Received(d, tr, gi, go, s)
<1>1. PICK r \in Nat, t \in Nat :
         Counted(c.local, gi, s.state, s.sent, r, t) /\ Roomy(c, tr, go, s, r, t)
  BY DEF Received
<1>3. Len(d.receive) + r <= Len(c.receive) + r BY ChannelFields
<1>4. /\ d.state = "SYN_SENT" => r = 0
      /\ d.state = "OPEN" => d.receive_next = (GUEST_ISN + 1 + r) % SEQ
  BY <1>1 DEF Roomy
<1>5. Roomy(d, tr, go, s, r, t) BY <1>1, <1>3, <1>4, RoomyMore
<1> QED BY <1>1, <1>5 DEF Received

\* the frames under way tell the guest nothing else than before
LEMMA ReceivedOut ==
  ASSUME NEW c, NEW tr, NEW go, NEW tq, NEW gq, NEW gi, NEW s, Received(c, tr, gi, go, s),
         \A h \in {tq, gq} : For(h, c.local) => h \in {tr, go}
  PROVE  Received(c, tq, gi, gq, s)
<1>1. PICK r \in Nat, t \in Nat :
         Counted(c.local, gi, s.state, s.sent, r, t) /\ Roomy(c, tr, go, s, r, t)
  BY DEF Received
<1>2. Grants(gq, c.local, Len(c.receive), r) /\ Grants(tq, c.local, Len(c.receive), r)
  BY <1>1 DEF Roomy, Grants
<1>3. Roomy(c, tq, gq, s, r, t) BY <1>1, <1>2 DEF Roomy
<1> QED BY <1>1, <1>3 DEF Received

\* the guest queues a frame, and the stream goes on as u
LEMMA ReceivedAppend ==
  ASSUME NEW c \in Channels, NEW tr, NEW go, NEW gi \in Seq(GuestFrames), NEW g \in GuestFrames,
         NEW s \in Streams, NEW u \in Streams, Received(c, tr, gi, go, s),
         Answered(c.local, c.state, gi, s.state),
         For(g, c.local) => IF s.state = "open" THEN g.sent = s.sent ELSE g.flags = "rst",
         u.state = "open" => /\ s.state = "open" /\ u.sent = s.sent + Bytes(g, c.local)
                             /\ u.acked = s.acked /\ u.window = s.window,
         Bytes(g, c.local) > 0 =>
           s.state = "open" /\ s.sent + Bytes(g, c.local) <= s.acked + s.window
  PROVE  Received(c, tr, Append(gi, g), go, u)
<1> DEFINE p == c.local
           b == Bytes(g, p)
           l == Len(c.receive)
<1>1. b \in Nat BY BytesIs
<1>2. PICK r \in Nat, t \in Nat :
         Counted(p, gi, s.state, s.sent, r, t) /\ Roomy(c, tr, go, s, r, t)
  BY DEF Received
<1>3. s.state = "open" => t = s.sent BY <1>2, CountedFacts
<1>4. For(g, p) => \/ g.sent = t
                   \/ g.flags = "rst" /\ \E h \in 1..Len(gi) : For(gi[h], p) /\ gi[h].flags = "rst"
  BY <1>3 DEF Answered
<1>5. u.state = "open" => u.sent = t + b BY <1>3
<1>6. Counted(p, Append(gi, g), u.state, u.sent, r, t + b) BY <1>2, <1>4, <1>5, CountedAppend
<1>7. /\ c.state = "SYN_SENT" => r = 0
      /\ c.state = "OPEN" => c.receive_next = (GUEST_ISN + 1 + r) % SEQ
      /\ t + l <= r + RX_SIZE
      /\ s.state = "open" => s.acked + s.window + l <= r + RX_SIZE
      /\ Grants(go, p, l, r) /\ Grants(tr, p, l, r)
  BY <1>2 DEF Roomy
<1>8. /\ b > 0 => s.state = "open" /\ s.sent + b <= s.acked + s.window
      /\ u.state = "open" => s.state = "open" /\ u.acked = s.acked /\ u.window = s.window
  OBVIOUS
<1>9. l \in Nat /\ RX_SIZE \in Nat /\ s.acked \in Int /\ s.window \in Int /\ s.sent \in Nat
  BY ChannelFields, WindowFits, StreamFields
<1> HIDE DEF l, b, p
<1>10. (t + b) + l <= r + RX_SIZE
  <2>1. CASE b = 0 BY <1>7, <1>9, <2>1
  <2>2. CASE b > 0
    <3>1. t + b <= s.acked + s.window BY <1>3, <1>8, <2>2
    <3> QED BY <3>1, <1>1, <1>7, <1>8, <1>9, <2>2
  <2> QED BY <1>1, <2>1, <2>2
<1>11. u.state = "open" => u.acked + u.window + l <= r + RX_SIZE BY <1>7, <1>8
<1>12. Roomy(c, tr, go, u, r, t + b) BY <1>7, <1>10, <1>11 DEF Roomy, l, p
<1>13. t + b \in Nat BY <1>1
<1> QED BY <1>6, <1>12, <1>13 DEF Received, p

LEMMA ReceivedTail ==
  ASSUME NEW c \in Channels, NEW d \in Channels, NEW tr \in HostFrames, NEW go \in HostFrames,
         NEW gi \in Seq(GuestFrames), gi # <<>>, NEW s \in Streams,
         Received(c, tr, gi, go, s), d.local = c.local,
         For(gi[1], c.local) => gi[1].flags # "rst",
         Len(d.receive) <= Len(c.receive) + Bytes(gi[1], c.local),
         d.state = "SYN_SENT" => c.state = "SYN_SENT" /\ ~For(gi[1], c.local),
         d.state = "OPEN" =>
           \/ c.state = "OPEN" /\ d.receive_next = (c.receive_next + Bytes(gi[1], c.local)) % SEQ
           \/ /\ c.state = "SYN_SENT" /\ Bytes(gi[1], c.local) = 0
              /\ d.receive_next = (GUEST_ISN + 1) % SEQ
  PROVE  Received(d, tr, Tail(gi), go, s)
<1> DEFINE p == c.local
           b == Bytes(gi[1], p)
<1>1. b \in Nat BY Taken, BytesIs
<1>2. PICK r \in Nat, t \in Nat :
         Counted(p, gi, s.state, s.sent, r, t) /\ Roomy(c, tr, go, s, r, t)
  BY DEF Received
<1>3. Counted(p, Tail(gi), s.state, s.sent, r + b, t) BY <1>2, CountedTail
<1>4. /\ c.state = "SYN_SENT" => r = 0
      /\ c.state = "OPEN" => c.receive_next = (GUEST_ISN + 1 + r) % SEQ
  BY <1>2 DEF Roomy
<1>5. ~For(gi[1], p) => b = 0 BY Taken, BytesIs
<1>6. d.state = "OPEN" => \/ c.state = "OPEN" /\ d.receive_next = (c.receive_next + b) % SEQ
                          \/ /\ c.state = "SYN_SENT" /\ b = 0
                             /\ d.receive_next = (GUEST_ISN + 1) % SEQ
  OBVIOUS
<1>7. d.state = "SYN_SENT" => c.state = "SYN_SENT" /\ ~For(gi[1], p) OBVIOUS
<1>8. Len(d.receive) <= Len(c.receive) + b /\ Len(d.receive) \in Nat /\ Len(c.receive) \in Nat
  BY ChannelFields
<1>9. d.local = p OBVIOUS
<1> HIDE DEF b, p
<1>10. d.state = "SYN_SENT" => r + b = 0 BY <1>4, <1>5, <1>7
<1>11. d.state = "OPEN" => d.receive_next = (GUEST_ISN + 1 + (r + b)) % SEQ
  <2>1. (((GUEST_ISN + 1 + r) % SEQ) + b) % SEQ = (GUEST_ISN + 1 + (r + b)) % SEQ
    <3>1. GUEST_ISN + 1 \in Int /\ r \in Int /\ b \in Int BY <1>1, Consts
    <3> QED BY <3>1, ModPlus
  <2>2. CASE d.state = "OPEN" /\ c.state = "OPEN" BY <1>4, <1>6, <2>1, <2>2
  <2>3. CASE d.state = "OPEN" /\ c.state # "OPEN"
    <3>1. r = 0 /\ b = 0 /\ d.receive_next = (GUEST_ISN + 1) % SEQ BY <1>4, <1>6, <2>3
    <3>2. GUEST_ISN + 1 + (r + b) = GUEST_ISN + 1 BY <3>1, Consts
    <3> QED BY <3>1, <3>2, <2>3
  <2> QED BY <2>2, <2>3
<1>12. Len(d.receive) + r <= Len(c.receive) + (r + b) /\ r + b \in Nat
  <2> DEFINE l == Len(c.receive)
             k == Len(d.receive)
  <2>1. k <= l + b /\ k \in Nat /\ l \in Nat BY <1>8
  <2> HIDE DEF l, k
  <2>2. k + r <= l + (r + b) /\ r + b \in Nat BY <1>1, <2>1
  <2> QED BY <2>2 DEF l, k
<1>13. Roomy(d, tr, go, s, r + b, t) BY <1>2, <1>10, <1>11, <1>12, RoomyMore
<1> QED BY <1>3, <1>9, <1>12, <1>13 DEF Received

---------------------------------------
(* One stream, step by step: what each operation does to Flowing. *)

LEMMA MinusInt ==
  ASSUME NEW a \in Int, NEW b \in Int
  PROVE  Minus(a, b) \in Int /\ Minus(a, b) \in Nat /\ Minus(a, b) < SEQ
<1>1. Minus(a, b) \in 0..(SEQ - 1) BY MinusIs
<1> HIDE DEF Minus
<1> QED BY <1>1, WindowFits

LEMMA SendingIs ==
  ASSUME NEW tr \in HostFrames, NEW go \in HostFrames, NEW p
  PROVE  /\ Sending(p, tr, go) \in Nat /\ Bytes(tr, p) \in Nat /\ Bytes(go, p) \in Nat
         /\ Sending(p, tr, go) = Bytes(go, p) + Bytes(tr, p)
  BY BytesIs DEF Sending

\* what the two ends of an open stream know of each other
LEMMA SentFacts ==
  ASSUME NEW c \in Channels, NEW F \in Nat, NEW s \in Streams, Sent(c, F, s), s.state = "open"
  PROVE  /\ c.send_next = (s.next + F) % SEQ /\ Len(s.buffer) + F <= GUEST_WINDOW
         /\ F < SEQ /\ Minus(c.send_next, s.next) = F
         /\ c.state = "OPEN" => F <= Minus(c.send_next, c.send_acked)
<1>1. /\ c.send_next = (s.next + F) % SEQ /\ Len(s.buffer) + F <= GUEST_WINDOW
      /\ c.state = "OPEN" => F <= Minus(c.send_next, c.send_acked)
  BY DEF Sent, Edge
<1>2. F < SEQ
  <2> DEFINE l == Len(s.buffer)
  <2>1. l \in Nat /\ l + F <= GUEST_WINDOW BY <1>1, StreamFields
  <2> HIDE DEF l
  <2> QED BY <2>1, WindowFits
<1>3. s.next \in Int BY StreamFields, WindowFits
<1> QED BY <1>1, <1>2, <1>3, MinusSame

\* the client has read, or written
LEMMA FlowLess ==
  ASSUME NEW c \in Channels, NEW d \in Channels, NEW tr \in HostFrames, NEW go \in HostFrames,
         NEW gi \in Seq(GuestFrames), NEW s \in Streams, Flowing(c, tr, gi, go, s),
         d.local = c.local, d.state = c.state, d.receive_next = c.receive_next,
         d.send_next = c.send_next, d.send_acked = c.send_acked, d.peer_window = c.peer_window,
         Len(d.receive) <= Len(c.receive)
  PROVE  Flowing(d, tr, gi, go, s)
<1>1. Received(d, tr, gi, go, s) BY ReceivedLess DEF Flowing
<1>2. Sent(d, Sending(c.local, tr, go), s) BY DEF Flowing, Sent
<1> QED BY <1>1, <1>2 DEF Flowing

\* the frames on their way to the guest are others, with the same bytes of the stream
LEMMA FlowOut ==
  ASSUME NEW c, NEW tr, NEW go, NEW tq, NEW gq, NEW gi, NEW s, Flowing(c, tr, gi, go, s),
         \A h \in {tq, gq} : For(h, c.local) => h \in {tr, go},
         Sending(c.local, tq, gq) = Sending(c.local, tr, go)
  PROVE  Flowing(c, tq, gi, gq, s)
<1>1. Received(c, tq, gi, gq, s) BY ReceivedOut DEF Flowing
<1> QED BY <1>1 DEF Flowing

\* the stream is not open, and the guest has taken what it was handed
LEMMA FlowDeaf ==
  ASSUME NEW c, NEW tr, NEW go, NEW gi \in Seq(GuestFrames), NEW s, Flowing(c, tr, gi, go, s), s.state # "open"
  PROVE  Flowing(c, tr, gi, NoFrame, s)
<1>1. Received(c, tr, gi, NoFrame, s)
  <2>1. \A h \in {tr, NoFrame} : For(h, c.local) => h \in {tr, go} BY NoFrameIs
  <2> QED BY <2>1, ReceivedOut DEF Flowing
<1> DEFINE F == Sending(c.local, tr, go)
           G == Sending(c.local, tr, NoFrame)
<1>2. Heard(c.local, c.state, c.send_next, c.send_acked, G, gi, s)
  <2>1. Heard(c.local, c.state, c.send_next, c.send_acked, F, gi, s) BY DEF Flowing
  <2>2. \A x, w \in Int : Edge(c.send_next, F, s, x, w) => Edge(c.send_next, G, s, x, w) BY DEF Edge
  <2> HIDE DEF F, G
  <2> QED BY <2>1, <2>2, HeardStream
<1>3. Sent(c, G, s) BY DEF Flowing, Sent, Edge
<1> QED BY <1>1, <1>2, <1>3 DEF Flowing

\* the guest queues an answer or a reset, and the stream goes on as u
LEMMA FlowAppend ==
  ASSUME NEW c \in Channels, NEW tr \in HostFrames, NEW go \in HostFrames,
         NEW gi \in Seq(GuestFrames), NEW g \in GuestFrames, NEW s \in Streams, NEW u \in Streams,
         Flowing(c, tr, gi, go, s), c.state = "SYN_SENT" => Sending(c.local, tr, go) = 0,
         For(g, c.local) =>
           /\ g.flags \in {"ack", "rst"}
           /\ IF s.state = "open" THEN g.sent = s.sent ELSE g.flags = "rst"
           /\ g.flags = "rst" => u.state # "open"
           /\ g.flags = "ack" => g.ack = s.next /\ Len(s.buffer) + g.window <= GUEST_WINDOW,
         u.state = "open" => /\ s.state = "open" /\ u.sent = s.sent + Bytes(g, c.local)
                             /\ u.acked = s.acked /\ u.window = s.window /\ u.next = s.next
                             /\ u.buffer = s.buffer,
         u.state # "open" => s.state # "open" \/ (For(g, c.local) /\ g.flags = "rst"),
         Bytes(g, c.local) > 0 =>
           s.state = "open" /\ s.sent + Bytes(g, c.local) <= s.acked + s.window
  PROVE  Flowing(c, tr, Append(gi, g), go, u)
<1> DEFINE p == c.local
           F == Sending(p, tr, go)
           nx == c.send_next
<1>1. F \in Nat BY SendingIs
<1>2. /\ Ordered(p, c.state, gi, s.state) /\ Answered(p, c.state, gi, s.state)
      /\ Received(c, tr, gi, go, s) /\ Heard(p, c.state, nx, c.send_acked, F, gi, s)
      /\ Sent(c, F, s)
  BY DEF Flowing
<1>3. Ordered(p, c.state, Append(gi, g), u.state)
  <2>1. c.state = "SYN_SENT" => \E j \in 1..Len(gi) : For(gi[j], p) BY <1>2 DEF Answered
  <2> QED BY <1>2, <2>1, OrderedAppend
<1>4. Answered(p, c.state, Append(gi, g), u.state) BY <1>2, AnsweredAppend
<1>5. Received(c, tr, Append(gi, g), go, u) BY <1>2, ReceivedAppend
<1>6. s.state = "open" =>
        /\ nx = (s.next + F) % SEQ /\ Len(s.buffer) + F <= GUEST_WINDOW
        /\ F < SEQ /\ Minus(nx, s.next) = F
        /\ c.state = "OPEN" => F <= Minus(nx, c.send_acked)
  BY <1>1, <1>2, SentFacts
<1>7. ASSUME For(g, p), g.flags # "rst"
      PROVE  /\ c.state = "OPEN" => Minus(nx, g.ack) <= Minus(nx, c.send_acked)
             /\ c.state = "SYN_SENT" => g.ack = nx
             /\ \A h \in 1..Len(gi) : For(gi[h], p) /\ gi[h].flags # "rst" =>
                  Minus(nx, g.ack) <= Minus(nx, gi[h].ack)
             /\ Edge(nx, F, s, g.ack, g.window)
  <2>1. s.state = "open" /\ g.ack = s.next /\ Len(s.buffer) + g.window <= GUEST_WINDOW BY <1>7
  <2>2. Minus(nx, g.ack) = F BY <1>6, <2>1
  <2>3. c.state = "SYN_SENT" => g.ack = nx
    <3> SUFFICES ASSUME c.state = "SYN_SENT" PROVE s.next = nx
      BY <2>1
    <3>1. F = 0 OBVIOUS
    <3>2. s.next \in 0..(SEQ - 1) /\ s.next + 0 = s.next BY StreamFields, WindowFits
    <3>3. s.next % SEQ = s.next BY <3>2, SmallMod
    <3> QED BY <1>6, <2>1, <3>1, <3>2, <3>3
  <2>4. ASSUME NEW h \in 1..Len(gi), For(gi[h], p), gi[h].flags # "rst"
        PROVE  F <= Minus(nx, gi[h].ack)
    <3>1. Edge(nx, F, s, gi[h].ack, gi[h].window) BY <1>2, <2>4 DEF Heard
    <3> QED BY <2>1, <3>1 DEF Edge
  <2>5. Edge(nx, F, s, g.ack, g.window)
    <3> DEFINE l == Len(s.buffer)
               w == g.window
    <3>1. l \in Nat /\ w \in Int /\ l + w <= GUEST_WINDOW
      BY <1>7, <2>1, StreamFields, GuestFor, GuestTcpFields
    <3> HIDE DEF l, w
    <3>2. F <= F /\ l + F + w - F <= GUEST_WINDOW BY <1>1, <3>1, WindowFits
    <3> QED BY <2>2, <3>2 DEF Edge, l, w
  <2> QED BY <1>6, <2>1, <2>2, <2>3, <2>4, <2>5
<1>8. Heard(p, c.state, nx, c.send_acked, F, Append(gi, g), s)
  <2> HIDE DEF p, F, nx
  <2> QED BY <1>2, <1>7, HeardAppend
<1>9. Heard(p, c.state, nx, c.send_acked, F, Append(gi, g), u)
  <2>1. \A x, w \in Int : Edge(nx, F, s, x, w) => Edge(nx, F, u, x, w) BY DEF Edge
  <2>2. Append(gi, g) \in Seq(GuestFrames) BY Queued
  <2> HIDE DEF p, F, nx
  <2> QED BY <1>8, <2>1, <2>2, HeardStream
<1>10. Sent(c, F, u) BY <1>2 DEF Sent, Edge
<1> QED BY <1>3, <1>4, <1>5, <1>9, <1>10 DEF Flowing

\* the stream has read its buffer
LEMMA FlowRead ==
  ASSUME NEW c \in Channels, NEW tr \in HostFrames, NEW go \in HostFrames,
         NEW gi \in Seq(GuestFrames), NEW s \in Streams, NEW u \in Streams,
         Flowing(c, tr, gi, go, s), u.state = s.state, u.sent = s.sent, u.acked = s.acked,
         u.window = s.window, u.next = s.next, Len(u.buffer) <= Len(s.buffer)
  PROVE  Flowing(c, tr, gi, go, u)
<1> DEFINE F == Sending(c.local, tr, go)
           nx == c.send_next
<1>1. F \in Nat BY SendingIs
<1>2. ASSUME NEW x \in Int, NEW w \in Int, Edge(nx, F, s, x, w) PROVE Edge(nx, F, u, x, w)
  <2> DEFINE k == Len(u.buffer)
             l == Len(s.buffer)
             m == Minus(nx, x)
  <2>1. k \in Nat /\ l \in Nat /\ k <= l BY StreamFields
  <2>2. m \in Int
    <3>1. nx \in Int BY ChannelFields, WindowFits
    <3> QED BY <3>1, MinusInt
  <2>3. s.state = "open" => F <= m /\ l + F + w - m <= GUEST_WINDOW BY <1>2 DEF Edge
  <2> HIDE DEF k, l, m, F, nx
  <2>4. s.state = "open" => F <= m /\ k + F + w - m <= GUEST_WINDOW
    BY <1>1, <2>1, <2>2, <2>3, WindowFits
  <2> QED BY <2>4 DEF Edge, k, m
<1>3. Heard(c.local, c.state, nx, c.send_acked, F, gi, u)
  <2>1. Heard(c.local, c.state, nx, c.send_acked, F, gi, s) BY DEF Flowing
  <2> HIDE DEF F, nx
  <2> QED BY <1>2, <2>1, HeardStream
<1>4. Sent(c, F, u)
  <2>1. Sent(c, F, s) BY DEF Flowing
  <2>2. c.state = "OPEN" => Edge(nx, F, u, c.send_acked, c.peer_window)
    <3>1. c.send_acked \in Int /\ c.peer_window \in Int BY ChannelFields, WindowFits
    <3> HIDE DEF F
    <3> QED BY <1>2, <2>1, <3>1 DEF Sent
  <2>3. u.state = "open" => Len(u.buffer) + F <= GUEST_WINDOW
    <3> DEFINE k == Len(u.buffer)
               l == Len(s.buffer)
    <3>1. k \in Nat /\ l \in Nat /\ k <= l BY StreamFields
    <3>2. u.state = "open" => l + F <= GUEST_WINDOW BY <2>1 DEF Sent
    <3> HIDE DEF k, l, F
    <3>3. u.state = "open" => k + F <= GUEST_WINDOW BY <1>1, <3>1, <3>2, WindowFits
    <3> QED BY <3>3 DEF k
  <2> HIDE DEF F
  <2> QED BY <2>1, <2>2, <2>3 DEF Sent, nx
<1>5. Received(c, tr, gi, go, u) BY DEF Flowing, Received, Roomy
<1> QED BY <1>3, <1>4, <1>5 DEF Flowing, nx

\* the stream takes the bytes of the frame the guest was handed, and its acknowledgement
LEMMA FlowTake ==
  ASSUME NEW c \in Channels, NEW tr \in HostFrames, NEW go \in HostFrames,
         NEW gi \in Seq(GuestFrames), NEW s \in Streams, Flowing(c, tr, gi, go, s),
         For(go, c.local), go.flags = "ack", s.state = "open"
  PROVE  Flowing(c, tr, gi, NoFrame, StreamAfter(s, go))
<1> DEFINE p == c.local
           t == StreamAfter(s, go)
           F == Sending(p, tr, go)
           G == Sending(p, tr, NoFrame)
           b == Len(go.data)
           nx == c.send_next
<1>1. go \in HostTcp BY GrantFields
<1>2. /\ t \in Streams /\ t.state = "open" /\ t.window = go.window /\ t.sent = s.sent
      /\ t.acked = Minus(go.ack, GUEST_ISN + 1) /\ t.next = (s.next + b) % SEQ
      /\ t.buffer = s.buffer \o go.data
  BY <1>1, StreamAfterTyped
<1>3. F \in Nat /\ G \in Nat /\ b \in Nat /\ F = b + G
  <2>1. Bytes(go, p) = b /\ Bytes(NoFrame, p) = 0 /\ b \in Nat
    BY <1>1, BytesIs, NoFrameIs, HostTcpFields
  <2>2. /\ F \in Nat /\ Bytes(tr, p) \in Nat /\ F = Bytes(go, p) + Bytes(tr, p)
        /\ G \in Nat /\ G = Bytes(NoFrame, p) + Bytes(tr, p)
    BY SendingIs, NoFrameIs
  <2> HIDE DEF F, G, b
  <2> QED BY <2>1, <2>2
<1>4. Len(t.buffer) = Len(s.buffer) + b /\ Len(s.buffer) \in Nat
  <2>1. s.buffer \in Seq(UpBytes) /\ go.data \in Seq(UpBytes) BY <1>1, StreamFields, HostTcpFields
  <2>2. Len(s.buffer \o go.data) = Len(s.buffer) + b BY <2>1, ConcatFacts
  <2> QED BY <1>2, <2>1, <2>2
<1>5. /\ Ordered(p, c.state, gi, s.state) /\ Answered(p, c.state, gi, s.state)
      /\ Received(c, tr, gi, go, s) /\ Heard(p, c.state, nx, c.send_acked, F, gi, s)
      /\ Sent(c, F, s)
  BY DEF Flowing
<1> HIDE DEF t, F, G, b
<1>6. ASSUME NEW x \in Int, NEW w \in Int, Edge(nx, F, s, x, w) PROVE Edge(nx, G, t, x, w)
  <2> DEFINE l == Len(s.buffer)
             k == Len(t.buffer)
             m == Minus(nx, x)
  <2>1. m \in Int
    <3>1. nx \in Int BY ChannelFields, WindowFits
    <3> QED BY <3>1, MinusInt
  <2>2. F <= m /\ l + F + w - m <= GUEST_WINDOW BY <1>6 DEF Edge
  <2>3. k = l + b /\ l \in Nat BY <1>4
  <2> HIDE DEF l, k, m
  <2>4. G <= m /\ k + G + w - m <= GUEST_WINDOW BY <1>3, <2>1, <2>2, <2>3, WindowFits
  <2> QED BY <2>4 DEF Edge, k, m
<1>7. Heard(p, c.state, nx, c.send_acked, G, gi, t)
  <2> HIDE DEF nx, p
  <2> QED BY <1>5, <1>6, HeardStream
<1>8. Sent(c, G, t)
  <2>1. c.state = "OPEN" => Edge(nx, G, t, c.send_acked, c.peer_window)
    <3>1. c.send_acked \in Int /\ c.peer_window \in Int BY ChannelFields, WindowFits
    <3> QED BY <1>5, <1>6, <3>1 DEF Sent
  <2>2. nx = (t.next + G) % SEQ
    <3>1. nx = (s.next + F) % SEQ /\ s.next \in Int BY <1>5, StreamFields, WindowFits DEF Sent
    <3>2. (((s.next + b) % SEQ) + G) % SEQ = (s.next + (b + G)) % SEQ
      <4>1. b \in Int /\ G \in Int BY <1>3
      <4> QED BY <3>1, <4>1, ModPlus
    <3> QED BY <1>2, <1>3, <3>1, <3>2
  <2>3. Len(t.buffer) + G <= GUEST_WINDOW
    <3> DEFINE l == Len(s.buffer)
               k == Len(t.buffer)
    <3>1. l + F <= GUEST_WINDOW /\ k = l + b /\ l \in Nat BY <1>4, <1>5 DEF Sent
    <3> HIDE DEF l, k
    <3>2. k + G <= GUEST_WINDOW BY <1>3, <3>1, WindowFits
    <3> QED BY <3>2 DEF k
  <2> QED BY <2>1, <2>2, <2>3 DEF Sent, nx
<1>9. Received(c, tr, gi, NoFrame, t)
  <2>1. PICK r \in Nat, x \in Nat :
          Counted(p, gi, s.state, s.sent, r, x) /\ Roomy(c, tr, go, s, r, x)
    BY <1>5 DEF Received
  <2>2. Counted(p, gi, t.state, t.sent, r, x) BY <1>2, <2>1
  <2>3. t.acked + t.window + Len(c.receive) <= r + RX_SIZE BY <1>2, <2>1 DEF Roomy, Grants
  <2>4. Grants(NoFrame, p, Len(c.receive), r) BY NoFrameIs DEF Grants
  <2>5. Roomy(c, tr, NoFrame, t, r, x) BY <2>1, <2>3, <2>4 DEF Roomy
  <2> QED BY <2>2, <2>5 DEF Received
<1> QED BY <1>2, <1>5, <1>7, <1>8, <1>9 DEF Flowing, t, G, nx

\* the mux takes a frame that is not the stream's
LEMMA FlowTail ==
  ASSUME NEW c \in Channels, NEW tr \in HostFrames, NEW go \in HostFrames,
         NEW gi \in Seq(GuestFrames), gi # <<>>, NEW s \in Streams,
         Flowing(c, tr, gi, go, s), ~For(gi[1], c.local)
  PROVE  Flowing(c, tr, Tail(gi), go, s)
<1> DEFINE p == c.local
           F == Sending(p, tr, go)
<1>1. /\ Ordered(p, c.state, gi, s.state) /\ Answered(p, c.state, gi, s.state)
      /\ Received(c, tr, gi, go, s) /\ Heard(p, c.state, c.send_next, c.send_acked, F, gi, s)
      /\ Sent(c, F, s)
  BY DEF Flowing
<1>2. Ordered(p, c.state, Tail(gi), s.state) /\ Answered(p, c.state, Tail(gi), s.state)
  BY <1>1, OrderedTail, AnsweredTail
<1>3. Heard(p, c.state, c.send_next, c.send_acked, F, Tail(gi), s)
  <2> HIDE DEF F
  <2> QED BY <1>1, HeardTail
<1>4. Received(c, tr, Tail(gi), go, s)
  <2>1. Bytes(gi[1], p) = 0 BY Taken, BytesIs
  <2>2. c.receive_next = (c.receive_next + 0) % SEQ
    <3>1. c.receive_next \in 0..(SEQ - 1) /\ c.receive_next + 0 = c.receive_next
      BY ChannelFields, WindowFits
    <3> QED BY <3>1, SmallMod
  <2>3. Len(c.receive) <= Len(c.receive) + 0
    <3> DEFINE l == Len(c.receive)
    <3>1. l \in Nat BY ChannelFields
    <3> HIDE DEF l
    <3>2. l <= l + 0 BY <3>1
    <3> QED BY <3>2 DEF l
  <2> QED BY <1>1, <2>1, <2>2, <2>3, ReceivedTail
<1> QED BY <1>1, <1>2, <1>3, <1>4 DEF Flowing

\* the mux takes the stream's next frame: the channel becomes d
LEMMA FlowNext ==
  ASSUME NEW c \in Channels, NEW d \in Channels, NEW tr \in HostFrames, NEW go \in HostFrames,
         NEW gi \in Seq(GuestFrames), gi # <<>>, NEW s \in Streams,
         Flowing(c, tr, gi, go, s), For(gi[1], c.local), gi[1].flags # "rst",
         d.local = c.local, d.state = "OPEN", d.send_next = c.send_next,
         d.send_acked = gi[1].ack, d.peer_window = gi[1].window,
         Len(d.receive) <= Len(c.receive) + Len(gi[1].data),
         \/ c.state = "OPEN" /\ d.receive_next = (c.receive_next + Len(gi[1].data)) % SEQ
         \/ /\ c.state = "SYN_SENT" /\ Len(gi[1].data) = 0
            /\ d.receive_next = (GUEST_ISN + 1) % SEQ
  PROVE  Flowing(d, tr, Tail(gi), go, s)
<1> DEFINE p == c.local
           F == Sending(p, tr, go)
           f == gi[1]
<1>1. /\ Ordered(p, c.state, gi, s.state) /\ Answered(p, c.state, gi, s.state)
      /\ Received(c, tr, gi, go, s) /\ Heard(p, c.state, c.send_next, c.send_acked, F, gi, s)
      /\ Sent(c, F, s)
  BY DEF Flowing
<1>2. Ordered(p, "OPEN", Tail(gi), s.state) /\ Answered(p, "OPEN", Tail(gi), s.state)
  BY <1>1, OrderedTail, AnsweredTail
<1>3. Heard(p, "OPEN", c.send_next, f.ack, F, Tail(gi), s)
  <2> DEFINE su == "OPEN"
             al == f.ack
  <2>1. su = "OPEN" /\ For(gi[1], p) /\ gi[1].flags # "rst" /\ al = gi[1].ack OBVIOUS
  <2> SUFFICES Heard(p, su, c.send_next, al, F, Tail(gi), s)
    OBVIOUS
  <2> HIDE DEF F, su, al, f
  <2> QED BY <1>1, <2>1, HeardTail
<1>4. Received(d, tr, Tail(gi), go, s)
  <2>1. Bytes(gi[1], p) = Len(gi[1].data) BY Taken, BytesIs
  <2> QED BY <1>1, <2>1, ReceivedTail
<1>5. Edge(c.send_next, F, s, f.ack, f.window)
  <2>1. Len(gi) \in Nat \ {0} /\ 1 \in 1..Len(gi) BY Taken
  <2> HIDE DEF F
  <2> QED BY <1>1, <2>1 DEF Heard
<1>6. Sent(d, F, s)
  <2> HIDE DEF F
  <2> QED BY <1>1, <1>5 DEF Sent
<1> QED BY <1>2, <1>3, <1>4, <1>6 DEF Flowing

LEMMA OpenedIs ==
  ASSUME NEW c \in Channels, NEW f \in GuestTcp
  PROVE  LET d == Opened(c, f) IN
         /\ d.local = c.local /\ d.state = "OPEN" /\ d.send_next = c.send_next
         /\ d.send_acked = f.ack /\ d.peer_window = f.window /\ d.receive = c.receive
         /\ d.receive_next = (f.seq + 1) % SEQ /\ d.why = c.why
  BY DEF Opened, Channels

LEMMA FilledIs ==
  ASSUME NEW c \in Channels, NEW f \in GuestTcp
  PROVE  LET d == Filled(AckedBy(c, f), f) IN
         /\ d.local = c.local /\ d.state = c.state /\ d.send_next = c.send_next
         /\ d.send_acked = f.ack /\ d.peer_window = f.window /\ d.receive = c.receive \o f.data
         /\ Len(d.receive) = Len(c.receive) + Len(f.data)
         /\ d.receive_next = (c.receive_next + Len(f.data)) % SEQ /\ d.why = c.why
<1> DEFINE a == AckedBy(c, f)
           b == c.receive \o f.data
           x == (c.receive_next + Len(f.data)) % SEQ
           z == c.ack_pending \/ f.data # <<>>
<1>1. a = [c EXCEPT !.send_acked = f.ack, !.peer_window = f.window] BY DEF AckedBy
<1>2. Filled(a, f) = [a EXCEPT !.receive = b, !.receive_next = x, !.ack_pending = z]
  <2>1. a.receive = c.receive /\ a.receive_next = c.receive_next /\ a.ack_pending = c.ack_pending
    BY <1>1 DEF Channels
  <2> HIDE DEF a
  <2> QED BY <2>1 DEF Filled
<1>3. Len(b) = Len(c.receive) + Len(f.data)
  <2>1. c.receive \in Seq(DownBytes) /\ f.data \in Seq(DownBytes) BY ChannelFields, GuestTcpFields
  <2> QED BY <2>1, ConcatFacts
<1> HIDE DEF a, b, x, z
<1>4. LET d == [a EXCEPT !.receive = b, !.receive_next = x, !.ack_pending = z] IN
      /\ d.local = c.local /\ d.state = c.state /\ d.send_next = c.send_next
      /\ d.send_acked = f.ack /\ d.peer_window = f.window /\ d.receive = b
      /\ d.receive_next = x /\ d.why = c.why
  BY <1>1 DEF Channels
<1> QED BY <1>2, <1>3, <1>4 DEF a, b, x

\* a guest that keeps to the protocol gets no complaint: its frame f is the next one
LEMMA AnswerIs ==
  ASSUME NEW c \in Channels, NEW tr \in HostFrames, NEW go \in HostFrames,
         NEW gi \in Seq(GuestFrames), gi # <<>>, NEW s \in Streams,
         Flowing(c, tr, gi, go, s), For(gi[1], c.local), gi[1].flags # "rst"
  PROVE  /\ c.state = "SYN_SENT" =>
              /\ Answer(c, gi[1]) = Opened(c, gi[1]) /\ gi[1].seq = GUEST_ISN
              /\ Len(gi[1].data) = 0
         /\ c.state = "OPEN" => Answer(c, gi[1]) = Filled(AckedBy(c, gi[1]), gi[1])
<1> DEFINE p == c.local
           F == Sending(p, tr, go)
           f == gi[1]
<1>1. /\ Ordered(p, c.state, gi, s.state)
      /\ Received(c, tr, gi, go, s) /\ Heard(p, c.state, c.send_next, c.send_acked, F, gi, s)
  BY DEF Flowing
<1>2. /\ Len(gi) \in Nat \ {0} /\ 1 \in 1..Len(gi) /\ f \in GuestFrames /\ f \in GuestTcp
      /\ For(f, p) /\ f.flags \in {"synack", "ack"}
  BY Taken, GuestFor, GuestTcpFields
<1>3. /\ c.state = "SYN_SENT" => f.flags = "synack"
      /\ c.state = "OPEN" => f.flags = "ack"
  <2>1. /\ f.flags = "synack" => c.state = "SYN_SENT"
        /\ f.flags = "ack" /\ c.state = "SYN_SENT" => \E h \in 1..(1 - 1) : For(gi[h], p)
    BY <1>1, <1>2 DEF Ordered
  <2> QED BY <1>2, <2>1
<1>4. /\ c.state = "SYN_SENT" => f.ack = c.send_next
      /\ c.state = "OPEN" => Minus(c.send_next, f.ack) <= Minus(c.send_next, c.send_acked)
  <2> HIDE DEF F
  <2> QED BY <1>1, <1>2 DEF Heard
<1>5. CASE c.state = "SYN_SENT" BY <1>2, <1>3, <1>4, <1>5, GuestTcpFields DEF Answer
<1>6. CASE c.state = "OPEN"
  <2>1. f.flags = "ack" BY <1>3, <1>6
  <2>2. ~(Minus(f.ack, c.send_acked) > Minus(c.send_next, c.send_acked))
    <3>1. c.send_next \in Int /\ c.send_acked \in Int /\ f.ack \in Int
      BY <1>2, ChannelFields, GuestTcpFields, WindowFits
    <3>2. Minus(f.ack, c.send_acked) <= Minus(c.send_next, c.send_acked)
      BY <1>4, <1>6, <3>1, MinusBetween
    <3>3. Minus(f.ack, c.send_acked) \in Int /\ Minus(c.send_next, c.send_acked) \in Int
      BY <3>1, MinusInt
    <3> QED BY <3>2, <3>3
  <2>3. PICK r \in Nat, t \in Nat :
          Counted(p, gi, s.state, s.sent, r, t) /\ Roomy(c, tr, go, s, r, t)
    BY <1>1 DEF Received
  <2>4. r + Bytes(f, p) <= t /\ f.sent = r BY <1>2, <2>3, CountedTail
  <2>5. f.seq = c.receive_next
    <3>1. f.seq = (GUEST_ISN + 1 + f.sent) % SEQ BY <1>2, <2>1, GuestTcpFields
    <3>2. c.receive_next = (GUEST_ISN + 1 + r) % SEQ BY <1>6, <2>3 DEF Roomy
    <3> QED BY <2>4, <3>1, <3>2
  <2>6. ~(Len(f.data) > RX_SIZE - Len(c.receive))
    <3> DEFINE l == Len(c.receive)
               b == Len(f.data)
    <3>1. l \in Nat /\ b \in Nat BY <1>2, ChannelFields, GuestTcpFields
    <3>2. Bytes(f, p) = b BY <1>2, BytesIs
    <3>3. r + b <= t /\ t + l <= r + RX_SIZE BY <2>3, <2>4, <3>2 DEF Roomy
    <3> HIDE DEF l, b
    <3>4. ~(b > RX_SIZE - l) BY <3>1, <3>3, WindowFits
    <3> QED BY <3>4 DEF l, b
  <2>7. OpenAnswer(c, f) = Filled(AckedBy(c, f), f)
    <3> HIDE DEF f
    <3> QED BY <2>1, <2>2, <2>5, <2>6 DEF OpenAnswer
  <2> QED BY <1>6, <2>1, <2>7 DEF Answer
<1> QED BY <1>5, <1>6

LEMMA FlowHead ==
  ASSUME NEW c \in Channels, NEW tr \in HostFrames, NEW go \in HostFrames,
         NEW gi \in Seq(GuestFrames), gi # <<>>, NEW s \in Streams,
         Flowing(c, tr, gi, go, s), For(gi[1], c.local), gi[1].flags # "rst",
         c.state \in {"SYN_SENT", "OPEN"}
  PROVE  LET d == Answer(c, gi[1]) IN
         /\ d \in Channels /\ d.state = "OPEN" /\ d.local = c.local /\ d.why = c.why
         /\ d.peer_window <= GUEST_WINDOW /\ Flowing(d, tr, Tail(gi), go, s)
<1> DEFINE f == gi[1]
           d == Answer(c, f)
<1>1. f \in GuestTcp BY Taken, GuestFor
<1>2. d \in Channels /\ d.local = c.local BY <1>1, AnswerTyped
<1>3. f.window <= GUEST_WINDOW BY <1>1, GuestTcpFields
<1>4. CASE c.state = "SYN_SENT"
  <2>1. d = Opened(c, f) /\ f.seq = GUEST_ISN /\ Len(f.data) = 0 BY <1>4, AnswerIs
  <2>2. /\ d.local = c.local /\ d.state = "OPEN" /\ d.send_next = c.send_next
        /\ d.send_acked = f.ack /\ d.peer_window = f.window /\ d.receive = c.receive
        /\ d.receive_next = (f.seq + 1) % SEQ /\ d.why = c.why
    BY <1>1, <2>1, OpenedIs
  <2>3. Len(d.receive) <= Len(c.receive) + Len(f.data)
    <3> DEFINE l == Len(c.receive)
    <3>1. l \in Nat /\ Len(d.receive) = l BY <2>2, ChannelFields
    <3> HIDE DEF l, d
    <3>2. l <= l + Len(f.data) BY <2>1, <3>1
    <3> QED BY <3>1, <3>2 DEF l
  <2> HIDE DEF d
  <2>4. Flowing(d, tr, Tail(gi), go, s) BY <1>2, <1>4, <2>1, <2>2, <2>3, FlowNext
  <2> QED BY <1>2, <1>3, <2>2, <2>4 DEF d
<1>5. CASE c.state = "OPEN"
  <2>1. d = Filled(AckedBy(c, f), f) BY <1>5, AnswerIs
  <2>2. /\ d.local = c.local /\ d.state = c.state /\ d.send_next = c.send_next
        /\ d.send_acked = f.ack /\ d.peer_window = f.window
        /\ Len(d.receive) = Len(c.receive) + Len(f.data)
        /\ d.receive_next = (c.receive_next + Len(f.data)) % SEQ /\ d.why = c.why
    <3> DEFINE e == Filled(AckedBy(c, f), f)
    <3>1. /\ e.local = c.local /\ e.state = c.state /\ e.send_next = c.send_next
          /\ e.send_acked = f.ack /\ e.peer_window = f.window
          /\ Len(e.receive) = Len(c.receive) + Len(f.data)
          /\ e.receive_next = (c.receive_next + Len(f.data)) % SEQ /\ e.why = c.why
      BY <1>1, FilledIs, Zenon
    <3>2. d = e BY <2>1
    <3> HIDE DEF d, e
    <3> QED BY <3>1, <3>2
  <2> HIDE DEF d
  <2>3. Len(d.receive) <= Len(c.receive) + Len(f.data)
    <3> DEFINE l == Len(d.receive)
    <3>1. l \in Nat BY <1>2, ChannelFields
    <3> HIDE DEF l
    <3>2. l <= l BY <3>1
    <3> QED BY <2>2, <3>2 DEF l
  <2>4. Flowing(d, tr, Tail(gi), go, s) BY <1>2, <1>5, <2>2, <2>3, FlowNext
  <2> QED BY <1>2, <1>3, <1>5, <2>2, <2>4 DEF d
<1> QED BY <1>4, <1>5

\* the channel sends the frame f
LEMMA FlowMore ==
  ASSUME NEW c \in Channels, NEW d \in Channels, NEW f \in HostTcp, NEW go \in HostFrames,
         NEW gi \in Seq(GuestFrames), NEW s \in Streams, Flowing(c, NoFrame, gi, go, s),
         c.state = "OPEN", c.peer_window <= GUEST_WINDOW,
         f.local = c.local, f.flags = "ack", f.seq = c.send_next, f.ack = c.receive_next,
         f.window <= RX_SIZE - Len(c.receive),
         Len(f.data) > 0 =>
           Minus(c.send_next, c.send_acked) + Len(f.data) <= c.peer_window,
         d.local = c.local, d.state = "OPEN", d.send_next = (c.send_next + Len(f.data)) % SEQ,
         d.send_acked = c.send_acked, d.receive_next = c.receive_next,
         d.peer_window = c.peer_window, d.receive = c.receive
  PROVE  Flowing(d, f, gi, go, s) /\ Fits(f, s, Bytes(go, c.local))
<1> DEFINE p == c.local
           F == Sending(p, NoFrame, go)
           G == Sending(p, f, go)
           n == Len(f.data)
           nx == c.send_next
           ak == c.send_acked
           m == Minus(nx, ak)
           l == Len(s.buffer)
<1>1. /\ Ordered(p, "OPEN", gi, s.state) /\ Answered(p, "OPEN", gi, s.state)
      /\ Received(c, NoFrame, gi, go, s) /\ Heard(p, "OPEN", nx, ak, F, gi, s)
      /\ Sent(c, F, s)
  BY DEF Flowing
<1>2. f \in HostFrames /\ For(f, p) BY HostTcpFields DEF HostFrames, For
<1>3. F \in Nat /\ n \in Nat /\ G = F + n /\ F = Bytes(go, p)
  <2>1. Bytes(f, p) = n /\ n \in Nat /\ Bytes(NoFrame, p) = 0
    BY <1>2, BytesIs, NoFrameIs, HostTcpFields
  <2>2. /\ F \in Nat /\ F = Bytes(go, p) + Bytes(NoFrame, p)
        /\ G = Bytes(go, p) + Bytes(f, p) /\ Bytes(go, p) \in Nat
    BY <1>2, SendingIs, NoFrameIs
  <2> HIDE DEF F, G, n
  <2> QED BY <2>1, <2>2
<1>4. nx \in Int /\ ak \in Int /\ m \in Nat /\ m < SEQ /\ c.peer_window \in Int
  <2>1. nx \in 0..(SEQ - 1) /\ ak \in 0..(SEQ - 1) /\ c.peer_window \in Int BY ChannelFields
  <2> HIDE DEF nx, ak
  <2>2. nx \in Int /\ ak \in Int BY <2>1, WindowFits
  <2> QED BY <2>1, <2>2, MinusInt
<1>5. n > 0 => m + n <= c.peer_window OBVIOUS
<1>6. s.state = "open" =>
        /\ nx = (s.next + F) % SEQ /\ l + F <= GUEST_WINDOW
        /\ F <= m /\ l + F + c.peer_window - m <= GUEST_WINDOW
  BY <1>1 DEF Sent, Edge
<1>7. l \in Nat /\ s.next \in Int BY StreamFields, WindowFits
<1> HIDE DEF F, G, n, nx, ak, m, l, p
<1>8. m + n < SEQ BY <1>3, <1>4, <1>5, WindowFits
<1>9. s.state = "open" => l + F + n <= GUEST_WINDOW
  <2> SUFFICES ASSUME s.state = "open" PROVE l + F + n <= GUEST_WINDOW
    OBVIOUS
  <2> DEFINE w == c.peer_window
             e == l + F
  <2>1. e <= GUEST_WINDOW /\ e + w - m <= GUEST_WINDOW BY <1>6
  <2>2. w \in Int /\ m \in Nat /\ e \in Nat /\ n \in Nat /\ GUEST_WINDOW \in Nat
    BY <1>3, <1>4, <1>7, WindowFits
  <2>3. n > 0 => m + n <= w BY <1>5
  <2> HIDE DEF w, e
  <2>4. e + n <= GUEST_WINDOW BY <2>1, <2>2, <2>3
  <2> QED BY <2>4 DEF e
<1>10. Heard(p, "OPEN", (nx + n) % SEQ, ak, G, gi, s)
  <2>1. Minus(nx, ak) + n < SEQ BY <1>8 DEF m
  <2> QED BY <1>1, <1>3, <1>4, <2>1, HeardMore
<1>11. Sent(d, G, s)
  <2>1. Edge((nx + n) % SEQ, F + n, s, ak, c.peer_window)
    <3>1. Edge(nx, F, s, ak, c.peer_window) BY <1>1 DEF Sent, nx, ak
    <3>2. Minus(nx, ak) + n < SEQ BY <1>8 DEF m
    <3> QED BY <1>3, <1>4, <3>1, <3>2, EdgeMore
  <2>2. s.state = "open" => (nx + n) % SEQ = (s.next + G) % SEQ
    <3>1. F \in Int /\ n \in Int BY <1>3
    <3>2. (((s.next + F) % SEQ) + n) % SEQ = (s.next + (F + n)) % SEQ BY <1>7, <3>1, ModPlus
    <3> QED BY <1>3, <1>6, <3>2
  <2>3. s.state = "open" => Len(s.buffer) + G <= GUEST_WINDOW
    <3>1. s.state = "open" => l + G <= GUEST_WINDOW BY <1>3, <1>7, <1>9, WindowFits
    <3> QED BY <3>1 DEF l
  <2> QED BY <1>3, <2>1, <2>2, <2>3 DEF Sent, nx, n, ak
<1>12. Received(d, f, gi, go, s)
  <2>1. PICK r \in Nat, t \in Nat :
          Counted(p, gi, s.state, s.sent, r, t) /\ Roomy(c, NoFrame, go, s, r, t)
    BY <1>1 DEF Received, p
  <2>2. Grants(f, p, Len(c.receive), r)
    <3> DEFINE k == Len(c.receive)
               x == Minus(f.ack, GUEST_ISN + 1)
               w == f.window
    <3>1. f.ack = (GUEST_ISN + 1 + r) % SEQ BY <2>1 DEF Roomy
    <3>2. x <= r BY <3>1, MinusBase
    <3>3. x \in Int /\ w \in Int BY <1>2, GrantFields
    <3>4. k \in Nat /\ w <= RX_SIZE - k BY ChannelFields
    <3> HIDE DEF k, x, w
    <3>5. x + w + k <= r + RX_SIZE BY <3>2, <3>3, <3>4, WindowFits
    <3> QED BY <3>5 DEF Grants, x, w, k
  <2>3. Roomy(d, f, go, s, r, t) BY <2>1, <2>2 DEF Roomy, p
  <2> QED BY <2>1, <2>3 DEF Received, p
<1>13. Fits(f, s, F)
  <2>1. s.state = "open" => Len(s.buffer) + F + Len(f.data) <= GUEST_WINDOW BY <1>9 DEF l, n
  <2>2. s.state = "open" => f.seq = (s.next + F) % SEQ BY <1>6 DEF nx
  <2> QED BY <2>1, <2>2 DEF Fits
<1>14. Flowing(d, f, gi, go, s) BY <1>1, <1>10, <1>11, <1>12 DEF Flowing, p, n, nx, ak, G
<1> QED BY <1>3, <1>13, <1>14 DEF p

\* the guest accepts the connection: the stream is u, and the answer g
LEMMA FlowSyn ==
  ASSUME NEW c \in Channels, NEW tr \in HostFrames, NEW gi \in Seq(GuestFrames),
         NEW g \in GuestFrames, NEW u \in Streams, Silent(c.local, gi), ~For(tr, c.local),
         c.state = "SYN_SENT", Len(c.receive) = 0, For(g, c.local), g.flags = "synack",
         g.sent = 0, g.ack = c.send_next, u.next = c.send_next, u.sent = 0, u.acked = 0,
         u.window <= RX_SIZE, Len(u.buffer) = 0, u.state = "open"
  PROVE  Flowing(c, tr, Append(gi, g), NoFrame, u)
<1> DEFINE p == c.local
           gj == Append(gi, g)
           L == Len(gi)
           F == Sending(p, tr, NoFrame)
           nx == c.send_next
<1>1. /\ gj \in Seq(GuestFrames) /\ L \in Nat /\ Len(gj) = L + 1 /\ gj[L + 1] = g
      /\ \A j \in 1..L : gj[j] = gi[j]
  BY Queued
<1>2. \A j \in 1..Len(gj) : For(gj[j], p) => j = L + 1 /\ gj[j] = g
  <2> SUFFICES ASSUME NEW j \in 1..Len(gj), For(gj[j], p) PROVE j = L + 1 /\ gj[j] = g
    OBVIOUS
  <2> HIDE DEF L, gj
  <2>1. CASE j = L + 1 BY <1>1, <2>1
  <2>2. CASE j # L + 1
    <3>1. j \in 1..L BY <1>1, <2>2
    <3> QED BY <1>1, <3>1 DEF Silent, L
  <2> QED BY <2>1, <2>2
<1>3. F = 0
  <2>1. Bytes(tr, p) = 0 /\ Bytes(NoFrame, p) = 0 BY BytesIs, NoFrameIs
  <2> QED BY <2>1 DEF Sending
<1>4. g \in GuestTcp /\ Len(g.data) = 0 /\ g.window <= GUEST_WINDOW /\ g.window \in Int
  BY GuestFor, GuestTcpFields
<1>5. nx \in 0..(SEQ - 1) /\ nx \in Int /\ nx + 0 = nx BY ChannelFields, WindowFits
<1>6. Minus(nx, nx) = 0 /\ nx % SEQ = nx
  <2> HIDE DEF nx
  <2>1. 0 < SEQ /\ 0 \in Nat BY WindowFits
  <2> QED BY <1>5, <2>1, MinusSame, SmallMod
<1> HIDE DEF L, gj, F
<1>7. 1..(L + 1) = 1..Len(gj) /\ L + 1 \in 1..Len(gj) /\ 1..((L + 1) - 1) = 1..L BY <1>1
<1>8. Ordered(p, "SYN_SENT", gj, "open")
  <2> SUFFICES ASSUME NEW j \in 1..Len(gj), For(gj[j], p)
               PROVE  \A h \in 1..(j - 1) : ~For(gj[h], p)
    BY <1>2 DEF Ordered
  <2> SUFFICES ASSUME NEW h \in 1..(j - 1), For(gj[h], p) PROVE FALSE
    OBVIOUS
  <2>1. h \in 1..Len(gj) /\ h # j BY <1>1
  <2> QED BY <1>2, <2>1
<1>9. Answered(p, "SYN_SENT", gj, "open") BY <1>1, <1>7 DEF Answered
<1>10. Received(c, tr, gj, NoFrame, u)
  <2> DEFINE ss == "none"
             b == Bytes(g, p)
             x == 0
  <2>1. ss # "open" /\ Silent(p, gi) OBVIOUS
  <2>2. b = 0 BY <1>4, BytesIs
  <2>3. Counted(p, gi, ss, x, 0, 0)
    <3> HIDE DEF ss, x
    <3> QED BY <2>1, CountedSilent
  <2>4. u.state = "open" => u.sent = 0 + b BY <2>2
  <2>5. Counted(p, Append(gi, g), u.state, u.sent, 0, 0 + b)
    <3> HIDE DEF ss, x
    <3> QED BY <2>3, <2>4, CountedAppend
  <2>6. Counted(p, gj, u.state, u.sent, 0, 0) BY <2>2, <2>5 DEF gj
  <2>7. ~For(NoFrame, p) BY NoFrameIs
  <2>8. u.acked + u.window + Len(c.receive) <= 0 + RX_SIZE /\ 0 + Len(c.receive) <= 0 + RX_SIZE
    BY StreamFields, WindowFits
  <2>9. Roomy(c, tr, NoFrame, u, 0, 0) BY <2>7, <2>8 DEF Roomy, Grants
  <2> QED BY <2>6, <2>9 DEF Received
<1>11. Edge(nx, F, u, nx, g.window)
  <2>1. Len(u.buffer) + F + g.window - Minus(nx, nx) <= GUEST_WINDOW /\ F <= Minus(nx, nx)
    BY <1>3, <1>4, <1>6, WindowFits
  <2> QED BY <2>1 DEF Edge
<1>12. Heard(p, "SYN_SENT", nx, c.send_acked, F, gj, u)
  <2> SUFFICES ASSUME NEW j \in 1..Len(gj), For(gj[j], p)
               PROVE  /\ gj[j].ack = nx /\ \A h \in 1..(j - 1) : ~For(gj[h], p)
                      /\ Edge(nx, F, u, gj[j].ack, gj[j].window)
    BY DEF Heard
  <2>1. gj[j] = g /\ j = L + 1 BY <1>2
  <2>2. ASSUME NEW h \in 1..(j - 1), For(gj[h], p) PROVE FALSE
    <3>1. h \in 1..Len(gj) /\ h # j BY <1>1
    <3> QED BY <1>2, <2>1, <2>2, <3>1
  <2> QED BY <1>11, <2>1, <2>2
<1>13. Sent(c, F, u)
  <2>1. c.send_next = (u.next + F) % SEQ BY <1>3, <1>5, <1>6
  <2>2. Len(u.buffer) + F <= GUEST_WINDOW BY <1>3, WindowFits
  <2> QED BY <2>1, <2>2 DEF Sent
<1> QED BY <1>8, <1>9, <1>10, <1>12, <1>13 DEF Flowing, F, gj

---------------------------------------
(* One channel, step by step: what each operation does to Talk. *)

LEMMA TalkDead ==
  ASSUME NEW c, NEW tr, NEW gi, NEW go, NEW s, c.state \notin {"CONNECT", "SYN_SENT", "OPEN"}
  PROVE  Talk(c, tr, gi, go, s)
  BY DEF Talk

LEMMA SilentAppend ==
  ASSUME NEW p, NEW gi \in Seq(GuestFrames), NEW g \in GuestFrames, Silent(p, gi), ~For(g, p)
  PROVE  Silent(p, Append(gi, g))
<1> DEFINE gj == Append(gi, g)
           L == Len(gi)
<1>1. L \in Nat /\ Len(gj) = L + 1 /\ gj[L + 1] = g /\ \A j \in 1..L : gj[j] = gi[j] BY Queued
<1>2. \A j \in 1..L : ~For(gi[j], p) BY DEF Silent
<1> HIDE DEF gj, L
<1>3. ASSUME NEW j \in 1..Len(gj) PROVE ~For(gj[j], p)
  <2>1. CASE j = L + 1 BY <1>1, <2>1
  <2>2. CASE j # L + 1
    <3>1. j \in 1..L BY <1>1, <2>2
    <3> QED BY <1>1, <1>2, <3>1
  <2> QED BY <2>1, <2>2
<1> QED BY <1>3 DEF Silent, gj

LEMMA SilentTail ==
  ASSUME NEW p, NEW gi \in Seq(GuestFrames), gi # <<>>, Silent(p, gi)
  PROVE  Silent(p, Tail(gi)) /\ ~For(gi[1], p)
<1> DEFINE gj == Tail(gi)
           L == Len(gi)
<1>1. L \in Nat \ {0} /\ Len(gj) = L - 1 /\ \A j \in 1..(L - 1) : gj[j] = gi[j + 1] BY Taken
<1>2. \A j \in 1..L : ~For(gi[j], p) BY DEF Silent
<1> HIDE DEF gj, L
<1>3. ASSUME NEW j \in 1..Len(gj) PROVE ~For(gj[j], p)
  <2>1. j \in 1..(L - 1) /\ j + 1 \in 1..L BY <1>1
  <2> QED BY <1>1, <1>2, <2>1
<1>4. 1 \in 1..L BY <1>1
<1> QED BY <1>2, <1>3, <1>4 DEF Silent, gj

\* nothing is on its way to the guest
LEMMA Unsent ==
  ASSUME NEW p, NEW tr \in HostFrames, NEW go \in HostFrames, ~For(tr, p), ~For(go, p)
  PROVE  Sending(p, tr, go) = 0
<1>1. Bytes(tr, p) = 0 /\ Bytes(go, p) = 0 BY BytesIs
<1> QED BY <1>1 DEF Sending

LEMMA TalkLess ==
  ASSUME NEW c \in Channels, NEW d \in Channels, NEW tr \in HostFrames, NEW go \in HostFrames,
         NEW gi \in Seq(GuestFrames), NEW s \in Streams, Talk(c, tr, gi, go, s),
         d.local = c.local, d.state = c.state, d.receive_next = c.receive_next,
         d.send_next = c.send_next, d.send_acked = c.send_acked, d.peer_window = c.peer_window,
         Len(d.receive) <= Len(c.receive)
  PROVE  Talk(d, tr, gi, go, s)
<1>1. Flowing(c, tr, gi, go, s) => Flowing(d, tr, gi, go, s) BY FlowLess
<1>2. Len(c.receive) = 0 => Len(d.receive) = 0
  <2>1. Len(d.receive) \in Nat BY ChannelFields
  <2> QED BY <2>1
<1>3. Asked(c, tr, gi, go, s) => Asked(d, tr, gi, go, s) BY DEF Asked
<1> QED BY <1>1, <1>2, <1>3 DEF Talk

LEMMA TalkTail ==
  ASSUME NEW c \in Channels, NEW tr \in HostFrames, NEW go \in HostFrames,
         NEW gi \in Seq(GuestFrames), gi # <<>>, NEW s \in Streams,
         Talk(c, tr, gi, go, s), ~For(gi[1], c.local)
  PROVE  Talk(c, tr, Tail(gi), go, s)
<1>1. Flowing(c, tr, gi, go, s) => Flowing(c, tr, Tail(gi), go, s) BY FlowTail
<1>2. Silent(c.local, gi) => Silent(c.local, Tail(gi)) BY SilentTail
<1>3. Asked(c, tr, gi, go, s) => Asked(c, tr, Tail(gi), go, s) BY <1>2 DEF Asked
<1>4. Unused(c.local, tr, gi, go, s) => Unused(c.local, tr, Tail(gi), go, s) BY <1>2 DEF Unused
<1> QED BY <1>1, <1>3, <1>4 DEF Talk

\* the mux takes a frame of the guest for this channel
LEMMA TalkHead ==
  ASSUME NEW c \in Channels, NEW tr \in HostFrames, NEW go \in HostFrames,
         NEW gi \in Seq(GuestFrames), gi # <<>>, NEW s \in Streams,
         Talk(c, tr, gi, go, s), For(gi[1], c.local),
         c.state \in {"CONNECT", "SYN_SENT", "OPEN"}, c.why \in {"none", "reset"}
  PROVE  /\ Talk(Answer(c, gi[1]), tr, Tail(gi), go, s)
         /\ Answer(c, gi[1]).why \in {"none", "reset"}
<1> DEFINE f == gi[1]
           d == Answer(c, f)
<1>1. Len(gi) \in Nat \ {0} /\ 1 \in 1..Len(gi) BY Taken
<1>2. ~Silent(c.local, gi) BY <1>1 DEF Silent
<1>3. CASE f.flags = "rst"
  <2>1. d = Errored(c, "reset", f.sent) BY <1>3 DEF Answer
  <2>2. d.state = "ERROR" /\ d.why = "reset" BY <2>1 DEF Errored, Channels
  <2> HIDE DEF d
  <2>3. Talk(d, tr, Tail(gi), go, s) BY <2>2, TalkDead
  <2> QED BY <2>2, <2>3 DEF d
<1>4. CASE f.flags # "rst"
  <2>1. c.state \in {"SYN_SENT", "OPEN"} /\ Flowing(c, tr, gi, go, s)
        /\ (c.state = "SYN_SENT" => ~For(go, c.local) /\ ~For(tr, c.local))
        /\ (c.state = "OPEN" => /\ For(go, c.local) => go.flags = "ack"
                                /\ For(tr, c.local) => tr.flags = "ack")
    BY <1>2 DEF Talk, Unused, Asked
  <2>2. /\ d \in Channels /\ d.state = "OPEN" /\ d.local = c.local /\ d.why = c.why
        /\ d.peer_window <= GUEST_WINDOW /\ Flowing(d, tr, Tail(gi), go, s)
    BY <1>4, <2>1, FlowHead
  <2> HIDE DEF d
  <2>3. Talk(d, tr, Tail(gi), go, s) BY <2>1, <2>2 DEF Talk
  <2> QED BY <2>2, <2>3 DEF d
<1> QED BY <1>3, <1>4

\* what is on its way to the guest changes, for another channel
LEMMA TalkOut ==
  ASSUME NEW c, NEW tr, NEW go, NEW tq, NEW gq, NEW gi, NEW s,
         Talk(c, tr, gi, go, s),
         For(tr, c.local) \/ For(tq, c.local) => tq = tr,
         For(go, c.local) \/ For(gq, c.local) => gq = go
  PROVE  Talk(c, tq, gi, gq, s)
<1>1. Flowing(c, tr, gi, go, s) => Flowing(c, tq, gi, gq, s)
  <2>1. Sending(c.local, tq, gq) = Sending(c.local, tr, go)
    <3>1. Bytes(tq, c.local) = Bytes(tr, c.local) /\ Bytes(gq, c.local) = Bytes(go, c.local)
      BY DEF Bytes
    <3> QED BY <3>1 DEF Sending
  <2> QED BY <2>1, FlowOut
<1>2. Asked(c, tr, gi, go, s) => Asked(c, tq, gi, gq, s) BY DEF Asked
<1>3. Unused(c.local, tr, gi, go, s) => Unused(c.local, tq, gi, gq, s) BY DEF Unused
<1> QED BY <1>1, <1>2, <1>3 DEF Talk

\* the guest is handed the frame the mux had ready
LEMMA TalkComplete ==
  ASSUME NEW c, NEW tr \in HostFrames, NEW gi, NEW s, Talk(c, tr, gi, NoFrame, s)
  PROVE  Talk(c, NoFrame, gi, tr, s)
<1>0. ~For(NoFrame, c.local) BY NoFrameIs
<1>1. Flowing(c, tr, gi, NoFrame, s) => Flowing(c, NoFrame, gi, tr, s)
  <2>1. Sending(c.local, NoFrame, tr) = Sending(c.local, tr, NoFrame)
    <3>1. Bytes(NoFrame, c.local) = 0 /\ Bytes(tr, c.local) \in Nat BY NoFrameIs, BytesIs
    <3> QED BY <3>1 DEF Sending
  <2> QED BY <2>1, FlowOut
<1>2. Asked(c, tr, gi, NoFrame, s) => Asked(c, NoFrame, gi, tr, s) BY <1>0 DEF Asked
<1>3. Unused(c.local, tr, gi, NoFrame, s) => Unused(c.local, NoFrame, gi, tr, s) BY <1>0 DEF Unused
<1> QED BY <1>0, <1>1, <1>2, <1>3 DEF Talk

\* the mux produces a frame of channel c
LEMMA FrameFields ==
  ASSUME NEW u \in Muxes, NEW i \in Slots, u.channel[i].local \in Ports,
         u.channel[i].remote = Service, HasFrame(u.channel[i])
  PROVE  LET c == u.channel[i]
             d == AfterFrame(c)
             f == FrameOf(u, i) IN
         /\ c \in Channels /\ d \in Channels /\ f \in HostTcp /\ f \in HostFrames
         /\ d.local = c.local /\ f.local = c.local /\ For(f, c.local)
         /\ f.seq = c.send_next /\ f.ack = c.receive_next /\ f.flags = Flags(c)
         /\ f.window <= RX_SIZE - Len(c.receive)
         /\ c.state = "CLOSING" => d.state = "CLOSED" /\ d.why = "none"
         /\ c.state # "CLOSING" =>
              /\ d.why = c.why /\ d.peer_window = c.peer_window /\ d.receive = c.receive
              /\ d.send_acked = c.send_acked /\ d.receive_next = c.receive_next
         /\ c.state = "CONNECT" => /\ d.state = "SYN_SENT" /\ d.send_next = (f.seq + 1) % SEQ
         /\ c.state = "OPEN" =>
              /\ d.state = "OPEN" /\ d.send_next = (c.send_next + Len(f.data)) % SEQ
              /\ Len(f.data) > 0 =>
                   Minus(c.send_next, c.send_acked) + Len(f.data) <= c.peer_window
<1> DEFINE c == u.channel[i]
           d == AfterFrame(c)
           f == FrameOf(u, i)
           n == Bits(c)
<1>1. c \in Channels /\ d \in Channels /\ f \in HostTcp /\ f \in HostFrames BY FrameTyped, MuxFields
<1>2. /\ c.state \in {"CONNECT", "CLOSING", "OPEN"} /\ d.local = c.local
      /\ d.state = CASE c.state = "CONNECT" -> "SYN_SENT"
                     [] c.state = "CLOSING" -> "CLOSED"
                     [] OTHER -> "OPEN"
  BY <1>1, AfterFrameFacts
<1>3. /\ f.local = c.local /\ f.seq = c.send_next /\ f.ack = c.receive_next /\ f.flags = Flags(c)
      /\ f.kind = "tcp" /\ f.window = Window(RX_SIZE - Len(c.receive))
      /\ f.data = SubSeq(c.send, 1, n)
  BY DEF FrameOf
<1>4. f.window <= RX_SIZE - Len(c.receive)
  <2>1. RX_SIZE - Len(c.receive) \in Int
    <3>1. Len(c.receive) \in Nat BY <1>1, ChannelFields
    <3> QED BY <3>1, WindowFits
  <2> QED BY <1>3, <2>1, WindowIs
<1>5. /\ n \in 0..Len(c.send) /\ Len(f.data) = n
      /\ n > 0 => c.state = "OPEN" /\ Minus(c.send_next, c.send_acked) + n <= c.peer_window
  <2>1. n \in 0..Len(c.send) /\ c.send \in Seq(UpBytes) BY <1>1, BitsIs, ChannelFields
  <2>2. Len(SubSeq(c.send, 1, n)) = n BY <2>1, FirstPart
  <2>3. n > 0 => c.state = "OPEN" /\ Minus(c.send_next, c.send_acked) + n <= c.peer_window
    BY <1>1, BitsIs
  <2> QED BY <1>3, <2>1, <2>2, <2>3
<1>6. c.state = "CLOSING" => d.why = "none" BY DEF AfterFrame, FreshChannel
<1>7. c.state # "CLOSING" =>
        /\ d.why = c.why /\ d.peer_window = c.peer_window /\ d.receive = c.receive
        /\ d.send_acked = c.send_acked /\ d.receive_next = c.receive_next
        /\ d.send_next = (c.send_next + n + (IF Flags(c) = "syn" THEN 1 ELSE 0)) % SEQ
  <2> SUFFICES ASSUME c.state # "CLOSING" PROVE
        /\ d.why = c.why /\ d.peer_window = c.peer_window /\ d.receive = c.receive
        /\ d.send_acked = c.send_acked /\ d.receive_next = c.receive_next
        /\ d.send_next = (c.send_next + n + (IF Flags(c) = "syn" THEN 1 ELSE 0)) % SEQ
    OBVIOUS
  <2> DEFINE t == SubSeq(c.send, n + 1, Len(c.send))
             y == (c.send_next + n + (IF Flags(c) = "syn" THEN 1 ELSE 0)) % SEQ
             z == IF Flags(c) = "syn" THEN "SYN_SENT" ELSE "OPEN"
  <2>1. d = [c EXCEPT !.send = t, !.send_next = y, !.ack_pending = FALSE, !.state = z]
    BY <1>1 DEF AfterFrame, Channels
  <2> HIDE DEF t, y, z, c, d, n
  <2>2. /\ d.why = c.why /\ d.peer_window = c.peer_window /\ d.receive = c.receive
        /\ d.send_acked = c.send_acked /\ d.receive_next = c.receive_next
        /\ d.send_next = y
    BY <1>1, <2>1 DEF Channels
  <2> QED BY <2>2 DEF y
<1>8. c.send_next \in Int BY <1>1, ChannelFields, WindowFits
<1>9. c.state = "CONNECT" => d.send_next = (f.seq + 1) % SEQ
  <2> SUFFICES ASSUME c.state = "CONNECT" PROVE d.send_next = (f.seq + 1) % SEQ
    OBVIOUS
  <2>1. Flags(c) = "syn" /\ n = 0 BY DEF Flags, Bits
  <2> DEFINE x == c.send_next
  <2> HIDE DEF d, c, n, f, x
  <2>2. d.send_next = (x + n + 1) % SEQ BY <1>7, <2>1 DEF x
  <2>3. x + n + 1 = x + 1 BY <2>1, <1>8 DEF x
  <2> QED BY <1>3, <2>2, <2>3 DEF x
<1>10. c.state = "OPEN" => d.send_next = (c.send_next + Len(f.data)) % SEQ
  <2> SUFFICES ASSUME c.state = "OPEN" PROVE d.send_next = (c.send_next + Len(f.data)) % SEQ
    OBVIOUS
  <2>1. Flags(c) = "ack" BY DEF Flags
  <2>0. n \in Nat BY <1>1, <1>5, ChannelFields
  <2> DEFINE x == c.send_next
  <2> HIDE DEF d, c, n, f, x
  <2>2. d.send_next = (x + n + 0) % SEQ BY <1>7, <2>1 DEF x
  <2>3. x + n + 0 = x + n BY <2>0, <1>8 DEF x
  <2> QED BY <1>5, <2>2, <2>3 DEF x
<1>11. For(f, c.local) BY <1>3 DEF For
<1> HIDE DEF c, d, f, n
<1>12. /\ c.state = "CLOSING" => d.state = "CLOSED"
       /\ c.state = "CONNECT" => d.state = "SYN_SENT"
       /\ c.state = "OPEN" => d.state = "OPEN"
  BY <1>2
<1> QED BY <1>1, <1>2, <1>3, <1>4, <1>5, <1>6, <1>7, <1>9, <1>10, <1>11, <1>12 DEF c, d, f

LEMMA TalkFrame ==
  ASSUME NEW u \in Muxes, NEW i \in Slots, u.channel[i].local \in Ports,
         u.channel[i].remote = Service, HasFrame(u.channel[i]),
         NEW gi \in Seq(GuestFrames), NEW go \in HostFrames, NEW s \in Streams,
         Talk(u.channel[i], NoFrame, gi, go, s)
  PROVE  LET c == u.channel[i]
             f == FrameOf(u, i) IN
         /\ Talk(AfterFrame(c), f, gi, go, s)
         /\ f.flags = "ack" => /\ ~(For(go, c.local) /\ go.flags = "syn")
                               /\ Fits(f, s, Bytes(go, c.local))
<1> DEFINE c == u.channel[i]
           d == AfterFrame(c)
           f == FrameOf(u, i)
<1>1. /\ c \in Channels /\ d \in Channels /\ f \in HostTcp /\ f \in HostFrames
      /\ d.local = c.local /\ f.local = c.local /\ For(f, c.local)
      /\ f.seq = c.send_next /\ f.ack = c.receive_next /\ f.flags = Flags(c)
      /\ f.window <= RX_SIZE - Len(c.receive)
      /\ c.state = "CLOSING" => d.state = "CLOSED" /\ d.why = "none"
      /\ c.state # "CLOSING" =>
           /\ d.why = c.why /\ d.peer_window = c.peer_window /\ d.receive = c.receive
           /\ d.send_acked = c.send_acked /\ d.receive_next = c.receive_next
      /\ c.state = "CONNECT" => /\ d.state = "SYN_SENT" /\ d.send_next = (f.seq + 1) % SEQ
      /\ c.state = "OPEN" =>
           /\ d.state = "OPEN" /\ d.send_next = (c.send_next + Len(f.data)) % SEQ
           /\ Len(f.data) > 0 =>
                Minus(c.send_next, c.send_acked) + Len(f.data) <= c.peer_window
  BY FrameFields
<1>2. Talk(c, NoFrame, gi, go, s) OBVIOUS
<1>3. c.state \in {"CONNECT", "CLOSING", "OPEN"} BY DEF HasFrame
<1>4. Flags(c) = IF c.state = "CONNECT" THEN "syn" ELSE IF c.state = "CLOSING" THEN "rst" ELSE "ack"
  BY DEF Flags
<1> HIDE DEF c, d, f
<1>5. CASE c.state = "CLOSING"
  <2>1. Talk(d, f, gi, go, s) BY <1>1, <1>5, TalkDead
  <2> QED BY <1>1, <1>4, <1>5, <2>1 DEF c, d, f
<1>6. CASE c.state = "CONNECT"
  <2>1. /\ Unused(c.local, NoFrame, gi, go, s) /\ c.peer_window <= GUEST_WINDOW
        /\ Len(c.receive) = 0
    BY <1>2, <1>6 DEF Talk
  <2>2. Asked(d, f, gi, go, s) BY <1>1, <1>4, <1>6, <2>1 DEF Unused, Asked
  <2>3. Talk(d, f, gi, go, s) BY <1>1, <1>6, <2>1, <2>2 DEF Talk
  <2> QED BY <1>1, <1>4, <1>6, <2>3 DEF c, d, f
<1>7. CASE c.state = "OPEN"
  <2>1. /\ c.peer_window <= GUEST_WINDOW
        /\ For(go, c.local) => go.flags = "ack"
        /\ Flowing(c, NoFrame, gi, go, s)
    BY <1>2, <1>7 DEF Talk
  <2>2. f.flags = "ack" BY <1>1, <1>4, <1>7
  <2>3. Flowing(d, f, gi, go, s) /\ Fits(f, s, Bytes(go, c.local))
    BY <1>1, <1>7, <2>1, <2>2, FlowMore
  <2>4. Talk(d, f, gi, go, s) BY <1>1, <1>7, <2>1, <2>2, <2>3 DEF Talk
  <2>5. ~(For(go, c.local) /\ go.flags = "syn") BY <2>1
  <2> QED BY <2>3, <2>4, <2>5 DEF c, d, f
<1> QED BY <1>3, <1>5, <1>6, <1>7

---------------------------------------
(* What the guest does to Talk. *)

\* the guest queues a frame that is not for this channel
LEMMA TalkOther ==
  ASSUME NEW c \in Channels, NEW tr \in HostFrames, NEW go \in HostFrames,
         NEW gi \in Seq(GuestFrames), NEW g \in GuestFrames, NEW s \in Streams,
         Talk(c, tr, gi, go, s), ~For(g, c.local)
  PROVE  Talk(c, tr, Append(gi, g), go, s)
<1>1. ASSUME Flowing(c, tr, gi, go, s), c.state = "SYN_SENT" => Sending(c.local, tr, go) = 0
      PROVE  Flowing(c, tr, Append(gi, g), go, s)
  <2>1. Bytes(g, c.local) = 0 /\ s.sent = s.sent + 0 BY BytesIs, StreamFields
  <2>2. ~(Bytes(g, c.local) > 0) BY <2>1
  <2>3. s.sent = s.sent + Bytes(g, c.local) BY <2>1
  <2> QED BY <1>1, <2>2, <2>3, FlowAppend
<1>2. Silent(c.local, gi) => Silent(c.local, Append(gi, g)) BY SilentAppend
<1>3. Asked(c, tr, gi, go, s) => Asked(c, tr, Append(gi, g), go, s) BY <1>2 DEF Asked
<1>4. Unused(c.local, tr, gi, go, s) => Unused(c.local, tr, Append(gi, g), go, s) BY <1>2 DEF Unused
<1>5. ~For(go, c.local) /\ ~For(tr, c.local) => Sending(c.local, tr, go) = 0 BY Unsent
<1> QED BY <1>1, <1>3, <1>4, <1>5 DEF Talk

\* the stream s, which is open, sends bytes or hangs up
LEMMA TalkSays ==
  ASSUME NEW c \in Channels, NEW tr \in HostFrames, NEW go \in HostFrames,
         NEW gi \in Seq(GuestFrames), NEW g \in GuestFrames, NEW s \in Streams, NEW u \in Streams,
         Talk(c, tr, gi, go, s), s.state = "open", For(g, c.local), g.flags \in {"ack", "rst"},
         g.sent = s.sent, g.flags = "rst" => u.state # "open",
         g.flags = "ack" => g.ack = s.next /\ Len(s.buffer) + g.window <= GUEST_WINDOW,
         u.state = "open" => /\ u.sent = s.sent + Bytes(g, c.local)
                             /\ u.acked = s.acked /\ u.window = s.window /\ u.next = s.next
                             /\ u.buffer = s.buffer,
         u.state # "open" => g.flags = "rst",
         Bytes(g, c.local) > 0 => s.sent + Bytes(g, c.local) <= s.acked + s.window
  PROVE  Talk(c, tr, Append(gi, g), go, u)
<1>1. CASE c.state \notin {"CONNECT", "SYN_SENT", "OPEN"} BY <1>1, TalkDead
<1>2. CASE c.state \in {"CONNECT", "SYN_SENT", "OPEN"}
  <2>1. /\ c.state \in {"SYN_SENT", "OPEN"} /\ Flowing(c, tr, gi, go, s)
        /\ c.state = "SYN_SENT" => ~For(go, c.local) /\ ~For(tr, c.local)
    BY <1>2 DEF Talk, Unused, Asked
  <2>2. c.state = "SYN_SENT" => Sending(c.local, tr, go) = 0 BY <2>1, Unsent
  <2>3. Flowing(c, tr, Append(gi, g), go, u) BY <2>1, <2>2, FlowAppend
  <2> QED BY <2>1, <2>3 DEF Talk
<1> QED BY <1>1, <1>2

\* the guest accepts a connection
LEMMA TalkSyn ==
  ASSUME NEW c \in Channels, NEW tr \in HostFrames, NEW go \in HostFrames,
         NEW gi \in Seq(GuestFrames), NEW g \in GuestFrames, NEW s \in Streams, NEW u \in Streams,
         Talk(c, tr, gi, go, s), For(go, c.local), go.flags = "syn",
         For(g, c.local), g.flags = "synack", g.sent = s.sent, g.ack = (go.seq + 1) % SEQ,
         u.next = (go.seq + 1) % SEQ, u.sent = 0, u.acked = 0, u.window <= RX_SIZE,
         Len(u.buffer) = 0, u.state = "open"
  PROVE  Talk(c, tr, Append(gi, g), NoFrame, u)
<1>1. CASE c.state \notin {"CONNECT", "SYN_SENT", "OPEN"} BY <1>1, TalkDead
<1>2. CASE c.state \in {"CONNECT", "SYN_SENT", "OPEN"}
  <2>1. /\ c.state = "SYN_SENT" /\ Asked(c, tr, gi, go, s) /\ Len(c.receive) = 0
        /\ c.peer_window <= GUEST_WINDOW
    BY <1>2 DEF Talk, Unused
  <2>2. /\ c.send_next = (go.seq + 1) % SEQ /\ ~For(tr, c.local) /\ s.state = "none"
        /\ Silent(c.local, gi)
    BY <2>1 DEF Asked
  <2>3. s.sent = 0 BY <2>2, StreamFields
  <2>4. Flowing(c, tr, Append(gi, g), NoFrame, u) BY <2>1, <2>2, <2>3, FlowSyn
  <2> QED BY <2>1, <2>2, <2>4, NoFrameIs DEF Talk
<1> QED BY <1>1, <1>2

\* a reset answers the question
LEMMA FlowRefuse ==
  ASSUME NEW c \in Channels, NEW tr \in HostFrames, NEW gi \in Seq(GuestFrames),
         NEW g \in GuestFrames, NEW s \in Streams, Silent(c.local, gi), ~For(tr, c.local),
         c.state = "SYN_SENT", Len(c.receive) = 0, For(g, c.local), g.flags = "rst",
         g.sent = 0, s.state # "open"
  PROVE  Flowing(c, tr, Append(gi, g), NoFrame, s)
<1> DEFINE p == c.local
           gj == Append(gi, g)
           L == Len(gi)
           F == Sending(p, tr, NoFrame)
<1>1. /\ gj \in Seq(GuestFrames) /\ L \in Nat /\ Len(gj) = L + 1 /\ gj[L + 1] = g
      /\ \A j \in 1..L : gj[j] = gi[j]
  BY Queued
<1>2. \A j \in 1..Len(gj) : For(gj[j], p) => j = L + 1 /\ gj[j] = g
  <2> SUFFICES ASSUME NEW j \in 1..Len(gj), For(gj[j], p) PROVE j = L + 1 /\ gj[j] = g
    OBVIOUS
  <2> HIDE DEF L, gj
  <2>1. CASE j = L + 1 BY <1>1, <2>1
  <2>2. CASE j # L + 1
    <3>1. j \in 1..L BY <1>1, <2>2
    <3> QED BY <1>1, <3>1 DEF Silent, L
  <2> QED BY <2>1, <2>2
<1>4. g \in GuestTcp /\ Len(g.data) = 0 BY GuestFor, GuestTcpFields
<1> HIDE DEF L, gj, F
<1>7. 1..(L + 1) = 1..Len(gj) /\ L + 1 \in 1..Len(gj) BY <1>1
<1>8. Ordered(p, "SYN_SENT", gj, s.state)
  <2> SUFFICES ASSUME NEW j \in 1..Len(gj), For(gj[j], p)
               PROVE  \A h \in (j + 1)..Len(gj) : For(gj[h], p) => gj[h].flags = "rst"
    BY <1>2 DEF Ordered
  <2> SUFFICES ASSUME NEW h \in (j + 1)..Len(gj), For(gj[h], p) PROVE gj[h].flags = "rst"
    OBVIOUS
  <2>1. h \in 1..Len(gj) BY <1>1
  <2> QED BY <1>2, <2>1
<1>9. Answered(p, "SYN_SENT", gj, s.state) BY <1>1, <1>7 DEF Answered
<1>10. Received(c, tr, gj, NoFrame, s)
  <2> DEFINE b == Bytes(g, p)
             ss == s.state
             x == 0
  <2>2. b = 0 /\ ss # "open" BY <1>4, BytesIs
  <2>3. Counted(p, gi, ss, x, 0, 0)
    <3> HIDE DEF ss, x
    <3> QED BY <2>2, CountedSilent
  <2>5. Counted(p, Append(gi, g), ss, x, 0, 0 + b)
    <3> HIDE DEF ss
    <3> QED BY <2>2, <2>3, CountedAppend
  <2>6. Counted(p, gj, s.state, s.sent, 0, 0) BY <2>2, <2>5, StreamFields DEF gj
  <2>7. ~For(NoFrame, p) BY NoFrameIs
  <2>8. 0 + Len(c.receive) <= 0 + RX_SIZE BY WindowFits
  <2>9. Roomy(c, tr, NoFrame, s, 0, 0) BY <2>7, <2>8 DEF Roomy, Grants
  <2> QED BY <2>6, <2>9 DEF Received
<1>12. Heard(p, "SYN_SENT", c.send_next, c.send_acked, F, gj, s) BY <1>2 DEF Heard
<1>13. Sent(c, F, s) BY DEF Sent
<1> QED BY <1>8, <1>9, <1>10, <1>12, <1>13 DEF Flowing, F, gj

\* the guest refuses a connection, or resets a stream it does not know
LEMMA TalkRefuse ==
  ASSUME NEW c \in Channels, NEW tr \in HostFrames, NEW go \in HostFrames,
         NEW gi \in Seq(GuestFrames), NEW g \in GuestFrames, NEW s \in Streams,
         Talk(c, tr, gi, go, s), For(go, c.local),
         go.flags = "syn" \/ (go.flags = "ack" /\ s.state # "open"),
         For(g, c.local), g.flags = "rst", g.sent = s.sent
  PROVE  Talk(c, tr, Append(gi, g), NoFrame, s)
<1>1. CASE c.state \notin {"CONNECT", "SYN_SENT", "OPEN"} BY <1>1, TalkDead
<1>2. CASE c.state \in {"CONNECT", "SYN_SENT", "OPEN"} /\ go.flags = "syn"
  <2>1. /\ c.state = "SYN_SENT" /\ Asked(c, tr, gi, go, s) /\ Len(c.receive) = 0
        /\ c.peer_window <= GUEST_WINDOW
    BY <1>2 DEF Talk, Unused
  <2>2. ~For(tr, c.local) /\ s.state = "none" /\ Silent(c.local, gi) BY <2>1 DEF Asked
  <2>3. s.sent = 0 BY <2>2, StreamFields
  <2>4. Flowing(c, tr, Append(gi, g), NoFrame, s) BY <2>1, <2>2, <2>3, FlowRefuse
  <2> QED BY <2>1, <2>2, <2>4, NoFrameIs DEF Talk
<1>3. CASE c.state \in {"CONNECT", "SYN_SENT", "OPEN"} /\ go.flags = "ack"
  <2>1. /\ c.state = "OPEN" /\ Flowing(c, tr, gi, go, s) /\ c.peer_window <= GUEST_WINDOW
        /\ For(tr, c.local) => tr.flags = "ack"
    BY <1>3 DEF Talk, Unused, Asked
  <2>2. s.state # "open" BY <1>3
  <2>3. Flowing(c, tr, gi, NoFrame, s) BY <2>1, <2>2, FlowDeaf
  <2>4. NoFrame \in HostFrames BY DEF HostFrames
  <2>5. ~(Bytes(g, c.local) > 0)
    <3>1. Bytes(g, c.local) = 0 BY BytesIs, GuestFor, GuestTcpFields
    <3> QED BY <3>1
  <2>6. Flowing(c, tr, Append(gi, g), NoFrame, s) BY <2>1, <2>2, <2>3, <2>4, <2>5, FlowAppend
  <2> QED BY <2>1, <2>6, NoFrameIs DEF Talk
<1> QED BY <1>1, <1>2, <1>3

\* the guest takes the bytes of a frame
LEMMA TalkAck ==
  ASSUME NEW c \in Channels, NEW tr \in HostFrames, NEW go \in HostFrames,
         NEW gi \in Seq(GuestFrames), NEW s \in Streams, Talk(c, tr, gi, go, s),
         For(go, c.local), go.flags = "ack", s.state = "open"
  PROVE  Talk(c, tr, gi, NoFrame, StreamAfter(s, go))
<1>1. CASE c.state \notin {"CONNECT", "SYN_SENT", "OPEN"} BY <1>1, TalkDead
<1>2. CASE c.state \in {"CONNECT", "SYN_SENT", "OPEN"}
  <2>1. /\ c.state = "OPEN" /\ Flowing(c, tr, gi, go, s) /\ c.peer_window <= GUEST_WINDOW
        /\ For(tr, c.local) => tr.flags = "ack"
    BY <1>2 DEF Talk, Unused, Asked
  <2>2. Flowing(c, tr, gi, NoFrame, StreamAfter(s, go)) BY <2>1, FlowTake
  <2> QED BY <2>1, <2>2, NoFrameIs DEF Talk
<1> QED BY <1>1, <1>2

\* the guest takes a reset
LEMMA TalkRst ==
  ASSUME NEW c, NEW tr, NEW go, NEW gi, NEW s, Talk(c, tr, gi, go, s),
         For(go, c.local), go.flags = "rst"
  PROVE  \A gj, t : Talk(c, tr, gj, NoFrame, t)
<1>1. c.state \notin {"CONNECT", "SYN_SENT", "OPEN"} BY DEF Talk, Unused, Asked
<1> QED BY <1>1, TalkDead

\* a service reads its stream
LEMMA TalkRead ==
  ASSUME NEW c \in Channels, NEW tr \in HostFrames, NEW go \in HostFrames,
         NEW gi \in Seq(GuestFrames), NEW s \in Streams, NEW u \in Streams,
         Talk(c, tr, gi, go, s), u.state = s.state, u.sent = s.sent, u.acked = s.acked,
         u.window = s.window, u.next = s.next, Len(u.buffer) <= Len(s.buffer)
  PROVE  Talk(c, tr, gi, go, u)
<1>1. Flowing(c, tr, gi, go, s) => Flowing(c, tr, gi, go, u) BY FlowRead
<1> QED BY <1>1 DEF Talk, Asked, Unused

---------------------------------------
(* The mux, step by step: what each of its operations does to Talking. *)

\* Talking, for a mux that exists and that the guest has not been reset under
Chatting(m, gi, go) ==
    /\ Blameless(m) /\ Early(m, gi, go) /\ FitsOut(m.transmit, go)
    /\ Talks(m, gi, go) /\ Ahead(m, gi, go)

LEMMA TalkingIs ==
  ASSUME NEW m \in Muxes, NEW gi, NEW go, Same
  PROVE  Talking(m, gi, go) <=> Chatting(m, gi, go)
BY MuxFields DEF Talking, Chatting

LEMMA LocalIs ==
  ASSUME NEW u \in Muxes, Numbered(u), guest \in Guests, NEW i \in Slots
  PROVE  /\ u.channel[i] \in Channels
         /\ u.channel[i].state = "UNUSED" => u.channel[i] = FreshChannel
         /\ u.channel[i].state # "UNUSED" =>
              /\ u.channel[i].local \in Ports /\ u.channel[i].remote = Service
              /\ guest.stream[u.channel[i].local] \in Streams
              /\ u.next_port # 0 => u.channel[i].local < u.next_port
              /\ \A j \in Slots : u.channel[j].state # "UNUSED" /\ j # i =>
                    u.channel[j].local # u.channel[i].local
BY MuxFields DEF Numbered, Guests

\* a mux that has no streams yet
LEMMA Quiet ==
  ASSUME NEW m, NEW tr, NEW gi, NEW go, \A i \in Slots : m.channel[i] = FreshChannel
  PROVE  /\ Blameless(m)
         /\ \A i \in Slots : Talk(m.channel[i], tr, gi, go, guest.stream[m.channel[i].local])
<1>1. FreshChannel.state \notin {"CONNECT", "SYN_SENT", "OPEN"} /\ FreshChannel.why = "none"
  BY DEF FreshChannel
<1> QED BY <1>1, TalkDead DEF Blameless

LEMMA EarlyTail ==
  ASSUME NEW m, NEW gi \in Seq(GuestFrames), gi # <<>>, NEW go, Early(m, gi, go)
  PROVE  Early(m, Tail(gi), go)
<1>1. /\ Len(gi) \in Nat \ {0} /\ Len(Tail(gi)) = Len(gi) - 1
      /\ \A j \in 1..(Len(gi) - 1) : Tail(gi)[j] = gi[j + 1]
  BY Taken
<1>2. \A j \in 1..Len(gi) : gi[j].kind = "version" =>
         go.kind # "version" /\ m.transmit.kind # "version" /\ m.stage # "SEND_VERSION"
  BY DEF Early
<1>3. ASSUME NEW j \in 1..Len(Tail(gi)), Tail(gi)[j].kind = "version"
      PROVE  go.kind # "version" /\ m.transmit.kind # "version" /\ m.stage # "SEND_VERSION"
  <2>1. j + 1 \in 1..Len(gi) /\ Tail(gi)[j] = gi[j + 1] BY <1>1
  <2> QED BY <1>2, <1>3, <2>1
<1> QED BY <1>3 DEF Early

LEMMA AheadTail ==
  ASSUME NEW m, NEW gi \in Seq(GuestFrames), gi # <<>>, NEW go, Ahead(m, gi, go)
  PROVE  Ahead(m, Tail(gi), go)
BY SilentTail DEF Ahead, Unused

LEMMA FrameStep2 ==
  ASSUME NEW u \in Muxes, NEW gi \in Seq(GuestFrames), gi # <<>>, NEW go \in HostFrames,
         Numbered(u), guest \in Guests, Chatting(u, gi, go)
  PROVE  \/ input_frame(u, gi[1]).stage = "FAILED"
         \/ Chatting(input_frame(u, gi[1]), Tail(gi), go)
<1> DEFINE f == gi[1]
           v == input_frame(u, f)
<1>1. f \in GuestFrames /\ Tail(gi) \in Seq(GuestFrames) /\ Len(gi) \in Nat \ {0} /\ 1 \in 1..Len(gi)
  BY Taken
<1>2. /\ Blameless(u) /\ Early(u, Tail(gi), go) /\ FitsOut(u.transmit, go)
      /\ Talks(u, gi, go) /\ Ahead(u, Tail(gi), go) /\ Early(u, gi, go)
  BY EarlyTail, AheadTail DEF Chatting
<1>3. u.transmit \in HostFrames BY MuxFields
<1>4. ASSUME NEW i \in Slots, ~For(f, u.channel[i].local)
      PROVE  Talk(u.channel[i], u.transmit, Tail(gi), go, guest.stream[u.channel[i].local])
  <2>1. Talk(u.channel[i], u.transmit, gi, go, guest.stream[u.channel[i].local]) BY <1>2 DEF Talks
  <2>2. CASE u.channel[i].state = "UNUSED" BY <2>2, TalkDead
  <2>3. CASE u.channel[i].state # "UNUSED"
    <3>1. u.channel[i] \in Channels /\ guest.stream[u.channel[i].local] \in Streams BY <2>3, LocalIs
    <3> QED BY <1>3, <1>4, <2>1, <3>1, TalkTail
  <2> QED BY <2>2, <2>3
<1>5. ASSUME NEW s \in {"SEND_SETUP", "ACTIVE"}, v = [u EXCEPT !.stage = s],
             u.stage = "WAIT_VERSION", f.kind = "version"
      PROVE  Chatting(v, Tail(gi), go)
  <2> HIDE DEF v
  <2>1. /\ v.channel = u.channel /\ v.next_port = u.next_port /\ v.transmit = u.transmit
        /\ v.stage = s
    BY <1>5, StageFacts
  <2>2. \A i \in Slots : u.channel[i] = FreshChannel BY <1>2, <1>5 DEF Early
  <2>3. go.kind # "version" /\ u.transmit.kind # "version" BY <1>1, <1>2, <1>5 DEF Early
  <2>4. Early(v, Tail(gi), go) BY <2>1, <2>2, <2>3 DEF Early
  <2>5. Blameless(v) /\ Talks(v, Tail(gi), go)
    <3>1. \A i \in Slots : v.channel[i] = FreshChannel BY <2>1, <2>2
    <3> QED BY <3>1, Quiet DEF Talks
  <2>6. Ahead(v, Tail(gi), go) BY <1>2, <2>1 DEF Ahead
  <2> QED BY <1>2, <2>1, <2>4, <2>5, <2>6 DEF Chatting
<1>6. ASSUME v = u, \A i \in Slots : For(f, u.channel[i].local) =>
                       u.channel[i].state \notin {"CONNECT", "SYN_SENT", "OPEN"}
      PROVE  Chatting(v, Tail(gi), go)
  <2> HIDE DEF v, f
  <2>1. Talks(u, Tail(gi), go) BY <1>4, <1>6, TalkDead DEF Talks
  <2> QED BY <1>2, <1>6, <2>1 DEF Chatting
<1>7. ASSUME f \in GuestTcp, NEW i \in Slots, i \in Addressed(u, f), u.stage = "ACTIVE",
             v = Put(u, i, Answer(u.channel[i], f))
      PROVE  Chatting(v, Tail(gi), go)
  <2> DEFINE c == u.channel[i]
             d == Answer(c, f)
             s == guest.stream[c.local]
  <2>1. c.state \in {"CONNECT", "SYN_SENT", "OPEN"} /\ c.local = f.local /\ c \in Channels
    BY <1>7, AddressedFacts
  <2>2. s \in Streams BY <2>1, LocalIs
  <2>3. For(f, c.local) BY <1>7, <2>1, GuestTcpFields DEF For
  <2>4. Talk(c, u.transmit, gi, go, s) /\ c.why \in {"none", "reset"} BY <1>2 DEF Talks, Blameless
  <2>5. Talk(d, u.transmit, Tail(gi), go, s) /\ d.why \in {"none", "reset"}
    <3> HIDE DEF c, s
    <3> QED BY <1>3, <2>1, <2>2, <2>3, <2>4, TalkHead
  <2>6. d \in Channels /\ d.local = c.local BY <1>7, <2>1, AnswerTyped
  <2> HIDE DEF d, v
  <2>7. /\ v.stage = u.stage /\ v.next_port = u.next_port /\ v.transmit = u.transmit
        /\ \A j \in Slots : v.channel[j] = IF j = i THEN d ELSE u.channel[j]
    BY <1>7, <2>6, PutFacts DEF d
  <2>8. ASSUME NEW j \in Slots
        PROVE  Talk(v.channel[j], v.transmit, Tail(gi), go, guest.stream[v.channel[j].local])
    <3>1. CASE j = i BY <2>5, <2>6, <2>7, <3>1
    <3>2. CASE j # i /\ u.channel[j].state = "UNUSED" BY <2>7, <3>2, TalkDead
    <3>3. CASE j # i /\ u.channel[j].state # "UNUSED"
      <4>1. u.channel[j].local # c.local
        <5>1. c.state # "UNUSED" BY <2>1
        <5> QED BY <3>3, <5>1, LocalIs
      <4>2. ~For(f, u.channel[j].local) BY <2>3, <4>1 DEF For
      <4>3. Talk(u.channel[j], u.transmit, Tail(gi), go, guest.stream[u.channel[j].local])
        BY <1>4, <4>2
      <4> QED BY <2>7, <3>3, <4>3
    <3> QED BY <3>1, <3>2, <3>3
  <2>9. Talks(v, Tail(gi), go) BY <2>8 DEF Talks
  <2>10. Blameless(v) BY <1>2, <2>5, <2>7 DEF Blameless
  <2>11. Early(v, Tail(gi), go) BY <1>2, <1>7, <2>7 DEF Early
  <2>12. Ahead(v, Tail(gi), go) BY <1>2, <2>7 DEF Ahead
  <2> QED BY <1>2, <2>7, <2>9, <2>10, <2>11, <2>12 DEF Chatting
<1>8. ASSUME f.kind = "control" PROVE \A p : ~For(f, p) BY <1>8 DEF For
<1>9. ASSUME f \in GuestTcp, Addressed(u, f) = {}, NEW i \in Slots, For(f, u.channel[i].local)
      PROVE  u.channel[i].state \notin {"CONNECT", "SYN_SENT", "OPEN"}
  <2> SUFFICES ASSUME u.channel[i].state \in {"CONNECT", "SYN_SENT", "OPEN"} PROVE FALSE
    OBVIOUS
  <2>1. u.channel[i].remote = Service /\ f.remote = Service BY <1>9, LocalIs, GuestTcpFields
  <2>2. i \in Addressed(u, f) BY <1>9, <2>1 DEF Addressed, For
  <2> QED BY <1>9, <2>2
<1> HIDE DEF f, v
<1>10. \/ v.stage = "FAILED"
       \/ /\ u.stage = "WAIT_VERSION" /\ f.kind = "version"
          /\ \E s \in {"SEND_SETUP", "ACTIVE"} : v = [u EXCEPT !.stage = s]
       \/ f.kind = "control" /\ v = u
       \/ f \in GuestTcp /\ Addressed(u, f) = {} /\ v = u
       \/ /\ u.stage = "ACTIVE" /\ f \in GuestTcp
          /\ \E i \in Slots : i \in Addressed(u, f) /\ v = Put(u, i, Answer(u.channel[i], f))
  <2>1. \/ v.stage = "FAILED" /\ Mishap(u, f)
        \/ /\ u.stage = "WAIT_VERSION" /\ f.kind = "version"
           /\ \E s \in {"SEND_SETUP", "ACTIVE"} : v = [u EXCEPT !.stage = s]
        \/ u.stage = "ACTIVE" /\ f.kind = "control" /\ v = u
        \/ u.stage = "ACTIVE" /\ f \in GuestTcp /\ Addressed(u, f) = {} /\ v = u
        \/ /\ u.stage = "ACTIVE" /\ f \in GuestTcp
           /\ \E i \in Slots : i \in Addressed(u, f) /\ v = Put(u, i, Answer(u.channel[i], f))
    BY <1>1, InputIs, Zenon DEF v
  <2> QED BY <2>1
<1> QED BY <1>5, <1>6, <1>7, <1>8, <1>9, <1>10 DEF v, f

LEMMA OutputStep2 ==
  ASSUME NEW u \in Muxes, NEW gi \in Seq(GuestFrames), NEW go \in HostFrames,
         Numbered(u), guest \in Guests, Chatting(u, gi, go)
  PROVE  Chatting(usb_mux_output(u), gi, go)
<1> DEFINE v == usb_mux_output(u)
<1>1. /\ Blameless(u) /\ Early(u, gi, go) /\ FitsOut(u.transmit, go)
      /\ Talks(u, gi, go) /\ Ahead(u, gi, go)
  BY DEF Chatting
<1>2. ASSUME NEW k \in {"version", "setup"}, NEW s \in {"WAIT_VERSION", "WAIT_SETUP"},
             k = "setup" <=> s = "WAIT_SETUP",
             u.stage = IF k = "setup" THEN "SEND_SETUP" ELSE "SEND_VERSION",
             v = [u EXCEPT !.transmit = [kind |-> k, session |-> u.session], !.stage = s]
      PROVE  Chatting(v, gi, go)
  <2> HIDE DEF v
  <2> DEFINE h == [kind |-> k, session |-> u.session]
  <2>1. h \in HostFrames /\ h.kind = k /\ (\A p : ~For(h, p)) BY MuxFields DEF HostFrames, For
  <2>2. /\ v.channel = u.channel /\ v.next_port = u.next_port /\ v.transmit = h /\ v.stage = s
    <3>1. v = [u EXCEPT !.transmit = h, !.stage = s] BY <1>2
    <3> HIDE DEF h
    <3> QED BY <3>1, <2>1 DEF Muxes
  <2> HIDE DEF h
  <2>3. \A i \in Slots : u.channel[i] = FreshChannel
    <3>1. u.stage # "ACTIVE" BY <1>2
    <3> QED BY <1>1, <3>1 DEF Early
  <2>4. Blameless(v) /\ Talks(v, gi, go)
    <3>1. \A i \in Slots : v.channel[i] = FreshChannel BY <2>2, <2>3
    <3> QED BY <3>1, Quiet DEF Talks
  <2>5. go.kind # "version" BY <1>1, <1>2 DEF Early
  <2>6. k = "version" => s = "WAIT_VERSION" /\ \A j \in 1..Len(gi) : gi[j].kind # "version"
    BY <1>1, <1>2 DEF Early
  <2>7. Early(v, gi, go)
    <3>1. k = "setup" => s # "WAIT_VERSION" BY <1>2
    <3> QED BY <1>2, <2>1, <2>2, <2>3, <2>5, <2>6, <3>1 DEF Early
  <2>8. FitsOut(v.transmit, go) BY <1>1, <2>1, <2>2 DEF FitsOut
  <2>9. Ahead(v, gi, go) BY <1>1, <2>1, <2>2 DEF Ahead, Unused
  <2> QED BY <2>4, <2>7, <2>8, <2>9 DEF Chatting
<1>3. ASSUME u.transmit = NoFrame, u.stage = "ACTIVE", NEW i \in Slots, HasFrame(u.channel[i]),
             v = Framed(u, i)
      PROVE  Chatting(v, gi, go)
  <2> HIDE DEF v
  <2> DEFINE c == u.channel[i]
             d == AfterFrame(c)
             f == FrameOf(u, i)
             s == guest.stream[c.local]
  <2>1. c.state # "UNUSED" BY <1>3 DEF HasFrame
  <2>2. c \in Channels /\ c.local \in Ports /\ c.remote = Service /\ s \in Streams
        /\ (u.next_port # 0 => c.local < u.next_port)
    BY <2>1, LocalIs
  <2>3. /\ f \in HostTcp /\ For(f, c.local) /\ d.local = c.local /\ f.local = c.local
        /\ d.why \in {"none", c.why}
    <3>1. /\ f \in HostTcp /\ For(f, c.local) /\ d.local = c.local /\ f.local = c.local
          /\ c.state = "CLOSING" => d.why = "none"
          /\ c.state # "CLOSING" => d.why = c.why
      BY <1>3, <2>2, FrameFields
    <3> QED BY <3>1
  <2>4. /\ v.stage = u.stage /\ v.next_port = u.next_port /\ v.transmit = f
        /\ \A j \in Slots : v.channel[j] = IF j = i THEN d ELSE u.channel[j]
    BY <1>3, <2>2, FramedFacts
  <2>5. Talk(c, NoFrame, gi, go, s) BY <1>1, <1>3 DEF Talks
  <2>6. /\ Talk(d, f, gi, go, s)
        /\ f.flags = "ack" => /\ ~(For(go, c.local) /\ go.flags = "syn")
                              /\ Fits(f, s, Bytes(go, c.local))
    BY <1>3, <2>2, <2>5, TalkFrame
  <2> HIDE DEF d, f, s
  <2>7. ASSUME NEW j \in Slots
        PROVE  Talk(v.channel[j], v.transmit, gi, go, guest.stream[v.channel[j].local])
    <3>1. CASE j = i BY <2>3, <2>4, <2>6, <3>1 DEF s
    <3>2. CASE j # i /\ u.channel[j].state = "UNUSED" BY <2>4, <3>2, TalkDead
    <3>3. CASE j # i /\ u.channel[j].state # "UNUSED"
      <4> DEFINE e == u.channel[j]
                 t == guest.stream[e.local]
                 tr == NoFrame
      <4>1. e.local # c.local BY <2>1, <3>3, LocalIs
      <4>2. ~For(f, e.local) /\ ~For(NoFrame, e.local) BY <2>3, <4>1, NoFrameIs DEF For
      <4>3. Talk(e, tr, gi, go, t) BY <1>1, <1>3 DEF Talks
      <4>4. ~For(tr, e.local) BY <4>2
      <4>5. v.channel[j] = e BY <2>4, <3>3
      <4> HIDE DEF tr, e, t
      <4>6. Talk(e, f, gi, go, t) BY <4>2, <4>3, <4>4, TalkOut
      <4> QED BY <2>4, <4>5, <4>6 DEF t
    <3> QED BY <3>1, <3>2, <3>3
  <2>8. Talks(v, gi, go) BY <2>7 DEF Talks
  <2>9. Blameless(v) BY <1>1, <2>3, <2>4 DEF Blameless
  <2>10. Early(v, gi, go)
    <3>1. f.kind = "tcp" BY <2>3, HostTcpFields
    <3> QED BY <1>1, <1>3, <2>4, <3>1 DEF Early
  <2>11. FitsOut(v.transmit, go)
    <3>1. go.kind = "tcp" /\ go.flags = "ack" => Fits(go, guest.stream[go.local], 0)
      BY <1>1 DEF FitsOut
    <3> QED BY <2>3, <2>4, <2>6, <3>1 DEF FitsOut, s
  <2>12. Ahead(v, gi, go)
    <3> SUFFICES ASSUME u.next_port # 0, NEW p \in u.next_port..(PORTS - 1)
                 PROVE  Unused(p, f, gi, go, guest.stream[p])
      BY <2>4 DEF Ahead
    <3>1. Unused(p, NoFrame, gi, go, guest.stream[p]) BY <1>1, <1>3 DEF Ahead
    <3>2. p # c.local
      <4>1. u.next_port \in Nat /\ PORTS \in Nat /\ c.local \in Nat
        <5>1. u.next_port \in 0..(PORTS - 1) /\ PORTS \in Nat BY MuxFields, Consts
        <5>2. c.local \in Nat BY <2>2, SlotFacts
        <5> QED BY <5>1, <5>2
      <4> QED BY <2>2, <4>1
    <3>3. ~For(f, p) BY <2>3, <3>2 DEF For
    <3> QED BY <3>1, <3>3 DEF Unused
  <2> QED BY <2>8, <2>9, <2>10, <2>11, <2>12 DEF Chatting
<1> HIDE DEF v
<1>4. \/ v = u
      \/ /\ u.transmit = NoFrame /\ u.stage = "SEND_VERSION"
         /\ v = [u EXCEPT !.transmit = [kind |-> "version", session |-> u.session],
                          !.stage = "WAIT_VERSION"]
      \/ /\ u.transmit = NoFrame /\ u.stage = "SEND_SETUP"
         /\ v = [u EXCEPT !.transmit = [kind |-> "setup", session |-> u.session],
                          !.stage = "WAIT_SETUP"]
      \/ /\ u.transmit = NoFrame /\ u.stage = "ACTIVE"
         /\ \E i \in Slots : HasFrame(u.channel[i]) /\ v = Framed(u, i)
  BY OutputIs DEF v
<1>5. Chatting(v, gi, go) BY <1>2, <1>3, <1>4
<1> QED BY <1>5 DEF v

LEMMA CompleteStep2 ==
  ASSUME NEW u \in Muxes, NEW gi, Chatting(u, gi, NoFrame)
  PROVE  Chatting(usb_mux_output_complete(u), gi, u.transmit)
<1> DEFINE v == usb_mux_output_complete(u)
<1>1. /\ Blameless(u) /\ Early(u, gi, NoFrame) /\ FitsOut(u.transmit, NoFrame)
      /\ Talks(u, gi, NoFrame) /\ Ahead(u, gi, NoFrame)
  BY DEF Chatting
<1>2. /\ v.channel = u.channel /\ v.next_port = u.next_port /\ v.transmit = NoFrame
      /\ v.stage = IF u.stage = "WAIT_SETUP" THEN "ACTIVE" ELSE u.stage
  BY CompleteIs
<1> HIDE DEF v
<1>3. u.transmit \in HostFrames BY MuxFields
<1>4. NoFrame.kind = "none" /\ \A p : ~For(NoFrame, p) /\ Bytes(NoFrame, p) = 0
  BY NoFrameIs DEF NoFrame
<1>5. Early(v, gi, u.transmit) BY <1>1, <1>2, <1>4 DEF Early
<1>6. FitsOut(v.transmit, u.transmit) BY <1>1, <1>2, <1>4 DEF FitsOut
<1>7. Talks(v, gi, u.transmit) BY <1>1, <1>2, <1>3, TalkComplete DEF Talks
<1>8. Ahead(v, gi, u.transmit) BY <1>1, <1>2, <1>4 DEF Ahead, Unused
<1>9. Blameless(v) BY <1>1, <1>2 DEF Blameless
<1> QED BY <1>5, <1>6, <1>7, <1>8, <1>9 DEF Chatting, v

LEMMA InitStep2 ==
  ASSUME Inv1, mux = NoMux, Current, host.stage = "READY"
  PROVE  Chatting(usb_mux_init(faults + 1), gin, gout)
<1> DEFINE u == usb_mux_init(faults + 1)
<1>1. /\ \A i \in Slots : u.channel[i] = FreshChannel
      /\ u.stage = "SEND_VERSION" /\ u.transmit = NoFrame /\ u.next_port = 1
  BY DEF usb_mux_init
<1> HIDE DEF u
<1>2. gin = <<>> /\ gout = NoFrame /\ guest = NoSession BY DEF Inv1, Linked, Cabled, Current, Same
<1>3. NoFrame.kind = "none" /\ Len(gin) = 0 /\ \A p : ~For(NoFrame, p)
  BY <1>2, NoFrameIs DEF NoFrame
<1>4. Blameless(u) /\ Talks(u, gin, gout) BY <1>1, Quiet DEF Talks
<1>5. Early(u, gin, gout) BY <1>1, <1>2, <1>3 DEF Early
<1>6. FitsOut(u.transmit, gout) BY <1>1, <1>2, <1>3 DEF FitsOut
<1>7. Ahead(u, gin, gout)
  <2> SUFFICES ASSUME NEW p \in 1..(PORTS - 1) PROVE Unused(p, NoFrame, gin, gout, guest.stream[p])
    BY <1>1 DEF Ahead
  <2>1. guest.stream[p].state = "none" BY <1>2 DEF NoSession, NoStream, Ports
  <2> QED BY <1>2, <1>3, <2>1 DEF Unused, Silent
<1> QED BY <1>4, <1>5, <1>6, <1>7 DEF Chatting, u

\* one channel of an active mux changes
LEMMA ChatPut ==
  ASSUME NEW u \in Muxes, NEW v \in Muxes, NEW gi, NEW go, NEW i \in Slots, Chatting(u, gi, go),
         u.stage = "ACTIVE", v.stage = u.stage, v.transmit = u.transmit,
         v.next_port = u.next_port, \A j \in Slots : j # i => v.channel[j] = u.channel[j],
         v.channel[i].why \in {"none", "reset"},
         Talk(v.channel[i], u.transmit, gi, go, guest.stream[v.channel[i].local])
  PROVE  Chatting(v, gi, go)
<1>1. /\ Blameless(u) /\ Early(u, gi, go) /\ FitsOut(u.transmit, go)
      /\ Talks(u, gi, go) /\ Ahead(u, gi, go)
  BY DEF Chatting
<1>2. Blameless(v) BY <1>1 DEF Blameless
<1>3. Early(v, gi, go) BY <1>1 DEF Early
<1>4. ASSUME NEW j \in Slots
      PROVE  Talk(v.channel[j], v.transmit, gi, go, guest.stream[v.channel[j].local])
  <2>1. CASE j = i BY <2>1
  <2>2. CASE j # i
    <3>1. v.channel[j] = u.channel[j] BY <2>2
    <3> QED BY <1>1, <3>1 DEF Talks
  <2> QED BY <2>1, <2>2
<1>5. Talks(v, gi, go) BY <1>4 DEF Talks
<1>6. Ahead(v, gi, go) BY <1>1 DEF Ahead
<1> QED BY <1>1, <1>2, <1>3, <1>5, <1>6 DEF Chatting

\* a live channel belongs to an active mux
LEMMA LiveActive ==
  ASSUME NEW u, NEW gi, NEW go, Chatting(u, gi, go), NEW i \in Slots, u.channel[i].state \in Live
  PROVE  u.stage = "ACTIVE"
BY DEF Chatting, Early, FreshChannel, Live

LEMMA ChatClose ==
  ASSUME NEW u \in Muxes, NEW gi, NEW go, NEW i \in Slots, Chatting(u, gi, go), Numbered(u),
         u.channel[i].state \in Live
  PROVE  Chatting(usb_mux_close(u, i), gi, go)
<1> DEFINE v == usb_mux_close(u, i)
           c == u.channel[i]
<1>1. u.stage = "ACTIVE" BY LiveActive
<1>2. /\ v \in Muxes /\ v.stage = u.stage /\ v.next_port = u.next_port
      /\ v.transmit = u.transmit /\ \A j \in Slots : j # i => v.channel[j] = u.channel[j]
      /\ v.channel[i] = [c EXCEPT !.send = <<>>, !.receive = <<>>,
                          !.state = IF u.stage = "ACTIVE" THEN "CLOSING" ELSE "CLOSED"]
      /\ v.channel[i].state \in {"CLOSING", "CLOSED"}
  BY CloseFacts
<1> HIDE DEF v
<1>3. c \in Channels /\ c.why \in {"none", "reset"} BY MuxFields DEF Chatting, Blameless
<1> HIDE DEF c
<1>4. v.channel[i].why = c.why BY <1>1, <1>2, <1>3 DEF Channels
<1>5. Talk(v.channel[i], u.transmit, gi, go, guest.stream[v.channel[i].local]) BY <1>2, TalkDead
<1>6. Chatting(v, gi, go) BY <1>1, <1>2, <1>3, <1>4, <1>5, ChatPut
<1> QED BY <1>6 DEF v

LEMMA NextPort ==
  ASSUME NEW a \in Ports
  PROVE  (a + 1) % PORTS # 0 => (a + 1) % PORTS = a + 1
<1>5. a \in Nat /\ a # 0 /\ a < PORTS /\ PORTS \in Nat \ {0} BY Consts DEF Ports
<1>1. CASE a = PORTS - 1
  <2>1. a + 1 \in Int /\ 0 \in 0..(PORTS - 1) /\ a + 1 = PORTS * 1 + 0 BY <1>5, <1>1
  <2> QED BY <2>1, <1>5, ModUnique
<1>2. CASE a # PORTS - 1
  <2> DEFINE b == a + 1
  <2>1. b \in Int /\ b \in 0..(PORTS - 1) /\ b = PORTS * 0 + b BY <1>5, <1>2
  <2> HIDE DEF b
  <2>2. b % PORTS = b BY <2>1, <1>5, ModUnique
  <2> QED BY <2>2 DEF b
<1> QED BY <1>1, <1>2

LEMMA ChatConnect ==
  ASSUME NEW u \in Muxes, NEW gi, NEW go, Chatting(u, gi, go), CanConnect(u)
  PROVE  Chatting(usb_mux_connect(u, Service), gi, go)
<1> DEFINE v == usb_mux_connect(u, Service)
           i == ConnectSlot(u)
           c == Connected(u, Service)
<1>1. /\ i \in Slots /\ u.next_port \in Ports /\ c \in Channels /\ v \in Muxes
      /\ v.channel = Put(u, i, c).channel /\ v.next_port = (u.next_port + 1) % PORTS
      /\ u.stage = "ACTIVE" /\ v.stage = u.stage /\ v.transmit = u.transmit
  BY ConnectIs
<1>2. /\ c.state = "CONNECT" /\ c.local = u.next_port /\ c.receive = <<>>
      /\ c.peer_window = 0 /\ c.why = "none"
  BY DEF Connected, FreshChannel
<1>3. \A j \in Slots : v.channel[j] = IF j = i THEN c ELSE u.channel[j]
  <2> HIDE DEF v, i, c
  <2> QED BY <1>1, PutFacts
<1> HIDE DEF v, i, c
<1>4. /\ Blameless(u) /\ Early(u, gi, go) /\ FitsOut(u.transmit, go)
      /\ Talks(u, gi, go) /\ Ahead(u, gi, go)
  BY DEF Chatting
<1>5. u.next_port \in Nat /\ u.next_port # 0 /\ u.next_port < PORTS /\ PORTS \in Nat \ {0}
  BY <1>1, Consts DEF Ports
<1>6. \A p \in u.next_port..(PORTS - 1) : Unused(p, u.transmit, gi, go, guest.stream[p])
  BY <1>4, <1>5 DEF Ahead
<1>7. Talk(c, u.transmit, gi, go, guest.stream[c.local])
  <2>1. c.local \in u.next_port..(PORTS - 1) BY <1>2, <1>5
  <2>2. Unused(c.local, u.transmit, gi, go, guest.stream[c.local]) BY <1>6, <2>1
  <2>3. c.peer_window <= GUEST_WINDOW /\ Len(c.receive) = 0 BY <1>2, WindowFits
  <2> QED BY <1>2, <2>2, <2>3 DEF Talk
<1>8. Talks(v, gi, go)
  <2> SUFFICES ASSUME NEW j \in Slots
               PROVE  Talk(v.channel[j], u.transmit, gi, go, guest.stream[v.channel[j].local])
    BY <1>1 DEF Talks
  <2>1. CASE j = i BY <1>3, <1>7, <2>1
  <2>2. CASE j # i
    <3>1. v.channel[j] = u.channel[j] BY <1>3, <2>2
    <3> QED BY <1>4, <3>1 DEF Talks
  <2> QED BY <2>1, <2>2
<1>9. Blameless(v) BY <1>2, <1>3, <1>4 DEF Blameless
<1>10. Early(v, gi, go) BY <1>1, <1>4 DEF Early
<1>11. Ahead(v, gi, go)
  <2>1. v.next_port # 0 => v.next_port = u.next_port + 1 BY <1>1, NextPort
  <2> SUFFICES ASSUME v.next_port # 0, NEW p \in v.next_port..(PORTS - 1)
               PROVE  Unused(p, u.transmit, gi, go, guest.stream[p])
    BY <1>1 DEF Ahead
  <2>2. p \in u.next_port..(PORTS - 1) BY <1>5, <2>1
  <2> QED BY <1>6, <2>2
<1>12. Chatting(v, gi, go) BY <1>1, <1>4, <1>8, <1>9, <1>10, <1>11 DEF Chatting
<1> QED BY <1>12 DEF v

\* n bytes of a live channel go to its client, m come from it
LEMMA ChatMoved ==
  ASSUME NEW S \in States, NEW k \in Opens, NEW i \in Slots, S.conn[k].chan = i,
         S.u.stage = "ACTIVE", S.u.channel[i].state \in Live, Numbered(S.u), guest \in Guests,
         NEW n \in 0..Len(S.u.channel[i].receive), n <= SOCKET - Len(S.sock[k].down),
         NEW m \in 0..Len(S.sock[k].up), m <= TX_SIZE - Len(S.u.channel[i].send),
         NEW gi \in Seq(GuestFrames), NEW go \in HostFrames, Chatting(S.u, gi, go)
  PROVE  Chatting(Moved(S, k, n, m).u, gi, go)
<1> DEFINE o == S.u.channel[i]
           b == SubSeq(S.sock[k].up, 1, m)
           d == Passed(o, n, b)
           v == Put(S.u, i, d)
<1>1. /\ Moved(S, k, n, m).u = v /\ d \in Channels /\ b \in Seq(UpBytes)
      /\ Len(o.send) + Len(b) <= TX_SIZE
  <2>1. /\ Moved(S, k, n, m) = [u |-> v, conn |-> S.conn, list |-> S.list,
             sock |-> [S.sock EXCEPT ![k] = PipeAfter(S.sock[k], S.u.channel[i], n, m)]]
        /\ d \in Channels /\ b \in Seq(UpBytes) /\ Len(o.send) + Len(b) <= TX_SIZE
    BY MovedIs
  <2> HIDE DEF v, d, o, b
  <2> QED BY <2>1
<1>2. S.u \in Muxes /\ o \in Channels /\ S.u.transmit \in HostFrames BY StateFields, MuxFields
<1>3. /\ v \in Muxes /\ v.stage = S.u.stage /\ v.next_port = S.u.next_port
      /\ v.transmit = S.u.transmit
      /\ \A j \in Slots : v.channel[j] = IF j = i THEN d ELSE S.u.channel[j]
  <2> DEFINE u == S.u
  <2> HIDE DEF d, u
  <2>1. u \in Muxes /\ d \in Channels BY <1>1, <1>2 DEF u
  <2>2. /\ Put(u, i, d) \in Muxes /\ Put(u, i, d).stage = u.stage
        /\ Put(u, i, d).next_port = u.next_port /\ Put(u, i, d).transmit = u.transmit
        /\ \A j \in Slots : Put(u, i, d).channel[j] = IF j = i THEN d ELSE u.channel[j]
    BY <2>1, PutFacts
  <2> QED BY <2>2 DEF u
<1>4. /\ d.state = o.state /\ d.local = o.local /\ d.send_next = o.send_next
      /\ d.send_acked = o.send_acked /\ d.receive_next = o.receive_next
      /\ d.peer_window = o.peer_window /\ d.why = o.why
      /\ d.receive = SubSeq(o.receive, n + 1, Len(o.receive))
  <2>1. n \in 0..Len(o.receive) OBVIOUS
  <2> HIDE DEF o, b
  <2> QED BY <1>1, <1>2, <2>1, PassedFacts
<1> HIDE DEF v, d, b
<1>5. Len(d.receive) <= Len(o.receive)
  <2>1. o.receive \in Seq(DownBytes) /\ Len(o.receive) \in Nat BY <1>2, ChannelFields
  <2>2. Len(SubSeq(o.receive, n + 1, Len(o.receive))) = Len(o.receive) - n BY <2>1, LastPart
  <2> HIDE DEF o
  <2>3. n \in Nat BY <2>1 DEF o
  <2> QED BY <1>4, <2>1, <2>2, <2>3
<1>6. /\ Talk(o, S.u.transmit, gi, go, guest.stream[o.local]) /\ o.why \in {"none", "reset"}
  BY DEF Chatting, Talks, Blameless
<1>7. guest.stream[o.local] \in Streams
  <2>1. o.state # "UNUSED" BY DEF Live
  <2> QED BY <1>2, <2>1, LocalIs
<1>8. Talk(d, S.u.transmit, gi, go, guest.stream[d.local])
  <2> DEFINE s == guest.stream[o.local]
             tr == S.u.transmit
  <2>1. d.local = o.local /\ s \in Streams /\ tr \in HostFrames /\ Talk(o, tr, gi, go, s)
    BY <1>2, <1>4, <1>6, <1>7
  <2> HIDE DEF o, s, tr
  <2>2. Talk(d, tr, gi, go, s) BY <1>1, <1>2, <1>4, <1>5, <2>1, TalkLess
  <2> QED BY <2>1, <2>2 DEF s, tr
<1>9. v.channel[i] = d /\ \A j \in Slots : j # i => v.channel[j] = S.u.channel[j] BY <1>3
<1>10. Chatting(v, gi, go) BY <1>2, <1>3, <1>4, <1>6, <1>8, <1>9, ChatPut
<1> QED BY <1>1, <1>10

LEMMA ClosedMux ==
  ASSUME NEW S \in States, NEW k \in Opens, NEW why, NEW v
  PROVE  Closed(S, k, why, v).u = v
<1> DEFINE x == [S.conn EXCEPT ![k] = Left(S, k, why)]
           l == Without(S.list, {k})
           y == [S.sock EXCEPT ![k] = [up |-> <<>>, down |-> S.sock[k].down]]
<1>1. Closed(S, k, why, v) = [u |-> v, conn |-> x, list |-> l, sock |-> y] BY ClosedIs
<1> HIDE DEF x, l, y
<1> QED BY <1>1

\* one visit of a connection
LEMMA PollStep2 ==
  ASSUME NEW S, NEW gi, NEW go, Poll1(S, gi, go), NEW k \in ToSet(S.list), guest \in Guests,
         Chatting(S.u, gi, go)
  PROVE  Chatting(PollOne(S, k).u, gi, go)
<1> DEFINE T == PollOne(S, k)
<1> SUFFICES Chatting(T.u, gi, go)
  OBVIOUS
<1>1. /\ S \in States /\ k \in Opens /\ S.u \in Muxes /\ S.sock[k] \in Pipes
      /\ S.conn[k].chan # -1 => S.u.channel[S.conn[k].chan].state \in Live
      /\ S.conn[k].chan \in Slots \cup {-1} /\ Numbered(S.u)
  BY PollFacts
<1>2. gi \in Seq(GuestFrames) /\ go \in HostFrames BY DEF Poll1, Mid1, Typed, UpTo
<1>3. \/ T = S \/ Connects(S, k, T) \/ Cancels(S, k, T) \/ Delivers(S, k, T)
      \/ Fails(S, k, T) \/ Transfers(S, k, T)
  BY <1>1, PollCases
<1> HIDE DEF T
<1>4. CASE Connects(S, k, T)
  <2>1. CanConnect(S.u) /\ T.u = usb_mux_connect(S.u, Service) BY <1>4 DEF Connects
  <2> QED BY <1>1, <2>1, ChatConnect
<1>5. CASE Cancels(S, k, T)
  <2> DEFINE v == IF S.conn[k].chan # -1 THEN usb_mux_close(S.u, S.conn[k].chan) ELSE S.u
  <2>1. T = Closed(S, k, S.conn[k].error, v) BY <1>5 DEF Cancels
  <2>2. Chatting(v, gi, go)
    <3>1. CASE S.conn[k].chan = -1 BY <3>1
    <3>2. CASE S.conn[k].chan # -1
      <4>1. S.conn[k].chan \in Slots BY <1>1, <3>2
      <4> QED BY <1>1, <3>2, <4>1, ChatClose
    <3> QED BY <3>1, <3>2
  <2> DEFINE e == S.conn[k].error
  <2> HIDE DEF v, e
  <2>3. Closed(S, k, e, v).u = v BY <1>1, ClosedMux
  <2> QED BY <2>1, <2>2, <2>3 DEF e
<1>6. ASSUME NEW i \in Slots, S.conn[k].chan = i
      PROVE  /\ S.u.channel[i].state \in Live
             /\ 0 \in 0..Len(S.sock[k].up) /\ 0 <= TX_SIZE - Len(S.u.channel[i].send)
  <2>1. S.u.channel[i] \in Channels BY <1>1, MuxFields
  <2>2. /\ Len(S.u.channel[i].send) \in Nat /\ Len(S.u.channel[i].send) <= TX_SIZE
        /\ TX_SIZE \in Nat /\ Len(S.sock[k].up) \in Nat
    BY <1>1, <2>1, ChannelFields, PipeFields, Consts
  <2> QED BY <1>1, <1>6, <2>2, SlotFacts
<1>7. CASE Delivers(S, k, T)
  <2>1. PICK i \in Slots : \E n \in 0..Len(S.u.channel[i].receive) :
          /\ S.conn[k].chan = i /\ S.u.stage = "ACTIVE"
          /\ n <= SOCKET - Len(S.sock[k].down) /\ T = Moved(S, k, n, 0)
    BY <1>7 DEF Delivers
  <2>2. PICK n \in 0..Len(S.u.channel[i].receive) :
          n <= SOCKET - Len(S.sock[k].down) /\ T = Moved(S, k, n, 0)
    BY <2>1
  <2>3. Chatting(Moved(S, k, n, 0).u, gi, go) BY <1>1, <1>2, <1>6, <2>1, <2>2, ChatMoved
  <2> QED BY <2>2, <2>3
<1>8. CASE Fails(S, k, T)
  <2>1. PICK i \in Slots : \E n \in 0..Len(S.u.channel[i].receive) :
          /\ S.conn[k].chan = i /\ S.u.stage = "ACTIVE"
          /\ n <= SOCKET - Len(S.sock[k].down)
          /\ T = Closed(Moved(S, k, n, 0), k, S.u.channel[i].why, usb_mux_close(S.u, i))
    BY <1>8 DEF Fails
  <2>2. PICK n \in 0..Len(S.u.channel[i].receive) :
          /\ n <= SOCKET - Len(S.sock[k].down)
          /\ T = Closed(Moved(S, k, n, 0), k, S.u.channel[i].why, usb_mux_close(S.u, i))
    BY <2>1
  <2> DEFINE M == Moved(S, k, n, 0)
             v == usb_mux_close(S.u, i)
             w == S.u.channel[i].why
  <2>3. M \in States BY <1>1, <1>6, <2>1, <2>2, MovedIs
  <2>4. Chatting(v, gi, go) BY <1>1, <1>6, <2>1, ChatClose
  <2>5. T = Closed(M, k, w, v) BY <2>2
  <2> HIDE DEF M, v, w
  <2>6. Closed(M, k, w, v).u = v BY <1>1, <2>3, ClosedMux
  <2> QED BY <2>4, <2>5, <2>6
<1>9. CASE Transfers(S, k, T)
  <2>1. PICK i \in Slots : \E n \in 0..Len(S.u.channel[i].receive), m \in 0..Len(S.sock[k].up) :
          /\ S.conn[k].chan = i /\ S.u.stage = "ACTIVE"
          /\ n <= SOCKET - Len(S.sock[k].down) /\ m <= TX_SIZE - Len(S.u.channel[i].send)
          /\ n = ToClient(S, k) /\ m = FromClient(S, k)
          /\ T = Transfer(S, k)
    BY <1>9 DEF Transfers
  <2>2. PICK n \in 0..Len(S.u.channel[i].receive), m \in 0..Len(S.sock[k].up) :
          /\ n <= SOCKET - Len(S.sock[k].down) /\ m <= TX_SIZE - Len(S.u.channel[i].send)
          /\ n = ToClient(S, k) /\ m = FromClient(S, k)
          /\ T = Transfer(S, k)
    BY <2>1
  <2> DEFINE M == Moved(S, k, n, m)
  <2>3. M \in States /\ M.conn = S.conn
    <3> DEFINE x == Put(S.u, i, Passed(S.u.channel[i], n, SubSeq(S.sock[k].up, 1, m)))
               y == [S.sock EXCEPT ![k] = PipeAfter(S.sock[k], S.u.channel[i], n, m)]
    <3>1. M = [u |-> x, conn |-> S.conn, list |-> S.list, sock |-> y] /\ M \in States
      BY <1>1, <2>1, <2>2, MovedIs
    <3> HIDE DEF M, x, y
    <3> QED BY <3>1
  <2>4. Chatting(M.u, gi, go) BY <1>1, <1>2, <1>6, <2>1, <2>2, ChatMoved
  <2>5. Moved(S, k, ToClient(S, k), FromClient(S, k)) = M BY <2>2
  <2> HIDE DEF M
  <2>6. Transfer(S, k) =
           [u |-> M.u, conn |-> [S.conn EXCEPT ![k] = [S.conn[k] EXCEPT !.ready = TRUE,
                                                          !.canceled = HangUpSeen(S, k)]],
            list |-> M.list, sock |-> M.sock]
    BY <1>1, <2>3, <2>5, TransferIs
  <2>7. T.u = M.u BY <2>2, <2>6
  <2> QED BY <2>4, <2>7
<1>10. CASE T = S BY <1>10
<1> QED BY <1>3, <1>4, <1>5, <1>7, <1>8, <1>9, <1>10

LEMMA FeedAll2 ==
  ASSUME NEW u, NEW C, NEW L, NEW K, NEW gi, NEW go, u \in Muxes, Same, Mid1(u, C, L, K, gi, go),
         guest \in Guests, Chatting(u, gi, go), NEW n \in 0..Len(gi)
  PROVE  \/ usb_mux_feed(u, SubSeq(gi, 1, n)).stage = "FAILED"
         \/ Chatting(usb_mux_feed(u, SubSeq(gi, 1, n)), SubSeq(gi, n + 1, Len(gi)), go)
<1> DEFINE Fine(m, q) == Mid1(m, C, L, K, q, go) /\ Chatting(m, q, go)
           G == {x \in Muxes \X Seq(GuestFrames) : Fine(x[1], x[2])}
<1>1. gi \in Seq(GuestFrames) BY DEF Mid1, Typed, UpTo
<1>2. <<u, gi>> \in G BY <1>1
<1>3. ASSUME NEW m, NEW q, <<m, q>> \in G, q # <<>>
      PROVE  \/ input_frame(m, q[1]).stage = "FAILED"
             \/ <<input_frame(m, q[1]), Tail(q)>> \in G
  <2>1. m \in Muxes /\ q \in Seq(GuestFrames) /\ Mid1(m, C, L, K, q, go) /\ Chatting(m, q, go)
    BY <1>3
  <2>2. Tail(q) \in Seq(GuestFrames) BY <2>1, <1>3, TailFacts
  <2>3. \/ input_frame(m, q[1]).stage = "FAILED"
        \/ input_frame(m, q[1]) \in Muxes /\ Mid1(input_frame(m, q[1]), C, L, K, Tail(q), go)
    BY <2>1, <1>3, FrameStep1
  <2>4. go \in HostFrames /\ Numbered(m) BY <2>1 DEF Mid1, Typed
  <2>5. \/ input_frame(m, q[1]).stage = "FAILED"
        \/ Chatting(input_frame(m, q[1]), Tail(q), go)
    BY <1>3, <2>1, <2>4, FrameStep2
  <2> QED BY <2>2, <2>3, <2>5
<1> DEFINE v == usb_mux_feed(u, SubSeq(gi, 1, n))
           q == SubSeq(gi, n + 1, Len(gi))
<1> HIDE DEF G
<1>4. v.stage = "FAILED" \/ <<v, q>> \in G BY <1>1, <1>2, <1>3, FeedLoop
<1> HIDE DEF v, q
<1>5. v.stage = "FAILED" \/ Chatting(v, q, go) BY <1>4 DEF G
<1> QED BY <1>5 DEF v, q

LEMMA PollAll2 ==
  ASSUME NEW u \in Muxes, NEW gi, NEW go, Mid1(u, conn, list, sock, gi, go), pollWithMux(u),
         guest \in Guests, Chatting(u, gi, go)
  PROVE  Chatting(mux', gi, go)
<1> DEFINE G == {S \in States : Poll1(S, gi, go) /\ Chatting(S.u, gi, go)}
           b == [u |-> u, conn |-> conn, list |-> list, sock |-> sock]
<1>1. conn \in [Opens -> Conns] /\ list \in Seq(Opens) /\ sock \in [Opens -> Pipes] /\ IsInjective(list)
  BY DEF Mid1, Typed, Owned
<1>2. b \in G BY <1>1 DEF States, Poll1
<1>3. ASSUME NEW S, NEW k \in ToSet(S.list), S \in G
      PROVE  PollOne(S, k) \in G /\ ToSet(S.list) \ {k} \subseteq ToSet(PollOne(S, k).list)
  <2>1. Poll1(S, gi, go) /\ Chatting(S.u, gi, go) BY <1>3
  <2>2. Poll1(PollOne(S, k), gi, go) /\ ToSet(S.list) \ {k} \subseteq ToSet(PollOne(S, k).list)
    BY <2>1, PollStep1
  <2>3. Chatting(PollOne(S, k).u, gi, go) BY <2>1, PollStep2
  <2> QED BY <2>2, <2>3 DEF Poll1
<1> HIDE DEF G
<1>4. \E S \in G : mux' = S.u /\ conn' = S.conn /\ list' = S.list /\ sock' = S.sock
  BY <1>1, <1>2, <1>3, PollLoop
<1>5. PICK S \in G : mux' = S.u BY <1>4
<1>6. Chatting(S.u, gi, go) BY <1>5 DEF G
<1> QED BY <1>5, <1>6

LEMMA ServeStep2 ==
  ASSUME Inv2, NEW n, Serving(n)
  PROVE  \/ LinkLost
         \/ /\ Chatting(mux', gin', gout') /\ mux' \in Muxes
            /\ UNCHANGED <<host, dev, guest>>
<1>1. PICK u : /\ u = IF mux = NoMux THEN usb_mux_init(faults + 1) ELSE mux
               /\ Current /\ host.stage = "READY"
               /\ n \in IF gin = <<>> THEN {0} ELSE 1..Len(gin)
               /\ UNCHANGED faults
               /\ \E fed \in {usb_mux_feed(u, SubSeq(gin, 1, n))} :
                  \E out \in {usb_mux_output(fed)} :
                     IF fed.stage = "FAILED"
                     THEN LinkLost
                     ELSE LET goes == gout = NoFrame /\ out.transmit # NoFrame IN
                          /\ pollWithMux(IF goes THEN usb_mux_output_complete(out) ELSE out)
                          /\ gout' = IF goes THEN out.transmit ELSE gout
                          /\ gin' = SubSeq(gin, n + 1, Len(gin))
                          /\ UNCHANGED <<wrote, got, host, dev, guest>>
  BY DEF Serving
<1> DEFINE fed == usb_mux_feed(u, SubSeq(gin, 1, n))
           out == usb_mux_output(fed)
           goes == gout = NoFrame /\ out.transmit # NoFrame
           v == IF goes THEN usb_mux_output_complete(out) ELSE out
           go == IF goes THEN out.transmit ELSE gout
           gi == SubSeq(gin, n + 1, Len(gin))
<1>2. IF fed.stage = "FAILED" THEN LinkLost
      ELSE /\ pollWithMux(v) /\ gout' = go /\ gin' = gi
           /\ UNCHANGED <<wrote, got, host, dev, guest>>
  BY <1>1
<1>3. Same /\ Inv1 /\ guest \in Guests BY <1>1 DEF Current, Same, Inv2, Inv1, TypedRest
<1>4. n \in 0..Len(gin)
  <2>1. Len(gin) \in Nat BY <1>3 DEF Inv1, Typed, UpTo
  <2> QED BY <1>1, <2>1
<1>5. u \in Muxes /\ Mid1(u, conn, list, sock, gin, gout) /\ Chatting(u, gin, gout)
  <2>1. CASE mux = NoMux BY <1>1, <1>3, <2>1, InitStep1, InitStep2
  <2>2. CASE mux # NoMux
    <3>1. u \in Muxes /\ Mid1(u, conn, list, sock, gin, gout) /\ u = mux
      BY <1>1, <1>3, <2>2 DEF Inv1, Typed, Mid1
    <3> QED BY <1>3, <3>1, TalkingIs DEF Inv2
  <2> QED BY <2>1, <2>2
<1> SUFFICES ASSUME fed.stage # "FAILED"
             PROVE  /\ Chatting(mux', gin', gout') /\ mux' \in Muxes
                    /\ UNCHANGED <<host, dev, guest>>
  BY <1>1, <1>2
<1>6. fed \in Muxes /\ Mid1(fed, conn, list, sock, gi, gout) /\ Chatting(fed, gi, gout)
  BY <1>3, <1>4, <1>5, FeedAll1, FeedAll2
<1> HIDE DEF fed, gi
<1>7. out \in Muxes /\ Mid1(out, conn, list, sock, gi, gout) /\ Chatting(out, gi, gout)
  <2>1. gi \in Seq(GuestFrames) /\ gout \in HostFrames /\ Numbered(fed)
    BY <1>6 DEF Mid1, Typed, UpTo
  <2> QED BY <1>3, <1>6, <2>1, OutputStep1, OutputStep2
<1> HIDE DEF out
<1>8. v \in Muxes /\ Mid1(v, conn, list, sock, gi, go) /\ Chatting(v, gi, go)
  <2>1. CASE goes
    <3>1. Mid1(out, conn, list, sock, gi, NoFrame) /\ Chatting(out, gi, NoFrame) BY <1>7, <2>1
    <3>2. usb_mux_output_complete(out) \in Muxes
          /\ Mid1(usb_mux_output_complete(out), conn, list, sock, gi, out.transmit)
      BY <1>3, <1>7, <3>1, CompleteStep1
    <3>3. Chatting(usb_mux_output_complete(out), gi, out.transmit) BY <1>7, <3>1, CompleteStep2
    <3> QED BY <2>1, <3>2, <3>3
  <2>2. CASE ~goes BY <1>7, <2>2
  <2> QED BY <2>1, <2>2
<1> HIDE DEF v, go
<1>9. mux' \in Muxes /\ Chatting(mux', gi, go) BY <1>2, <1>3, <1>8, PollAll1, PollAll2
<1> QED BY <1>1, <1>2, <1>9

---------------------------------------
(* The steps that leave the streams alone, or end them. *)

More2 == Talking(mux, gin, gout) /\ Spoken

\* what is handed to the guest fits, whatever the mux has ready
LEMMA OutFits == ASSUME Inv2 PROVE FitsOut(NoFrame, gout)
<1>1. Inv1 /\ Talking(mux, gin, gout) BY DEF Inv2
<1>2. NoFrame.kind = "none" BY Plugs
<1>3. CASE mux = NoMux BY <1>1, <1>3 DEF Talking
<1>4. CASE mux # NoMux /\ Same
  <2>1. FitsOut(mux.transmit, gout) BY <1>1, <1>4 DEF Talking
  <2> QED BY <1>2, <2>1 DEF FitsOut
<1>5. CASE mux # NoMux /\ ~Same
  <2>1. gout = NoFrame BY <1>1, <1>5, InvRest DEF Linked
  <2> QED BY <1>2, <2>1 DEF FitsOut
<1> QED BY <1>3, <1>4, <1>5

LEMMA KeepStep2 ==
  ASSUME Inv2, UNCHANGED <<mux, gin, gout, guest>>, mux = NoMux \/ host'.gen = host.gen,
         mux = NoMux \/ dev'.gen = dev.gen
  PROVE  More2'
<1>1. CASE mux = NoMux BY <1>1 DEF More2, Inv2, Talking, Spoken, FitsOut
<1>2. CASE mux # NoMux
  <2>1. Same' <=> Same BY <1>2 DEF Same
  <2>2. Talking(mux, gin, gout)'
    BY <1>2, <2>1 DEF Inv2, Talking, FitsOut, Talks, Ahead, Blameless, Early
  <2> QED BY <2>2 DEF More2, Inv2, Spoken
<1> QED BY <1>1, <1>2

\* the mux is gone, and the frame with it unless the guest stays as it is
LEMMA LostStep2 ==
  ASSUME Inv2, mux' = NoMux, gout' = NoFrame \/ UNCHANGED <<gout, guest>>,
         guest' = guest \/ guest' = NoSession
  PROVE  More2'
<1>1. FitsOut(NoFrame, gout)'
  <2>1. NoFrame.kind = "none" BY Plugs
  <2>2. CASE gout' = NoFrame BY <2>1, <2>2 DEF FitsOut
  <2>3. CASE UNCHANGED <<gout, guest>> BY <2>3, OutFits DEF FitsOut
  <2> QED BY <2>2, <2>3
<1>2. Spoken'
  <2>1. CASE guest' = guest BY <2>1 DEF Inv2, Spoken
  <2>2. CASE guest' = NoSession
    <3> SUFFICES ASSUME NEW p \in Ports PROVE guest'.stream[p].sent <= Down[p]
      BY DEF Spoken
    <3>1. guest'.stream[p].sent = 0 BY <2>2 DEF NoSession, NoStream
    <3>2. Down[p] \in Nat BY Consts DEF Ports
    <3> QED BY <3>1, <3>2
  <2> QED BY <2>1, <2>2
<1> QED BY <1>1, <1>2 DEF More2, Talking

LEMMA ClientsStep2 ==
  ASSUME Inv2, \/ hasServiceActivity
               \/ \E k \in Opens : \/ Open(k) \/ Wake(k) \/ GiveUp(k) \/ ClientWrite(k)
                                   \/ ClientRead(k) \/ ClientEof(k) \/ ClientClose(k)
  PROVE  More2'
<1>1. UNCHANGED linkVars
  BY DEF hasServiceActivity, Open, Wake, GiveUp, ClientWrite, ClientRead, ClientEof, ClientClose,
         Finished
<1> QED BY <1>1, KeepStep2 DEF linkVars

LEMMA LinkLostStep2 == ASSUME Inv2, LinkLost PROVE More2'
<1>1. mux' = NoMux /\ gout' = NoFrame /\ guest' = guest BY DEF LinkLost
<1> QED BY <1>1, LostStep2

LEMMA ServingStep2 == ASSUME Inv2, NEW n, Serving(n) PROVE More2'
<1>1. CASE LinkLost BY <1>1, LinkLostStep2
<1>2. CASE /\ Chatting(mux', gin', gout') /\ mux' \in Muxes
           /\ UNCHANGED <<host, dev, guest>>
  <2>1. mux' # NoMux BY <1>2, MuxFields
  <2>2. Talking(mux, gin, gout)'
    BY <1>2, <2>1 DEF Chatting, Talking, FitsOut, Talks, Ahead, Blameless, Early
  <2>3. Spoken' BY <1>2 DEF Inv2, Spoken
  <2> QED BY <2>2, <2>3 DEF More2
<1> QED BY <1>1, <1>2, ServeStep2

LEMMA EngineStep2 == ASSUME Inv2, EngineTurn PROVE More2'
<1>0. Inv1 BY DEF Inv2
<1>1. CASE Reattach
  <2>1. ~host.attached /\ UNCHANGED <<mux, gin, gout, guest>> BY <1>1 DEF Reattach
  <2>2. mux = NoMux BY <1>0, <2>1, InvRest DEF Linked
  <2> QED BY <2>1, <2>2, KeepStep2
<1>2. CASE StaleHost
  <2>1. mux' = NoMux /\ UNCHANGED <<gout, guest>> BY <1>2 DEF StaleHost
  <2> QED BY <2>1, LostStep2
<1>3. CASE PollIdle
  <2>1. Current /\ host.stage # "READY" /\ mux' = mux BY <1>3 DEF PollIdle
  <2>2. mux = NoMux BY <1>0, <2>1, NoMuxYet
  <2>3. (gout' = NoFrame /\ guest' = NoSession) \/ UNCHANGED <<gout, guest>> BY <1>3 DEF PollIdle
  <2> QED BY <2>1, <2>2, <2>3, LostStep2
<1>4. CASE PollControl
  <2>1. Current /\ host.control # "IDLE" /\ mux' = mux /\ UNCHANGED <<gout, guest>>
    BY <1>4 DEF PollControl
  <2>2. host.stage # "READY" BY <1>0, <2>1, InvRest
  <2>3. mux = NoMux BY <1>0, <2>1, <2>2, NoMuxYet
  <2> QED BY <2>1, <2>3, LostStep2
<1>5. CASE \E n \in 0..MaxQueue : Serving(n) BY <1>5, ServingStep2
<1> QED BY <1>1, <1>2, <1>3, <1>4, <1>5 DEF EngineTurn

LEMMA PowerStep2 == ASSUME Inv2, LinkFails \/ Reboot \/ Stop \/ Start PROVE More2'
<1>0. Inv1 BY DEF Inv2
<1>1. CASE LinkFails BY <1>1, LinkLostStep2 DEF LinkFails
<1>2. CASE Reboot
  <2>1. mux' = NoMux /\ gout' = NoFrame /\ guest' = NoSession BY <1>2 DEF Reboot
  <2> QED BY <2>1, LostStep2
<1>3. CASE Stop
  <2>1. mux' = NoMux /\ UNCHANGED <<gout, guest>> BY <1>3 DEF Stop
  <2> QED BY <2>1, LostStep2
<1>4. CASE Start
  <2>1. host.stage = "OFF" /\ mux' = mux /\ gout' = NoFrame /\ (guest' = guest \/ guest' = NoSession)
    BY <1>4 DEF Start
  <2>2. mux = NoMux BY <1>0, <2>1, InvRest DEF Linked
  <2> QED BY <2>1, <2>2, LostStep2
<1> QED BY <1>1, <1>2, <1>3, <1>4

LEMMA GuestDriverStep2 == ASSUME Inv2, GuestDriver PROVE More2'
<1>0. Inv1 /\ dev \in Devices BY InvRest DEF Inv2
<1>1. UNCHANGED <<clientVars, host, mux, gout, gin, faults>> BY DEF GuestDriver
<1>2. CASE /\ guest' = guest
           /\ \/ dev' = [dev EXCEPT !.armed = TRUE]
              \/ dev' = [dev EXCEPT !.reset = FALSE]
              \/ dev' = [dev EXCEPT !.enum = FALSE, !.enumerated = TRUE]
  <2>1. dev'.gen = dev.gen BY <1>0, <1>2 DEF Devices
  <2> QED BY <1>1, <1>2, <2>1, KeepStep2
<1>3. CASE dev.unplugged /\ host.stage # "OFF" /\ guest' = NoSession
  <2>2. ~host.attached BY <1>0, <1>3, InvRest DEF Cabled
  <2>3. mux = NoMux /\ gout = NoFrame BY <1>0, <1>3, <2>2, InvRest DEF Linked
  <2> QED BY <1>1, <1>3, <2>3, LostStep2
<1> QED BY <1>2, <1>3 DEF GuestDriver

LEMMA GuestCoreResetStep2 == ASSUME Inv2, GuestCoreReset PROVE More2'
<1>0. Inv1 BY DEF Inv2
<1>1. /\ UNCHANGED <<host, mux>> /\ dev' = FreshDevice(dev.gen + 1)
      /\ guest' = NoSession /\ gout' = NoFrame /\ gin' = <<>>
  BY DEF GuestCoreReset
<1>2. dev.gen \in Nat /\ host.gen \in Nat BY <1>0, InvRest DEF Devices, Hosts
<1>3. dev'.gen = dev.gen + 1 BY <1>1, <1>2, Plugs
<1>4. CASE mux = NoMux BY <1>1, <1>4, LostStep2
<1>5. CASE mux # NoMux
  <2>1. ~Same'
    <3>1. host.attached /\ host.gen <= dev.gen BY <1>0, <1>5, InvRest DEF Linked, Cabled
    <3> QED BY <1>1, <1>2, <1>3, <3>1 DEF Same
  <2>2. Blameless(mux) /\ Early(mux, gin, gout) BY <1>5 DEF Inv2, Talking
  <2>3. Early(mux, gin, gout)'
    <3>1. Len(gin') = 0 /\ gout'.kind = "none" BY <1>1, Plugs
    <3> QED BY <1>1, <2>2, <3>1 DEF Early
  <2>4. Talking(mux, gin, gout)' BY <1>1, <1>5, <2>1, <2>2, <2>3 DEF Talking, Blameless
  <2>5. Spoken'
    <3> SUFFICES ASSUME NEW p \in Ports PROVE guest'.stream[p].sent <= Down[p]
      BY DEF Spoken
    <3>1. guest'.stream[p].sent = 0 BY <1>1 DEF NoSession, NoStream
    <3>2. Down[p] \in Nat BY Consts DEF Ports
    <3> QED BY <3>1, <3>2
  <2> QED BY <2>4, <2>5 DEF More2
<1> QED BY <1>4, <1>5

---------------------------------------
(* The steps of the guest on its streams w, which become z. *)

FitsFor(w, tr, go) ==
  /\ go.kind = "tcp" /\ go.flags = "ack" => Fits(go, w[go.local], 0)
  /\ tr.kind = "tcp" /\ tr.flags = "ack" =>
       /\ ~(For(go, tr.local) /\ go.flags = "syn")
       /\ Fits(tr, w[tr.local], Bytes(go, tr.local))

\* the frame that the mux has ready, if there is a mux
Ready(m) == IF m = NoMux THEN NoFrame ELSE m.transmit

LEMMA ReadyFits ==
  ASSUME Inv2, mux = NoMux \/ Same
  PROVE  /\ FitsFor(guest.stream, Ready(mux), gout)
         /\ Ready(mux) \in HostFrames /\ gout \in HostFrames
<1>1. FitsOut(Ready(mux), gout) BY OutFits DEF Inv2, Talking, Ready
<1>2. gout \in HostFrames /\ NoFrame \in HostFrames BY InvRest, Plugs DEF Inv2
<1>3. mux # NoMux => mux.transmit \in HostFrames
  <2>1. mux # NoMux => mux \in Muxes BY DEF Inv2, Inv1, Typed
  <2> QED BY <2>1, MuxFields
<1> QED BY <1>1, <1>2, <1>3 DEF FitsOut, FitsFor, Ready

\* a stream that loses bytes, or ends, takes what it took before
LEMMA FitsLess ==
  ASSUME NEW w, NEW z, NEW tr \in HostFrames, NEW go \in HostFrames, FitsFor(w, tr, go),
         \A q \in Ports : \/ z[q].state # "open" \/ z[q] = w[q]
                          \/ /\ w[q] \in Streams /\ z[q] \in Streams /\ w[q].state = "open"
                             /\ z[q].next = w[q].next /\ Len(z[q].buffer) <= Len(w[q].buffer)
  PROVE  FitsFor(z, tr, go)
<1>1. ASSUME NEW f \in HostTcp, NEW b \in Nat, Fits(f, w[f.local], b)
      PROVE  Fits(f, z[f.local], b)
  <2> DEFINE s == w[f.local]
             t == z[f.local]
             d == Len(f.data)
  <2>1. f.local \in Ports /\ d \in Nat /\ GUEST_WINDOW \in Nat BY HostTcpFields, WindowFits
  <2>2. \/ t.state # "open" \/ t = s
        \/ /\ s \in Streams /\ t \in Streams /\ s.state = "open"
           /\ t.next = s.next /\ Len(t.buffer) <= Len(s.buffer)
    BY <2>1
  <2>3. Fits(f, s, b) BY <1>1
  <2> HIDE DEF s, t, d
  <2>4. ASSUME s \in Streams, t \in Streams, s.state = "open",
               t.next = s.next, Len(t.buffer) <= Len(s.buffer)
        PROVE  Fits(f, t, b)
    <3> DEFINE x == Len(s.buffer)
               y == Len(t.buffer)
    <3>1. x \in Nat /\ y \in Nat /\ y <= x BY <2>4, StreamFields
    <3>2. f.seq = (t.next + b) % SEQ /\ x + b + d <= GUEST_WINDOW BY <2>3, <2>4 DEF Fits, d
    <3> HIDE DEF x, y
    <3>3. y + b + d <= GUEST_WINDOW BY <1>1, <2>1, <3>1, <3>2
    <3> QED BY <3>2, <3>3 DEF Fits, d, y
  <2>5. Fits(f, t, b) BY <2>2, <2>3, <2>4 DEF Fits
  <2> QED BY <2>5 DEF t
<1>2. ASSUME go.kind = "tcp", go.flags = "ack" PROVE Fits(go, z[go.local], 0)
  <2>1. go \in HostTcp /\ Fits(go, w[go.local], 0) /\ 0 \in Nat BY <1>2, HostFrameKinds DEF FitsFor
  <2> DEFINE o == 0
  <2>2. o \in Nat /\ Fits(go, w[go.local], o) BY <2>1
  <2> HIDE DEF o
  <2>3. Fits(go, z[go.local], o) BY <1>1, <2>1, <2>2
  <2> QED BY <2>3 DEF o
<1>3. ASSUME tr.kind = "tcp", tr.flags = "ack"
      PROVE  Fits(tr, z[tr.local], Bytes(go, tr.local))
  <2> DEFINE b == Bytes(go, tr.local)
  <2>1. tr \in HostTcp /\ Fits(tr, w[tr.local], b) /\ b \in Nat
    BY <1>3, HostFrameKinds, BytesIs DEF FitsFor
  <2> HIDE DEF b
  <2>2. Fits(tr, z[tr.local], b) BY <1>1, <2>1
  <2> QED BY <2>2 DEF b
<1> QED BY <1>2, <1>3 DEF FitsFor

\* the guest takes the frame go
LEMMA FitsTaken ==
  ASSUME NEW w, NEW z, NEW tr \in HostFrames, NEW go \in HostFrames, FitsFor(w, tr, go),
         \A q \in Ports : \/ z[q].state # "open"
                          \/ ~For(go, q) /\ z[q] = w[q]
                          \/ For(go, q) /\ go.flags = "syn"
                          \/ /\ For(go, q) /\ go.flags = "ack" /\ w[q] \in Streams
                             /\ w[q].state = "open" /\ z[q] = StreamAfter(w[q], go)
  PROVE  FitsFor(z, tr, NoFrame)
<1>1. NoFrame.kind = "none" /\ \A q : ~For(NoFrame, q) /\ Bytes(NoFrame, q) = 0 BY Plugs, NoFrameIs
<1>2. ASSUME tr.kind = "tcp", tr.flags = "ack"
      PROVE  Fits(tr, z[tr.local], 0)
  <2> DEFINE q == tr.local
             s == w[q]
             b == Bytes(go, q)
  <2>1. tr \in HostTcp /\ q \in Ports BY <1>2, HostFrameKinds, HostTcpFields
  <2>2. ~(For(go, q) /\ go.flags = "syn") /\ Fits(tr, s, b) BY <1>2 DEF FitsFor
  <2>3. CASE z[q].state # "open" BY <2>3 DEF Fits
  <2>4. CASE ~For(go, q) /\ z[q] = s
    <3>1. b = 0 BY <2>4, BytesIs
    <3> QED BY <2>2, <2>4, <3>1
  <2>5. ASSUME For(go, q), go.flags = "ack", s \in Streams, s.state = "open",
               z[q] = StreamAfter(s, go)
        PROVE  Fits(tr, z[q], 0)
    <3> HIDE DEF q, s
    <3>1. go \in HostTcp BY <2>5, HostFrameKinds DEF For
    <3> DEFINE t == StreamAfter(s, go)
               x == Len(s.buffer)
               y == Len(t.buffer)
               d == Len(tr.data)
    <3>2. /\ b = Len(go.data) /\ b \in Nat /\ d \in Nat /\ x \in Nat /\ s.next \in 0..(SEQ - 1)
          /\ go.data \in Seq(UpBytes) /\ s.buffer \in Seq(UpBytes)
      BY <2>1, <2>5, <3>1, BytesIs, StreamFields, HostTcpFields
    <3>3. t \in Streams /\ t.next = (s.next + Len(go.data)) % SEQ /\ t.buffer = s.buffer \o go.data
      BY <2>5, <3>1, StreamAfterTyped
    <3>4. y = x + b BY <3>2, <3>3, ConcatFacts
    <3>5. tr.seq = (s.next + b) % SEQ /\ x + b + d <= GUEST_WINDOW BY <2>2, <2>5 DEF Fits
    <3> HIDE DEF t
    <3>n. t.next = (s.next + b) % SEQ BY <3>2, <3>3
    <3> HIDE DEF x, y, b, d
    <3>6. t.next \in 0..(SEQ - 1) BY <3>3, StreamFields
    <3>7. (t.next + 0) % SEQ = t.next
      <4>1. t.next + 0 = t.next BY <3>6, WindowFits
      <4> QED BY <3>6, <4>1, SmallMod
    <3>8. y + 0 + d <= GUEST_WINDOW BY <3>2, <3>4, <3>5, WindowFits
    <3>9. Fits(tr, t, 0) BY <3>n, <3>5, <3>7, <3>8 DEF Fits, y, d
    <3> QED BY <2>5, <3>9 DEF t
  <2> QED BY <2>1, <2>2, <2>3, <2>4, <2>5
<1> QED BY <1>1, <1>2 DEF FitsFor

\* a guest that acts has a mux that is up to date, or none
LEMMA Awake ==
  ASSUME Inv1, mux # NoMux, guest.session # 0 \/ gout # NoFrame
  PROVE  Same /\ mux \in Muxes
BY InvRest, Plugs DEF Linked, Inv1, Typed

\* the frame gq is what is left of the one handed to the guest, q its frames
OnlyFor(p, gq, q) ==
  /\ gq = gout \/ (gq = NoFrame /\ \A r : For(gout, r) => r = p)
  /\ q = gin \/ \E g \in GuestFrames : /\ q = Append(gin, g) /\ g.kind # "version"
                                       /\ \A r : For(g, r) => r = p

\* the guest acts on the stream p alone
LEMMA GuestStep2 ==
  ASSUME Inv2, UNCHANGED <<host, mux>>, dev' = dev, NEW p,
         guest.session # 0 \/ gout # NoFrame, OnlyFor(p, gout', gin'),
         \A q \in Ports : q # p => guest'.stream[q] = guest.stream[q],
         p \in Ports => ~Unused(p, mux.transmit, gin, gout, guest.stream[p]),
         FitsFor(guest'.stream, Ready(mux), gout'), Spoken',
         \A i \in Slots : mux # NoMux /\ mux.channel[i].local = p /\ p \in Ports =>
              Talk(mux.channel[i], mux.transmit, gin', gout', guest'.stream[p])
  PROVE  More2'
<1>0. Inv1 /\ gin \in Seq(GuestFrames) /\ gout \in HostFrames /\ guest \in Guests
  BY InvRest DEF Inv2, UpTo
<1>1. CASE mux = NoMux
  <2>1. Talking(mux, gin, gout)' BY <1>1 DEF Talking, FitsOut, FitsFor, Ready
  <2> QED BY <2>1 DEF More2
<1>2. CASE mux # NoMux
  <2>1. Same /\ mux \in Muxes /\ mux.transmit \in HostFrames BY <1>0, <1>2, Awake, MuxFields
  <2>2. /\ Blameless(mux) /\ Early(mux, gin, gout)
        /\ Talks(mux, gin, gout) /\ Ahead(mux, gin, gout)
    BY <1>2, <2>1 DEF Inv2, Talking
  <2>3. NoFrame.kind = "none" /\ \A q : ~For(NoFrame, q) BY Plugs, NoFrameIs
  <2>4. Early(mux, gin', gout')
    <3>1. gout'.kind = "version" => gout' = gout BY <2>3 DEF OnlyFor
    <3>2. ASSUME NEW j \in 1..Len(gin'), gin'[j].kind = "version"
          PROVE  j \in 1..Len(gin) /\ gin[j].kind = "version"
      <4>1. CASE gin' = gin BY <3>2, <4>1
      <4>2. CASE gin' # gin
        <5>1. PICK g \in GuestFrames : gin' = Append(gin, g) /\ g.kind # "version"
          BY <4>2 DEF OnlyFor
        <5> DEFINE L == Len(gin)
                   q == Append(gin, g)
        <5>2. /\ L \in Nat /\ Len(q) = L + 1 /\ q[L + 1] = g /\ \A h \in 1..L : q[h] = gin[h]
          BY <1>0, Queued
        <5>3. gin' = q BY <5>1
        <5> HIDE DEF L, q
        <5>4. j # L + 1 BY <3>2, <5>1, <5>2, <5>3
        <5>5. j \in 1..L BY <5>2, <5>3, <5>4
        <5> QED BY <3>2, <5>2, <5>3, <5>5 DEF L
      <4> QED BY <4>1, <4>2
    <3> QED BY <2>2, <3>1, <3>2 DEF Early
  <2>5. ASSUME NEW i \in Slots
        PROVE  Talk(mux.channel[i], mux.transmit, gin', gout', guest'.stream[mux.channel[i].local])
    <3> DEFINE c == mux.channel[i]
               s == guest.stream[c.local]
               tr == mux.transmit
               g2 == gout'
    <3>1. CASE c.state = "UNUSED" BY <3>1, TalkDead
    <3>2. CASE c.state # "UNUSED"
      <4>1. c \in Channels /\ c.local \in Ports /\ s \in Streams
        BY <1>0, <2>1, <3>2, LocalIs DEF Inv1
      <4>2. CASE c.local = p BY <1>2, <4>1, <4>2
      <4>3. CASE c.local # p
        <5>1. guest'.stream[c.local] = s BY <4>1, <4>3
        <5>2. Talk(c, tr, gin, gout, s) /\ tr \in HostFrames BY <2>1, <2>2 DEF Talks
        <5>3. For(gout, c.local) \/ For(g2, c.local) => g2 = gout BY <2>3, <4>3 DEF OnlyFor
        <5> HIDE DEF c, s, tr, g2
        <5>4. Talk(c, tr, gin, g2, s) BY <5>2, <5>3, TalkOut
        <5>5. CASE gin' = gin BY <5>1, <5>4, <5>5 DEF c, tr, g2
        <5>6. CASE gin' # gin
          <6>1. PICK g \in GuestFrames : gin' = Append(gin, g) /\ ~For(g, c.local)
            BY <4>3, <5>6 DEF OnlyFor
          <6>2. g2 \in HostFrames BY <1>0, Plugs DEF OnlyFor, g2
          <6>3. Talk(c, tr, Append(gin, g), g2, s) BY <1>0, <4>1, <5>2, <5>4, <6>1, <6>2, TalkOther
          <6> QED BY <5>1, <6>1, <6>3 DEF c, tr, g2
        <5> QED BY <5>5, <5>6
      <4> QED BY <4>2, <4>3
    <3> QED BY <3>1, <3>2
  <2>6. ASSUME mux.next_port # 0, NEW q \in mux.next_port..(PORTS - 1)
        PROVE  Unused(q, mux.transmit, gin', gout', guest'.stream[q])
    <3>1. q \in Ports
      <4>1. mux.next_port \in 0..(PORTS - 1) /\ PORTS \in Nat BY <2>1, MuxFields, Consts
      <4>2. mux.next_port \in Nat /\ mux.next_port # 0 BY <2>6, <4>1
      <4> QED BY <4>1, <4>2 DEF Ports
    <3>2. Unused(q, mux.transmit, gin, gout, guest.stream[q]) BY <2>2, <2>6 DEF Ahead
    <3>3. q # p BY <3>1, <3>2
    <3>4. guest'.stream[q] = guest.stream[q] BY <3>1, <3>3
    <3>5. ~For(gout', q) BY <2>3, <3>2 DEF OnlyFor, Unused
    <3>6. Silent(q, gin')
      <4>1. CASE gin' = gin BY <3>2, <4>1 DEF Unused
      <4>2. CASE gin' # gin
        <5>1. PICK g \in GuestFrames : gin' = Append(gin, g) /\ ~For(g, q) BY <3>3, <4>2 DEF OnlyFor
        <5>2. Silent(q, Append(gin, g)) BY <1>0, <3>2, <5>1, SilentAppend DEF Unused
        <5> QED BY <5>1, <5>2
      <4> QED BY <4>1, <4>2
    <3> QED BY <3>2, <3>4, <3>5, <3>6 DEF Unused
  <2>7. Talking(mux, gin, gout)'
    <3>1. FitsOut(mux.transmit, gout)' BY <1>2 DEF FitsOut, FitsFor, Ready
    <3>2. Talks(mux, gin, gout)' BY <2>5 DEF Talks
    <3>3. Ahead(mux, gin, gout)' BY <2>6 DEF Ahead
    <3>4. Blameless(mux)' /\ Early(mux, gin, gout)' BY <2>2, <2>4 DEF Blameless, Early
    <3> QED BY <1>2, <3>1, <3>2, <3>3, <3>4 DEF Talking
  <2> QED BY <2>7 DEF More2
<1> QED BY <1>1, <1>2

---------------------------------------
(* The guest's actions. *)

\* the guest acts on the stream p, which becomes t
LEMMA GuestStream2 ==
  ASSUME Inv2, UNCHANGED <<host, mux>>, dev' = dev, NEW p \in Ports, NEW t \in Streams,
         guest' = [guest EXCEPT !.stream[p] = t], t.sent <= Down[p],
         guest.stream[p].state = "open" \/ For(gout, p), OnlyFor(p, gout', gin'),
         FitsFor(guest'.stream, Ready(mux), gout'),
         \A c \in Channels : \A tr \in HostFrames :
           c.local = p /\ Talk(c, tr, gin, gout, guest.stream[p]) => Talk(c, tr, gin', gout', t)
  PROVE  More2'
<1>0. Inv1 /\ NoFrame.kind # "tcp" BY Plugs DEF Inv2
<1>1. /\ guest'.stream[p] = t
      /\ \A q \in Ports : q # p => guest'.stream[q] = guest.stream[q]
  BY <1>0, GuestFields
<1>2. guest.session # 0 \/ gout # NoFrame BY <1>0, GuestFields DEF For
<1>3. ~Unused(p, mux.transmit, gin, gout, guest.stream[p]) BY DEF Unused
<1>4. Spoken'
  <2> SUFFICES ASSUME NEW q \in Ports PROVE guest'.stream[q].sent <= Down[q]
    BY DEF Spoken
  <2> QED BY <1>1 DEF Inv2, Spoken
<1>5. ASSUME NEW i \in Slots, mux # NoMux, mux.channel[i].local = p
      PROVE  Talk(mux.channel[i], mux.transmit, gin', gout', guest'.stream[p])
  <2>1. Same /\ mux \in Muxes BY <1>0, <1>2, <1>5, Awake
  <2>2. mux.channel[i] \in Channels /\ mux.transmit \in HostFrames BY <2>1, MuxFields
  <2>3. Talk(mux.channel[i], mux.transmit, gin, gout, guest.stream[p])
    BY <1>5, <2>1 DEF Inv2, Talking, Talks
  <2> QED BY <1>1, <1>5, <2>2, <2>3
<1> QED BY <1>1, <1>2, <1>3, <1>4, <1>5, GuestStep2

\* what is on the cable fits, as long as somebody holds a frame or a session
LEMMA NowFits ==
  ASSUME Inv2, guest.session # 0 \/ gout # NoFrame
  PROVE  /\ FitsFor(guest.stream, Ready(mux), gout)
         /\ Ready(mux) \in HostFrames /\ gout \in HostFrames
<1>1. mux = NoMux \/ Same BY Awake DEF Inv2
<1> QED BY <1>1, ReadyFits

\* only a stream that ended, or lost bytes of its buffer, has changed
LEMMA LessFits ==
  ASSUME Inv2, guest.session # 0, NEW z,
         \A q \in Ports :
           \/ z[q].state # "open" \/ z[q] = guest.stream[q]
           \/ /\ z[q] \in Streams /\ guest.stream[q].state = "open"
              /\ z[q].next = guest.stream[q].next
              /\ Len(z[q].buffer) <= Len(guest.stream[q].buffer)
  PROVE  FitsFor(z, Ready(mux), gout)
<1> DEFINE w == guest.stream
           go == gout
           tr == Ready(mux)
<1>1. FitsFor(w, tr, go) /\ tr \in HostFrames /\ go \in HostFrames BY NowFits
<1>2. \A q \in Ports : \/ z[q].state # "open" \/ z[q] = w[q]
                       \/ /\ w[q] \in Streams /\ z[q] \in Streams /\ w[q].state = "open"
                          /\ z[q].next = w[q].next /\ Len(z[q].buffer) <= Len(w[q].buffer)
  BY GuestFields DEF Inv2
<1> HIDE DEF w, go, tr
<1>3. FitsFor(z, tr, go) BY <1>1, <1>2, FitsLess
<1> QED BY <1>3 DEF tr, go

LEMMA GuestControlStep2 ==
  ASSUME Inv2, NEW notice \in BOOLEAN, GuestControl(notice)
  PROVE  More2'
<1> DEFINE f == [kind |-> "control", session |-> guest.session, notice |-> notice]
           p == 0
<1>1. /\ guest.session # 0 /\ gin' = Append(gin, f)
      /\ UNCHANGED <<host, mux>> /\ dev' = dev /\ guest' = guest /\ gout' = gout
  BY DEF GuestControl
<1>2. f \in GuestFrames /\ f.kind = "control"
  <2>1. guest.session \in Nat BY InvRest DEF Inv2, Guests
  <2> QED BY <1>1, <2>1 DEF GuestFrames
<1>3. p \notin Ports BY DEF Ports
<1> HIDE DEF f, p
<1>4. OnlyFor(p, gout', gin') BY <1>1, <1>2 DEF OnlyFor, For
<1>5. FitsFor(guest'.stream, Ready(mux), gout') BY <1>1, NowFits
<1>6. Spoken' BY <1>1 DEF Inv2, Spoken
<1> QED BY <1>1, <1>3, <1>4, <1>5, <1>6, GuestStep2

LEMMA GuestReadStep2 == ASSUME Inv2, NEW p \in Ports, GuestRead(p) PROVE More2'
<1> DEFINE s == guest.stream[p]
<1>0. Inv1 BY DEF Inv2
<1>1. PICK t \in Streams :
        /\ s \in Streams /\ s.state = "open" /\ guest.session # 0
        /\ guest' = [guest EXCEPT !.stream[p] = t]
        /\ UNCHANGED <<clientVars, host, mux, dev, gout, gin, faults>>
        /\ t.state = s.state /\ t.sent = s.sent /\ t.acked = s.acked /\ t.window = s.window
        /\ t.next = s.next /\ Len(t.buffer) <= Len(s.buffer)
  BY <1>0, GuestReadIs
<1>2. OnlyFor(p, gout', gin') BY <1>1 DEF OnlyFor
<1>3. /\ guest'.stream[p] = t
      /\ \A q \in Ports : q # p => guest'.stream[q] = guest.stream[q]
  BY <1>0, <1>1, GuestFields
<1>4. FitsFor(guest'.stream, Ready(mux), gout') BY <1>1, <1>3, LessFits
<1>5. t.sent <= Down[p] BY <1>1 DEF Inv2, Spoken
<1>6. ASSUME NEW c \in Channels, NEW tr \in HostFrames, Talk(c, tr, gin, gout, s)
      PROVE  Talk(c, tr, gin', gout', t)
  <2>1. gin \in Seq(GuestFrames) /\ gout \in HostFrames BY <1>0, InvRest DEF UpTo
  <2> HIDE DEF s
  <2> QED BY <1>1, <1>6, <2>1, TalkRead
<1> QED BY <1>1, <1>2, <1>4, <1>5, <1>6, GuestStream2

LEMMA GuestHangUpStep2 == ASSUME Inv2, NEW p \in Ports, GuestHangUp(p) PROVE More2'
<1> DEFINE s == guest.stream[p]
           fl == "rst"
           f == Reply(p, fl, 0, 0, <<>>)
           t == [NoStream EXCEPT !.state = "gone"]
<1>0. s \in Streams /\ Inv1 BY GuestFields DEF Inv2
<1>1. /\ s.state = "open" /\ gin' = Append(gin, f) /\ guest' = [guest EXCEPT !.stream[p] = t]
      /\ UNCHANGED <<host, mux>> /\ dev' = dev /\ gout' = gout
  BY DEF GuestHangUp
<1>2. guest.session # 0 BY <1>0, <1>1, GuestFields
<1>3. t \in Streams /\ t.state = "gone" /\ t.sent = 0 BY NewStreams DEF NoStream
<1>4. f \in GuestFrames
  <2>1. 0 \in 0..(SEQ - 1) BY SlotFacts
  <2> QED BY <1>0, <1>2, <2>1, AnswersTyped
<1>5. f.kind = "tcp" /\ f.local = p /\ f.flags = fl /\ f.sent = s.sent BY <1>0, ReplyIs
<1>a. fl = "rst" OBVIOUS
<1> HIDE DEF f, t, fl
<1>6. OnlyFor(p, gout', gin') BY <1>1, <1>4, <1>5 DEF OnlyFor, For
<1>7. /\ guest'.stream[p] = t
      /\ \A q \in Ports : q # p => guest'.stream[q] = guest.stream[q]
  BY <1>0, <1>1, <1>3, GuestFields
<1>8. FitsFor(guest'.stream, Ready(mux), gout') BY <1>1, <1>2, <1>3, <1>7, LessFits
<1>9. t.sent <= Down[p]
  <2>1. Down[p] \in Nat BY Consts DEF Ports
  <2> QED BY <1>3, <2>1
<1>10. ASSUME NEW c \in Channels, NEW tr \in HostFrames, c.local = p, Talk(c, tr, gin, gout, s)
       PROVE  Talk(c, tr, gin', gout', t)
  <2>1. gin \in Seq(GuestFrames) /\ gout \in HostFrames BY <1>0, InvRest DEF UpTo
  <2>2. For(f, c.local) /\ Bytes(f, c.local) = 0
    <3>1. For(f, c.local) /\ f.data = <<>> BY <1>4, <1>5, <1>10, <1>a DEF For, GuestFrames, GuestTcp
    <3> QED BY <3>1 DEF Bytes
  <2> HIDE DEF s
  <2>3. Talk(c, tr, Append(gin, f), gout, t)
    BY <1>0, <1>1, <1>3, <1>4, <1>5, <1>10, <1>a, <2>1, <2>2, TalkSays
  <2> QED BY <1>1, <2>3
<1> QED BY <1>1, <1>3, <1>6, <1>8, <1>9, <1>10, GuestStream2

LEMMA GuestSendStep2 == ASSUME Inv2, NEW p \in Ports, GuestSend(p) PROVE More2'
<1> DEFINE s == guest.stream[p]
           n == SendCount(p)
           q == SentBytes(p, n)
<1>0. Inv1 BY DEF Inv2
<1>1. PICK f \in GuestFrames, t \in Streams :
        /\ s \in Streams /\ s.state = "open" /\ guest.session # 0 /\ gin' = Append(gin, f)
        /\ guest' = [guest EXCEPT !.stream[p] = t]
        /\ UNCHANGED <<clientVars, host, mux, dev, gout, faults>>
        /\ f.kind = "tcp" /\ f.local = p /\ f.flags = "ack" /\ f.sent = s.sent
        /\ f.ack = s.next /\ f.data = q /\ Len(s.buffer) + f.window <= GUEST_WINDOW
        /\ t.state = "open" /\ t.sent = s.sent + n /\ t.acked = s.acked
        /\ t.window = s.window /\ t.next = s.next /\ t.buffer = s.buffer
  BY <1>0, GuestSendIs
<1>2. /\ n \in Int /\ Len(q) = (IF n > 0 THEN n ELSE 0)
      /\ n > 0 => n <= s.window - (s.sent - s.acked)
  BY <1>0, SendFacts
<1>3. /\ s.acked \in Int /\ s.window \in Int /\ s.sent \in Nat /\ Len(s.buffer) \in Nat
      /\ Down[p] \in Nat
  <2>1. s.acked \in 0..(SEQ - 1) /\ s.window \in Int /\ s.sent \in Nat /\ Len(s.buffer) \in Nat
    BY <1>1, StreamFields
  <2>2. Down[p] \in Nat /\ SEQ \in Nat BY Consts DEF Ports
  <2> HIDE DEF s
  <2> QED BY <2>1, <2>2
<1>4. n >= 0 /\ s.sent + n <= Down[p]
  <2> DEFINE room == s.window - (s.sent - s.acked)
             r == IF room > 0 THEN room ELSE 0
             d == Down[p] - s.sent
  <2>2. s.sent <= Down[p] BY DEF Inv2, Spoken
  <2>3. n = LeastOf({d, r}) BY DEF SendCount
  <2> HIDE DEF s, n
  <2>4. room \in Int /\ d \in Nat BY <1>3, <2>2
  <2> HIDE DEF room
  <2>5. r \in Nat BY <2>4
  <2>6. d + s.sent = Down[p] BY <1>3
  <2> HIDE DEF r, d
  <2>7. n \in {d, r} /\ n <= d BY <2>3, <2>4, <2>5, LeastOfTwo
  <2> QED BY <1>3, <2>4, <2>5, <2>6, <2>7
<1> HIDE DEF q, n
<1>5. /\ guest'.stream[p] = t
      /\ \A r \in Ports : r # p => guest'.stream[r] = guest.stream[r]
  BY <1>0, <1>1, GuestFields
<1>6. OnlyFor(p, gout', gin') BY <1>1 DEF OnlyFor, For
<1>7. FitsFor(guest'.stream, Ready(mux), gout')
  <2>1. Len(t.buffer) <= Len(s.buffer)
    <3> HIDE DEF s
    <3> QED BY <1>1, <1>3
  <2> DEFINE z == guest'.stream
  <2>2. \A r \in Ports : z[r] = guest.stream[r]
                          \/ (r = p /\ z[r] = t /\ t \in Streams /\ t.next = s.next) BY <1>1, <1>5
  <2> HIDE DEF z
  <2>3. \A r \in Ports :
           \/ z[r].state # "open" \/ z[r] = guest.stream[r]
           \/ /\ z[r] \in Streams /\ guest.stream[r].state = "open"
              /\ z[r].next = guest.stream[r].next
              /\ Len(z[r].buffer) <= Len(guest.stream[r].buffer)
    BY <1>1, <2>1, <2>2
  <2>4. FitsFor(z, Ready(mux), gout) BY <1>1, <2>3, LessFits
  <2> QED BY <1>1, <2>4 DEF z
<1>8. t.sent <= Down[p] BY <1>1, <1>4
<1>9. ASSUME NEW c \in Channels, NEW tr \in HostFrames, c.local = p, Talk(c, tr, gin, gout, s)
      PROVE  Talk(c, tr, gin', gout', t)
  <2>1. gin \in Seq(GuestFrames) /\ gout \in HostFrames BY <1>0, InvRest DEF UpTo
  <2>2. For(f, c.local) /\ Bytes(f, c.local) = n
    <3>1. Len(q) = n BY <1>2, <1>4
    <3> QED BY <1>1, <1>9, <3>1 DEF For, Bytes
  <2>3. t.sent = s.sent + Bytes(f, c.local) BY <1>1, <2>2
  <2> HIDE DEF s
  <2>4. Bytes(f, c.local) > 0 => s.sent + Bytes(f, c.local) <= s.acked + s.window
    BY <1>2, <1>3, <2>2
  <2>5. Talk(c, tr, Append(gin, f), gout, t) BY <1>1, <1>9, <2>1, <2>2, <2>3, <2>4, TalkSays
  <2> QED BY <1>1, <2>5
<1> QED BY <1>1, <1>5, <1>6, <1>7, <1>8, <1>9, GuestStream2

\* the guest takes a frame for the stream p, which becomes t
LEMMA TakeStream2 ==
  ASSUME Inv2, UNCHANGED <<host, mux>>, dev' = dev, NEW p \in Ports, NEW t \in Streams,
         For(gout, p), gout' = NoFrame, guest' = [guest EXCEPT !.stream[p] = t], t.sent <= Down[p],
         \/ t.state # "open" \/ gout.flags = "syn"
         \/ /\ gout.flags = "ack" /\ guest.stream[p].state = "open"
            /\ t = StreamAfter(guest.stream[p], gout),
         gin' = gin \/ \E g \in GuestFrames : gin' = Append(gin, g) /\ g.kind = "tcp" /\ g.local = p,
         \A c \in Channels : \A tr \in HostFrames :
           c.local = p /\ Talk(c, tr, gin, gout, guest.stream[p]) => Talk(c, tr, gin', NoFrame, t)
  PROVE  More2'
<1>0. Inv1 /\ gout # NoFrame BY Plugs DEF Inv2, For
<1>1. OnlyFor(p, gout', gin') BY DEF OnlyFor, For
<1>2. /\ guest'.stream[p] = t /\ guest.stream[p] \in Streams
      /\ \A q \in Ports : q # p => guest'.stream[q] = guest.stream[q]
  <2> DEFINE g == [guest EXCEPT !.stream[p] = t]
  <2>1. /\ guest.stream[p] \in Streams /\ g.stream[p] = t
        /\ \A q \in Ports : q # p => g.stream[q] = guest.stream[q]
    BY <1>0, GuestFields, Zenon
  <2>2. guest' = g OBVIOUS
  <2> HIDE DEF g
  <2> QED BY <2>1, <2>2, Zenon
<1>3. FitsFor(guest'.stream, Ready(mux), gout')
  <2> DEFINE w == guest.stream
             z == guest'.stream
             go == gout
             tr == Ready(mux)
  <2>1. FitsFor(w, tr, go) /\ tr \in HostFrames /\ go \in HostFrames BY <1>0, NowFits
  <2>2. \A q \in Ports : \/ z[q].state # "open"
                         \/ ~For(go, q) /\ z[q] = w[q]
                         \/ For(go, q) /\ go.flags = "syn"
                         \/ /\ For(go, q) /\ go.flags = "ack" /\ w[q] \in Streams
                            /\ w[q].state = "open" /\ z[q] = StreamAfter(w[q], go)
    <3> SUFFICES ASSUME NEW q \in Ports
                 PROVE  \/ z[q].state # "open"
                        \/ ~For(go, q) /\ z[q] = w[q]
                        \/ For(go, q) /\ go.flags = "syn"
                        \/ /\ For(go, q) /\ go.flags = "ack" /\ w[q] \in Streams
                           /\ w[q].state = "open" /\ z[q] = StreamAfter(w[q], go)
      OBVIOUS
    <3>1. CASE q = p BY <1>2, <3>1
    <3>2. CASE q # p
      <4>1. ~For(go, q) BY <3>2 DEF For
      <4> QED BY <1>2, <3>2, <4>1
    <3> QED BY <3>1, <3>2
  <2> HIDE DEF w, z, go, tr
  <2>3. FitsFor(z, tr, NoFrame) BY <2>1, <2>2, FitsTaken
  <2> QED BY <2>3 DEF z, tr
<1> QED BY <1>1, <1>3, GuestStream2

LEMMA TakeTcpStep2 == ASSUME Inv2, GuestTake, gout.kind = "tcp" PROVE More2'
<1> DEFINE h == gout
           p == h.local
           s == guest.stream[p]
<1>0. Inv1 /\ gin \in Seq(GuestFrames) BY InvRest DEF Inv2, UpTo
<1>1. /\ UNCHANGED <<host, mux>> /\ dev' = dev /\ gout' = NoFrame
      /\ h \in HostTcp /\ guest.session # 0
  BY <1>0, TakeFacts, HostTcpFields
<1>2. /\ p \in Ports /\ s \in Streams /\ h.window \in Int /\ h.window <= RX_SIZE /\ For(h, p)
      /\ h \in HostFrames
  <2>1. h \in HostFrames BY <1>0, InvRest
  <2> QED BY <1>0, <1>1, <2>1, HostTcpFields, GuestFields DEF For
<1>3. (h.seq + 1) % SEQ \in 0..(SEQ - 1) /\ 0 \in 0..(SEQ - 1)
  <2>1. h.seq + 1 \in Int
    <3>1. h.seq \in 0..(SEQ - 1) /\ SEQ \in Nat BY <1>1, HostTcpFields, Consts
    <3> HIDE DEF h
    <3> QED BY <3>1
  <2> QED BY <2>1, MinusIs, SlotFacts
<1>4. s.sent <= Down[p] /\ 0 <= Down[p]
  <2>1. Down[p] \in Nat BY <1>2, Consts DEF Ports
  <2> HIDE DEF p
  <2> QED BY <1>2, <2>1 DEF Inv2, Spoken
<1>5. ASSUME h.flags = "syn",
             guest' = [guest EXCEPT !.stream[p] =
                   [NoStream EXCEPT !.state = "open", !.window = h.window, !.next = (h.seq + 1) % SEQ]],
             gin' = Append(gin, Reply(p, "synack", GUEST_ISN, (h.seq + 1) % SEQ, <<>>))
      PROVE  More2'
  <2> DEFINE x == (h.seq + 1) % SEQ
             w == h.window
             t == [NoStream EXCEPT !.state = "open", !.window = w, !.next = x]
             fl == "synack"
             f == Reply(p, fl, GUEST_ISN, x, <<>>)
  <2>1. t \in Streams BY <1>2, <1>3, NewStreams
  <2>2. f \in GuestFrames BY <1>0, <1>1, <1>2, <1>3, AnswersTyped
  <2>3. f.kind = "tcp" /\ f.local = p /\ f.flags = fl /\ f.sent = s.sent /\ f.ack = x
    <3> HIDE DEF x, fl
    <3> QED BY <1>0, <1>2, ReplyIs
  <2>4. /\ t.state = "open" /\ t.window = w /\ t.next = x /\ t.sent = 0 /\ t.acked = 0
        /\ Len(t.buffer) = 0
    <3> HIDE DEF x, w
    <3>1. /\ t.state = "open" /\ t.window = w /\ t.next = x /\ t.sent = 0 /\ t.acked = 0
          /\ t.buffer = <<>>
      BY DEF NoStream
    <3> HIDE DEF t
    <3> QED BY <3>1
  <2>5. fl = "synack" /\ guest' = [guest EXCEPT !.stream[p] = t] /\ gin' = Append(gin, f) BY <1>5
  <2> HIDE DEF t, f, fl
  <2>6. ASSUME NEW c \in Channels, NEW tr \in HostFrames, c.local = p, Talk(c, tr, gin, gout, s)
        PROVE  Talk(c, tr, gin', NoFrame, t)
    <3>1. For(f, c.local) /\ For(h, c.local) BY <1>2, <2>3, <2>6 DEF For
    <3>2. /\ f.ack = (h.seq + 1) % SEQ /\ t.next = (h.seq + 1) % SEQ /\ t.window <= RX_SIZE
          /\ Talk(c, tr, gin, h, s)
      BY <1>2, <2>3, <2>4, <2>6
    <3> HIDE DEF s, h, x
    <3>3. Talk(c, tr, Append(gin, f), NoFrame, t)
      BY <1>0, <1>2, <1>5, <2>1, <2>2, <2>3, <2>4, <2>5, <3>1, <3>2, TalkSyn
    <3> QED BY <2>5, <3>3
  <2>7. gin' = gin \/ \E g \in GuestFrames : gin' = Append(gin, g) /\ g.kind = "tcp" /\ g.local = p
    BY <2>2, <2>3, <2>5
  <2>8. t.sent <= Down[p] BY <1>4, <2>4
  <2> QED BY <1>1, <1>2, <1>5, <2>1, <2>5, <2>6, <2>7, <2>8, TakeStream2
<1>6. ASSUME h.flags = "syn" \/ (h.flags = "ack" /\ s.state # "open"),
             gin' = Append(gin, Reply(p, "rst", 0, 0, <<>>)), guest' = guest
      PROVE  More2'
  <2> DEFINE fl == "rst"
             f == Reply(p, fl, 0, 0, <<>>)
  <2>1. f \in GuestFrames BY <1>0, <1>1, <1>2, <1>3, AnswersTyped
  <2>2. f.kind = "tcp" /\ f.local = p /\ f.flags = fl /\ f.sent = s.sent
    <3> HIDE DEF fl
    <3> QED BY <1>0, <1>2, ReplyIs
  <2>3. fl = "rst" /\ gin' = Append(gin, f) BY <1>6
  <2> HIDE DEF f, fl
  <2>4. guest' = [guest EXCEPT !.stream[p] = s] BY <1>0, <1>2, <1>6, InvRest DEF Guests
  <2>5. ASSUME NEW c \in Channels, NEW tr \in HostFrames, c.local = p, Talk(c, tr, gin, gout, s)
        PROVE  Talk(c, tr, gin', NoFrame, s)
    <3>1. For(f, c.local) /\ For(h, c.local) BY <1>2, <2>2, <2>5 DEF For
    <3>2. Talk(c, tr, gin, h, s) BY <2>5
    <3>3. h.flags = "syn" \/ (h.flags = "ack" /\ s.state # "open") BY <1>6
    <3> HIDE DEF s, h
    <3>4. Talk(c, tr, Append(gin, f), NoFrame, s)
      BY <1>0, <1>2, <2>1, <2>2, <2>3, <3>1, <3>2, <3>3, TalkRefuse
    <3> QED BY <2>3, <3>4
  <2>6. gin' = gin \/ \E g \in GuestFrames : gin' = Append(gin, g) /\ g.kind = "tcp" /\ g.local = p
    BY <2>1, <2>2, <2>3
  <2>7. \/ s.state # "open" \/ gout.flags = "syn" BY <1>6
  <2> HIDE DEF s
  <2>8. s \in Streams BY <1>2
  <2> QED BY <1>1, <1>2, <1>4, <2>4, <2>5, <2>6, <2>7, <2>8, TakeStream2 DEF s
<1>7. ASSUME h.flags = "ack", s.state = "open",
             guest' = [guest EXCEPT !.stream[p] = StreamAfter(s, h)], gin' = gin
      PROVE  More2'
  <2> DEFINE t == StreamAfter(s, h)
  <2>1. t \in Streams /\ t.sent = s.sent BY <1>1, <1>2, <1>7, StreamAfterTyped
  <2>2. guest' = [guest EXCEPT !.stream[p] = t] /\ t.sent <= Down[p] BY <1>4, <1>7, <2>1
  <2>3. ASSUME NEW c \in Channels, NEW tr \in HostFrames, c.local = p, Talk(c, tr, gin, gout, s)
        PROVE  Talk(c, tr, gin', NoFrame, t)
    <3>1. For(h, c.local) /\ Talk(c, tr, gin, h, s) BY <1>2, <2>3 DEF For
    <3> HIDE DEF s, h
    <3>2. Talk(c, tr, gin, NoFrame, StreamAfter(s, h)) BY <1>0, <1>2, <1>7, <3>1, TalkAck
    <3> QED BY <1>7, <3>2
  <2>4. gout.flags = "ack" /\ guest.stream[p].state = "open" /\ t = StreamAfter(guest.stream[p], gout)
    BY <1>7
  <2> HIDE DEF t
  <2> QED BY <1>1, <1>2, <1>7, <2>1, <2>2, <2>3, <2>4, TakeStream2
<1>8. ASSUME h.flags = "rst",
             guest' = [guest EXCEPT !.stream[p] = [NoStream EXCEPT !.state = "gone"]], gin' = gin
      PROVE  More2'
  <2> DEFINE t == [NoStream EXCEPT !.state = "gone"]
  <2>1. t \in Streams /\ t.state = "gone" /\ t.sent = 0 BY NewStreams DEF NoStream
  <2>2. guest' = [guest EXCEPT !.stream[p] = t] /\ t.sent <= Down[p] BY <1>4, <1>8, <2>1
  <2> HIDE DEF t
  <2>3. ASSUME NEW c \in Channels, NEW tr \in HostFrames, c.local = p, Talk(c, tr, gin, gout, s)
        PROVE  Talk(c, tr, gin', NoFrame, t)
    BY <1>2, <1>8, <2>3, TalkRst DEF For
  <2> QED BY <1>1, <1>2, <1>8, <2>1, <2>2, <2>3, TakeStream2
<1> QED BY <1>0, <1>5, <1>6, <1>7, <1>8, TakeCases, Zenon

LEMMA TakeSetupStep2 == ASSUME Inv2, GuestTake, gout.kind = "setup" PROVE More2'
<1> DEFINE p == 0
<1>0. Inv1 /\ p \notin Ports BY DEF Inv2, Ports
<1>1. /\ UNCHANGED <<host, mux>> /\ dev' = dev /\ gout # NoFrame /\ gout' = NoFrame
      /\ guest' = guest /\ gin' = gin
  BY <1>0, TakeFacts DEF GuestTake
<1> HIDE DEF p
<1>2. \A q : ~For(gout, q) BY DEF For
<1>3. FitsFor(guest'.stream, Ready(mux), gout')
  <2> DEFINE w == guest.stream
             go == gout
             tr == Ready(mux)
  <2>1. FitsFor(w, tr, go) /\ tr \in HostFrames /\ go \in HostFrames BY <1>1, NowFits
  <2>2. \A q \in Ports : ~For(go, q) BY <1>2
  <2> HIDE DEF w, go, tr
  <2>3. FitsFor(w, tr, NoFrame) BY <2>1, <2>2, FitsTaken
  <2> QED BY <1>1, <2>3 DEF w, tr
<1>4. OnlyFor(p, gout', gin') BY <1>1, <1>2 DEF OnlyFor
<1>5. Spoken' BY <1>1 DEF Inv2, Spoken
<1> QED BY <1>0, <1>1, <1>3, <1>4, <1>5, GuestStep2

\* the guest answers a mux: its streams are new, and so are the mux's channels
LEMMA TakeVersionStep2 == ASSUME Inv2, GuestTake, gout.kind = "version" PROVE More2'
<1>0. Inv1 /\ gin \in Seq(GuestFrames) BY InvRest DEF Inv2, UpTo
<1>1. /\ UNCHANGED <<host, mux>> /\ dev' = dev /\ gout # NoFrame /\ gout' = NoFrame
      /\ gout.session \in Nat \ {0}
  BY <1>0, TakeFacts
<1>2. PICK v \in Versions :
        /\ gin' = Append(gin, [kind |-> "version", session |-> gout.session, version |-> v])
        /\ guest' = [NoSession EXCEPT !.session = gout.session]
  BY DEF GuestTake
<1> DEFINE f == [kind |-> "version", session |-> gout.session, version |-> v]
<1>3. f \in GuestFrames /\ f.kind = "version" BY <1>1 DEF GuestFrames
<1> HIDE DEF f
<1>4. gin' = Append(gin, f) BY <1>2 DEF f
<1>5. \A q \in Ports : guest'.stream[q] = NoStream BY <1>2 DEF NoSession
<1>6. NoStream.state = "none" /\ NoStream.sent = 0 BY DEF NoStream
<1>7. Spoken'
  <2> SUFFICES ASSUME NEW q \in Ports PROVE guest'.stream[q].sent <= Down[q]
    BY DEF Spoken
  <2>1. Down[q] \in Nat BY Consts DEF Ports
  <2> QED BY <1>5, <1>6, <2>1
<1>8. NoFrame.kind = "none" /\ \A q : ~For(NoFrame, q) BY Plugs, NoFrameIs
<1>9. CASE mux = NoMux
  <2>1. Talking(mux, gin, gout)' BY <1>1, <1>8, <1>9 DEF Talking, FitsOut
  <2> QED BY <1>7, <2>1 DEF More2
<1>10. CASE mux # NoMux
  <2>1. Same /\ mux \in Muxes /\ mux.transmit \in HostFrames BY <1>0, <1>1, <1>10, Awake, MuxFields
  <2>2. Blameless(mux) /\ Early(mux, gin, gout) /\ Ahead(mux, gin, gout)
    BY <1>10, <2>1 DEF Inv2, Talking
  <2>3. /\ mux.stage = "WAIT_VERSION" /\ mux.transmit.kind # "version"
        /\ \A i \in Slots : mux.channel[i] = FreshChannel
    BY <2>2 DEF Early
  <2>4. Early(mux, gin', gout') BY <1>1, <1>8, <2>3 DEF Early
  <2>5. FitsOut(mux.transmit, gout)'
    <3> SUFFICES ASSUME mux.transmit.kind = "tcp"
                 PROVE  Fits(mux.transmit, guest'.stream[mux.transmit.local],
                             Bytes(NoFrame, mux.transmit.local))
      BY <1>1, <1>8 DEF FitsOut
    <3>1. mux.transmit.local \in Ports BY <2>1, HostFrameKinds, HostTcpFields
    <3> QED BY <1>5, <1>6, <3>1 DEF Fits
  <2>6. Talks(mux, gin, gout)'
    <3>1. FreshChannel.state = "UNUSED" BY DEF FreshChannel
    <3> QED BY <1>1, <2>3, <3>1, TalkDead DEF Talks
  <2>7. ASSUME mux.next_port # 0, NEW q \in mux.next_port..(PORTS - 1)
        PROVE  Unused(q, mux.transmit, gin', gout', guest'.stream[q])
    <3>1. q \in Ports
      <4>1. mux.next_port \in 0..(PORTS - 1) /\ PORTS \in Nat BY <2>1, MuxFields, Consts
      <4>2. mux.next_port \in Nat /\ mux.next_port # 0 BY <2>7, <4>1
      <4> QED BY <4>1, <4>2 DEF Ports
    <3>2. Unused(q, mux.transmit, gin, gout, guest.stream[q]) BY <2>2, <2>7 DEF Ahead
    <3>3. ~For(f, q) BY <1>3 DEF For
    <3>4. Silent(q, gin') BY <1>0, <1>3, <1>4, <3>2, <3>3, SilentAppend DEF Unused
    <3> QED BY <1>1, <1>5, <1>6, <1>8, <3>1, <3>2, <3>4 DEF Unused
  <2>8. Talking(mux, gin, gout)'
    <3>1. Ahead(mux, gin, gout)' BY <1>1, <2>7 DEF Ahead
    <3>2. Blameless(mux)' /\ Early(mux, gin, gout)' BY <1>1, <2>2, <2>4 DEF Blameless, Early
    <3> QED BY <1>1, <1>10, <2>5, <2>6, <3>1, <3>2 DEF Talking
  <2> QED BY <1>7, <2>8 DEF More2
<1> QED BY <1>9, <1>10

LEMMA GuestTakeStep2 == ASSUME Inv2, GuestTake PROVE More2'
<1>1. gout.kind \in {"version", "setup", "tcp"} BY TakeFacts DEF Inv2
<1> QED BY <1>1, TakeVersionStep2, TakeSetupStep2, TakeTcpStep2

---------------------------------------
(* The windows are kept. *)

LEMMA InitInv2 == ASSUME Init PROVE Inv2
<1>1. mux = NoMux /\ gout = NoFrame /\ guest = NoSession BY DEF Init
<1>2. Talking(mux, gin, gout) BY <1>1, Plugs DEF Talking, FitsOut
<1>3. Spoken
  <2> SUFFICES ASSUME NEW p \in Ports PROVE guest.stream[p].sent <= Down[p]
    BY DEF Spoken
  <2>1. guest.stream[p].sent = 0 BY <1>1 DEF NoSession, NoStream
  <2>2. Down[p] \in Nat BY Consts DEF Ports
  <2> QED BY <2>1, <2>2
<1> QED BY <1>2, <1>3, InitInv1 DEF Inv2

LEMMA NextStep2 == ASSUME Inv2, [Next]_vars PROVE Inv2'
<1> SUFFICES More2'
  <2>1. Inv1' BY NextStep1 DEF Inv2
  <2> QED BY <2>1 DEF More2, Inv2
<1>1. ASSUME NEW k \in Opens, \/ Open(k) \/ Wake(k) \/ GiveUp(k)
                              \/ ClientWrite(k) \/ ClientRead(k) \/ ClientEof(k) \/ ClientClose(k)
      PROVE  More2'
  BY <1>1, ClientsStep2
<1>2. CASE hasServiceActivity BY <1>2, ClientsStep2
<1>3. CASE EngineTurn BY <1>3, EngineStep2
<1>4. CASE LinkFails \/ Reboot \/ Stop \/ Start BY <1>4, PowerStep2
<1>5. CASE GuestDriver \/ GuestCoreReset \/ GuestTake
  BY <1>5, GuestDriverStep2, GuestCoreResetStep2, GuestTakeStep2
<1>6. ASSUME NEW p \in Ports, GuestSend(p) \/ GuestRead(p) \/ GuestHangUp(p)
      PROVE  More2'
  BY <1>6, GuestSendStep2, GuestReadStep2, GuestHangUpStep2
<1>7. ASSUME NEW notice \in BOOLEAN, GuestControl(notice)
      PROVE  More2'
  BY <1>7, GuestControlStep2
<1>8. CASE UNCHANGED vars BY <1>8, KeepStep2 DEF vars
<1> QED BY <1>1, <1>2, <1>3, <1>4, <1>5, <1>6, <1>7, <1>8 DEF Next

LEMMA Invariant2 == Spec => []Inv2
<1>1. Init => Inv2 BY InitInv2
<1>2. Inv2 /\ [Next]_vars => Inv2' BY NextStep2
<1> QED BY <1>1, <1>2, PTL DEF Spec

LEMMA Kept2 == ASSUME Inv2 PROVE WindowsKept
<1>1. NoFalseAlarm BY DEF Inv2, Talking, Blameless, NoFalseAlarm
<1>2. ASSUME gout # NoFrame, gout.kind = "tcp", gout.flags = "ack",
             guest.stream[gout.local].state = "open"
      PROVE  /\ gout.seq = guest.stream[gout.local].next
             /\ Len(guest.stream[gout.local].buffer) + Len(gout.data) <= GUEST_WINDOW
  <2> DEFINE s == guest.stream[gout.local]
             d == Len(gout.data)
             x == Len(s.buffer)
             b == 0
  <2>1. Fits(gout, s, b) BY <1>2, OutFits DEF FitsOut
  <2>2. gout \in HostTcp /\ s \in Streams
    <3>1. gout \in HostTcp BY <1>2, InvRest, HostFrameKinds DEF Inv2
    <3>2. gout.local \in Ports BY <3>1, HostTcpFields
    <3> QED BY <3>1, <3>2, GuestFields DEF Inv2
  <2>3. s.next \in 0..(SEQ - 1) /\ x \in Nat /\ d \in Nat /\ b = 0
    BY <2>2, StreamFields, HostTcpFields
  <2>4. gout.seq = (s.next + b) % SEQ /\ x + b + d <= GUEST_WINDOW BY <1>2, <2>1 DEF Fits
  <2> HIDE DEF s, d, x, b
  <2>5. s.next + b = s.next BY <2>3, WindowFits
  <2>6. gout.seq = s.next BY <2>3, <2>4, <2>5, SmallMod
  <2>7. x + d <= GUEST_WINDOW BY <2>3, <2>4, WindowFits
  <2> QED BY <2>6, <2>7 DEF s, x, d
<1>3. WithinGuestWindow BY <1>2 DEF WithinGuestWindow
<1> QED BY <1>1, <1>3 DEF WindowsKept

\* Both windows of every stream are kept: a frame that is handed to the guest is the
\* next one of its stream and fits what the guest has left of its buffer, and the mux
\* (usb_mux.c, mux_tcp) never accuses a guest that stays within the window of the
\* mux: a channel fails because the guest reset it, and for no other reason.  This
\* holds for every size of the buffers and of the window, through sequence numbers
\* that wrap around, reused channels, resets and reconnected cables.
THEOREM WindowsAreKept == Spec => []WindowsKept
<1>1. Inv2 => WindowsKept BY Kept2
<1> QED BY <1>1, Invariant2, PTL
=============================================================================
