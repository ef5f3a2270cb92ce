---------------------------- MODULE PppLinkProof ----------------------------
(***************************************************************************)
(* The two automata of the host's PPP peer stay in order, for every number *)
(* of retries, every ring and every proposal: the proof that PppLink       *)
(* always satisfies Orderly.                                               *)
(*                                                                         *)
(* A handler of ppp.c leaves the order for a moment: EvRcr in Opened first *)
(* takes the layer above down, then sends and counts, and stores the new   *)
(* state last.  So the operators a handler is composed of get a lemma each *)
(* about the fields they change, and every handler is followed through its *)
(* cases with these lemmas alone.                                          *)
(***************************************************************************)
EXTENDS PppLink, TLAPS

(* One end with all its fields, its frames within the ring.                *)
Peer == [end : End, lcp : FsmType, ipcp : FsmType, opened : BOOLEAN,
         assigned : BOOLEAN, rejected : SUBSET Layer, out : Seq(Frame)]
Typed(c) == c \in Peer /\ Len(c.out) <= TX_FRAMES

(* The states in which an end waits for the other.                         *)
Waits == Negotiating \cup {"Closing", "Stopping"}

(* Layered and WaitsAreTimed, of one end.                                  *)
Timed(c) == \A p \in Layer : c[p].timer <=> c[p].state \in Waits
Sound(c) ==
  /\ c.ipcp.state = "Opened" => c.assigned
  /\ "ipcp" \notin c.rejected =>
       /\ c.ipcp.state # "Initial" => c.lcp.state = "Opened"
       /\ c.assigned => c.ipcp.state = "Opened"
  /\ Timed(c)

-----------------------------------------------------------------------------
LEMMA Numbers ==
  /\ IDS \in Nat /\ PPP_MAX_CONFIGURE \in Nat /\ PPP_MAX_TERMINATE \in Nat
  /\ PPP_MAX_FAILURE \in Nat /\ TX_FRAMES \in Nat
  /\ IDS > 0 /\ PPP_MAX_FAILURE > 0
BY PppAssumption

(* What one end is made of.                                                *)

LEMMA PeerFields ==
  ASSUME NEW c, Typed(c)
  PROVE  /\ c.end \in End /\ c.opened \in BOOLEAN /\ c.assigned \in BOOLEAN
         /\ c.rejected \subseteq Layer
         /\ c.out \in Seq(Frame) /\ Len(c.out) <= TX_FRAMES
         /\ c.lcp \in FsmType /\ c.ipcp \in FsmType
         /\ \A p \in Layer : c[p] \in FsmType
BY DEF Typed, Peer, Layer

LEMMA FsmFields ==
  ASSUME NEW f \in FsmType
  PROVE  /\ f.state \in State /\ f.last \in 0 .. (IDS - 1) /\ f.next \in 0 .. (IDS - 1)
         /\ f.restarts \in 0 .. (PPP_MAX_CONFIGURE + PPP_MAX_TERMINATE)
         /\ f.failures \in 0 .. PPP_MAX_FAILURE /\ f.timer \in BOOLEAN /\ f.want \in Proposal
BY DEF FsmType

(* Nothing but the frames differs.                                         *)
Alike(c, d) ==
  /\ d.lcp = c.lcp /\ d.ipcp = c.ipcp /\ \A q \in Layer : d[q] = c[q]
  /\ d.opened = c.opened /\ d.assigned = c.assigned /\ d.rejected = c.rejected
  /\ d.end = c.end

LEMMA SendKeeps ==
  ASSUME NEW c, Typed(c), NEW p \in Layer \cup {"other"}, NEW code \in Code,
         NEW id \in 0 .. (IDS - 1), NEW body \in Proposal
  PROVE  Typed(Send(c, p, code, id, body)) /\ Alike(c, Send(c, p, code, id, body))
<1>. DEFINE m == [layer |-> p, code |-> code, id |-> id, body |-> body]
<1>1. m \in Frame
  BY DEF Frame
<1>2. CASE Len(c.out) < TX_FRAMES
  <2>1. Append(c.out, m) \in Seq(Frame) /\ Len(Append(c.out, m)) <= TX_FRAMES
    BY <1>1, <1>2, PeerFields, Numbers
  <2>. HIDE DEF m
  <2>2. Send(c, p, code, id, body) = [c EXCEPT !.out = Append(c.out, m)]
    BY <1>2 DEF Send, m
  <2>. QED BY <2>1, <2>2 DEF Typed, Peer, Alike, Layer
<1>3. CASE ~(Len(c.out) < TX_FRAMES)
  BY <1>3 DEF Send, Alike
<1>. QED BY <1>2, <1>3

(* Nothing but layer p and the frames differ.                              *)
Within(c, d, p) ==
  /\ \A q \in Layer : q # p => d[q] = c[q]
  /\ d.opened = c.opened /\ d.assigned = c.assigned /\ d.rejected = c.rejected
  /\ d.end = c.end

(* Layer p becomes f.                                                      *)
Replace(c, p, f) == [c EXCEPT ![p] = f]

LEMMA ReplacedWithin ==
  ASSUME NEW c, Typed(c), NEW p \in Layer, NEW f \in FsmType
  PROVE  LET d == Replace(c, p, f) IN
         Typed(d) /\ Within(c, d, p) /\ d[p] = f /\ d.out = c.out
<1>1. CASE p = "lcp"
  BY <1>1 DEF Typed, Peer, Layer, Within, Replace
<1>2. CASE p = "ipcp"
  BY <1>2 DEF Typed, Peer, Layer, Within, Replace
<1>. QED BY <1>1, <1>2 DEF Layer

LEMMA IrcKeeps ==
  ASSUME NEW c, Typed(c), NEW p \in Layer, NEW n \in {PPP_MAX_CONFIGURE, PPP_MAX_TERMINATE}
  PROVE  LET d == Irc(c, p, n) IN
         /\ Typed(d) /\ Within(c, d, p)
         /\ d[p].state = c[p].state /\ d[p].timer = c[p].timer
         /\ d[p].failures = PPP_MAX_FAILURE
<1>. DEFINE f == [c[p] EXCEPT !.restarts = n, !.failures = PPP_MAX_FAILURE]
            d == Irc(c, p, n)
<1>1. c[p] \in FsmType
  BY PeerFields
<1>2. /\ f \in FsmType /\ f.state = c[p].state /\ f.timer = c[p].timer
      /\ f.failures = PPP_MAX_FAILURE
  <2>1. /\ n \in 0 .. (PPP_MAX_CONFIGURE + PPP_MAX_TERMINATE)
        /\ PPP_MAX_FAILURE \in 0 .. PPP_MAX_FAILURE
    BY Numbers
  <2>. QED BY <1>1, <2>1 DEF FsmType
<1>3. d = Replace(c, p, f)
  <2>1. CASE p = "lcp"
    BY <2>1 DEF Irc, Replace, Typed, Peer
  <2>2. CASE p = "ipcp"
    BY <2>2 DEF Irc, Replace, Typed, Peer
  <2>. QED BY <2>1, <2>2 DEF Layer
<1>. HIDE DEF f, d
<1>4. Typed(d) /\ Within(c, d, p) /\ d[p] = f
  BY <1>2, <1>3, ReplacedWithin
<1>. QED BY <1>2, <1>4 DEF d

LEMMA TimerKeeps ==
  ASSUME NEW c, Typed(c), NEW p \in Layer
  PROVE  /\ LET d == RestartStart(c, p) IN
            /\ Typed(d) /\ Within(c, d, p) /\ d.out = c.out
            /\ d[p].timer = TRUE /\ d[p].state = c[p].state /\ d[p].failures = c[p].failures
         /\ LET d == RestartStop(c, p) IN
            /\ Typed(d) /\ Within(c, d, p) /\ d.out = c.out
            /\ d[p].timer = FALSE /\ d[p].state = c[p].state /\ d[p].failures = c[p].failures
<1>1. ASSUME NEW b \in BOOLEAN, NEW d, d = [c EXCEPT ![p].timer = b]
      PROVE  /\ Typed(d) /\ Within(c, d, p) /\ d.out = c.out
             /\ d[p].timer = b /\ d[p].state = c[p].state /\ d[p].failures = c[p].failures
  <2>. DEFINE f == [c[p] EXCEPT !.timer = b]
  <2>1. f \in FsmType /\ f.timer = b /\ f.state = c[p].state /\ f.failures = c[p].failures
    BY PeerFields DEF FsmType
  <2>2. d = Replace(c, p, f)
    BY <1>1 DEF Replace
  <2>. HIDE DEF f
  <2>3. Typed(d) /\ Within(c, d, p) /\ d[p] = f /\ d.out = c.out
    BY <2>1, <2>2, ReplacedWithin
  <2>. QED BY <2>1, <2>3
<1>. QED BY <1>1 DEF RestartStart, RestartStop

LEMMA GotoKeeps ==
  ASSUME NEW c, Typed(c), NEW p \in Layer, NEW state \in State
  PROVE  LET d == Goto(c, p, state) IN
         /\ Typed(d) /\ Within(c, d, p) /\ d.out = c.out
         /\ d[p].state = state /\ d[p].timer = c[p].timer
<1>. DEFINE f == [c[p] EXCEPT !.state = state]
            d == Goto(c, p, state)
<1>1. f \in FsmType /\ f.state = state /\ f.timer = c[p].timer
  BY PeerFields DEF FsmType
<1>2. d = Replace(c, p, f)
  BY DEF Goto, Replace
<1>. HIDE DEF f, d
<1>3. Typed(d) /\ Within(c, d, p) /\ d[p] = f /\ d.out = c.out
  BY <1>1, <1>2, ReplacedWithin
<1>. QED BY <1>1, <1>3 DEF d

(* The state, the timer and the count of refusals of a layer.              *)
SameCourse(f, g) == g.state = f.state /\ g.timer = f.timer /\ g.failures = f.failures

LEMMA NewIdKeeps ==
  ASSUME NEW c, Typed(c), NEW p \in Layer
  PROVE  LET d == NewId(c, p) IN
         Typed(d) /\ Within(c, d, p) /\ SameCourse(c[p], d[p])
<1>. DEFINE f == [c[p] EXCEPT !.last = c[p].next, !.next = (c[p].next + 1) % IDS]
            d == NewId(c, p)
<1>1. c[p] \in FsmType
  BY PeerFields
<1>2. (c[p].next + 1) % IDS \in 0 .. (IDS - 1)
  BY <1>1, FsmFields, Numbers
<1>3. f \in FsmType /\ SameCourse(c[p], f)
  BY <1>1, <1>2 DEF FsmType, SameCourse
<1>4. d = Replace(c, p, f)
  <2>1. CASE p = "lcp"
    BY <2>1 DEF NewId, Replace, Typed, Peer
  <2>2. CASE p = "ipcp"
    BY <2>2 DEF NewId, Replace, Typed, Peer
  <2>. QED BY <2>1, <2>2 DEF Layer
<1>. HIDE DEF f, d
<1>5. Typed(d) /\ Within(c, d, p) /\ d[p] = f
  BY <1>3, <1>4, ReplacedWithin
<1>. QED BY <1>3, <1>5 DEF d

LEMMA SpendKeeps ==
  ASSUME NEW c, Typed(c), NEW p \in Layer
  PROVE  LET d == Spend(c, p) IN
         Typed(d) /\ Within(c, d, p) /\ SameCourse(c[p], d[p])
<1>. DEFINE n == IF c[p].restarts > 0 THEN c[p].restarts - 1 ELSE 0
            f == [c[p] EXCEPT !.restarts = n]
            d == Spend(c, p)
<1>1. c[p] \in FsmType
  BY PeerFields
<1>2. n \in 0 .. (PPP_MAX_CONFIGURE + PPP_MAX_TERMINATE)
  BY <1>1, FsmFields, Numbers
<1>3. d = Replace(c, p, f)
  BY DEF Spend, Replace
<1>. HIDE DEF n
<1>4. f \in FsmType /\ SameCourse(c[p], f)
  BY <1>1, <1>2 DEF FsmType, SameCourse
<1>. HIDE DEF f, d
<1>5. Typed(d) /\ Within(c, d, p) /\ d[p] = f
  BY <1>3, <1>4, ReplacedWithin
<1>. QED BY <1>4, <1>5 DEF d

LEMMA AlikeIsWithin ==
  ASSUME NEW c, NEW d, Alike(c, d), NEW p \in Layer
  PROVE  Within(c, d, p) /\ SameCourse(c[p], d[p])
BY DEF Alike, Within, SameCourse

LEMMA WithinTwice ==
  ASSUME NEW c, NEW d, NEW x, NEW p \in Layer, Within(c, d, p), Within(d, x, p)
  PROVE  Within(c, x, p)
BY DEF Within

(* A frame goes out and the timer is started: Scr and Str.                 *)
LEMMA Transmits ==
  ASSUME NEW c, Typed(c), NEW p \in Layer, NEW code \in Code, NEW body \in Proposal
  PROVE  LET d == RestartStart(Spend(Send(c, p, code, c[p].last, body), p), p) IN
         /\ Typed(d) /\ Within(c, d, p)
         /\ d[p].timer = TRUE /\ d[p].state = c[p].state /\ d[p].failures = c[p].failures
<1>. DEFINE x == Send(c, p, code, c[p].last, body)
            y == Spend(x, p)
            d == RestartStart(y, p)
<1>1. c[p].last \in 0 .. (IDS - 1)
  BY PeerFields, FsmFields
<1>2. Typed(x) /\ Within(c, x, p) /\ SameCourse(c[p], x[p])
  BY <1>1, SendKeeps, AlikeIsWithin
<1>. HIDE DEF x
<1>3. Typed(y) /\ Within(x, y, p) /\ SameCourse(x[p], y[p])
  BY <1>2, SpendKeeps
<1>. HIDE DEF y
<1>4. /\ Typed(d) /\ Within(y, d, p)
      /\ d[p].timer = TRUE /\ d[p].state = y[p].state /\ d[p].failures = y[p].failures
  BY <1>3, TimerKeeps
<1>. HIDE DEF d
<1>5. Within(c, d, p)
  BY <1>2, <1>3, <1>4, WithinTwice
<1>6. d[p].state = c[p].state /\ d[p].failures = c[p].failures
  BY <1>2, <1>3, <1>4 DEF SameCourse
<1>. QED BY <1>4, <1>5, <1>6 DEF d, x, y

LEMMA ScrKeeps ==
  ASSUME NEW c, Typed(c), NEW p \in Layer, NEW fresh \in BOOLEAN
  PROVE  LET d == Scr(c, p, fresh) IN
         /\ Typed(d) /\ Within(c, d, p)
         /\ d[p].timer = TRUE /\ d[p].state = c[p].state /\ d[p].failures = c[p].failures
<1>. DEFINE x == IF fresh THEN NewId(c, p) ELSE c
            d == Scr(c, p, fresh)
<1>1. Typed(x) /\ Within(c, x, p) /\ SameCourse(c[p], x[p])
  BY NewIdKeeps DEF Within, SameCourse
<1>2. d = RestartStart(Spend(Send(x, p, "req", x[p].last, x[p].want), p), p)
  BY DEF Scr
<1>. HIDE DEF x, d
<1>3. x[p].want \in Proposal /\ "req" \in Code
  BY <1>1, PeerFields, FsmFields DEF Code
<1>4. /\ Typed(d) /\ Within(x, d, p)
      /\ d[p].timer = TRUE /\ d[p].state = x[p].state /\ d[p].failures = x[p].failures
  BY <1>1, <1>2, <1>3, Transmits
<1>5. Within(c, d, p)
  BY <1>1, <1>4, WithinTwice
<1>. QED BY <1>1, <1>4, <1>5 DEF d, SameCourse

LEMMA StrKeeps ==
  ASSUME NEW c, Typed(c), NEW p \in Layer
  PROVE  LET d == Str(c, p) IN
         Typed(d) /\ Within(c, d, p) /\ d[p].timer = TRUE /\ d[p].state = c[p].state
<1>. DEFINE x == NewId(c, p)
            d == Str(c, p)
<1>1. Typed(x) /\ Within(c, x, p) /\ SameCourse(c[p], x[p])
  BY NewIdKeeps
<1>2. d = RestartStart(Spend(Send(x, p, "term-req", x[p].last, Nothing), p), p)
  BY DEF Str
<1>. HIDE DEF x, d
<1>3. Nothing \in Proposal /\ "term-req" \in Code
  BY DEF Code, Nothing, Proposal
<1>4. /\ Typed(d) /\ Within(x, d, p)
      /\ d[p].timer = TRUE /\ d[p].state = x[p].state
  BY <1>1, <1>2, <1>3, Transmits
<1>5. Within(c, d, p)
  BY <1>1, <1>4, WithinTwice
<1>. QED BY <1>1, <1>4, <1>5 DEF d, SameCourse

LEMMA StaKeeps ==
  ASSUME NEW c, Typed(c), NEW p \in Layer, NEW id \in 0 .. (IDS - 1)
  PROVE  Typed(Sta(c, p, id)) /\ Alike(c, Sta(c, p, id))
<1>1. Nothing \in Proposal /\ "term-ack" \in Code
  BY DEF Code, Nothing, Proposal
<1>. QED BY <1>1, SendKeeps DEF Sta

LEMMA IpcpStartKeeps ==
  ASSUME NEW c, Typed(c)
  PROVE  LET d == IpcpStart(c) IN
         /\ Typed(d) /\ Within(c, d, "ipcp")
         /\ d.ipcp.state = "Req-Sent" /\ d.ipcp.timer = TRUE
<1>. DEFINE f == [c.ipcp EXCEPT !.state = "Req-Sent", !.want.extra = First[c.end].ipcp.extra]
            x == [c EXCEPT !.ipcp.state = "Req-Sent", !.ipcp.want.extra = First[c.end].ipcp.extra]
            y == Irc(x, "ipcp", PPP_MAX_CONFIGURE)
            d == IpcpStart(c)
<1>1. c.ipcp \in FsmType /\ c.end \in End
  BY PeerFields
<1>2. First[c.end].ipcp.extra \in BOOLEAN
  BY <1>1, PppAssumption DEF Layer, Proposal
<1>3. f \in FsmType /\ f.state = "Req-Sent"
  BY <1>1, <1>2 DEF FsmType, State, Proposal
<1>4. x = Replace(c, "ipcp", f)
  BY DEF Replace, Typed, Peer
<1>. HIDE DEF f, x
<1>5. "ipcp" \in Layer
  BY DEF Layer
<1>6. Typed(x) /\ Within(c, x, "ipcp") /\ x.ipcp = f
  BY <1>3, <1>4, <1>5, ReplacedWithin
<1>7. Typed(y) /\ Within(x, y, "ipcp") /\ y.ipcp.state = x.ipcp.state
  BY <1>5, <1>6, IrcKeeps
<1>8. d = Scr(y, "ipcp", TRUE)
  BY DEF IpcpStart, x
<1>. HIDE DEF y, d
<1>9. Typed(d) /\ Within(y, d, "ipcp") /\ d.ipcp.timer = TRUE /\ d.ipcp.state = y.ipcp.state
  BY <1>5, <1>7, <1>8, ScrKeeps
<1>10. Within(c, d, "ipcp")
  BY <1>5, <1>6, <1>7, <1>9, WithinTwice
<1>. QED BY <1>3, <1>6, <1>7, <1>9, <1>10 DEF d

LEMMA AssignedKeeps ==
  ASSUME NEW c, Typed(c), NEW b \in BOOLEAN
  PROVE  LET d == [c EXCEPT !.assigned = b] IN
         /\ Typed(d) /\ d.assigned = b /\ d.lcp = c.lcp /\ d.ipcp = c.ipcp
         /\ d.opened = c.opened /\ d.end = c.end /\ d.rejected = c.rejected
BY DEF Typed, Peer

(* A history may be forgotten or grow.                                     *)
LEMMA HistoryKeeps ==
  ASSUME NEW c, Typed(c), NEW R \in SUBSET Layer
  PROVE  LET d == [c EXCEPT !.rejected = R] IN
         /\ Typed(d) /\ d.rejected = R /\ d.lcp = c.lcp /\ d.ipcp = c.ipcp
         /\ d.assigned = c.assigned /\ d.out = c.out
BY DEF Typed, Peer

LEMMA TldKeeps ==
  ASSUME NEW c, Typed(c), NEW p \in Layer
  PROVE  LET d == Tld(c, p) IN
         /\ Typed(d) /\ d.lcp = c.lcp /\ d.assigned = FALSE
         /\ p = "lcp" => d.ipcp.state = "Initial" /\ d.ipcp.timer = FALSE /\ d.rejected = {}
         /\ p = "ipcp" => d.ipcp = c.ipcp /\ d.rejected = c.rejected
<1>. DEFINE w == [c EXCEPT !.assigned = FALSE]
            x == [w EXCEPT !.rejected = {}]
            y == Goto(x, "ipcp", "Initial")
            z == RestartStop(y, "ipcp")
<1>1. /\ Typed(w) /\ w.assigned = FALSE /\ w.lcp = c.lcp /\ w.ipcp = c.ipcp
      /\ w.rejected = c.rejected
  BY AssignedKeeps
<1>2. Tld(c, p) = IF p = "lcp" THEN z ELSE w
  BY DEF Tld
<1>3. "Initial" \in State /\ "ipcp" \in Layer /\ "lcp" \in Layer
  BY DEF State, Layer
<1>. HIDE DEF w
<1>4. Typed(x) /\ x.rejected = {} /\ x.lcp = c.lcp /\ x.assigned = FALSE
  BY <1>1, HistoryKeeps
<1>. HIDE DEF x
<1>5. Typed(y) /\ Within(x, y, "ipcp") /\ y.ipcp.state = "Initial"
  BY <1>3, <1>4, GotoKeeps
<1>. HIDE DEF y
<1>6. Typed(z) /\ Within(y, z, "ipcp") /\ z.ipcp.timer = FALSE /\ z.ipcp.state = y.ipcp.state
  BY <1>3, <1>5, TimerKeeps
<1>. HIDE DEF z
<1>7. z.lcp = x.lcp /\ z.assigned = x.assigned /\ z.rejected = x.rejected
  BY <1>3, <1>5, <1>6 DEF Within
<1>. QED BY <1>1, <1>2, <1>3, <1>4, <1>5, <1>6, <1>7 DEF Layer

LEMMA ApplyKeeps ==
  ASSUME NEW c, Typed(c), NEW p \in Layer
  PROVE  /\ Typed(ApplyNak(c, p)) /\ Within(c, ApplyNak(c, p), p)
         /\ SameCourse(c[p], ApplyNak(c, p)[p])
         /\ Typed(ApplyRej(c, p)) /\ Within(c, ApplyRej(c, p), p)
         /\ SameCourse(c[p], ApplyRej(c, p)[p])
<1>. DEFINE f == [c[p] EXCEPT !.want.value = "good"]
            g == [c[p] EXCEPT !.want.extra = FALSE]
<1>1. f \in FsmType /\ g \in FsmType /\ SameCourse(c[p], f) /\ SameCourse(c[p], g)
  <2>1. c[p] \in FsmType /\ c[p].want \in Proposal
    BY PeerFields, FsmFields
  <2>2. /\ [c[p].want EXCEPT !.value = "good"] \in Proposal
        /\ [c[p].want EXCEPT !.extra = FALSE] \in Proposal
    BY <2>1 DEF Proposal
  <2>. QED BY <2>1, <2>2 DEF FsmType, SameCourse
<1>2. ApplyNak(c, p) = Replace(c, p, f) /\ ApplyRej(c, p) = Replace(c, p, g)
  BY DEF ApplyNak, ApplyRej, Replace
<1>. HIDE DEF f, g
<1>. QED BY <1>1, <1>2, ReplacedWithin

-----------------------------------------------------------------------------
(* The four ways a handler may treat a layer.                              *)

(* What every handler keeps of an end.                                     *)
Good(c) == Typed(c) /\ Sound(c)

(* The layer stays as it is.                                               *)
LEMMA Stays ==
  ASSUME NEW c, NEW d, Good(c), Typed(d), NEW p \in Layer, Within(c, d, p),
         d[p].state = c[p].state, d[p].timer = c[p].timer
  PROVE  Good(d)
<1>. Typed(c) /\ Sound(c)
  BY DEF Good
<1>. SUFFICES Sound(d)
  BY DEF Good
<1>1. CASE p = "lcp"
  BY <1>1 DEF Sound, Within, Timed, Layer
<1>2. CASE p = "ipcp"
  BY <1>2 DEF Sound, Within, Timed, Layer
<1>. QED BY <1>1, <1>2 DEF Layer

(* A layer that is not open moves to a state that is not open either.      *)
LEMMA Moves ==
  ASSUME NEW c, NEW d, Good(c), Typed(d), NEW p \in Layer, Within(c, d, p),
         c[p].state # "Opened", d[p].state # "Opened", p = "ipcp" => c[p].state # "Initial",
         d[p].timer <=> d[p].state \in Waits
  PROVE  Good(d)
<1>. Typed(c) /\ Sound(c)
  BY DEF Good
<1>. SUFFICES Sound(d)
  BY DEF Good
<1>1. CASE p = "lcp"
  <2>1. d.ipcp = c.ipcp /\ d.assigned = c.assigned /\ d.rejected = c.rejected
    BY <1>1 DEF Within, Layer
  <2>. QED BY <1>1, <2>1 DEF Sound, Timed, Layer
<1>2. CASE p = "ipcp"
  <2>1. d.lcp = c.lcp /\ d.assigned = c.assigned /\ d.rejected = c.rejected
    BY <1>2 DEF Within, Layer
  <2>. QED BY <1>2, <2>1 DEF Sound, Timed, Layer
<1>. QED BY <1>1, <1>2 DEF Layer

(* A layer opens: the layer above starts, or the address is assigned.      *)
LEMMA GoesUp ==
  ASSUME NEW c, NEW x, Good(c), Typed(x), NEW p \in Layer, Within(c, x, p),
         c[p].state # "Opened", p = "ipcp" => c[p].state # "Initial",
         x[p].state = "Opened", x[p].timer = FALSE
  PROVE  Good(Tlu(x, p))
<1>. Typed(c) /\ Sound(c)
  BY DEF Good
<1>1. CASE p = "lcp"
  <2>. DEFINE d == IpcpStart(x)
  <2>1. Typed(d) /\ Within(x, d, "ipcp") /\ d.ipcp.state = "Req-Sent" /\ d.ipcp.timer = TRUE
    BY IpcpStartKeeps
  <2>2. Tlu(x, p) = d
    BY <1>1 DEF Tlu
  <2>. HIDE DEF d
  <2>3. d.lcp = x.lcp /\ d.assigned = c.assigned /\ d.rejected = c.rejected
    BY <1>1, <2>1 DEF Within, Layer
  <2>4. Sound(d)
    <3>1. "ipcp" \notin d.rejected => ~d.assigned
      BY <1>1, <2>3 DEF Sound
    <3>2. Timed(d)
      BY <1>1, <2>1, <2>3 DEF Timed, Layer, Waits, Negotiating
    <3>. QED BY <1>1, <2>1, <2>3, <3>1, <3>2 DEF Sound
  <2>. QED BY <2>1, <2>2, <2>4 DEF Good
<1>2. CASE p = "ipcp"
  <2>. DEFINE d == [x EXCEPT !.assigned = TRUE]
  <2>1. /\ Typed(d) /\ d.assigned = TRUE /\ d.lcp = x.lcp /\ d.ipcp = x.ipcp
        /\ d.rejected = x.rejected
    BY AssignedKeeps
  <2>2. Tlu(x, p) = d
    BY <1>2 DEF Tlu
  <2>. HIDE DEF d
  <2>3. d.lcp = c.lcp /\ d.rejected = c.rejected
    BY <1>2, <2>1 DEF Within, Layer
  <2>4. Sound(d)
    BY <1>2, <2>1, <2>3 DEF Sound, Timed, Layer, Waits, Negotiating
  <2>. QED BY <2>1, <2>2, <2>4 DEF Good
<1>. QED BY <1>1, <1>2 DEF Layer

(* An open layer is left: the layer above is taken down first.             *)
LEMMA GoesDown ==
  ASSUME NEW c, NEW d, Good(c), Typed(d), NEW p \in Layer, Within(Tld(c, p), d, p),
         c[p].state = "Opened", d[p].state # "Opened", d[p].timer <=> d[p].state \in Waits
  PROVE  Good(d)
<1>. DEFINE x == Tld(c, p)
<1>. Typed(c) /\ Sound(c)
  BY DEF Good
<1>. SUFFICES Sound(d)
  BY DEF Good
<1>1. /\ x.lcp = c.lcp /\ x.assigned = FALSE
      /\ p = "lcp" => x.ipcp.state = "Initial" /\ x.ipcp.timer = FALSE
      /\ p = "ipcp" => x.ipcp = c.ipcp /\ x.rejected = c.rejected
  BY TldKeeps
<1>2. d.assigned = FALSE /\ d.rejected = x.rejected /\ \A q \in Layer : q # p => d[q] = x[q]
  BY <1>1 DEF Within
<1>. HIDE DEF x
<1>3. CASE p = "lcp"
  <2>1. d.ipcp.state = "Initial" /\ d.ipcp.timer = FALSE
    BY <1>1, <1>2, <1>3 DEF Layer
  <2>. QED BY <1>2, <1>3, <2>1 DEF Sound, Timed, Layer, Waits, Negotiating
<1>4. CASE p = "ipcp"
  <2>1. d.lcp = c.lcp /\ d.rejected = c.rejected
    BY <1>1, <1>2, <1>4 DEF Layer
  <2>. QED BY <1>2, <1>4, <2>1 DEF Sound, Timed, Layer, Waits, Negotiating
<1>. QED BY <1>3, <1>4 DEF Layer

-----------------------------------------------------------------------------
(* The handlers.                                                           *)

LEMMA FrameFields ==
  ASSUME NEW m \in Frame
  PROVE  /\ m.id \in 0 .. (IDS - 1) /\ m.body \in Proposal
         /\ m.layer \in Layer \cup {"other"} /\ m.code \in Code
         /\ Verdict(m.body) \in {"ack", "nak", "rej"} /\ Verdict(m.body) \in Code
BY DEF Frame, Verdict, Code

LEMMA WaitStates ==
  /\ "Req-Sent" \in Waits /\ "Ack-Rcvd" \in Waits /\ "Ack-Sent" \in Waits
  /\ "Closing" \in Waits /\ "Stopping" \in Waits
  /\ "Initial" \notin Waits /\ "Closed" \notin Waits /\ "Stopped" \notin Waits
  /\ "Opened" \notin Waits
  /\ "Req-Sent" \in State /\ "Ack-Rcvd" \in State /\ "Ack-Sent" \in State
  /\ "Closing" \in State /\ "Stopping" \in State
  /\ "Initial" \in State /\ "Closed" \in State /\ "Stopped" \in State /\ "Opened" \in State
BY DEF Waits, Negotiating, State

LEMMA GoodTimer ==
  ASSUME NEW c, Good(c), NEW p \in Layer
  PROVE  /\ Typed(c) /\ (c[p].timer <=> c[p].state \in Waits)
         /\ c[p].timer \in BOOLEAN /\ c[p].state \in State
BY PeerFields, FsmFields DEF Good, Sound, Timed

(* A layer that is started again by a request: in Stopped as it is, in     *)
(* Opened with the layer above down.                                       *)
LEMMA AskedAgain ==
  ASSUME NEW c, Typed(c), NEW p \in Layer
  PROVE  LET d == Scr(Irc(c, p, PPP_MAX_CONFIGURE), p, TRUE) IN
         /\ Typed(d) /\ Within(c, d, p) /\ d[p].timer = TRUE /\ d[p].state = c[p].state
         /\ d[p].failures = PPP_MAX_FAILURE
<1>. DEFINE x == Irc(c, p, PPP_MAX_CONFIGURE)
            d == Scr(x, p, TRUE)
<1>1. Typed(x) /\ Within(c, x, p) /\ x[p].state = c[p].state /\ x[p].failures = PPP_MAX_FAILURE
  BY IrcKeeps
<1>. HIDE DEF x
<1>2. /\ Typed(d) /\ Within(x, d, p) /\ d[p].timer = TRUE
      /\ d[p].state = x[p].state /\ d[p].failures = x[p].failures
  BY <1>1, ScrKeeps
<1>. HIDE DEF d
<1>3. Within(c, d, p)
  BY <1>1, <1>2, WithinTwice
<1>. QED BY <1>1, <1>2, <1>3 DEF d, x

(* A refusal is counted while any are left.                                *)
LEMMA CountedKeeps ==
  ASSUME NEW c, Typed(c), NEW p \in Layer, c[p].failures # 0
  PROVE  LET d == [c EXCEPT ![p].failures = @ - 1] IN
         Typed(d) /\ Within(c, d, p) /\ d[p].state = c[p].state /\ d[p].timer = c[p].timer
<1>. DEFINE n == c[p].failures - 1
            f == [c[p] EXCEPT !.failures = n]
            d == [c EXCEPT ![p].failures = @ - 1]
<1>1. c[p] \in FsmType
  BY PeerFields
<1>2. n \in 0 .. PPP_MAX_FAILURE
  BY <1>1, FsmFields, Numbers
<1>3. d = Replace(c, p, f)
  BY DEF Replace
<1>. HIDE DEF n
<1>4. f \in FsmType /\ f.state = c[p].state /\ f.timer = c[p].timer
  BY <1>1, <1>2 DEF FsmType
<1>. HIDE DEF f, d
<1>5. Typed(d) /\ Within(c, d, p) /\ d[p] = f
  BY <1>3, <1>4, ReplacedWithin
<1>. QED BY <1>4, <1>5 DEF d

LEMMA EvRcrKeeps ==
  ASSUME NEW c, Good(c), NEW p \in Layer, NEW m \in Frame
  PROVE  Good(EvRcr(c, p, m))
<1>. DEFINE entry == c[p].state
            verdict == Verdict(m.body)
            again == CASE entry = "Stopped" -> Scr(Irc(c, p, PPP_MAX_CONFIGURE), p, TRUE)
                       [] entry = "Opened" -> Scr(Irc(Tld(c, p), p, PPP_MAX_CONFIGURE), p, TRUE)
                       [] OTHER -> c
            answered == Send(again, p, verdict, m.id, m.body)
            counted == IF verdict = "ack" THEN answered
                       ELSE [answered EXCEPT ![p].failures = @ - 1]
            to == IF verdict = "ack" THEN "Ack-Sent" ELSE "Req-Sent"
            r == EvRcr(c, p, m)
<1>1. /\ verdict \in {"ack", "nak", "rej"} /\ verdict \in Code
      /\ m.id \in 0 .. (IDS - 1) /\ m.body \in Proposal
  BY FrameFields
<1>2. Typed(c) /\ (c[p].timer <=> c[p].state \in Waits) /\ c[p].timer \in BOOLEAN /\ c[p].state \in State
  BY GoodTimer
<1>3. r = CASE entry \in {"Initial", "Closed"} -> Sta(c, p, m.id)
            [] OTHER ->
               IF verdict # "ack" /\ answered[p].failures = 0
               THEN RestartStop(Goto(answered, p, "Stopped"), p)
               ELSE CASE entry \in {"Stopped", "Opened", "Req-Sent", "Ack-Sent"} ->
                            Goto(counted, p, to)
                      [] entry = "Ack-Rcvd" /\ verdict = "ack" ->
                            Tlu(RestartStop(Goto(counted, p, "Opened"), p), p)
                      [] OTHER -> counted
  BY DEF EvRcr
<1>4. to \in {"Ack-Sent", "Req-Sent"} /\ to \in State /\ to \in Waits /\ to # "Opened"
  BY WaitStates
<1>. HIDE DEF verdict, to, r
<1>5. CASE entry \in {"Initial", "Closed"}
  <2>1. r = Sta(c, p, m.id)
    BY <1>3, <1>5
  <2>2. Typed(r) /\ Within(c, r, p) /\ SameCourse(c[p], r[p])
    BY <1>1, <1>2, <2>1, StaKeeps, AlikeIsWithin
  <2>. QED BY <2>2, Stays DEF SameCourse, r
<1>. DEFINE base == IF entry = "Opened" THEN Tld(c, p) ELSE c
<1>6. CASE entry \in {"Stopped", "Opened"}
  <2>1. again = Scr(Irc(base, p, PPP_MAX_CONFIGURE), p, TRUE)
    BY <1>6
  <2>2. Typed(base)
    BY <1>2, TldKeeps
  <2>. HIDE DEF base, again
  <2>3. /\ Typed(again) /\ Within(base, again, p) /\ again[p].timer = TRUE
        /\ again[p].failures = PPP_MAX_FAILURE
    BY <2>1, <2>2, AskedAgain
  <2>4. Typed(answered) /\ Within(again, answered, p) /\ SameCourse(again[p], answered[p])
    BY <1>1, <2>3, SendKeeps, AlikeIsWithin
  <2>. HIDE DEF answered
  <2>5. answered[p].failures # 0 /\ answered[p].timer = TRUE
    BY <2>3, <2>4, Numbers DEF SameCourse
  <2>6. /\ Typed(counted) /\ Within(answered, counted, p) /\ counted[p].timer = TRUE
    BY <2>4, <2>5, CountedKeeps DEF Within
  <2>7. r = Goto(counted, p, to)
    BY <1>3, <1>6, <2>5
  <2>. HIDE DEF counted
  <2>8. Typed(r) /\ Within(counted, r, p) /\ r[p].state = to /\ r[p].timer = TRUE
    BY <1>4, <2>6, <2>7, GotoKeeps
  <2>9. Within(base, r, p)
    BY <2>3, <2>4, <2>6, <2>8, WithinTwice
  <2>10. CASE entry = "Opened"
    BY <1>4, <2>8, <2>9, <2>10, GoesDown DEF base, r
  <2>11. CASE entry = "Stopped"
    BY <1>4, <2>8, <2>9, <2>11, Moves DEF base, r
  <2>. QED BY <1>6, <2>10, <2>11
<1>7. CASE entry \notin {"Initial", "Closed", "Stopped", "Opened"}
  <2>1. again = c
    BY <1>7
  <2>. HIDE DEF again
  <2>2. Typed(answered) /\ Within(c, answered, p) /\ SameCourse(c[p], answered[p])
    BY <1>1, <1>2, <2>1, SendKeeps, AlikeIsWithin
  <2>. HIDE DEF answered
  <2>3. CASE verdict # "ack" /\ answered[p].failures = 0
    <3>. DEFINE x == Goto(answered, p, "Stopped")
    <3>1. r = RestartStop(x, p)
      BY <1>3, <1>7, <2>3
    <3>2. Typed(x) /\ Within(answered, x, p) /\ x[p].state = "Stopped"
      BY <2>2, WaitStates, GotoKeeps
    <3>. HIDE DEF x
    <3>3. Typed(r) /\ Within(x, r, p) /\ r[p].timer = FALSE /\ r[p].state = "Stopped"
      BY <3>1, <3>2, TimerKeeps
    <3>4. Within(c, r, p)
      BY <2>2, <3>2, <3>3, WithinTwice
    <3>. QED BY <1>7, <3>3, <3>4, WaitStates, Moves DEF r
  <2>4. CASE ~(verdict # "ack" /\ answered[p].failures = 0)
    <3>1. /\ Typed(counted) /\ Within(answered, counted, p)
          /\ counted[p].timer = answered[p].timer /\ counted[p].state = answered[p].state
      BY <2>2, <2>4, CountedKeeps DEF Within
    <3>. HIDE DEF counted
    <3>2. Within(c, counted, p) /\ counted[p].timer = c[p].timer /\ counted[p].state = entry
      BY <2>2, <3>1, WithinTwice DEF SameCourse
    <3>3. CASE entry \in {"Req-Sent", "Ack-Sent"}
      <4>1. r = Goto(counted, p, to)
        BY <1>3, <2>4, <3>3
      <4>2. Typed(r) /\ Within(counted, r, p) /\ r[p].state = to /\ r[p].timer = counted[p].timer
        BY <1>4, <3>1, <4>1, GotoKeeps
      <4>3. Within(c, r, p)
        BY <3>2, <4>2, WithinTwice
      <4>4. r[p].timer <=> r[p].state \in Waits
        BY <1>2, <1>4, <3>2, <3>3, <4>2, WaitStates
      <4>. QED BY <1>4, <3>3, <4>2, <4>3, <4>4, Moves DEF r
    <3>4. CASE entry = "Ack-Rcvd" /\ verdict = "ack"
      <4>. DEFINE x == Goto(counted, p, "Opened")
                  y == RestartStop(x, p)
      <4>1. r = Tlu(y, p)
        BY <1>3, <2>4, <3>4
      <4>2. Typed(x) /\ Within(counted, x, p) /\ x[p].state = "Opened"
        BY <3>1, WaitStates, GotoKeeps
      <4>. HIDE DEF x
      <4>3. Typed(y) /\ Within(x, y, p) /\ y[p].state = "Opened" /\ y[p].timer = FALSE
        BY <4>2, TimerKeeps
      <4>. HIDE DEF y
      <4>4. Within(c, y, p)
        BY <3>2, <4>2, <4>3, WithinTwice
      <4>. QED BY <3>4, <4>1, <4>3, <4>4, GoesUp DEF r
    <3>5. CASE ~(entry \in {"Req-Sent", "Ack-Sent"}) /\ ~(entry = "Ack-Rcvd" /\ verdict = "ack")
      <4>1. r = counted
        BY <1>3, <1>7, <2>4, <3>5
      <4>. QED BY <3>1, <3>2, <4>1, Stays DEF r
    <3>. QED BY <3>3, <3>4, <3>5
  <2>. QED BY <2>3, <2>4
<1>. QED BY <1>5, <1>6, <1>7 DEF r

(* Our request goes out again and the layer, not open, returns to Req-Sent. *)
LEMMA AsksAnew ==
  ASSUME NEW c, Good(c), NEW p \in Layer, c[p].state \in Negotiating
  PROVE  Good(Goto(Scr(c, p, TRUE), p, "Req-Sent"))
<1>. DEFINE x == Scr(c, p, TRUE)
            r == Goto(x, p, "Req-Sent")
<1>1. Typed(c) /\ c[p].state \notin {"Opened", "Initial"}
  BY GoodTimer DEF Negotiating
<1>2. Typed(x) /\ Within(c, x, p) /\ x[p].timer = TRUE
  BY <1>1, ScrKeeps
<1>. HIDE DEF x
<1>3. Typed(r) /\ Within(x, r, p) /\ r[p].state = "Req-Sent" /\ r[p].timer = TRUE
  <2>1. "Req-Sent" \in State
    BY WaitStates
  <2>2. Typed(r) /\ Within(x, r, p) /\ r[p].state = "Req-Sent" /\ r[p].timer = x[p].timer
    BY <1>2, <2>1, GotoKeeps
  <2>. QED BY <1>2, <2>2
<1>. HIDE DEF r
<1>4. Within(c, r, p)
  BY <1>2, <1>3, WithinTwice
<1>5. Good(r)
  BY <1>1, <1>3, <1>4, WaitStates, Moves
<1>. QED BY <1>5 DEF r, x

(* The same for an open layer, with the layer above down.                  *)
LEMMA AsksFromOpened ==
  ASSUME NEW c, Good(c), NEW p \in Layer, c[p].state = "Opened"
  PROVE  Good(Goto(Scr(Tld(c, p), p, TRUE), p, "Req-Sent"))
<1>. DEFINE w == Tld(c, p)
            x == Scr(w, p, TRUE)
            r == Goto(x, p, "Req-Sent")
<1>1. Typed(w)
  BY GoodTimer, TldKeeps
<1>2. Typed(x) /\ Within(w, x, p) /\ x[p].timer = TRUE
  BY <1>1, ScrKeeps
<1>. HIDE DEF x
<1>3. Typed(r) /\ Within(x, r, p) /\ r[p].state = "Req-Sent" /\ r[p].timer = TRUE
  <2>1. "Req-Sent" \in State
    BY WaitStates
  <2>2. Typed(r) /\ Within(x, r, p) /\ r[p].state = "Req-Sent" /\ r[p].timer = x[p].timer
    BY <1>2, <2>1, GotoKeeps
  <2>. QED BY <1>2, <2>2
<1>. HIDE DEF r
<1>4. Within(w, r, p)
  BY <1>2, <1>3, WithinTwice
<1>5. Good(r)
  BY <1>3, <1>4, WaitStates, GoesDown
<1>. QED BY <1>5 DEF r, x

LEMMA EvRcaKeeps ==
  ASSUME NEW c, Good(c), NEW p \in Layer, NEW m \in Frame
  PROVE  Good(EvRca(c, p, m))
<1>. DEFINE r == EvRca(c, p, m)
<1>1. m.id \in 0 .. (IDS - 1)
  BY FrameFields
<1>2. Typed(c) /\ (c[p].timer <=> c[p].state \in Waits) /\ c[p].timer \in BOOLEAN /\ c[p].state \in State
  BY GoodTimer
<1>3. CASE m.id # c[p].last
  BY <1>3 DEF EvRca
<1>4. CASE m.id = c[p].last
  <2>1. CASE c[p].state \in {"Closed", "Stopped"}
    <3>1. r = Sta(c, p, m.id)
      BY <1>4, <2>1 DEF EvRca
    <3>. HIDE DEF r
    <3>2. Typed(r) /\ Within(c, r, p) /\ SameCourse(c[p], r[p])
      BY <1>1, <1>2, <3>1, StaKeeps, AlikeIsWithin
    <3>. QED BY <3>2, Stays DEF SameCourse, r
  <2>2. CASE c[p].state = "Req-Sent"
    <3>. DEFINE x == Irc(c, p, PPP_MAX_CONFIGURE)
    <3>1. r = Goto(x, p, "Ack-Rcvd")
      BY <1>4, <2>2 DEF EvRca
    <3>2. Typed(x) /\ Within(c, x, p) /\ x[p].timer = c[p].timer
      BY <1>2, IrcKeeps
    <3>. HIDE DEF x, r
    <3>3. Typed(r) /\ Within(x, r, p) /\ r[p].state = "Ack-Rcvd" /\ r[p].timer = x[p].timer
      <4>1. "Ack-Rcvd" \in State
        BY WaitStates
      <4>. QED BY <3>1, <3>2, <4>1, GotoKeeps
    <3>4. Within(c, r, p)
      BY <3>2, <3>3, WithinTwice
    <3>5. r[p].timer <=> r[p].state \in Waits
      BY <1>2, <2>2, <3>2, <3>3, WaitStates
    <3>. QED BY <2>2, <3>3, <3>4, <3>5, Moves DEF r
  <2>3. CASE c[p].state = "Ack-Rcvd"
    BY <1>4, <2>3, AsksAnew DEF EvRca, Negotiating
  <2>4. CASE c[p].state = "Ack-Sent"
    <3>. DEFINE x == Irc(c, p, PPP_MAX_CONFIGURE)
                y == RestartStop(x, p)
                z == Goto(y, p, "Opened")
    <3>1. r = Tlu(z, p)
      BY <1>4, <2>4 DEF EvRca
    <3>2. Typed(x) /\ Within(c, x, p)
      BY <1>2, IrcKeeps
    <3>. HIDE DEF x, r
    <3>3. Typed(y) /\ Within(x, y, p) /\ y[p].timer = FALSE
      BY <3>2, TimerKeeps
    <3>. HIDE DEF y
    <3>4. Typed(z) /\ Within(y, z, p) /\ z[p].state = "Opened" /\ z[p].timer = FALSE
      <4>1. "Opened" \in State
        BY WaitStates
      <4>2. Typed(z) /\ Within(y, z, p) /\ z[p].state = "Opened" /\ z[p].timer = y[p].timer
        BY <3>3, <4>1, GotoKeeps
      <4>. QED BY <3>3, <4>2
    <3>. HIDE DEF z
    <3>5. Within(c, z, p)
      BY <3>2, <3>3, <3>4, WithinTwice
    <3>. QED BY <2>4, <3>1, <3>4, <3>5, GoesUp DEF r
  <2>5. CASE c[p].state = "Opened"
    BY <1>4, <2>5, AsksFromOpened DEF EvRca
  <2>6. CASE c[p].state \notin {"Closed", "Stopped", "Req-Sent", "Ack-Rcvd", "Ack-Sent", "Opened"}
    BY <1>4, <2>6 DEF EvRca
  <2>. QED BY <2>1, <2>2, <2>3, <2>4, <2>5, <2>6
<1>. QED BY <1>3, <1>4

LEMMA EvRcnKeeps ==
  ASSUME NEW c, Good(c), NEW p \in Layer, NEW m \in Frame
  PROVE  Good(EvRcn(c, p, m))
<1>. DEFINE d == IF m.code = "nak" THEN ApplyNak(c, p) ELSE ApplyRej(c, p)
            r == EvRcn(c, p, m)
<1>1. m.id \in 0 .. (IDS - 1)
  BY FrameFields
<1>2. Typed(c)
  BY GoodTimer
<1>3. Typed(d) /\ Within(c, d, p) /\ SameCourse(c[p], d[p])
  BY <1>2, ApplyKeeps
<1>4. r = IF m.id # c[p].last THEN c
          ELSE CASE c[p].state \in {"Closed", "Stopped"} -> Sta(d, p, m.id)
                 [] c[p].state \in {"Req-Sent", "Ack-Sent"} ->
                       Scr(Irc(d, p, PPP_MAX_CONFIGURE), p, TRUE)
                 [] c[p].state = "Ack-Rcvd" -> Goto(Scr(d, p, TRUE), p, "Req-Sent")
                 [] c[p].state = "Opened" -> Goto(Scr(Tld(d, p), p, TRUE), p, "Req-Sent")
                 [] OTHER -> d
  BY DEF EvRcn
<1>. HIDE DEF d, r
<1>5. Good(d) /\ d[p].state = c[p].state
  BY <1>3, Stays DEF SameCourse
<1>6. d[p].timer <=> d[p].state \in Waits
  BY <1>5, GoodTimer
<1>7. CASE m.id # c[p].last
  BY <1>4, <1>7 DEF r
<1>8. CASE m.id = c[p].last
  <2>1. CASE c[p].state \in {"Closed", "Stopped"}
    <3>1. r = Sta(d, p, m.id)
      BY <1>4, <1>8, <2>1
    <3>2. Typed(r) /\ Within(d, r, p) /\ SameCourse(d[p], r[p])
      BY <1>1, <1>3, <3>1, StaKeeps, AlikeIsWithin
    <3>. QED BY <1>5, <3>2, Stays DEF SameCourse, r
  <2>2. CASE c[p].state \in {"Req-Sent", "Ack-Sent"}
    <3>1. r = Scr(Irc(d, p, PPP_MAX_CONFIGURE), p, TRUE)
      BY <1>4, <1>8, <2>2
    <3>2. Typed(r) /\ Within(d, r, p) /\ r[p].timer = TRUE /\ r[p].state = d[p].state
      BY <1>3, <3>1, AskedAgain
    <3>. QED BY <1>5, <2>2, <3>2, WaitStates, Moves DEF r
  <2>3. CASE c[p].state = "Ack-Rcvd"
    BY <1>4, <1>5, <1>8, <2>3, AsksAnew DEF Negotiating, r
  <2>4. CASE c[p].state = "Opened"
    BY <1>4, <1>5, <1>8, <2>4, AsksFromOpened DEF r
  <2>5. CASE c[p].state \notin {"Closed", "Stopped", "Req-Sent", "Ack-Rcvd", "Ack-Sent", "Opened"}
    BY <1>4, <1>5, <1>8, <2>5 DEF r
  <2>. QED BY <2>1, <2>2, <2>3, <2>4, <2>5
<1>. QED BY <1>7, <1>8

LEMMA EvRtrKeeps ==
  ASSUME NEW c, Good(c), NEW p \in Layer, NEW m \in Frame
  PROVE  Good(EvRtr(c, p, m))
<1>. DEFINE r == EvRtr(c, p, m)
<1>1. m.id \in 0 .. (IDS - 1)
  BY FrameFields
<1>2. Typed(c) /\ (c[p].timer <=> c[p].state \in Waits)
  BY GoodTimer
<1>3. CASE c[p].state = "Opened"
  <2>. DEFINE w == Tld(c, p)
              f == [w[p] EXCEPT !.restarts = 0]
              x == [w EXCEPT ![p].restarts = 0]
              y == Sta(x, p, m.id)
              z == Goto(y, p, "Stopping")
  <2>1. r = RestartStart(z, p)
    BY <1>3 DEF EvRtr, Negotiating
  <2>2. Typed(w)
    BY <1>2, TldKeeps
  <2>3. Typed(x) /\ Within(w, x, p)
    <3>1. 0 \in 0 .. (PPP_MAX_CONFIGURE + PPP_MAX_TERMINATE)
      BY Numbers
    <3>2. f \in FsmType
      BY <2>2, <3>1, PeerFields DEF FsmType
    <3>3. x = Replace(w, p, f)
      BY DEF Replace
    <3>. HIDE DEF w, f, x
    <3>. QED BY <2>2, <3>2, <3>3, ReplacedWithin
  <2>. HIDE DEF r, x
  <2>4. Typed(y) /\ Within(x, y, p)
    BY <1>1, <2>3, StaKeeps, AlikeIsWithin
  <2>. HIDE DEF y
  <2>5. Typed(z) /\ Within(y, z, p) /\ z[p].state = "Stopping"
    <3>1. "Stopping" \in State
      BY WaitStates
    <3>. QED BY <2>4, <3>1, GotoKeeps
  <2>. HIDE DEF z
  <2>6. Typed(r) /\ Within(z, r, p) /\ r[p].timer = TRUE /\ r[p].state = "Stopping"
    BY <2>1, <2>5, TimerKeeps
  <2>7. Within(w, r, p)
    BY <2>3, <2>4, <2>5, <2>6, WithinTwice
  <2>. QED BY <1>3, <2>6, <2>7, WaitStates, GoesDown DEF r
<1>4. CASE c[p].state \in Negotiating
  <2>. DEFINE x == Sta(c, p, m.id)
  <2>1. r = Goto(x, p, "Req-Sent")
    BY <1>4 DEF EvRtr, Negotiating
  <2>2. Typed(x) /\ Within(c, x, p) /\ SameCourse(c[p], x[p])
    BY <1>1, <1>2, StaKeeps, AlikeIsWithin
  <2>. HIDE DEF x, r
  <2>3. Typed(r) /\ Within(x, r, p) /\ r[p].state = "Req-Sent" /\ r[p].timer = x[p].timer
    <3>1. "Req-Sent" \in State
      BY WaitStates
    <3>. QED BY <2>1, <2>2, <3>1, GotoKeeps
  <2>4. Within(c, r, p)
    BY <2>2, <2>3, WithinTwice
  <2>5. r[p].timer <=> r[p].state \in Waits
    BY <1>2, <1>4, <2>2, <2>3, WaitStates DEF SameCourse, Waits
  <2>. QED BY <1>4, <2>3, <2>4, <2>5, Moves DEF r, Negotiating
<1>5. CASE c[p].state \notin {"Opened"} \cup Negotiating
  <2>1. r = Sta(c, p, m.id)
    BY <1>5 DEF EvRtr
  <2>. HIDE DEF r
  <2>2. Typed(r) /\ Within(c, r, p) /\ SameCourse(c[p], r[p])
    BY <1>1, <1>2, <2>1, StaKeeps, AlikeIsWithin
  <2>. QED BY <2>2, Stays DEF SameCourse, r
<1>. QED BY <1>3, <1>4, <1>5

(* A layer that is not open stops waiting.                                 *)
LEMMA Rests ==
  ASSUME NEW c, Good(c), NEW p \in Layer, NEW state \in {"Closed", "Stopped"},
         c[p].state \in Waits
  PROVE  Good(Goto(RestartStop(c, p), p, state))
<1>. DEFINE x == RestartStop(c, p)
            r == Goto(x, p, state)
<1>1. Typed(c) /\ c[p].state \notin {"Opened", "Initial"}
  BY GoodTimer DEF Waits, Negotiating
<1>2. Typed(x) /\ Within(c, x, p) /\ x[p].timer = FALSE
  BY <1>1, TimerKeeps
<1>. HIDE DEF x
<1>3. state \in State /\ state \notin Waits /\ state # "Opened"
  BY WaitStates
<1>4. Typed(r) /\ Within(x, r, p) /\ r[p].state = state /\ r[p].timer = x[p].timer
  BY <1>2, <1>3, GotoKeeps
<1>. HIDE DEF r
<1>5. Within(c, r, p)
  BY <1>2, <1>4, WithinTwice
<1>6. Good(r)
  BY <1>1, <1>2, <1>3, <1>4, <1>5, Moves
<1>. QED BY <1>6 DEF r, x

LEMMA EvRtaKeeps ==
  ASSUME NEW c, Good(c), NEW p \in Layer
  PROVE  Good(EvRta(c, p))
<1>. DEFINE r == EvRta(c, p)
<1>1. Typed(c) /\ (c[p].timer <=> c[p].state \in Waits)
  BY GoodTimer
<1>2. CASE c[p].state = "Closing"
  BY <1>2, WaitStates, Rests DEF EvRta
<1>3. CASE c[p].state = "Stopping"
  BY <1>3, WaitStates, Rests DEF EvRta
<1>4. CASE c[p].state = "Ack-Rcvd"
  <2>1. r = Goto(c, p, "Req-Sent")
    BY <1>4 DEF EvRta
  <2>. HIDE DEF r
  <2>2. Typed(r) /\ Within(c, r, p) /\ r[p].state = "Req-Sent" /\ r[p].timer = c[p].timer
    <3>1. "Req-Sent" \in State
      BY WaitStates
    <3>. QED BY <1>1, <2>1, <3>1, GotoKeeps
  <2>3. r[p].timer <=> r[p].state \in Waits
    BY <1>1, <1>4, <2>2, WaitStates
  <2>. QED BY <1>4, <2>2, <2>3, Moves DEF r
<1>5. CASE c[p].state = "Opened"
  BY <1>5, AsksFromOpened DEF EvRta
<1>6. CASE c[p].state \notin {"Closing", "Stopping", "Ack-Rcvd", "Opened"}
  BY <1>6 DEF EvRta
<1>. QED BY <1>2, <1>3, <1>4, <1>5, <1>6

(* A rejected layer stops where it is; if it is LCP, IPCP goes down with it. *)
LEMMA RejectedKeeps ==
  ASSUME NEW c, Good(c), NEW p \in Layer
  PROVE  Good(Rejected(c, p))
<1>. DEFINE w == IF p = "lcp" THEN Tld(c, p) ELSE c
            x == Goto(w, p, "Stopped")
            y == RestartStop(x, p)
            R == y.rejected \cup {p}
            r == Rejected(c, p)
<1>1. Typed(c) /\ Sound(c) /\ "Stopped" \in State
  BY WaitStates DEF Good
<1>2. r = [y EXCEPT !.rejected = R]
  BY DEF Rejected
<1>3. /\ Typed(w)
      /\ p = "lcp" => w.ipcp.state = "Initial" /\ w.ipcp.timer = FALSE /\ w.assigned = FALSE
      /\ p = "ipcp" => w = c
  BY <1>1, TldKeeps
<1>. HIDE DEF w
<1>4. Typed(x) /\ Within(w, x, p) /\ x[p].state = "Stopped"
  BY <1>1, <1>3, GotoKeeps
<1>. HIDE DEF x
<1>5. Typed(y) /\ Within(x, y, p) /\ y[p].state = "Stopped" /\ y[p].timer = FALSE
  BY <1>4, TimerKeeps
<1>. HIDE DEF y
<1>6. R \in SUBSET Layer /\ p \in R
  BY <1>5, PeerFields
<1>7. Within(w, y, p)
  BY <1>4, <1>5, WithinTwice
<1>. HIDE DEF R
<1>8. /\ Typed(r) /\ r.rejected = R /\ r.lcp = y.lcp /\ r.ipcp = y.ipcp
      /\ r.assigned = y.assigned
  BY <1>2, <1>5, <1>6, HistoryKeeps
<1>. HIDE DEF r
<1>9. CASE p = "lcp"
  <2>1. r.ipcp.state = "Initial" /\ r.ipcp.timer = FALSE /\ r.assigned = FALSE
    BY <1>3, <1>7, <1>8, <1>9 DEF Within, Layer
  <2>2. r.lcp.state = "Stopped" /\ r.lcp.timer = FALSE
    BY <1>5, <1>8, <1>9
  <2>3. Sound(r)
    BY <2>1, <2>2, WaitStates DEF Sound, Timed, Layer
  <2>. QED BY <1>8, <2>3 DEF Good, r
<1>10. CASE p = "ipcp"
  <2>1. r.lcp = c.lcp /\ "ipcp" \in r.rejected
    BY <1>3, <1>6, <1>7, <1>8, <1>10 DEF Within, Layer
  <2>2. r.ipcp.state = "Stopped" /\ r.ipcp.timer = FALSE
    BY <1>5, <1>8, <1>10
  <2>3. Sound(r)
    BY <1>1, <2>1, <2>2, WaitStates DEF Sound, Timed, Layer
  <2>. QED BY <1>8, <2>3 DEF Good, r
<1>. QED BY <1>9, <1>10 DEF Layer

(* Rejecting what the other end sent takes an identifier and no more.      *)
LEMMA RejectKeeps ==
  ASSUME NEW c, Good(c), NEW p \in Layer
  PROVE  Good(Reject(c, p))
<1>. DEFINE x == Send(c, p, "reject", c[p].next, Nothing)
            f == [x[p] EXCEPT !.next = (x[p].next + 1) % IDS]
            r == Reject(c, p)
<1>1. Typed(c) /\ c[p].next \in 0 .. (IDS - 1) /\ p \in Layer \cup {"other"}
  BY GoodTimer, PeerFields, FsmFields
<1>2. Nothing \in Proposal /\ "reject" \in Code
  BY DEF Code, Nothing, Proposal
<1>3. Typed(x) /\ Within(c, x, p) /\ SameCourse(c[p], x[p])
  BY <1>1, <1>2, SendKeeps, AlikeIsWithin
<1>4. r = Replace(x, p, f)
  BY DEF Reject, Replace
<1>. HIDE DEF x
<1>5. f \in FsmType /\ SameCourse(x[p], f)
  <2>1. x[p] \in FsmType
    BY <1>3, PeerFields
  <2>2. (x[p].next + 1) % IDS \in 0 .. (IDS - 1)
    BY <2>1, FsmFields, Numbers
  <2>. QED BY <2>1, <2>2 DEF FsmType, SameCourse
<1>. HIDE DEF f, r
<1>6. Typed(r) /\ Within(x, r, p) /\ r[p] = f
  BY <1>3, <1>4, <1>5, ReplacedWithin
<1>7. Within(c, r, p)
  BY <1>3, <1>6, WithinTwice
<1>8. r[p].state = c[p].state /\ r[p].timer = c[p].timer
  BY <1>3, <1>5, <1>6 DEF SameCourse
<1>. QED BY <1>6, <1>7, <1>8, Stays DEF r

(* What only sends keeps the order.                                        *)
LEMMA SendsOnly ==
  ASSUME NEW c, Good(c), NEW p \in Layer \cup {"other"}, NEW code \in Code,
         NEW id \in 0 .. (IDS - 1), NEW body \in Proposal
  PROVE  Good(Send(c, p, code, id, body))
<1>. DEFINE d == Send(c, p, code, id, body)
<1>1. Typed(d) /\ Alike(c, d)
  BY SendKeeps DEF Good
<1>. HIDE DEF d
<1>2. Within(c, d, "lcp") /\ SameCourse(c["lcp"], d["lcp"]) /\ "lcp" \in Layer
  BY <1>1, AlikeIsWithin DEF Layer
<1>. QED BY <1>1, <1>2, Stays DEF SameCourse, d

LEMMA EchoReplyKeeps ==
  ASSUME NEW c, Good(c), NEW m \in Frame
  PROVE  Good(EchoReply(c, m))
<1>1. "echo-rep" \in Code /\ "lcp" \in Layer \cup {"other"}
  BY DEF Code, Layer
<1>. QED BY <1>1, FrameFields, SendsOnly DEF EchoReply

LEMMA CpInputKeeps ==
  ASSUME NEW c, Good(c), NEW m \in Frame, m.layer \in Layer
  PROVE  Good(CpInput(c, m))
<1>1. m.code \in Code
  BY FrameFields
<1>2. CASE m.code = "req"
  BY <1>2, EvRcrKeeps DEF CpInput
<1>3. CASE m.code = "ack"
  BY <1>3, EvRcaKeeps DEF CpInput
<1>4. CASE m.code \in {"nak", "rej"}
  BY <1>4, EvRcnKeeps DEF CpInput
<1>5. CASE m.code = "term-req"
  BY <1>5, EvRtrKeeps DEF CpInput
<1>6. CASE m.code = "term-ack"
  BY <1>6, EvRtaKeeps DEF CpInput
<1>7. CASE m.code = "reject"
  BY <1>7, RejectedKeeps DEF CpInput
<1>8. CASE m.code = "echo-req"
  BY <1>8, EchoReplyKeeps DEF CpInput
<1>9. CASE m.code = "echo-rep"
  BY <1>9 DEF CpInput
<1>10. CASE m.code = "unknown"
  BY <1>10, RejectKeeps DEF CpInput
<1>. QED BY <1>1, <1>2, <1>3, <1>4, <1>5, <1>6, <1>7, <1>8, <1>9, <1>10 DEF Code

LEMMA FrameInputKeeps ==
  ASSUME NEW c, Good(c), NEW m \in Frame
  PROVE  Good(FrameInput(c, m))
<1>1. CASE m.layer \in Layer
  <2>1. FrameInput(c, m) = CpInput(c, m)
    BY <1>1 DEF FrameInput, Layer
  <2>. QED BY <1>1, <2>1, CpInputKeeps
<1>2. CASE m.layer = "other"
  <2>1. FrameInput(c, m) = IF c.lcp.state = "Opened" THEN Reject(c, "lcp") ELSE c
    BY <1>2 DEF FrameInput, Layer
  <2>2. Good(Reject(c, "lcp"))
    BY RejectKeeps DEF Layer
  <2>. QED BY <2>1, <2>2
<1>. QED BY <1>1, <1>2, FrameFields

LEMMA RestartTimeoutKeeps ==
  ASSUME NEW c, Good(c), NEW p \in Layer, c[p].timer
  PROVE  Good(RestartTimeout(c, p))
<1>. DEFINE r == RestartTimeout(c, p)
<1>1. Typed(c) /\ c[p].state \in Waits
  BY GoodTimer
<1>2. c[p].state \notin {"Opened", "Initial"}
  BY <1>1 DEF Waits, Negotiating
<1>3. CASE c[p].restarts = 0
  <2>1. CASE c[p].state = "Closing"
    BY <1>1, <1>3, <2>1, Rests DEF RestartTimeout, Negotiating
  <2>2. CASE c[p].state # "Closing"
    BY <1>1, <1>3, <2>2, Rests DEF RestartTimeout, Waits
  <2>. QED BY <2>1, <2>2
<1>4. CASE c[p].restarts # 0 /\ c[p].state \in {"Closing", "Stopping"}
  <2>1. r = RestartStart(Spend(Send(c, p, "term-req", c[p].last, Nothing), p), p)
    BY <1>4 DEF RestartTimeout, Negotiating
  <2>2. Nothing \in Proposal /\ "term-req" \in Code
    BY DEF Code, Nothing, Proposal
  <2>. HIDE DEF r
  <2>3. Typed(r) /\ Within(c, r, p) /\ r[p].timer = TRUE /\ r[p].state = c[p].state
    BY <1>1, <2>1, <2>2, Transmits
  <2>. QED BY <1>1, <1>2, <2>3, Moves DEF r
<1>5. CASE c[p].restarts # 0 /\ c[p].state \in Negotiating
  <2>1. r = Scr(c, p, FALSE)
    BY <1>5 DEF RestartTimeout, Negotiating
  <2>. HIDE DEF r
  <2>2. Typed(r) /\ Within(c, r, p) /\ r[p].timer = TRUE /\ r[p].state = c[p].state
    BY <1>1, <2>1, ScrKeeps
  <2>. QED BY <1>1, <1>2, <2>2, Moves DEF r
<1>. QED BY <1>1, <1>3, <1>4, <1>5 DEF Waits

LEMMA OpenedKeeps ==
  ASSUME NEW c, Good(c), NEW b \in BOOLEAN
  PROVE  LET d == [c EXCEPT !.opened = b] IN
         Good(d) /\ d.lcp = c.lcp /\ d.ipcp = c.ipcp /\ d.assigned = c.assigned
<1>. DEFINE d == [c EXCEPT !.opened = b]
<1>1. /\ Typed(d) /\ d.lcp = c.lcp /\ d.ipcp = c.ipcp /\ d.assigned = c.assigned
      /\ d.rejected = c.rejected
  BY DEF Good, Typed, Peer
<1>. HIDE DEF d
<1>2. Sound(d)
  BY <1>1 DEF Good, Sound, Timed, Layer
<1>. QED BY <1>1, <1>2 DEF d, Good

LEMMA PppOpenKeeps ==
  ASSUME NEW c, Good(c), c.lcp.state = "Initial"
  PROVE  Good(PppOpen(c))
<1>1. CASE c.opened
  BY <1>1 DEF PppOpen
<1>2. CASE ~c.opened
  <2>. DEFINE w == [c EXCEPT !.opened = TRUE]
              f == [w.lcp EXCEPT !.want.extra = First[c.end].lcp.extra]
              x == [c EXCEPT !.opened = TRUE, !.lcp.want.extra = First[c.end].lcp.extra]
              y == Irc(x, "lcp", PPP_MAX_CONFIGURE)
              z == Goto(y, "lcp", "Req-Sent")
              r == Scr(z, "lcp", TRUE)
  <2>1. PppOpen(c) = r
    BY <1>2 DEF PppOpen
  <2>2. Good(w) /\ w.lcp = c.lcp
    BY OpenedKeeps
  <2>3. "lcp" \in Layer /\ "Req-Sent" \in State /\ "Req-Sent" # "Opened"
    BY WaitStates DEF Layer
  <2>4. First[c.end].lcp.extra \in BOOLEAN
    BY PeerFields, PppAssumption DEF Good, Layer, Proposal
  <2>5. f \in FsmType
    <3>1. w.lcp \in FsmType /\ w.lcp.want \in Proposal
      BY <2>2, PeerFields, FsmFields DEF Good
    <3>2. [w.lcp.want EXCEPT !.extra = First[c.end].lcp.extra] \in Proposal
      BY <2>4, <3>1 DEF Proposal
    <3>. QED BY <3>1, <3>2 DEF FsmType
  <2>6. x = Replace(w, "lcp", f)
    BY DEF Replace, Good, Typed, Peer
  <2>. HIDE DEF w, f, x
  <2>7. Typed(x) /\ Within(w, x, "lcp")
    BY <2>2, <2>3, <2>5, <2>6, ReplacedWithin DEF Good
  <2>8. Typed(y) /\ Within(x, y, "lcp")
    BY <2>3, <2>7, IrcKeeps
  <2>. HIDE DEF y
  <2>9. Typed(z) /\ Within(y, z, "lcp") /\ z.lcp.state = "Req-Sent"
    BY <2>3, <2>8, GotoKeeps
  <2>. HIDE DEF z
  <2>10. Typed(r) /\ Within(z, r, "lcp") /\ r.lcp.timer = TRUE /\ r.lcp.state = "Req-Sent"
    BY <2>3, <2>9, ScrKeeps
  <2>. HIDE DEF r
  <2>11. Within(w, r, "lcp")
    BY <2>3, <2>7, <2>8, <2>9, <2>10, WithinTwice
  <2>12. Good(r)
    BY <2>2, <2>3, <2>10, <2>11, WaitStates, Moves
  <2>. QED BY <2>1, <2>12
<1>. QED BY <1>1, <1>2

LEMMA PppCloseKeeps ==
  ASSUME NEW c, Good(c)
  PROVE  Good(PppClose(c))
<1>. DEFINE d == [c EXCEPT !.opened = FALSE]
            down == IF d.lcp.state = "Opened" THEN Tld(d, "lcp") ELSE d
            x == Irc(down, "lcp", PPP_MAX_TERMINATE)
            y == Goto(x, "lcp", "Closing")
            r == PppClose(c)
<1>1. Good(d) /\ d.lcp = c.lcp
  BY OpenedKeeps
<1>2. "lcp" \in Layer /\ "Closing" \in State /\ "Closed" \in State
  BY WaitStates DEF Layer
<1>3. r = IF d.lcp.state \in {"Initial", "Closed"} THEN Goto(d, "lcp", "Closed") ELSE Str(y, "lcp")
  BY DEF PppClose
<1>4. Typed(d) /\ (d.lcp.timer <=> d.lcp.state \in Waits)
  BY <1>1, <1>2, GoodTimer
<1>. HIDE DEF d, r
<1>5. CASE d.lcp.state \in {"Initial", "Closed"}
  <2>1. r = Goto(d, "lcp", "Closed")
    BY <1>3, <1>5
  <2>2. Typed(r) /\ Within(d, r, "lcp") /\ r.lcp.state = "Closed" /\ r.lcp.timer = d.lcp.timer
    BY <1>2, <1>4, <2>1, GotoKeeps
  <2>3. r.lcp.timer <=> r.lcp.state \in Waits
    BY <1>4, <1>5, <2>2, WaitStates
  <2>. QED BY <1>1, <1>2, <1>5, <2>2, <2>3, Moves DEF r
<1>6. CASE d.lcp.state \notin {"Initial", "Closed"}
  <2>1. r = Str(y, "lcp")
    BY <1>3, <1>6
  <2>2. Typed(down)
    BY <1>2, <1>4, TldKeeps
  <2>. HIDE DEF down
  <2>3. Typed(x) /\ Within(down, x, "lcp")
    BY <1>2, <2>2, IrcKeeps
  <2>. HIDE DEF x
  <2>4. Typed(y) /\ Within(x, y, "lcp") /\ y.lcp.state = "Closing"
    BY <1>2, <2>3, GotoKeeps
  <2>. HIDE DEF y
  <2>5. Typed(r) /\ Within(y, r, "lcp") /\ r.lcp.state = "Closing" /\ r.lcp.timer = TRUE
    BY <1>2, <2>1, <2>4, StrKeeps
  <2>6. Within(down, r, "lcp")
    BY <1>2, <2>3, <2>4, <2>5, WithinTwice
  <2>7. CASE d.lcp.state = "Opened"
    BY <1>1, <1>2, <2>5, <2>6, <2>7, WaitStates, GoesDown DEF down, r
  <2>8. CASE d.lcp.state # "Opened"
    BY <1>1, <1>2, <2>5, <2>6, <2>8, WaitStates, Moves DEF down, r
  <2>. QED BY <2>7, <2>8
<1>. QED BY <1>5, <1>6

(* A frame leaves the ring, or the frames of an end are others.            *)
LEMMA OutKeeps ==
  ASSUME NEW c, Good(c), NEW out \in Seq(Frame), Len(out) <= TX_FRAMES
  PROVE  Good([c EXCEPT !.out = out])
<1>. DEFINE d == [c EXCEPT !.out = out]
<1>1. /\ Typed(d) /\ d.lcp = c.lcp /\ d.ipcp = c.ipcp /\ d.assigned = c.assigned
      /\ d.rejected = c.rejected
  BY DEF Good, Typed, Peer
<1>. HIDE DEF d
<1>2. Sound(d)
  BY <1>1 DEF Good, Sound, Timed, Layer
<1>. QED BY <1>1, <1>2 DEF d, Good

LEMMA BlankIsGood ==
  ASSUME NEW e \in End
  PROVE  Good(Blank(e)) /\ Blank(e).lcp.state = "Initial" /\ Blank(e).out = <<>>
<1>1. ASSUME NEW p \in Layer PROVE Fsm(e, p) \in FsmType
  <2>1. First[e][p] \in Proposal
    BY PppAssumption
  <2>2. 1 % IDS \in 0 .. (IDS - 1) /\ 0 \in 0 .. (IDS - 1)
    BY Numbers
  <2>3. /\ 0 \in 0 .. (PPP_MAX_CONFIGURE + PPP_MAX_TERMINATE)
        /\ 0 \in 0 .. PPP_MAX_FAILURE /\ "Initial" \in State
    BY Numbers, WaitStates
  <2>. QED BY <2>1, <2>2, <2>3 DEF Fsm, FsmType
<1>2. Typed(Blank(e))
  <2>1. <<>> \in Seq(Frame) /\ Len(<<>>) <= TX_FRAMES
    BY Numbers
  <2>2. Fsm(e, "lcp") \in FsmType /\ Fsm(e, "ipcp") \in FsmType
    BY <1>1 DEF Layer
  <2>. HIDE DEF Fsm
  <2>. QED BY <2>1, <2>2 DEF Blank, Typed, Peer
<1>3. Sound(Blank(e))
  BY WaitStates DEF Blank, Fsm, Sound, Timed, Layer
<1>. QED BY <1>2, <1>3 DEF Good, Blank, Fsm

-----------------------------------------------------------------------------
(* The steps.                                                              *)

(* The inductive invariant: Orderly of both ends, with the shape of their  *)
(* records.                                                                *)
IInv == peer \in [End -> Peer] /\ \A e \in End : Good(peer[e])

LEMMA InitIInv == Init => IInv
<1>. SUFFICES ASSUME Init PROVE IInv
  OBVIOUS
<1>1. peer = [e \in End |-> Blank(e)]
  BY DEF Init
<1>2. \A e \in End : Good(Blank(e)) /\ Blank(e) \in Peer
  BY BlankIsGood DEF Good, Typed
<1>. QED BY <1>1, <1>2 DEF IInv

LEMMA TailKeeps ==
  ASSUME NEW c, Good(c), c.out # <<>>
  PROVE  /\ Good([c EXCEPT !.out = Tail(c.out)])
         /\ Head(c.out) \in Frame
<1>1. c.out \in Seq(Frame) /\ Len(c.out) <= TX_FRAMES
  BY PeerFields DEF Good
<1>2. Tail(c.out) \in Seq(Frame) /\ Len(Tail(c.out)) <= TX_FRAMES /\ Head(c.out) \in Frame
  BY <1>1, Numbers
<1>. QED BY <1>2, OutKeeps

LEMMA HeardKeeps ==
  ASSUME NEW c, Good(c)
  PROVE  Good(Heard(c))
BY PppOpenKeeps DEF Heard

(* Both ends after a step.                                                 *)
LEMMA BothEnds ==
  ASSUME NEW h, NEW g, Good(h), Good(g),
         peer' = [e \in End |-> IF e = "host" THEN h ELSE g]
  PROVE  IInv'
BY DEF IInv, Good, Typed, End

LEMMA Ends ==
  ASSUME IInv
  PROVE  /\ Good(peer.host) /\ Good(peer.guest)
         /\ Other("host") = "guest" /\ Other("guest") = "host"
         /\ End = {"host", "guest"} /\ DOMAIN peer = End
         /\ peer = [e \in End |-> IF e = "host" THEN peer.host ELSE peer.guest]
<1>1. Other("host") = "guest" /\ Other("guest") = "host"
  <2>1. \E x \in End : x # "host"
    BY DEF End
  <2>2. \E x \in End : x # "guest"
    BY DEF End
  <2>. QED BY <2>1, <2>2 DEF Other, End
<1>. QED BY <1>1 DEF IInv, End

LEMMA DeliverStep ==
  ASSUME IInv, NEW e \in End, Deliver(e)
  PROVE  IInv'
<1>. DEFINE h == peer.host
            g == peer.guest
<1>1. Good(h) /\ Good(g) /\ peer \in [End -> Peer]
  BY Ends DEF IInv
<1>2. CASE e = "host"
  <2>. DEFINE m == Head(h.out)
              sent == [h EXCEPT !.out = Tail(h.out)]
              new == IF g.opened THEN FrameInput(g, m) ELSE g
  <2>1. h.out # <<>>
    BY <1>2 DEF Deliver
  <2>2. Good(sent) /\ m \in Frame
    BY <1>1, <2>1, TailKeeps
  <2>3. Good(new)
    BY <1>1, <2>2, FrameInputKeeps
  <2>4. peer' = [x \in End |-> IF x = "host" THEN sent ELSE new]
    <3>1. peer' = [peer EXCEPT !["host"].out = Tail(@), !["guest"] = new]
      BY <1>2, Ends DEF Deliver
    <3>. HIDE DEF new, m
    <3>. QED BY <1>1, <3>1 DEF End
  <2>. HIDE DEF sent, new
  <2>. QED BY <2>2, <2>3, <2>4, BothEnds
<1>3. CASE e = "guest"
  <2>. DEFINE m == Head(g.out)
              sent == [g EXCEPT !.out = Tail(g.out)]
              new == FrameInput(Heard(h), m)
  <2>1. g.out # <<>>
    BY <1>3 DEF Deliver
  <2>2. Good(sent) /\ m \in Frame
    BY <1>1, <2>1, TailKeeps
  <2>3. Good(new)
    BY <1>1, <2>2, HeardKeeps, FrameInputKeeps
  <2>4. peer' = [x \in End |-> IF x = "host" THEN new ELSE sent]
    <3>1. peer' = [peer EXCEPT !["guest"].out = Tail(@), !["host"] = new]
      BY <1>3, Ends DEF Deliver
    <3>. HIDE DEF new, m
    <3>. QED BY <1>1, <3>1 DEF End
  <2>. HIDE DEF sent, new
  <2>. QED BY <2>2, <2>3, <2>4, BothEnds
<1>. QED BY <1>2, <1>3 DEF End

LEMMA LoseStep ==
  ASSUME IInv, NEW e \in End, Lose(e)
  PROVE  IInv'
<1>. DEFINE h == peer.host
            g == peer.guest
<1>1. Good(h) /\ Good(g) /\ peer \in [End -> Peer]
  BY Ends DEF IInv
<1>2. CASE e = "host"
  <2>. DEFINE sent == [h EXCEPT !.out = Tail(h.out)]
  <2>1. h.out # <<>>
    BY <1>2 DEF Lose
  <2>2. Good(sent)
    BY <1>1, <2>1, TailKeeps
  <2>3. peer' = [x \in End |-> IF x = "host" THEN sent ELSE g]
    BY <1>1, <1>2 DEF Lose, End
  <2>. HIDE DEF sent
  <2>. QED BY <1>1, <2>2, <2>3, BothEnds
<1>3. CASE e = "guest"
  <2>. DEFINE sent == [g EXCEPT !.out = Tail(g.out)]
              new == Heard(h)
  <2>1. g.out # <<>>
    BY <1>3 DEF Lose
  <2>2. Good(sent)
    BY <1>1, <2>1, TailKeeps
  <2>3. Good(new)
    BY <1>1, HeardKeeps
  <2>4. peer' = [x \in End |-> IF x = "host" THEN new ELSE sent]
    BY <1>1, <1>3 DEF Lose, End
  <2>. HIDE DEF sent, new
  <2>. QED BY <2>2, <2>3, <2>4, BothEnds
<1>. QED BY <1>2, <1>3 DEF End

(* One end becomes c and the other stays.                                  *)
LEMMA OneEnd ==
  ASSUME IInv, NEW e \in End, NEW c, Good(c), peer' = [peer EXCEPT ![e] = c]
  PROVE  IInv'
BY DEF IInv, Good, Typed

LEMMA TimeoutStep ==
  ASSUME IInv, NEW e \in End, NEW p \in Layer, Timeout(e, p)
  PROVE  IInv'
<1>1. Good(peer[e]) /\ peer[e][p].timer
  BY DEF IInv, Timeout
<1>2. Good(RestartTimeout(peer[e], p))
  BY <1>1, RestartTimeoutKeeps
<1>3. peer' = [peer EXCEPT ![e] = RestartTimeout(peer[e], p)]
  BY DEF Timeout
<1>. QED BY <1>2, <1>3, OneEnd

LEMMA HostCloseStep == IInv /\ HostClose => IInv'
<1>. SUFFICES ASSUME IInv, HostClose PROVE IInv'
  OBVIOUS
<1>1. Good(PppClose(peer.host))
  BY Ends, PppCloseKeeps
<1>2. peer' = [peer EXCEPT !["host"] = PppClose(peer.host)]
  BY DEF HostClose
<1>3. "host" \in End
  BY DEF End
<1>. QED BY <1>1, <1>2, <1>3, OneEnd

(* pppd as ppp_init leaves it, with frames on the line.                    *)
LEMMA NewGuest ==
  ASSUME NEW out \in Seq(Frame), Len(out) <= TX_FRAMES
  PROVE  LET c == [Blank("guest") EXCEPT !.out = out] IN
         Good(c) /\ c.lcp.state = "Initial"
<1>1. Good(Blank("guest")) /\ Blank("guest").lcp.state = "Initial"
  BY BlankIsGood DEF End
<1>2. [Blank("guest") EXCEPT !.out = out].lcp = Blank("guest").lcp
  BY DEF Blank
<1>. QED BY <1>1, <1>2, OutKeeps

LEMMA GuestSteps == IInv /\ (GuestLaunch \/ GuestDies \/ GuestGivesUp) => IInv'
<1>. SUFFICES ASSUME IInv, GuestLaunch \/ GuestDies \/ GuestGivesUp PROVE IInv'
  OBVIOUS
<1>. DEFINE g == peer.guest
            new(out) == [Blank("guest") EXCEPT !.out = out]
<1>1. /\ Good(g) /\ Typed(g) /\ "guest" \in End /\ "lcp" \in Layer
      /\ g.out \in Seq(Frame) /\ Len(g.out) <= TX_FRAMES
  BY Ends, PeerFields DEF Good, End, Layer
<1>2. Good(new(g.out)) /\ new(g.out).lcp.state = "Initial"
  BY <1>1, NewGuest
<1>3. CASE GuestLaunch
  <2>1. Good(PppOpen(new(g.out)))
    BY <1>2, PppOpenKeeps
  <2>2. peer' = [peer EXCEPT !["guest"] = PppOpen(new(g.out))]
    BY <1>3 DEF GuestLaunch
  <2>. QED BY <1>1, <2>1, <2>2, OneEnd
<1>4. CASE GuestDies
  <2>. DEFINE last == Str(g, "lcp").out
  <2>1. Typed(Str(g, "lcp"))
    BY <1>1, StrKeeps
  <2>2. last \in Seq(Frame) /\ Len(last) <= TX_FRAMES
    BY <2>1, PeerFields
  <2>3. Good(new(last))
    BY <2>2, NewGuest
  <2>4. peer' = [peer EXCEPT !["guest"] = new(last)] \/ peer' = [peer EXCEPT !["guest"] = new(g.out)]
    BY <1>4 DEF GuestDies
  <2>. QED BY <1>1, <1>2, <2>3, <2>4, OneEnd
<1>5. CASE GuestGivesUp
  <2>1. peer' = [peer EXCEPT !["guest"] = new(g.out)]
    BY <1>5 DEF GuestGivesUp
  <2>. QED BY <1>1, <1>2, <2>1, OneEnd
<1>. QED BY <1>3, <1>4, <1>5

LEMMA GuestStraysStep == IInv /\ GuestStrays => IInv'
<1>. SUFFICES ASSUME IInv, GuestStrays PROVE IInv'
  OBVIOUS
<1>1. PICK s \in Strays : peer' = [peer EXCEPT !["guest"] = Send(peer.guest, s[1], s[2], 0, Nothing)]
  BY DEF GuestStrays
<1>2. s[1] \in Layer \cup {"other"} /\ s[2] \in Code
  BY DEF Strays, Layer, Code
<1>3. 0 \in 0 .. (IDS - 1) /\ Nothing \in Proposal
  BY Numbers DEF Nothing, Proposal
<1>4. Good(Send(peer.guest, s[1], s[2], 0, Nothing))
  BY <1>2, <1>3, Ends, SendsOnly
<1>. QED BY <1>1, <1>4, OneEnd DEF End

LEMMA NextIInv == IInv /\ [Next]_vars => IInv'
<1>. SUFFICES ASSUME IInv, [Next]_vars PROVE IInv'
  OBVIOUS
<1>1. CASE UNCHANGED vars
  BY <1>1 DEF vars, IInv
<1>. QED
  BY <1>1, DeliverStep, LoseStep, TimeoutStep, HostCloseStep, GuestSteps,
     GuestStraysStep DEF Next

LEMMA IInvOrderly == IInv => Orderly
<1>. SUFFICES ASSUME IInv PROVE Orderly
  OBVIOUS
<1>1. TypeOK
  <2>1. \A e \in End : Typed(peer[e])
    BY DEF IInv, Good
  <2>. QED BY <2>1, PeerFields DEF TypeOK
<1>2. Sound(peer.host)
  BY Ends DEF Good
<1>. QED BY <1>1, <1>2 DEF Orderly, Layered, WaitsAreTimed, Sound, Timed, Waits

(* An open IPCP has assigned the guest's address, every state in which the  *)
(* host waits has a running timer and no other has one, no counter leaves   *)
(* its range and the transmit ring is never overrun, whatever is lost, late, *)
(* killed, closed or rejected.  Until IPCP is rejected the network layer     *)
(* lives only on an open link and the address is assigned only while IPCP    *)
(* is open; a rejection of IPCP, which ppp.c answers without tld, is the one *)
(* thing that breaks this, and LCP going down restores it.                   *)
THEOREM LinkIsOrderly == Spec => []Orderly
<1>1. Spec => []IInv
  BY InitIInv, NextIInv, PTL DEF Spec
<1>. QED BY <1>1, IInvOrderly, PTL
=============================================================================
