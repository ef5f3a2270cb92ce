---------------------------- MODULE VMEngineProof ----------------------------
(***************************************************************************)
(* Proofs about VMEngine: whatever the owner taps and however saves,       *)
(* shutdowns, resets, force-offs and failures cross, two engines never     *)
(* hold the work image at once, and the resume marker is honest.           *)
(*                                                                         *)
(* The argument follows the completions.  A token (request, engine,        *)
(* screen) is in one place only, and as long as the screen listens to one  *)
(* its engine is the engine of the screen; a positive answer, a force-off  *)
(* job and its report exist only when that engine is idle.  The screen     *)
(* replaces or leaves its engine on such an answer only, so that every     *)
(* other engine is idle (Alone) and an idle engine has closed the image.   *)
(***************************************************************************)
EXTENDS VMEngine, TLAPS, FiniteSetTheorems

-----------------------------------------------------------------------------
(* The inductive invariant.                                                *)

EngineRec ==
  [state : States, stop : BOOLEAN, stopDone : Seq(Token),
   ckpt : BOOLEAN, ckptDone : MaybeToken, shut : BOOLEAN, shutDone : MaybeToken,
   paused : BOOLEAN, ready : BOOLEAN, firmware : BOOLEAN, disk : BOOLEAN,
   standby : BOOLEAN, saved : BOOLEAN,
   end : {"none", "stopped", "halted", "capped", "over"},
   pc : Points, taken : Seq(Block), next : {"none", "loop", "run"}]
Calls == {NoCall} \cup [op : {"save", "shutdown"}, tok : Token]
Screen ==
  [n : 0 .. MaxScreens, open : BOOLEAN, cur : 0 .. MaxEngines, saving : BOOLEAN,
   restarting : BOOLEAN, shutting : BOOLEAN, forceReq : BOOLEAN, forcing : BOOLEAN,
   hidden : BOOLEAN, userPaused : BOOLEAN, call : Calls]

Types ==
  /\ eng \in [Engines -> EngineRec]
  /\ scr \in Screen /\ mainq \in Seq(Block) /\ jobs \subseteq Token
  /\ marker \in BOOLEAN /\ calls \in [Requests -> {-1, 0, 1}]

(* What the elements of a sequence are, the tokens of a sequence of blocks, *)
(* and the tokens an engine and the screen keep.                            *)
Elems(q) == {q[i] : i \in DOMAIN q}
TokensOf(q) == {b.tok : b \in Elems(q)}
Kept(t) == IF t = NoToken THEN {} ELSE {t}
Toks(r) == Elems(r.stopDone) \cup TokensOf(r.taken) \cup Kept(r.ckptDone) \cup Kept(r.shutDone)
InCall(s) == IF s.call = NoCall THEN {} ELSE {s.call.tok}

Single(q) == \A i, j \in DOMAIN q : q[i] = q[j] => i = j
SingleTok(q) == \A i, j \in DOMAIN q : q[i].tok = q[j].tok => i = j

Idle(r) == r.state = "Idle"
Reading == {"prepare", "boot", "admit", "cancel", "failed"}

(* An engine by itself: what its worker has established at each point, and *)
(* what an idle engine has given up.                                       *)
Points1(r) ==
  /\ Idle(r) <=> r.pc = "none" \/ (r.pc = "dispatch" /\ r.next = "none")
  /\ Idle(r) => ~r.stop /\ ~r.ckpt /\ ~r.shut /\ ~r.ready /\ ~r.disk /\ r.stopDone = <<>>
  /\ r.ckpt <=> r.ckptDone # NoToken
  /\ r.shut <=> r.shutDone # NoToken
  /\ r.pc \in Reading => ~r.ready
  /\ ~r.ready => ~r.ckpt /\ ~r.shut
  /\ r.pc \in {"prepare", "failed", "final"} => ~r.disk
  /\ r.pc \in {"checkpoint", "saving", "unsaved"} => r.ckpt
  /\ r.pc = "shutdown" => r.shut
  /\ r.pc \notin {"dispatch", "witness"} => r.taken = <<>>
  /\ r.pc = "witness" => /\ Len(r.taken) = 1 /\ ~r.taken[1].ok /\ r.next = "loop"
                         /\ r.taken[1].tok.kind \in {"shutdown", "restart"}
  /\ r.saved => r.pc \in {"close", "final"}
  /\ Idle(r) /\ r.pc = "dispatch" => r.end = "over"

(* The completions an engine keeps: positive answers are those of an idle  *)
(* engine, and which kinds of request wait where.                          *)
Answers1(r) ==
  /\ \A b \in Elems(r.taken) :
       /\ b.stage = "completion"
       /\ b.ok => Idle(r)
       /\ b.tok.kind \in {"reset", "force"} => b.ok
  /\ \A t \in Elems(r.stopDone) : t.kind \in {"reset", "force"}
  /\ \A t \in Kept(r.ckptDone) : t.kind \in {"save", "shutdown", "restart"}
  /\ \A t \in Kept(r.shutDone) : t.kind \in {"shutdown", "restart"}

(* No completion is kept twice by one engine.                              *)
Once(r) ==
  /\ Single(r.stopDone) /\ SingleTok(r.taken)
  /\ Elems(r.stopDone) \cap (TokensOf(r.taken) \cup Kept(r.ckptDone) \cup Kept(r.shutDone)) = {}
  /\ TokensOf(r.taken) \cap (Kept(r.ckptDone) \cup Kept(r.shutDone)) = {}
  /\ Kept(r.ckptDone) \cap Kept(r.shutDone) = {}

Sane(r) == Points1(r) /\ Answers1(r) /\ Once(r)
AllSane == \A e \in Engines : Sane(eng[e])

(* A completion is in one place.                                           *)
OnePlace ==
  /\ \A e, f \in Engines : e # f => Toks(eng[e]) \cap Toks(eng[f]) = {}
  /\ \A e \in Engines : Toks(eng[e]) \cap (TokensOf(mainq) \cup jobs \cup InCall(scr)) = {}
  /\ TokensOf(mainq) \cap (jobs \cup InCall(scr)) = {}
  /\ jobs \cap InCall(scr) = {}
  /\ SingleTok(mainq)

Pending ==
  (UNION {Toks(eng[e]) : e \in Engines}) \cup TokensOf(mainq) \cup jobs \cup InCall(scr)

(* The engines launched so far and the requests made so far are numbered   *)
(* from one on.                                                            *)
Count == Cardinality(Launched)
Asked == {i \in Requests : calls[i] # -1}
Numbered ==
  /\ \E k \in 0 .. MaxEngines : Launched = 1 .. k /\ scr.cur <= k
  /\ \A e \in Engines \ Launched : eng[e] = Dormant
  /\ \E m \in 0 .. MaxRequests : Asked = 1 .. m

Flag(s, kind) ==
  /\ kind = "save" => s.saving
  /\ kind \in {"shutdown", "restart"} => s.shutting
  /\ kind = "reset" => s.restarting

(* What the screen may conclude from a completion it still listens to.     *)
Facts(t) ==
  /\ t.eng \in Launched /\ t.screen <= scr.n
  /\ Mine(t) /\ ~scr.forceReq =>
       /\ t.eng = scr.cur /\ Flag(scr, t.kind)
       /\ t.kind \in {"restart", "reset"} => Count < MaxEngines
  /\ t.kind = "force" => Mine(t) /\ scr.forceReq /\ scr.forcing /\ t.eng = scr.cur
Listened ==
  /\ \A t \in Pending : Facts(t)
  /\ \A t, u \in Pending :
       \/ t.id = u.id
       \/ Mine(t) /\ Mine(u) /\ ~scr.forceReq
       \/ t.kind = "force" /\ u.kind = "force"
       => t = u

(* How often a completion has run, and at which stage it is.               *)
Stages ==
  /\ \A e \in Engines : \A t \in Toks(eng[e]) : t.eng = e /\ calls[t.id] = 0
  /\ \A b \in Elems(mainq) :
       /\ b.ok \/ b.stage = "forced" => Idle(eng[b.tok.eng])
       /\ b.stage = "finish" => b.tok.kind \in {"shutdown", "restart"}
       /\ b.stage = "forced" => b.tok.kind = "force"
       /\ b.stage = "completion" /\ b.tok.kind \in {"reset", "force"} => b.ok
       /\ calls[b.tok.id] = IF b.stage = "finish" THEN 1 ELSE 0
  /\ \A t \in jobs : Idle(eng[t.eng]) /\ t.kind = "force" /\ calls[t.id] = 0
  /\ \A t \in InCall(scr) : calls[t.id] = 0
  /\ scr.call # NoCall =>
       /\ scr.call.op = "save" => scr.call.tok.kind = "save"
       /\ scr.call.op = "shutdown" => scr.call.tok.kind \in {"shutdown", "restart"}

(* Every engine but the one of the screen is idle.                         *)
Alone == \A e \in Engines : e # scr.cur => Idle(eng[e])

(* No completion is lost: one that has not run is on its way.              *)
Remembered == \A i \in Requests : calls[i] = 0 => \E t \in Pending : t.id = i

Opened ==
  /\ ~scr.open => scr.cur = 0 /\ scr.call = NoCall
  /\ scr.open => scr.n > 0
  /\ scr.forcing => scr.forceReq
  /\ scr.forceReq /\ scr.open => scr.cur # 0

(* The marker and the engines, the answers on their way and the reports.   *)
MarkOf(r, m) ==
  /\ m /\ r.disk /\ r.ready => r.saved
  /\ r.pc = "admit" /\ r.disk => ~m
  /\ r.saved => m
Told(b) == Resumable(b) /\ Mine(b.tok) /\ ~scr.forceReq => marker
Marks ==
  /\ \A e \in Engines : MarkOf(eng[e], marker) /\ \A b \in Elems(eng[e].taken) : Told(b)
  /\ \A b \in Elems(mainq) : Told(b) /\ (b.stage = "forced" /\ b.ok => ~marker)

IInv ==
  /\ Types /\ AllSane /\ OnePlace /\ Numbered /\ Listened /\ Stages
  /\ Alone /\ Opened /\ Marks /\ Remembered

-----------------------------------------------------------------------------
(* Sequences of completions.                                               *)

LEMMA ElemsEmpty == Elems(<<>>) = {} /\ TokensOf(<<>>) = {} /\ Single(<<>>) /\ SingleTok(<<>>)
BY DEF Elems, TokensOf, Single, SingleTok

LEMMA ElemsIn == ASSUME NEW S, NEW q \in Seq(S) PROVE Elems(q) \subseteq S
BY DEF Elems

LEMMA ElemsCat ==
  ASSUME NEW S, NEW p \in Seq(S), NEW q \in Seq(S)
  PROVE  /\ p \o q \in Seq(S)
         /\ Elems(p \o q) = Elems(p) \cup Elems(q)
         /\ TokensOf(p \o q) = TokensOf(p) \cup TokensOf(q)
<1>1. p \o q \in Seq(S)
  OBVIOUS
<1>2. /\ Len(p \o q) = Len(p) + Len(q)
      /\ \A i \in 1 .. Len(p) : (p \o q)[i] = p[i]
      /\ \A i \in 1 .. Len(q) : (p \o q)[Len(p) + i] = q[i]
  OBVIOUS
<1>3. Elems(p \o q) \subseteq Elems(p) \cup Elems(q)
  <2>1. SUFFICES ASSUME NEW i \in 1 .. Len(p) + Len(q)
                 PROVE  (p \o q)[i] \in Elems(p) \cup Elems(q)
    BY <1>1, <1>2 DEF Elems
  <2>2. CASE i \in 1 .. Len(p)
    BY <1>2, <2>2 DEF Elems
  <2>3. CASE i \notin 1 .. Len(p)
    <3>1. PICK j \in 1 .. Len(q) : i = Len(p) + j
      <4>1. i - Len(p) \in 1 .. Len(q) /\ i = Len(p) + (i - Len(p))
        BY <2>3
      <4> QED
        BY <4>1
    <3> QED
      BY <1>2, <3>1 DEF Elems
  <2> QED
    BY <2>2, <2>3
<1>4. Elems(p) \subseteq Elems(p \o q)
  <2>1. SUFFICES ASSUME NEW i \in 1 .. Len(p) PROVE p[i] \in Elems(p \o q)
    BY DEF Elems
  <2>2. i \in 1 .. Len(p \o q) /\ (p \o q)[i] = p[i]
    BY <1>2
  <2> QED
    BY <1>1, <2>2 DEF Elems
<1>5. Elems(q) \subseteq Elems(p \o q)
  <2>1. SUFFICES ASSUME NEW i \in 1 .. Len(q) PROVE q[i] \in Elems(p \o q)
    BY DEF Elems
  <2>2. Len(p) + i \in 1 .. Len(p \o q) /\ (p \o q)[Len(p) + i] = q[i]
    BY <1>2
  <2> QED
    BY <1>1, <2>2 DEF Elems
<1>6. Elems(p \o q) = Elems(p) \cup Elems(q)
  BY <1>3, <1>4, <1>5
<1> QED
  BY <1>1, <1>6 DEF TokensOf

LEMMA ElemsAppend ==
  ASSUME NEW S, NEW q \in Seq(S), NEW x \in S
  PROVE  /\ Append(q, x) \in Seq(S)
         /\ Elems(Append(q, x)) = Elems(q) \cup {x}
         /\ TokensOf(Append(q, x)) = TokensOf(q) \cup {x.tok}
<1>1. /\ Append(q, x) \in Seq(S)
      /\ Len(Append(q, x)) = Len(q) + 1
      /\ \A i \in 1 .. Len(q) : Append(q, x)[i] = q[i]
      /\ Append(q, x)[Len(q) + 1] = x
  OBVIOUS
<1>2. Elems(Append(q, x)) = Elems(q) \cup {x}
  BY <1>1 DEF Elems
<1> QED
  BY <1>1, <1>2 DEF TokensOf

LEMMA SingleAppend ==
  ASSUME NEW S, NEW q \in Seq(S), NEW x \in S, Single(q), x \notin Elems(q)
  PROVE  Single(Append(q, x))
<1>1. /\ Append(q, x) \in Seq(S)
      /\ Len(Append(q, x)) = Len(q) + 1
      /\ \A i \in 1 .. Len(q) : Append(q, x)[i] = q[i]
      /\ Append(q, x)[Len(q) + 1] = x
  OBVIOUS
<1> QED
  BY <1>1 DEF Elems, Single

LEMMA SingleTokAppend ==
  ASSUME NEW S, NEW q \in Seq(S), NEW x \in S, SingleTok(q), x.tok \notin TokensOf(q)
  PROVE  SingleTok(Append(q, x))
<1>1. /\ Append(q, x) \in Seq(S)
      /\ Len(Append(q, x)) = Len(q) + 1
      /\ \A i \in 1 .. Len(q) : Append(q, x)[i] = q[i]
      /\ Append(q, x)[Len(q) + 1] = x
  OBVIOUS
<1>2. \A i \in 1 .. Len(q) : q[i].tok # x.tok
  BY DEF Elems, TokensOf
<1>3. \A i, j \in 1 .. Len(q) : q[i].tok = q[j].tok => i = j
  BY DEF SingleTok
<1> QED
  BY <1>1, <1>2, <1>3 DEF SingleTok

LEMMA ElemsTail ==
  ASSUME NEW S, NEW q \in Seq(S), q # <<>>
  PROVE  /\ Tail(q) \in Seq(S) /\ Head(q) \in S /\ Head(q) \in Elems(q)
         /\ Elems(q) = {Head(q)} \cup Elems(Tail(q))
         /\ TokensOf(q) = {Head(q).tok} \cup TokensOf(Tail(q))
         /\ SingleTok(q) => SingleTok(Tail(q)) /\ Head(q).tok \notin TokensOf(Tail(q))
<1>1. /\ Tail(q) \in Seq(S) /\ Head(q) \in S /\ Len(q) \in Nat \ {0} /\ Head(q) = q[1]
      /\ Len(Tail(q)) = Len(q) - 1
      /\ \A i \in 1 .. Len(q) - 1 : Tail(q)[i] = q[i + 1]
  OBVIOUS
<1>2. Elems(q) \subseteq {Head(q)} \cup Elems(Tail(q))
  <2>1. SUFFICES ASSUME NEW i \in 1 .. Len(q) PROVE q[i] = Head(q) \/ q[i] \in Elems(Tail(q))
    BY DEF Elems
  <2>2. CASE i = 1
    BY <1>1, <2>2
  <2>3. CASE i # 1
    <3>1. i - 1 \in 1 .. Len(Tail(q)) /\ Tail(q)[i - 1] = q[(i - 1) + 1] /\ (i - 1) + 1 = i
      BY <1>1, <2>3
    <3>2. i - 1 \in DOMAIN Tail(q) /\ Tail(q)[i - 1] = q[i]
      BY <1>1, <3>1
    <3> QED
      BY <3>2, Zenon DEF Elems
  <2> QED
    BY <2>2, <2>3
<1>3. {Head(q)} \cup Elems(Tail(q)) \subseteq Elems(q)
  <2>1. \A i \in 1 .. Len(Tail(q)) : i + 1 \in 1 .. Len(q) /\ Tail(q)[i] = q[i + 1]
    BY <1>1
  <2>2. 1 \in 1 .. Len(q)
    BY <1>1
  <2> QED
    BY <1>1, <2>1, <2>2 DEF Elems
<1>4. Elems(q) = {Head(q)} \cup Elems(Tail(q))
  BY <1>2, <1>3
<1>5. TokensOf(q) = {Head(q).tok} \cup TokensOf(Tail(q))
  BY <1>4 DEF TokensOf
<1>6. ASSUME SingleTok(q) PROVE SingleTok(Tail(q)) /\ Head(q).tok \notin TokensOf(Tail(q))
  <2>1. \A i \in 1 .. Len(Tail(q)) : i + 1 \in 1 .. Len(q) /\ Tail(q)[i] = q[i + 1] /\ i + 1 # 1
    BY <1>1
  <2>2. \A i, j \in 1 .. Len(q) : q[i].tok = q[j].tok => i = j
    BY <1>6 DEF SingleTok
  <2>3. SingleTok(Tail(q))
    BY <1>1, <2>1, <2>2 DEF SingleTok
  <2>4. ASSUME NEW i \in 1 .. Len(Tail(q)) PROVE Tail(q)[i].tok # Head(q).tok
    BY <1>1, <2>1, <2>2
  <2> QED
    BY <1>1, <2>3, <2>4 DEF TokensOf, Elems
<1> QED
  BY <1>1, <1>3, <1>4, <1>5, <1>6

LEMMA SingleCat ==
  ASSUME NEW S, NEW p \in Seq(S), NEW q \in Seq(S), SingleTok(p), SingleTok(q),
         TokensOf(p) \cap TokensOf(q) = {}
  PROVE  SingleTok(p \o q)
<1>1. /\ p \o q \in Seq(S)
      /\ Len(p \o q) = Len(p) + Len(q) /\ Len(p) \in Nat /\ Len(q) \in Nat
      /\ \A i \in 1 .. Len(p) : (p \o q)[i] = p[i]
      /\ \A i \in 1 .. Len(q) : (p \o q)[Len(p) + i] = q[i]
  OBVIOUS
<1>2. SUFFICES ASSUME NEW i \in 1 .. Len(p) + Len(q), NEW j \in 1 .. Len(p) + Len(q),
                      (p \o q)[i].tok = (p \o q)[j].tok
               PROVE  i = j
  BY <1>1 DEF SingleTok
<1>3. ASSUME NEW l \in 1 .. Len(p) + Len(q)
      PROVE  \/ l \in 1 .. Len(p) /\ (p \o q)[l].tok = p[l].tok
             \/ l - Len(p) \in 1 .. Len(q) /\ (p \o q)[l].tok = q[l - Len(p)].tok
  <2>1. CASE l \in 1 .. Len(p)
    BY <1>1, <2>1
  <2>2. CASE l \notin 1 .. Len(p)
    <3>1. l - Len(p) \in 1 .. Len(q) /\ Len(p) + (l - Len(p)) = l
      BY <1>1, <2>2
    <3> QED
      BY <1>1, <3>1
  <2> QED
    BY <2>1, <2>2
<1>4. \A a \in 1 .. Len(p), b \in 1 .. Len(q) : p[a].tok # q[b].tok
  BY DEF TokensOf, Elems
<1>5. /\ \A a, b \in 1 .. Len(p) : p[a].tok = p[b].tok => a = b
      /\ \A a, b \in 1 .. Len(q) : q[a].tok = q[b].tok => a = b
  BY DEF SingleTok
<1> QED
  BY <1>1, <1>2, <1>3, <1>4, <1>5

LEMMA TokenFields ==
  /\ \A t \in Token : t.kind \in Kinds /\ t.id \in Requests /\ t.eng \in Engines
                      /\ t.screen \in 1 .. MaxScreens /\ t # NoToken
  /\ \A b \in Block : b.stage \in {"completion", "finish", "forced"} /\ b.tok \in Token
                      /\ b.ok \in BOOLEAN
  /\ NoToken \in MaybeToken /\ NoToken \notin Token /\ Token \subseteq MaybeToken
<1>1. \A t \in Token : t.kind \in Kinds /\ t.id \in Requests /\ t.eng \in Engines
                       /\ t.screen \in 1 .. MaxScreens
  BY DEF Token
<1>2. NoToken.kind \notin Kinds
  BY DEF NoToken, Kinds
<1>3. \A b \in Block : b.stage \in {"completion", "finish", "forced"} /\ b.tok \in Token
                       /\ b.ok \in BOOLEAN
  BY DEF Block
<1> QED
  BY <1>1, <1>2, <1>3, Zenon DEF MaybeToken

LEMMA CompletionGood ==
  ASSUME NEW t \in Token, NEW ok \in BOOLEAN
  PROVE  /\ Completion(t, ok) \in Block /\ Completion(t, ok).tok = t
         /\ Completion(t, ok).ok = ok /\ Completion(t, ok).stage = "completion"
BY DEF Completion, Block

LEMMA AnswersGood ==
  ASSUME NEW toks \in Seq(Token), NEW ok \in BOOLEAN
  PROVE  /\ Answers(toks, ok) \in Seq(Block)
         /\ TokensOf(Answers(toks, ok)) = Elems(toks)
         /\ \A b \in Elems(Answers(toks, ok)) : b.ok = ok /\ b.stage = "completion"
         /\ Single(toks) => SingleTok(Answers(toks, ok))
<1>1. /\ toks \in [1 .. Len(toks) -> Token] /\ Len(toks) \in Nat
  OBVIOUS
<1>2. \A i \in 1 .. Len(toks) : /\ Completion(toks[i], ok) \in Block
                                /\ Completion(toks[i], ok).tok = toks[i]
                                /\ Completion(toks[i], ok).ok = ok
                                /\ Completion(toks[i], ok).stage = "completion"
  BY <1>1, CompletionGood
<1>3. Answers(toks, ok) = [i \in 1 .. Len(toks) |-> Completion(toks[i], ok)]
  BY <1>1 DEF Answers
<1>4. Answers(toks, ok) \in Seq(Block)
  BY <1>1, <1>2, <1>3
<1>5. /\ DOMAIN Answers(toks, ok) = DOMAIN toks
      /\ \A i \in DOMAIN toks : /\ Answers(toks, ok)[i].tok = toks[i]
                                /\ Answers(toks, ok)[i].ok = ok
                                /\ Answers(toks, ok)[i].stage = "completion"
  BY <1>1, <1>2, <1>3
<1> QED
  BY <1>4, <1>5 DEF TokensOf, Elems, Single, SingleTok

LEMMA BlocksGood ==
  ASSUME NEW t \in MaybeToken, NEW ok \in BOOLEAN
  PROVE  /\ BlocksOf(t, ok) \in Seq(Block)
         /\ TokensOf(BlocksOf(t, ok)) = Kept(t)
         /\ \A b \in Elems(BlocksOf(t, ok)) : b.ok = ok /\ b.stage = "completion"
         /\ SingleTok(BlocksOf(t, ok))
         /\ t # NoToken => /\ Len(BlocksOf(t, ok)) = 1
                           /\ BlocksOf(t, ok)[1] = Completion(t, ok)
<1>1. CASE t = NoToken
  BY <1>1, ElemsEmpty DEF BlocksOf, Kept, TokensOf, Elems
<1>2. CASE t # NoToken
  <2>1. t \in Token
    BY <1>2 DEF MaybeToken
  <2>2. BlocksOf(t, ok) = <<Completion(t, ok)>>
    BY <1>2 DEF BlocksOf
  <2>3. Elems(<<Completion(t, ok)>>) = {Completion(t, ok)}
    BY DEF Elems
  <2>4. SingleTok(<<Completion(t, ok)>>)
    BY DEF SingleTok
  <2> QED
    BY <1>2, <2>1, <2>2, <2>3, <2>4, CompletionGood DEF TokensOf, Kept
<1> QED
  BY <1>1, <1>2

-----------------------------------------------------------------------------
(* What the entry points and the worker make of one engine.                *)

LEMMA EngineFields ==
  ASSUME NEW r \in EngineRec
  PROVE  /\ r.state \in States /\ r.pc \in Points /\ r.next \in {"none", "loop", "run"}
         /\ r.stopDone \in Seq(Token) /\ r.taken \in Seq(Block)
         /\ r.ckptDone \in MaybeToken /\ r.shutDone \in MaybeToken
         /\ r.end \in {"none", "stopped", "halted", "capped", "over"}
         /\ r.stop \in BOOLEAN /\ r.ckpt \in BOOLEAN /\ r.shut \in BOOLEAN
         /\ r.paused \in BOOLEAN /\ r.ready \in BOOLEAN /\ r.firmware \in BOOLEAN
         /\ r.disk \in BOOLEAN /\ r.standby \in BOOLEAN /\ r.saved \in BOOLEAN
BY DEF EngineRec

(* The worker makes n of its engine r: nothing new is kept, an idle engine *)
(* stays idle.                                                             *)
Follows(r, n) ==
  /\ n \in EngineRec /\ Sane(n) /\ Toks(n) = Toks(r)
  /\ Idle(r) => Idle(n)
  /\ n.pc # "none" \/ n.end # "none"

(* What a step leaves alone of the completions.                            *)
SameKept(r, n) ==
  /\ n.stopDone = r.stopDone /\ n.taken = r.taken
  /\ n.ckptDone = r.ckptDone /\ n.shutDone = r.shutDone

LEMMA SameKeptGood ==
  ASSUME NEW r, NEW n, SameKept(r, n)
  PROVE  /\ Toks(n) = Toks(r) /\ (Once(r) => Once(n))
         /\ (Idle(r) => Idle(n)) /\ Answers1(r) => Answers1(n)
BY DEF SameKept, Toks, Once, Answers1

LEMMA SameKeptFollows ==
  ASSUME NEW r, NEW n, Sane(r), n \in EngineRec, SameKept(r, n), Points1(n),
         Idle(r) => Idle(n), n.pc # "none"
  PROVE  Follows(r, n)
BY SameKeptGood, Zenon DEF Follows, Sane

(* A step of the worker that keeps the completions or answers some.        *)
WorkerStep(e, n) ==
  /\ eng' = [eng EXCEPT ![e] = n]
  /\ UNCHANGED <<scr, mainq, jobs, calls>>
  /\ eng[e].pc # "none" /\ Follows(eng[e], n)
  /\ marker' \in BOOLEAN /\ (marker' = marker \/ ~Idle(eng[e]))
  /\ MarkOf(eng[e], marker) => MarkOf(n, marker')
  /\ \A b \in Elems(n.taken) : b \in Elems(eng[e].taken) \/ (Resumable(b) => marker')

LEMMA PrepareSteps ==
  ASSUME NEW e \in Engines, eng[e] \in EngineRec, Sane(eng[e]), marker \in BOOLEAN, Prepare(e)
  PROVE  \E n : WorkerStep(e, n)
<1> DEFINE r == eng[e]
<1>1. ASSUME NEW p \in {"failed", "boot"}, Worker(e, [r EXCEPT !.pc = p])
      PROVE  \E n : WorkerStep(e, n)
  <2> DEFINE n == [r EXCEPT !.pc = p]
  <2>1. n \in EngineRec
    BY <1>1 DEF EngineRec, Points
  <2>2. /\ SameKept(r, n) /\ n.pc = p /\ n.state = r.state /\ n.stop = r.stop /\ n.ckpt = r.ckpt
        /\ n.shut = r.shut /\ n.ready = r.ready /\ n.disk = r.disk /\ n.saved = r.saved
        /\ n.end = r.end /\ n.next = r.next
    BY <1>1 DEF EngineRec, SameKept
  <2>3. r.pc = "prepare"
    BY DEF Prepare, At
  <2>4. Points1(n)
    BY <2>2, <2>3, <1>1 DEF Points1, Idle, Sane, SameKept, Reading
  <2>5. Follows(r, n)
    BY <2>1, <2>2, <2>4, <1>1, SameKeptFollows DEF Idle
  <2>6. MarkOf(r, marker) => MarkOf(n, marker)
    BY <2>2, <2>3, <1>1 DEF MarkOf
  <2> HIDE DEF n
  <2>7. WorkerStep(e, n)
    BY <2>2, <2>3, <2>5, <2>6, <1>1 DEF WorkerStep, Prepare, Worker, SameKept, n
  <2> QED
    BY <2>7
<1> QED
  BY <1>1 DEF Prepare

LEMMA KeepsOn ==
  ASSUME NEW e \in Engines, NEW n \in EngineRec, Sane(eng[e]), SameKept(eng[e], n),
         Points1(n), Idle(eng[e]) => Idle(n), n.pc # "none", eng[e].pc # "none", ~Idle(eng[e]),
         MarkOf(eng[e], marker) => MarkOf(n, marker'), marker' \in BOOLEAN,
         eng' = [eng EXCEPT ![e] = n] /\ UNCHANGED <<scr, mainq, jobs, calls>>
  PROVE  WorkerStep(e, n)
<1>1. Follows(eng[e], n)
  BY SameKeptFollows
<1> QED
  BY <1>1, Zenon DEF WorkerStep, SameKept

LEMMA OpenDiskSteps ==
  ASSUME NEW e \in Engines, eng[e] \in EngineRec, Sane(eng[e]), marker \in BOOLEAN, OpenDisk(e)
  PROVE  \E n : WorkerStep(e, n)
<1> DEFINE r == eng[e]
<1> DEFINE n == [r EXCEPT !.disk = TRUE]
<1>1. n \in EngineRec
  BY EngineFields DEF EngineRec, Points, States
<1>2. /\ SameKept(r, n) /\ n.pc = r.pc /\ n.state = r.state /\ n.stop = r.stop
      /\ n.ckpt = r.ckpt /\ n.shut = r.shut /\ n.ready = r.ready
      /\ n.disk = TRUE /\ n.saved = r.saved /\ n.end = r.end
      /\ n.next = r.next
  BY EngineFields DEF EngineRec, SameKept
<1>3. r.pc = "boot"
  BY EngineFields DEF OpenDisk, At
<1>4. Points1(n) /\ (Idle(r) => Idle(n)) /\ n.pc # "none" /\ r.pc # "none" /\ ~Idle(r)
  BY <1>2, <1>3, EngineFields DEF Points1, Idle, Sane, SameKept, Reading
<1>5. MarkOf(r, marker) => MarkOf(n, marker')
  BY <1>2, <1>3, EngineFields DEF MarkOf, OpenDisk, Sane, Points1, Reading
<1>6. eng' = [eng EXCEPT ![e] = n] /\ UNCHANGED <<scr, mainq, jobs, calls>> /\ marker' \in BOOLEAN
  BY <1>3 DEF OpenDisk, Worker
<1> HIDE DEF n
<1>7. WorkerStep(e, n)
  BY <1>1, <1>2, <1>4, <1>5, <1>6, KeepsOn
<1> QED
  BY <1>7

LEMMA BootFirmwareSteps ==
  ASSUME NEW e \in Engines, eng[e] \in EngineRec, Sane(eng[e]), marker \in BOOLEAN, BootFirmware(e)
  PROVE  \E n : WorkerStep(e, n)
<1> DEFINE r == eng[e]
<1> DEFINE n == [r EXCEPT !.firmware = TRUE, !.pc = "admit"]
<1>1. n \in EngineRec
  BY EngineFields DEF EngineRec, Points, States
<1>2. /\ SameKept(r, n) /\ n.pc = "admit" /\ n.state = r.state
      /\ n.stop = r.stop /\ n.ckpt = r.ckpt /\ n.shut = r.shut
      /\ n.ready = r.ready /\ n.disk = r.disk /\ n.saved = r.saved
      /\ n.end = r.end /\ n.next = r.next
  BY EngineFields DEF EngineRec, SameKept
<1>3. r.pc = "boot"
  BY EngineFields DEF BootFirmware, At
<1>4. Points1(n) /\ (Idle(r) => Idle(n)) /\ n.pc # "none" /\ r.pc # "none" /\ ~Idle(r)
  BY <1>2, <1>3, EngineFields DEF Points1, Idle, Sane, SameKept, Reading
<1>5. MarkOf(r, marker) => MarkOf(n, marker')
  BY <1>2, <1>3, EngineFields DEF MarkOf, BootFirmware, Sane, Points1, Reading
<1>6. eng' = [eng EXCEPT ![e] = n] /\ UNCHANGED <<scr, mainq, jobs, calls>> /\ marker' \in BOOLEAN
  BY <1>3 DEF BootFirmware, Worker
<1> HIDE DEF n
<1>7. WorkerStep(e, n)
  BY <1>1, <1>2, <1>4, <1>5, <1>6, KeepsOn
<1> QED
  BY <1>7

LEMMA CancelSteps ==
  ASSUME NEW e \in Engines, eng[e] \in EngineRec, Sane(eng[e]), marker \in BOOLEAN, Cancel(e)
  PROVE  \E n : WorkerStep(e, n)
<1> DEFINE r == eng[e]
<1> DEFINE n == [r EXCEPT !.disk = FALSE, !.pc = "failed"]
<1>1. n \in EngineRec
  BY EngineFields DEF EngineRec, Points, States
<1>2. /\ SameKept(r, n) /\ n.pc = "failed" /\ n.state = r.state
      /\ n.stop = r.stop /\ n.ckpt = r.ckpt /\ n.shut = r.shut
      /\ n.ready = r.ready /\ n.disk = FALSE /\ n.saved = r.saved
      /\ n.end = r.end /\ n.next = r.next
  BY EngineFields DEF EngineRec, SameKept
<1>3. r.pc = "cancel"
  BY EngineFields DEF Cancel, At
<1>4. Points1(n) /\ (Idle(r) => Idle(n)) /\ n.pc # "none" /\ r.pc # "none" /\ ~Idle(r)
  BY <1>2, <1>3, EngineFields DEF Points1, Idle, Sane, SameKept, Reading
<1>5. MarkOf(r, marker) => MarkOf(n, marker')
  BY <1>2, <1>3, EngineFields DEF MarkOf, Cancel
<1>6. eng' = [eng EXCEPT ![e] = n] /\ UNCHANGED <<scr, mainq, jobs, calls>> /\ marker' \in BOOLEAN
  BY <1>3 DEF Cancel, Worker
<1> HIDE DEF n
<1>7. WorkerStep(e, n)
  BY <1>1, <1>2, <1>4, <1>5, <1>6, KeepsOn
<1> QED
  BY <1>7

LEMMA BeginSaveSteps ==
  ASSUME NEW e \in Engines, eng[e] \in EngineRec, Sane(eng[e]), marker \in BOOLEAN, BeginSave(e)
  PROVE  \E n : WorkerStep(e, n)
<1> DEFINE r == eng[e]
<1> DEFINE n == [r EXCEPT !.pc = "saving"]
<1>1. n \in EngineRec
  BY EngineFields DEF EngineRec, Points, States
<1>2. /\ SameKept(r, n) /\ n.pc = "saving" /\ n.state = r.state
      /\ n.stop = r.stop /\ n.ckpt = r.ckpt /\ n.shut = r.shut
      /\ n.ready = r.ready /\ n.disk = r.disk /\ n.saved = r.saved
      /\ n.end = r.end /\ n.next = r.next
  BY EngineFields DEF EngineRec, SameKept
<1>3. r.pc = "checkpoint"
  BY EngineFields DEF BeginSave, At
<1>4. Points1(n) /\ (Idle(r) => Idle(n)) /\ n.pc # "none" /\ r.pc # "none" /\ ~Idle(r)
  BY <1>2, <1>3, EngineFields DEF Points1, Idle, Sane, SameKept, Reading
<1>5. MarkOf(r, marker) => MarkOf(n, marker')
  BY <1>2, <1>3, EngineFields DEF MarkOf, BeginSave, Sane, Points1, Reading
<1>6. eng' = [eng EXCEPT ![e] = n] /\ UNCHANGED <<scr, mainq, jobs, calls>> /\ marker' \in BOOLEAN
  BY <1>3 DEF BeginSave, Worker
<1> HIDE DEF n
<1>7. WorkerStep(e, n)
  BY <1>1, <1>2, <1>4, <1>5, <1>6, KeepsOn
<1> QED
  BY <1>7

LEMMA SaveBusySteps ==
  ASSUME NEW e \in Engines, eng[e] \in EngineRec, Sane(eng[e]), marker \in BOOLEAN, SaveBusy(e)
  PROVE  \E n : WorkerStep(e, n)
<1> DEFINE r == eng[e]
<1> DEFINE n == [r EXCEPT !.pc = "run"]
<1>1. n \in EngineRec
  BY EngineFields DEF EngineRec, Points, States
<1>2. /\ SameKept(r, n) /\ n.pc = "run" /\ n.state = r.state
      /\ n.stop = r.stop /\ n.ckpt = r.ckpt /\ n.shut = r.shut
      /\ n.ready = r.ready /\ n.disk = r.disk /\ n.saved = r.saved
      /\ n.end = r.end /\ n.next = r.next
  BY EngineFields DEF EngineRec, SameKept
<1>3. r.pc = "checkpoint"
  BY EngineFields DEF SaveBusy, At
<1>4. Points1(n) /\ (Idle(r) => Idle(n)) /\ n.pc # "none" /\ r.pc # "none" /\ ~Idle(r)
  BY <1>2, <1>3, EngineFields DEF Points1, Idle, Sane, SameKept, Reading
<1>5. MarkOf(r, marker) => MarkOf(n, marker')
  BY <1>2, <1>3, EngineFields DEF MarkOf, SaveBusy
<1>6. eng' = [eng EXCEPT ![e] = n] /\ UNCHANGED <<scr, mainq, jobs, calls>> /\ marker' \in BOOLEAN
  BY <1>3 DEF SaveBusy, Worker
<1> HIDE DEF n
<1>7. WorkerStep(e, n)
  BY <1>1, <1>2, <1>4, <1>5, <1>6, KeepsOn
<1> QED
  BY <1>7

LEMMA SaveFailsSteps ==
  ASSUME NEW e \in Engines, eng[e] \in EngineRec, Sane(eng[e]), marker \in BOOLEAN, SaveFails(e)
  PROVE  \E n : WorkerStep(e, n)
<1> DEFINE r == eng[e]
<1> DEFINE n == [r EXCEPT !.pc = "unsaved"]
<1>1. n \in EngineRec
  BY EngineFields DEF EngineRec, Points, States
<1>2. /\ SameKept(r, n) /\ n.pc = "unsaved" /\ n.state = r.state
      /\ n.stop = r.stop /\ n.ckpt = r.ckpt /\ n.shut = r.shut
      /\ n.ready = r.ready /\ n.disk = r.disk /\ n.saved = r.saved
      /\ n.end = r.end /\ n.next = r.next
  BY EngineFields DEF EngineRec, SameKept
<1>3. r.pc \in {"checkpoint", "saving"}
  BY EngineFields DEF SaveFails, At
<1>4. Points1(n) /\ (Idle(r) => Idle(n)) /\ n.pc # "none" /\ r.pc # "none" /\ ~Idle(r)
  BY <1>2, <1>3, EngineFields DEF Points1, Idle, Sane, SameKept, Reading
<1>5. MarkOf(r, marker) => MarkOf(n, marker')
  BY <1>2, <1>3, EngineFields DEF MarkOf, SaveFails
<1>6. eng' = [eng EXCEPT ![e] = n] /\ UNCHANGED <<scr, mainq, jobs, calls>> /\ marker' \in BOOLEAN
  BY <1>3 DEF SaveFails, Worker
<1> HIDE DEF n
<1>7. WorkerStep(e, n)
  BY <1>1, <1>2, <1>4, <1>5, <1>6, KeepsOn
<1> QED
  BY <1>7

LEMMA SaveSucceedsSteps ==
  ASSUME NEW e \in Engines, eng[e] \in EngineRec, Sane(eng[e]), marker \in BOOLEAN, SaveSucceeds(e)
  PROVE  \E n : WorkerStep(e, n)
<1> DEFINE r == eng[e]
<1> DEFINE n == [r EXCEPT !.saved = TRUE, !.end = "stopped", !.pc = "close"]
<1>1. n \in EngineRec
  BY EngineFields DEF EngineRec, Points, States
<1>2. /\ SameKept(r, n) /\ n.pc = "close" /\ n.state = r.state
      /\ n.stop = r.stop /\ n.ckpt = r.ckpt /\ n.shut = r.shut
      /\ n.ready = r.ready /\ n.disk = r.disk /\ n.saved = TRUE
      /\ n.end = "stopped" /\ n.next = r.next
  BY EngineFields DEF EngineRec, SameKept
<1>3. r.pc = "saving"
  BY EngineFields DEF SaveSucceeds, At
<1>4. Points1(n) /\ (Idle(r) => Idle(n)) /\ n.pc # "none" /\ r.pc # "none" /\ ~Idle(r)
  BY <1>2, <1>3, EngineFields DEF Points1, Idle, Sane, SameKept, Reading
<1>5. MarkOf(r, marker) => MarkOf(n, marker')
  BY <1>2, <1>3, EngineFields DEF MarkOf, SaveSucceeds
<1>6. eng' = [eng EXCEPT ![e] = n] /\ UNCHANGED <<scr, mainq, jobs, calls>> /\ marker' \in BOOLEAN
  BY <1>3 DEF SaveSucceeds, Worker
<1> HIDE DEF n
<1>7. WorkerStep(e, n)
  BY <1>1, <1>2, <1>4, <1>5, <1>6, KeepsOn
<1> QED
  BY <1>7

LEMMA ShutdownProceedsSteps ==
  ASSUME NEW e \in Engines, eng[e] \in EngineRec, Sane(eng[e]), marker \in BOOLEAN, ShutdownProceeds(e)
  PROVE  \E n : WorkerStep(e, n)
<1> DEFINE r == eng[e]
<1> DEFINE n == [r EXCEPT !.pc = "run"]
<1>1. n \in EngineRec
  BY EngineFields DEF EngineRec, Points, States
<1>2. /\ SameKept(r, n) /\ n.pc = "run" /\ n.state = r.state
      /\ n.stop = r.stop /\ n.ckpt = r.ckpt /\ n.shut = r.shut
      /\ n.ready = r.ready /\ n.disk = r.disk /\ n.saved = r.saved
      /\ n.end = r.end /\ n.next = r.next
  BY EngineFields DEF EngineRec, SameKept
<1>3. r.pc = "shutdown"
  BY EngineFields DEF ShutdownProceeds, At
<1>4. Points1(n) /\ (Idle(r) => Idle(n)) /\ n.pc # "none" /\ r.pc # "none" /\ ~Idle(r)
  BY <1>2, <1>3, EngineFields DEF Points1, Idle, Sane, SameKept, Reading
<1>5. MarkOf(r, marker) => MarkOf(n, marker')
  BY <1>2, <1>3, EngineFields DEF MarkOf, ShutdownProceeds
<1>6. eng' = [eng EXCEPT ![e] = n] /\ UNCHANGED <<scr, mainq, jobs, calls>> /\ marker' \in BOOLEAN
  BY <1>3 DEF ShutdownProceeds, Worker
<1> HIDE DEF n
<1>7. WorkerStep(e, n)
  BY <1>1, <1>2, <1>4, <1>5, <1>6, KeepsOn
<1> QED
  BY <1>7

LEMMA CloseSteps ==
  ASSUME NEW e \in Engines, eng[e] \in EngineRec, Sane(eng[e]), marker \in BOOLEAN, Close(e)
  PROVE  \E n : WorkerStep(e, n)
<1> DEFINE r == eng[e]
<1> DEFINE n == [r EXCEPT !.disk = FALSE, !.pc = "final"]
<1>1. n \in EngineRec
  BY EngineFields DEF EngineRec, Points, States
<1>2. /\ SameKept(r, n) /\ n.pc = "final" /\ n.state = r.state
      /\ n.stop = r.stop /\ n.ckpt = r.ckpt /\ n.shut = r.shut
      /\ n.ready = r.ready /\ n.disk = FALSE /\ n.saved = r.saved
      /\ n.end = r.end /\ n.next = r.next
  BY EngineFields DEF EngineRec, SameKept
<1>3. r.pc = "close"
  BY EngineFields DEF Close, At
<1>4. Points1(n) /\ (Idle(r) => Idle(n)) /\ n.pc # "none" /\ r.pc # "none" /\ ~Idle(r)
  BY <1>2, <1>3, EngineFields DEF Points1, Idle, Sane, SameKept, Reading
<1>5. MarkOf(r, marker) => MarkOf(n, marker')
  BY <1>2, <1>3, EngineFields DEF MarkOf, Close
<1>6. eng' = [eng EXCEPT ![e] = n] /\ UNCHANGED <<scr, mainq, jobs, calls>> /\ marker' \in BOOLEAN
  BY <1>3 DEF Close, Worker
<1> HIDE DEF n
<1>7. WorkerStep(e, n)
  BY <1>1, <1>2, <1>4, <1>5, <1>6, KeepsOn
<1> QED
  BY <1>7

LEMMA BootFallbackSteps ==
  ASSUME NEW e \in Engines, eng[e] \in EngineRec, Sane(eng[e]), marker \in BOOLEAN, BootFallback(e)
  PROVE  \E n : WorkerStep(e, n)
<1> DEFINE r == eng[e]
<1>1. ASSUME NEW p \in {"admit", "failed"}, Worker(e, [r EXCEPT !.disk = FALSE, !.pc = p])
      PROVE  \E n : WorkerStep(e, n)
  <2> DEFINE n == [r EXCEPT !.disk = FALSE, !.pc = p]
  <2>1. n \in EngineRec
    BY EngineFields, <1>1 DEF EngineRec, Points, States
  <2>2. /\ SameKept(r, n) /\ n.pc = p /\ n.state = r.state /\ n.stop = r.stop
        /\ n.ckpt = r.ckpt /\ n.shut = r.shut /\ n.ready = r.ready
        /\ n.disk = FALSE /\ n.saved = r.saved /\ n.end = r.end
        /\ n.next = r.next
    BY EngineFields, <1>1 DEF EngineRec, SameKept
  <2>3. r.pc = "boot"
    BY <1>1, EngineFields DEF BootFallback, At
  <2>4. Points1(n) /\ (Idle(r) => Idle(n)) /\ n.pc # "none" /\ r.pc # "none" /\ ~Idle(r)
    BY <2>2, <2>3, EngineFields, <1>1 DEF Points1, Idle, Sane, SameKept, Reading
  <2>5. MarkOf(r, marker) => MarkOf(n, marker')
    BY <2>2, <2>3, <1>1, EngineFields DEF MarkOf, BootFallback
  <2>6. eng' = [eng EXCEPT ![e] = n] /\ UNCHANGED <<scr, mainq, jobs, calls>> /\ marker' \in BOOLEAN
    BY <1>1, <2>3 DEF BootFallback, Worker
  <2> HIDE DEF n
  <2>7. WorkerStep(e, n)
    BY <2>1, <2>2, <2>4, <2>5, <2>6, KeepsOn
  <2> QED
    BY <2>7
<1> QED
  BY <1>1 DEF BootFallback

LEMMA AdmitSteps ==
  ASSUME NEW e \in Engines, eng[e] \in EngineRec, Sane(eng[e]), marker \in BOOLEAN, Admit(e)
  PROVE  \E n : WorkerStep(e, n)
<1> DEFINE r == eng[e]
<1>1. ASSUME r.stop
      PROVE  \E n : WorkerStep(e, n)
  <2> DEFINE n == [r EXCEPT !.pc = "cancel"]
  <2>1. n \in EngineRec
    BY EngineFields, <1>1 DEF EngineRec, Points, States
  <2>2. /\ SameKept(r, n) /\ n.pc = "cancel" /\ n.state = r.state
        /\ n.stop = r.stop /\ n.ckpt = r.ckpt /\ n.shut = r.shut
        /\ n.ready = r.ready /\ n.disk = r.disk /\ n.saved = r.saved
        /\ n.end = r.end /\ n.next = r.next
    BY EngineFields, <1>1 DEF EngineRec, SameKept
  <2>3. r.pc = "admit"
    BY <1>1, EngineFields DEF Admit, At
  <2>4. Points1(n) /\ (Idle(r) => Idle(n)) /\ n.pc # "none" /\ r.pc # "none" /\ ~Idle(r)
    BY <2>2, <2>3, EngineFields, <1>1 DEF Points1, Idle, Sane, SameKept, Reading
  <2>5. MarkOf(r, marker) => MarkOf(n, marker')
    BY <2>2, <2>3, <1>1, EngineFields DEF MarkOf, Admit
  <2>6. eng' = [eng EXCEPT ![e] = n] /\ UNCHANGED <<scr, mainq, jobs, calls>> /\ marker' \in BOOLEAN
    BY <1>1, <2>3 DEF Admit, Worker
  <2> HIDE DEF n
  <2>7. WorkerStep(e, n)
    BY <2>1, <2>2, <2>4, <2>5, <2>6, KeepsOn
  <2> QED
    BY <2>7
<1>2. ASSUME ~r.stop
      PROVE  \E n : WorkerStep(e, n)
  <2> DEFINE n == [r EXCEPT !.ready = TRUE, !.state = "Running", !.pc = "loop"]
  <2>1. n \in EngineRec
    BY EngineFields, <1>2 DEF EngineRec, Points, States
  <2>2. /\ SameKept(r, n) /\ n.pc = "loop" /\ n.state = "Running"
        /\ n.stop = r.stop /\ n.ckpt = r.ckpt /\ n.shut = r.shut
        /\ n.ready = TRUE /\ n.disk = r.disk /\ n.saved = r.saved
        /\ n.end = r.end /\ n.next = r.next
    BY EngineFields, <1>2 DEF EngineRec, SameKept
  <2>3. r.pc = "admit"
    BY <1>2, EngineFields DEF Admit, At
  <2>4. Points1(n) /\ (Idle(r) => Idle(n)) /\ n.pc # "none" /\ r.pc # "none" /\ ~Idle(r)
    BY <2>2, <2>3, EngineFields, <1>2 DEF Points1, Idle, Sane, SameKept, Reading
  <2>5. MarkOf(r, marker) => MarkOf(n, marker')
    BY <2>2, <2>3, <1>2, EngineFields DEF MarkOf, Admit
  <2>6. eng' = [eng EXCEPT ![e] = n] /\ UNCHANGED <<scr, mainq, jobs, calls>> /\ marker' \in BOOLEAN
    BY <1>2, <2>3 DEF Admit, Worker
  <2> HIDE DEF n
  <2>7. WorkerStep(e, n)
    BY <2>1, <2>2, <2>4, <2>5, <2>6, KeepsOn
  <2> QED
    BY <2>7
<1> QED
  BY <1>1, <1>2

LEMMA SampleSteps ==
  ASSUME NEW e \in Engines, eng[e] \in EngineRec, Sane(eng[e]), marker \in BOOLEAN, Sample(e)
  PROVE  \E n : WorkerStep(e, n)
<1> DEFINE r == eng[e]
<1>1. ASSUME r.stop
      PROVE  \E n : WorkerStep(e, n)
  <2> DEFINE n == [r EXCEPT !.end = "stopped", !.pc = "close"]
  <2>1. n \in EngineRec
    BY EngineFields, <1>1 DEF EngineRec, Points, States
  <2>2. /\ SameKept(r, n) /\ n.pc = "close" /\ n.state = r.state
        /\ n.stop = r.stop /\ n.ckpt = r.ckpt /\ n.shut = r.shut
        /\ n.ready = r.ready /\ n.disk = r.disk /\ n.saved = r.saved
        /\ n.end = "stopped" /\ n.next = r.next
    BY EngineFields, <1>1 DEF EngineRec, SameKept
  <2>3. r.pc = "loop"
    BY <1>1, EngineFields DEF Sample, At
  <2>4. Points1(n) /\ (Idle(r) => Idle(n)) /\ n.pc # "none" /\ r.pc # "none" /\ ~Idle(r)
    BY <2>2, <2>3, EngineFields, <1>1 DEF Points1, Idle, Sane, SameKept, Reading
  <2>5. MarkOf(r, marker) => MarkOf(n, marker')
    BY <2>2, <2>3, <1>1, EngineFields DEF MarkOf, Sample
  <2>6. eng' = [eng EXCEPT ![e] = n] /\ UNCHANGED <<scr, mainq, jobs, calls>> /\ marker' \in BOOLEAN
    BY <1>1, <2>3 DEF Sample, Worker
  <2> HIDE DEF n
  <2>7. WorkerStep(e, n)
    BY <2>1, <2>2, <2>4, <2>5, <2>6, KeepsOn
  <2> QED
    BY <2>7
<1>2. ASSUME ~r.stop /\ r.ckpt
      PROVE  \E n : WorkerStep(e, n)
  <2> DEFINE n == [r EXCEPT !.pc = "checkpoint"]
  <2>1. n \in EngineRec
    BY EngineFields, <1>2 DEF EngineRec, Points, States
  <2>2. /\ SameKept(r, n) /\ n.pc = "checkpoint" /\ n.state = r.state
        /\ n.stop = r.stop /\ n.ckpt = r.ckpt /\ n.shut = r.shut
        /\ n.ready = r.ready /\ n.disk = r.disk /\ n.saved = r.saved
        /\ n.end = r.end /\ n.next = r.next
    BY EngineFields, <1>2 DEF EngineRec, SameKept
  <2>3. r.pc = "loop"
    BY <1>2, EngineFields DEF Sample, At
  <2>4. Points1(n) /\ (Idle(r) => Idle(n)) /\ n.pc # "none" /\ r.pc # "none" /\ ~Idle(r)
    BY <2>2, <2>3, EngineFields, <1>2 DEF Points1, Idle, Sane, SameKept, Reading
  <2>5. MarkOf(r, marker) => MarkOf(n, marker')
    BY <2>2, <2>3, <1>2, EngineFields DEF MarkOf, Sample
  <2>6. eng' = [eng EXCEPT ![e] = n] /\ UNCHANGED <<scr, mainq, jobs, calls>> /\ marker' \in BOOLEAN
    BY <1>2, <2>3 DEF Sample, Worker
  <2> HIDE DEF n
  <2>7. WorkerStep(e, n)
    BY <2>1, <2>2, <2>4, <2>5, <2>6, KeepsOn
  <2> QED
    BY <2>7
<1>3. ASSUME ~r.stop /\ ~r.ckpt /\ r.shut
      PROVE  \E n : WorkerStep(e, n)
  <2> DEFINE n == [r EXCEPT !.pc = "shutdown"]
  <2>1. n \in EngineRec
    BY EngineFields, <1>3 DEF EngineRec, Points, States
  <2>2. /\ SameKept(r, n) /\ n.pc = "shutdown" /\ n.state = r.state
        /\ n.stop = r.stop /\ n.ckpt = r.ckpt /\ n.shut = r.shut
        /\ n.ready = r.ready /\ n.disk = r.disk /\ n.saved = r.saved
        /\ n.end = r.end /\ n.next = r.next
    BY EngineFields, <1>3 DEF EngineRec, SameKept
  <2>3. r.pc = "loop"
    BY <1>3, EngineFields DEF Sample, At
  <2>4. Points1(n) /\ (Idle(r) => Idle(n)) /\ n.pc # "none" /\ r.pc # "none" /\ ~Idle(r)
    BY <2>2, <2>3, EngineFields, <1>3 DEF Points1, Idle, Sane, SameKept, Reading
  <2>5. MarkOf(r, marker) => MarkOf(n, marker')
    BY <2>2, <2>3, <1>3, EngineFields DEF MarkOf, Sample
  <2>6. eng' = [eng EXCEPT ![e] = n] /\ UNCHANGED <<scr, mainq, jobs, calls>> /\ marker' \in BOOLEAN
    BY <1>3, <2>3 DEF Sample, Worker
  <2> HIDE DEF n
  <2>7. WorkerStep(e, n)
    BY <2>1, <2>2, <2>4, <2>5, <2>6, KeepsOn
  <2> QED
    BY <2>7
<1>4. ASSUME ~r.stop /\ ~r.ckpt /\ ~r.shut
      PROVE  \E n : WorkerStep(e, n)
  <2> DEFINE n == [r EXCEPT !.pc = "run"]
  <2>1. n \in EngineRec
    BY EngineFields, <1>4 DEF EngineRec, Points, States
  <2>2. /\ SameKept(r, n) /\ n.pc = "run" /\ n.state = r.state
        /\ n.stop = r.stop /\ n.ckpt = r.ckpt /\ n.shut = r.shut
        /\ n.ready = r.ready /\ n.disk = r.disk /\ n.saved = r.saved
        /\ n.end = r.end /\ n.next = r.next
    BY EngineFields, <1>4 DEF EngineRec, SameKept
  <2>3. r.pc = "loop"
    BY <1>4, EngineFields DEF Sample, At
  <2>4. Points1(n) /\ (Idle(r) => Idle(n)) /\ n.pc # "none" /\ r.pc # "none" /\ ~Idle(r)
    BY <2>2, <2>3, EngineFields, <1>4 DEF Points1, Idle, Sane, SameKept, Reading
  <2>5. MarkOf(r, marker) => MarkOf(n, marker')
    BY <2>2, <2>3, <1>4, EngineFields DEF MarkOf, Sample
  <2>6. eng' = [eng EXCEPT ![e] = n] /\ UNCHANGED <<scr, mainq, jobs, calls>> /\ marker' \in BOOLEAN
    BY <1>4, <2>3 DEF Sample, Worker
  <2> HIDE DEF n
  <2>7. WorkerStep(e, n)
    BY <2>1, <2>2, <2>4, <2>5, <2>6, KeepsOn
  <2> QED
    BY <2>7
<1> QED
  BY <1>1, <1>2, <1>3, <1>4

LEMMA RunSteps ==
  ASSUME NEW e \in Engines, eng[e] \in EngineRec, Sane(eng[e]), marker \in BOOLEAN, Run(e)
  PROVE  \E n : WorkerStep(e, n)
<1> DEFINE r == eng[e]
<1>1. ASSUME NEW b \in BOOLEAN, NEW x \in {"none", "halted", "capped"},
             Worker(e, [r EXCEPT !.standby = b, !.end = x, !.pc = "after"])
      PROVE  \E n : WorkerStep(e, n)
  <2> DEFINE n == [r EXCEPT !.standby = b, !.end = x, !.pc = "after"]
  <2>1. n \in EngineRec
    BY EngineFields, <1>1 DEF EngineRec, Points, States
  <2>2. /\ SameKept(r, n) /\ n.pc = "after" /\ n.state = r.state
        /\ n.stop = r.stop /\ n.ckpt = r.ckpt /\ n.shut = r.shut
        /\ n.ready = r.ready /\ n.disk = r.disk /\ n.saved = r.saved
        /\ n.end = x /\ n.next = r.next
    BY EngineFields, <1>1 DEF EngineRec, SameKept
  <2>3. r.pc = "run"
    BY <1>1, EngineFields DEF Run, At
  <2>4. Points1(n) /\ (Idle(r) => Idle(n)) /\ n.pc # "none" /\ r.pc # "none" /\ ~Idle(r)
    BY <2>2, <2>3, EngineFields, <1>1 DEF Points1, Idle, Sane, SameKept, Reading
  <2>5. MarkOf(r, marker) => MarkOf(n, marker')
    BY <2>2, <2>3, <1>1, EngineFields DEF MarkOf, Run
  <2>6. eng' = [eng EXCEPT ![e] = n] /\ UNCHANGED <<scr, mainq, jobs, calls>> /\ marker' \in BOOLEAN
    BY <1>1, <2>3 DEF Run, Worker
  <2> HIDE DEF n
  <2>7. WorkerStep(e, n)
    BY <2>1, <2>2, <2>4, <2>5, <2>6, KeepsOn
  <2> QED
    BY <2>7
<1> QED
  BY <1>1 DEF Run

LEMMA AfterRunSteps ==
  ASSUME NEW e \in Engines, eng[e] \in EngineRec, Sane(eng[e]), marker \in BOOLEAN, AfterRun(e)
  PROVE  \E n : WorkerStep(e, n)
<1> DEFINE r == eng[e]
<1>1. ASSUME r.stop
      PROVE  \E n : WorkerStep(e, n)
  <2> DEFINE n == [r EXCEPT !.end = "stopped", !.pc = "close"]
  <2>1. n \in EngineRec
    BY EngineFields, <1>1 DEF EngineRec, Points, States
  <2>2. /\ SameKept(r, n) /\ n.pc = "close" /\ n.state = r.state
        /\ n.stop = r.stop /\ n.ckpt = r.ckpt /\ n.shut = r.shut
        /\ n.ready = r.ready /\ n.disk = r.disk /\ n.saved = r.saved
        /\ n.end = "stopped" /\ n.next = r.next
    BY EngineFields, <1>1 DEF EngineRec, SameKept
  <2>3. r.pc = "after"
    BY <1>1, EngineFields DEF AfterRun, At
  <2>4. Points1(n) /\ (Idle(r) => Idle(n)) /\ n.pc # "none" /\ r.pc # "none" /\ ~Idle(r)
    BY <2>2, <2>3, EngineFields, <1>1 DEF Points1, Idle, Sane, SameKept, Reading
  <2>5. MarkOf(r, marker) => MarkOf(n, marker')
    BY <2>2, <2>3, <1>1, EngineFields DEF MarkOf, AfterRun
  <2>6. eng' = [eng EXCEPT ![e] = n] /\ UNCHANGED <<scr, mainq, jobs, calls>> /\ marker' \in BOOLEAN
    BY <1>1, <2>3 DEF AfterRun, Worker
  <2> HIDE DEF n
  <2>7. WorkerStep(e, n)
    BY <2>1, <2>2, <2>4, <2>5, <2>6, KeepsOn
  <2> QED
    BY <2>7
<1>2. ASSUME ~r.stop /\ (r.end = "halted" \/ (r.end = "capped" /\ ~r.ckpt))
      PROVE  \E n : WorkerStep(e, n)
  <2> DEFINE n == [r EXCEPT !.state = "Stopping", !.pc = "close"]
  <2>1. n \in EngineRec
    BY EngineFields, <1>2 DEF EngineRec, Points, States
  <2>2. /\ SameKept(r, n) /\ n.pc = "close" /\ n.state = "Stopping"
        /\ n.stop = r.stop /\ n.ckpt = r.ckpt /\ n.shut = r.shut
        /\ n.ready = r.ready /\ n.disk = r.disk /\ n.saved = r.saved
        /\ n.end = r.end /\ n.next = r.next
    BY EngineFields, <1>2 DEF EngineRec, SameKept
  <2>3. r.pc = "after"
    BY <1>2, EngineFields DEF AfterRun, At
  <2>4. Points1(n) /\ (Idle(r) => Idle(n)) /\ n.pc # "none" /\ r.pc # "none" /\ ~Idle(r)
    BY <2>2, <2>3, EngineFields, <1>2 DEF Points1, Idle, Sane, SameKept, Reading
  <2>5. MarkOf(r, marker) => MarkOf(n, marker')
    BY <2>2, <2>3, <1>2, EngineFields DEF MarkOf, AfterRun
  <2>6. eng' = [eng EXCEPT ![e] = n] /\ UNCHANGED <<scr, mainq, jobs, calls>> /\ marker' \in BOOLEAN
    BY <1>2, <2>3 DEF AfterRun, Worker
  <2> HIDE DEF n
  <2>7. WorkerStep(e, n)
    BY <2>1, <2>2, <2>4, <2>5, <2>6, KeepsOn
  <2> QED
    BY <2>7
<1>3. ASSUME ~r.stop /\ ~(r.end = "halted" \/ (r.end = "capped" /\ ~r.ckpt))
      PROVE  \E n : WorkerStep(e, n)
  <2> DEFINE n == [r EXCEPT !.end = "none", !.pc = "loop"]
  <2>1. n \in EngineRec
    BY EngineFields, <1>3 DEF EngineRec, Points, States
  <2>2. /\ SameKept(r, n) /\ n.pc = "loop" /\ n.state = r.state
        /\ n.stop = r.stop /\ n.ckpt = r.ckpt /\ n.shut = r.shut
        /\ n.ready = r.ready /\ n.disk = r.disk /\ n.saved = r.saved
        /\ n.end = "none" /\ n.next = r.next
    BY EngineFields, <1>3 DEF EngineRec, SameKept
  <2>3. r.pc = "after"
    BY <1>3, EngineFields DEF AfterRun, At
  <2>4. Points1(n) /\ (Idle(r) => Idle(n)) /\ n.pc # "none" /\ r.pc # "none" /\ ~Idle(r)
    BY <2>2, <2>3, EngineFields, <1>3 DEF Points1, Idle, Sane, SameKept, Reading
  <2>5. MarkOf(r, marker) => MarkOf(n, marker')
    BY <2>2, <2>3, <1>3, EngineFields DEF MarkOf, AfterRun
  <2>6. eng' = [eng EXCEPT ![e] = n] /\ UNCHANGED <<scr, mainq, jobs, calls>> /\ marker' \in BOOLEAN
    BY <1>3, <2>3 DEF AfterRun, Worker
  <2> HIDE DEF n
  <2>7. WorkerStep(e, n)
    BY <2>1, <2>2, <2>4, <2>5, <2>6, KeepsOn
  <2> QED
    BY <2>7
<1> QED
  BY <1>1, <1>2, <1>3

(* The steps that answer: what they take was kept by the engine before.    *)

LEMMA FinishFailedStartupSteps ==
  ASSUME NEW e \in Engines, eng[e] \in EngineRec, Sane(eng[e]), marker \in BOOLEAN,
         FinishFailedStartup(e)
  PROVE  \E n : WorkerStep(e, n)
<1> DEFINE r == eng[e]
           n == [r EXCEPT
                   !.state = "Idle", !.stop = FALSE, !.paused = FALSE, !.stopDone = <<>>,
                   !.taken = Answers(r.stopDone, TRUE), !.firmware = FALSE, !.end = "over",
                   !.pc = "dispatch", !.next = "none"]
<1>1. /\ Answers(r.stopDone, TRUE) \in Seq(Block)
      /\ TokensOf(Answers(r.stopDone, TRUE)) = Elems(r.stopDone)
      /\ \A b \in Elems(Answers(r.stopDone, TRUE)) : b.ok = TRUE /\ b.stage = "completion"
      /\ Single(r.stopDone) => SingleTok(Answers(r.stopDone, TRUE))
  BY EngineFields, AnswersGood
<1>2. n \in EngineRec
  <2>1. <<>> \in Seq(Token) /\ "Idle" \in States /\ "dispatch" \in Points
    BY DEF States, Points
  <2>2. Answers(r.stopDone, TRUE) \in Seq(Block)
    BY <1>1
  <2> HIDE DEF Points, States
  <2> QED
    BY <2>1, <2>2 DEF EngineRec
<1>3. /\ n.state = "Idle" /\ n.pc = "dispatch" /\ n.next = "none" /\ n.end = "over"
      /\ n.stop = FALSE /\ n.ckpt = r.ckpt /\ n.shut = r.shut /\ n.ready = r.ready
      /\ n.disk = r.disk /\ n.saved = r.saved /\ n.stopDone = <<>>
      /\ n.taken = Answers(r.stopDone, TRUE)
      /\ n.ckptDone = r.ckptDone /\ n.shutDone = r.shutDone
  BY EngineFields DEF EngineRec
<1>4. r.pc = "failed" /\ ~r.ready /\ ~r.ckpt /\ ~r.shut /\ ~r.disk /\ ~r.saved
      /\ r.ckptDone = NoToken /\ r.shutDone = NoToken /\ ~Idle(r)
  BY EngineFields DEF FinishFailedStartup, At, Sane, Points1, Reading, Idle
<1>5. Points1(n)
  BY <1>3, <1>4 DEF Points1, Idle, Reading
<1>6. Kept(n.ckptDone) = {} /\ Kept(n.shutDone) = {}
  BY <1>3, <1>4 DEF Kept
<1>7. Answers1(n)
  BY <1>1, <1>3, <1>6, ElemsEmpty DEF Answers1, Idle
<1>8. Once(n) /\ Toks(n) = Toks(r)
  <2>1. TokensOf(r.taken) = {} /\ Kept(r.ckptDone) = {} /\ Kept(r.shutDone) = {}
    BY <1>4, ElemsEmpty DEF Sane, Points1, Kept
  <2> QED
    BY <1>1, <1>3, <1>6, <2>1, ElemsEmpty DEF Once, Toks, Sane
<1>9. MarkOf(n, marker)
  BY <1>3, <1>4 DEF MarkOf
<1>10. \A b \in Elems(n.taken) : b.tok \in Elems(r.stopDone) /\ ~Resumable(b)
  <2>1. \A b \in Elems(n.taken) : b.tok \in Elems(r.stopDone)
    BY <1>1, <1>3 DEF TokensOf
  <2>2. \A t \in Elems(r.stopDone) : t.kind \in {"reset", "force"}
    BY DEF Sane, Answers1
  <2> QED
    BY <2>1, <2>2 DEF Resumable
<1>11. eng' = [eng EXCEPT ![e] = n] /\ UNCHANGED <<scr, mainq, jobs, marker, calls>>
  BY DEF FinishFailedStartup, Worker
<1>12. Follows(r, n)
  BY <1>2, <1>3, <1>5, <1>7, <1>8, <1>4 DEF Follows, Sane
<1> HIDE DEF n
<1>13. WorkerStep(e, n)
  BY <1>4, <1>9, <1>10, <1>11, <1>12 DEF WorkerStep
<1> QED
  BY <1>13

LEMMA UnsavedSteps ==
  ASSUME NEW e \in Engines, eng[e] \in EngineRec, Sane(eng[e]), marker \in BOOLEAN, Unsaved(e)
  PROVE  \E n : WorkerStep(e, n)
<1> DEFINE r == eng[e]
           n == [r EXCEPT !.ckpt = FALSE, !.ckptDone = NoToken,
                          !.state = IF r.stop THEN @ ELSE "Running",
                          !.taken = BlocksOf(r.ckptDone, FALSE),
                          !.pc = "dispatch", !.next = "loop"]
<1>1. /\ BlocksOf(r.ckptDone, FALSE) \in Seq(Block)
      /\ TokensOf(BlocksOf(r.ckptDone, FALSE)) = Kept(r.ckptDone)
      /\ \A b \in Elems(BlocksOf(r.ckptDone, FALSE)) : b.ok = FALSE /\ b.stage = "completion"
      /\ SingleTok(BlocksOf(r.ckptDone, FALSE))
  BY EngineFields, BlocksGood
<1>2. n \in EngineRec
  <2>1. /\ (IF r.stop THEN r.state ELSE "Running") \in States /\ "dispatch" \in Points
        /\ NoToken \in MaybeToken
    BY EngineFields, TokenFields DEF States, Points
  <2>2. BlocksOf(r.ckptDone, FALSE) \in Seq(Block)
    BY <1>1
  <2> QED
    BY <2>1, <2>2 DEF EngineRec
<1>3. /\ n.state = (IF r.stop THEN r.state ELSE "Running")
      /\ n.pc = "dispatch" /\ n.next = "loop" /\ n.end = r.end
      /\ n.stop = r.stop /\ n.ckpt = FALSE /\ n.shut = r.shut /\ n.ready = r.ready
      /\ n.disk = r.disk /\ n.saved = r.saved /\ n.stopDone = r.stopDone
      /\ n.taken = BlocksOf(r.ckptDone, FALSE)
      /\ n.ckptDone = NoToken /\ n.shutDone = r.shutDone
  BY EngineFields DEF EngineRec
<1>4. r.pc = "unsaved" /\ ~Idle(r)
  BY EngineFields DEF Unsaved, At, Sane, Points1, Idle
<1>5. Points1(n)
  BY <1>3, <1>4, EngineFields DEF Points1, Idle, Reading, Sane
<1>6. Kept(n.ckptDone) = {} /\ Kept(n.shutDone) = Kept(r.shutDone)
  BY <1>3 DEF Kept
<1>7. Answers1(n)
  <2>1. \A b \in Elems(n.taken) : b.tok \in Kept(r.ckptDone)
    BY <1>1, <1>3 DEF TokensOf
  <2> QED
    BY <1>1, <1>3, <1>6, <2>1 DEF Answers1, Sane
<1>8. Once(n) /\ Toks(n) = Toks(r)
  <2>1. TokensOf(r.taken) = {}
    BY <1>4, ElemsEmpty DEF Sane, Points1
  <2> QED
    BY <1>1, <1>3, <1>6, <2>1 DEF Once, Toks, Sane
<1>9. MarkOf(r, marker) => MarkOf(n, marker)
  BY <1>3, <1>4 DEF MarkOf, Sane, Points1
<1>10. \A b \in Elems(n.taken) : ~Resumable(b)
  BY <1>1, <1>3 DEF Resumable
<1>11. eng' = [eng EXCEPT ![e] = n] /\ UNCHANGED <<scr, mainq, jobs, marker, calls>>
  BY DEF Unsaved, Worker
<1>12. Follows(r, n)
  BY <1>2, <1>3, <1>4, <1>5, <1>7, <1>8 DEF Follows, Sane
<1> HIDE DEF n
<1>13. WorkerStep(e, n)
  BY <1>4, <1>9, <1>10, <1>11, <1>12 DEF WorkerStep
<1> QED
  BY <1>13

(* The end of a shutdown, whose completion is answered or handed on.       *)
LEMMA ShutdownEndSteps ==
  ASSUME NEW e \in Engines, eng[e] \in EngineRec, Sane(eng[e]), marker \in BOOLEAN,
         At(e, "shutdown"), UNCHANGED <<scr, mainq, jobs, marker, calls>>,
         NEW p, NEW x, \/ p = "dispatch" /\ x = "run"
                       \/ p = "witness" /\ x = "loop",
         Worker(e, ShutdownEnded(eng[e], BlocksOf(eng[e].shutDone, FALSE), p, x))
  PROVE  \E n : WorkerStep(e, n)
<1> DEFINE r == eng[e]
           n == ShutdownEnded(r, BlocksOf(r.shutDone, FALSE), p, x)
<1>1. /\ BlocksOf(r.shutDone, FALSE) \in Seq(Block)
      /\ TokensOf(BlocksOf(r.shutDone, FALSE)) = Kept(r.shutDone)
      /\ \A b \in Elems(BlocksOf(r.shutDone, FALSE)) : b.ok = FALSE /\ b.stage = "completion"
      /\ SingleTok(BlocksOf(r.shutDone, FALSE))
  BY EngineFields, BlocksGood
<1>2. n \in EngineRec
  BY <1>1, EngineFields, TokenFields DEF EngineRec, Points, ShutdownEnded
<1>3. /\ n.state = r.state /\ n.pc = p /\ n.next = x /\ n.end = r.end
      /\ n.stop = r.stop /\ n.ckpt = r.ckpt /\ n.shut = FALSE /\ n.ready = r.ready
      /\ n.disk = r.disk /\ n.saved = r.saved /\ n.stopDone = r.stopDone
      /\ n.taken = BlocksOf(r.shutDone, FALSE)
      /\ n.ckptDone = r.ckptDone /\ n.shutDone = NoToken
  BY EngineFields DEF EngineRec, ShutdownEnded
<1>4. r.pc = "shutdown" /\ ~Idle(r) /\ r.shut /\ r.shutDone # NoToken
  BY EngineFields DEF At, Sane, Points1, Idle
<1>5. /\ r.shutDone \in Token /\ Len(n.taken) = 1
      /\ n.taken[1] = Completion(r.shutDone, FALSE)
  <2>1. r.shutDone \in MaybeToken /\ FALSE \in BOOLEAN
    BY EngineFields
  <2>2. r.shutDone \in Token
    BY <1>4, <2>1, Zenon DEF MaybeToken
  <2>3. /\ Len(BlocksOf(r.shutDone, FALSE)) = 1
        /\ BlocksOf(r.shutDone, FALSE)[1] = Completion(r.shutDone, FALSE)
    BY <1>4, <2>1, BlocksGood
  <2> QED
    BY <1>3, <2>2, <2>3, Zenon
<1>6. ~n.taken[1].ok /\ n.taken[1].tok.kind \in {"shutdown", "restart"}
  <2>1. Completion(r.shutDone, FALSE).tok = r.shutDone /\ Completion(r.shutDone, FALSE).ok = FALSE
    BY <1>5, CompletionGood
  <2>2. r.shutDone.kind \in {"shutdown", "restart"}
    BY <1>4 DEF Sane, Answers1, Kept
  <2> QED
    BY <1>5, <2>1, <2>2, Zenon
<1>7. Points1(n)
  BY <1>3, <1>4, <1>5, <1>6, EngineFields DEF Points1, Idle, Reading, Sane
<1>8. Kept(n.ckptDone) = Kept(r.ckptDone) /\ Kept(n.shutDone) = {}
  BY <1>3 DEF Kept
<1>9. Answers1(n)
  <2>1. \A b \in Elems(n.taken) : b.tok \in Kept(r.shutDone)
    BY <1>1, <1>3 DEF TokensOf
  <2> QED
    BY <1>1, <1>3, <1>8, <2>1 DEF Answers1, Sane
<1>10. Once(n) /\ Toks(n) = Toks(r)
  <2>1. TokensOf(r.taken) = {}
    BY <1>4, ElemsEmpty DEF Sane, Points1
  <2> QED
    BY <1>1, <1>3, <1>8, <2>1 DEF Once, Toks, Sane
<1>11. MarkOf(r, marker) => MarkOf(n, marker)
  BY <1>3, <1>4 DEF MarkOf
<1>12. \A b \in Elems(n.taken) : ~Resumable(b)
  BY <1>1, <1>3 DEF Resumable
<1>13. eng' = [eng EXCEPT ![e] = n] /\ n.pc # "none" /\ r.pc # "none"
  BY <1>3, <1>4 DEF Worker
<1>14. Follows(r, n)
  BY <1>2, <1>4, <1>7, <1>9, <1>10, <1>13 DEF Follows, Sane
<1> HIDE DEF n
<1>15. WorkerStep(e, n)
  BY <1>4, <1>11, <1>12, <1>13, <1>14 DEF WorkerStep
<1> QED
  BY <1>15

LEMMA SaveWitnessSteps ==
  ASSUME NEW e \in Engines, eng[e] \in EngineRec, Sane(eng[e]), marker \in BOOLEAN, SaveWitness(e)
  PROVE  \E n : WorkerStep(e, n)
<1> DEFINE r == eng[e]
           t == r.taken[1].tok
<1>1. /\ r.pc = "witness" /\ ~Idle(r) /\ r.taken # <<>> /\ t \in TokensOf(r.taken) /\ t \in Token
      /\ t.kind \in {"shutdown", "restart"} /\ r.next = "loop"
      /\ TokensOf(r.taken) = {t}
  <2>1. r.pc = "witness" /\ Len(r.taken) = 1 /\ t.kind \in {"shutdown", "restart"}
        /\ r.next = "loop" /\ r.taken \in Seq(Block)
    BY EngineFields DEF SaveWitness, At, Sane, Points1
  <2>2. 1 \in DOMAIN r.taken /\ r.taken[1] \in Block /\ r.taken # <<>>
    BY <2>1
  <2>3. t \in TokensOf(r.taken) /\ t \in Token
    BY <2>2, TokenFields DEF TokensOf, Elems
  <2>4. TokensOf(r.taken) = {t}
    BY <2>1, <2>2 DEF TokensOf, Elems
  <2> QED
    BY <2>1, <2>2, <2>3, <2>4 DEF Sane, Points1
<1>2. ASSUME SaveRefused(r) PROVE \E n : WorkerStep(e, n)
  <2> DEFINE n == [r EXCEPT !.pc = "dispatch"]
  <2>1. n \in EngineRec
    BY EngineFields DEF EngineRec, Points
  <2>2. /\ SameKept(r, n) /\ n.pc = "dispatch" /\ n.state = r.state /\ n.stop = r.stop
        /\ n.ckpt = r.ckpt /\ n.shut = r.shut /\ n.ready = r.ready /\ n.disk = r.disk
        /\ n.saved = r.saved /\ n.end = r.end /\ n.next = r.next
    BY EngineFields DEF EngineRec, SameKept
  <2>3. Points1(n) /\ (Idle(r) => Idle(n)) /\ n.pc # "none" /\ r.pc # "none" /\ ~Idle(r)
    BY <1>1, <2>2, EngineFields DEF Points1, Idle, Sane, SameKept, Reading
  <2>4. MarkOf(r, marker) => MarkOf(n, marker')
    BY <1>1, <2>2 DEF MarkOf, SaveWitness
  <2>5. eng' = [eng EXCEPT ![e] = n] /\ UNCHANGED <<scr, mainq, jobs, calls>> /\ marker' \in BOOLEAN
    BY <1>2 DEF SaveWitness, Worker
  <2> HIDE DEF n
  <2>6. WorkerStep(e, n)
    BY <2>1, <2>2, <2>3, <2>4, <2>5, KeepsOn
  <2> QED
    BY <2>6
<1>3. ASSUME ~SaveRefused(r) PROVE \E n : WorkerStep(e, n)
  <2> DEFINE n == [SaveAsked(r, t) EXCEPT !.taken = <<>>, !.pc = "loop"]
  <2>1. SaveAsked(r, t) = [r EXCEPT !.ckpt = TRUE, !.ckptDone = t, !.state = "Checkpointing"]
    BY <1>3 DEF SaveAsked
  <2>2. r.state = "Running" /\ ~r.ckpt /\ ~r.shut /\ r.ready /\ r.ckptDone = NoToken
    BY <1>3, EngineFields DEF SaveRefused, Sane, Points1
  <2>3. n \in EngineRec
    <3>1. /\ "Checkpointing" \in States /\ "loop" \in Points /\ t \in MaybeToken
          /\ <<>> \in Seq(Block)
      BY <1>1, TokenFields DEF States, Points
    <3> QED
      BY <2>1, <3>1 DEF EngineRec
  <2>4. /\ n.state = "Checkpointing" /\ n.pc = "loop" /\ n.next = r.next /\ n.end = r.end
        /\ n.stop = r.stop /\ n.ckpt = TRUE /\ n.shut = r.shut /\ n.ready = r.ready
        /\ n.disk = r.disk /\ n.saved = r.saved /\ n.stopDone = r.stopDone
        /\ n.taken = <<>> /\ n.ckptDone = t /\ n.shutDone = r.shutDone
    BY <2>1, EngineFields DEF EngineRec
  <2>5. t # NoToken
    BY <1>1, TokenFields
  <2>6. Points1(n)
    BY <1>1, <2>2, <2>4, <2>5, EngineFields DEF Points1, Idle, Reading, Sane
  <2>7. Kept(n.ckptDone) = {t} /\ Kept(n.shutDone) = Kept(r.shutDone) /\ Kept(r.ckptDone) = {}
    BY <2>2, <2>4, <2>5 DEF Kept
  <2>8. Answers1(n)
    BY <1>1, <2>4, <2>7, ElemsEmpty DEF Answers1, Sane
  <2>9. Once(n) /\ Toks(n) = Toks(r)
    BY <1>1, <2>4, <2>7, ElemsEmpty DEF Once, Toks, Sane
  <2>10. MarkOf(r, marker) => MarkOf(n, marker)
    BY <2>4 DEF MarkOf
  <2>11. Elems(n.taken) = {}
    BY <2>4, ElemsEmpty
  <2>12. eng' = [eng EXCEPT ![e] = n] /\ UNCHANGED <<scr, mainq, jobs, marker, calls>>
    BY <1>3 DEF SaveWitness, Worker
  <2>13. Follows(r, n)
    BY <1>1, <2>3, <2>4, <2>6, <2>8, <2>9 DEF Follows, Sane
  <2> HIDE DEF n
  <2>14. WorkerStep(e, n)
    BY <1>1, <2>10, <2>11, <2>12, <2>13 DEF WorkerStep
  <2> QED
    BY <2>14
<1> QED
  BY <1>2, <1>3

(* The last section answers what is left: one save, one shutdown and the   *)
(* stops, each once.                                                       *)
LEMMA LastAnswers ==
  ASSUME NEW r \in EngineRec, Sane(r)
  PROVE  LET q == BlocksOf(r.ckptDone, r.saved) \o BlocksOf(r.shutDone, FALSE)
                  \o Answers(r.stopDone, TRUE)
         IN  /\ q \in Seq(Block) /\ SingleTok(q)
             /\ TokensOf(q) = Kept(r.ckptDone) \cup Kept(r.shutDone) \cup Elems(r.stopDone)
             /\ \A b \in Elems(q) :
                  /\ b.stage = "completion"
                  /\ \/ b.tok \in Kept(r.ckptDone) /\ b.ok = r.saved
                     \/ b.tok \in Kept(r.shutDone) /\ b.ok = FALSE
                     \/ b.tok \in Elems(r.stopDone) /\ b.ok = TRUE
<1> DEFINE c == BlocksOf(r.ckptDone, r.saved)
           s == BlocksOf(r.shutDone, FALSE)
           a == Answers(r.stopDone, TRUE)
           d == c \o s
<1>1. /\ c \in Seq(Block) /\ TokensOf(c) = Kept(r.ckptDone) /\ SingleTok(c)
      /\ \A b \in Elems(c) : b.ok = r.saved /\ b.stage = "completion"
  BY EngineFields, BlocksGood
<1>2. /\ s \in Seq(Block) /\ TokensOf(s) = Kept(r.shutDone) /\ SingleTok(s)
      /\ \A b \in Elems(s) : b.ok = FALSE /\ b.stage = "completion"
  BY EngineFields, BlocksGood
<1>3. /\ a \in Seq(Block) /\ TokensOf(a) = Elems(r.stopDone) /\ SingleTok(a)
      /\ \A b \in Elems(a) : b.ok = TRUE /\ b.stage = "completion"
  BY EngineFields, AnswersGood DEF Sane, Once
<1> HIDE DEF c, s, a
<1>4. /\ d \in Seq(Block) /\ Elems(d) = Elems(c) \cup Elems(s)
      /\ TokensOf(d) = TokensOf(c) \cup TokensOf(s)
  BY <1>1, <1>2, ElemsCat
<1>5. SingleTok(d)
  BY <1>1, <1>2, SingleCat DEF Sane, Once
<1> HIDE DEF d
<1>6. /\ d \o a \in Seq(Block) /\ Elems(d \o a) = Elems(d) \cup Elems(a)
      /\ TokensOf(d \o a) = TokensOf(d) \cup TokensOf(a)
  BY <1>3, <1>4, ElemsCat
<1>7. TokensOf(d) \cap TokensOf(a) = {}
  BY <1>1, <1>2, <1>3, <1>4 DEF Sane, Once
<1>8. SingleTok(d \o a)
  BY <1>3, <1>4, <1>5, <1>7, SingleCat
<1>9. /\ \A b \in Elems(c) : b.tok \in Kept(r.ckptDone)
      /\ \A b \in Elems(s) : b.tok \in Kept(r.shutDone)
      /\ \A b \in Elems(a) : b.tok \in Elems(r.stopDone)
  BY <1>1, <1>2, <1>3 DEF TokensOf
<1>10. ASSUME NEW b \in Elems(d \o a)
       PROVE  /\ b.stage = "completion"
              /\ \/ b.tok \in Kept(r.ckptDone) /\ b.ok = r.saved
                 \/ b.tok \in Kept(r.shutDone) /\ b.ok = FALSE
                 \/ b.tok \in Elems(r.stopDone) /\ b.ok = TRUE
  <2>1. b \in Elems(c) \/ b \in Elems(s) \/ b \in Elems(a)
    BY <1>4, <1>6
  <2>2. CASE b \in Elems(c)
    <3>1. b.stage = "completion" /\ b.ok = r.saved
      BY <1>1, <2>2, Zenon
    <3>2. b.tok \in Kept(r.ckptDone)
      BY <1>9, <2>2, Zenon
    <3> QED
      BY <3>1, <3>2, Zenon
  <2>3. CASE b \in Elems(s)
    <3>1. b.stage = "completion" /\ b.ok = FALSE
      BY <1>2, <2>3, Zenon
    <3>2. b.tok \in Kept(r.shutDone)
      BY <1>9, <2>3, Zenon
    <3> QED
      BY <3>1, <3>2, Zenon
  <2>4. CASE b \in Elems(a)
    BY <1>3, <1>9, <2>4
  <2> QED
    BY <2>1, <2>2, <2>3, <2>4
<1>11. TokensOf(d \o a) = Kept(r.ckptDone) \cup Kept(r.shutDone) \cup Elems(r.stopDone)
  BY <1>1, <1>2, <1>3, <1>4, <1>6
<1> QED
  BY <1>6, <1>8, <1>10, <1>11 DEF c, s, a, d

LEMMA FinalSteps ==
  ASSUME NEW e \in Engines, eng[e] \in EngineRec, Sane(eng[e]), marker \in BOOLEAN, Final(e),
         MarkOf(eng[e], marker)
  PROVE  \E n : WorkerStep(e, n)
<1> DEFINE r == eng[e]
           q == BlocksOf(r.ckptDone, r.saved) \o BlocksOf(r.shutDone, FALSE)
                \o Answers(r.stopDone, TRUE)
           n == [r EXCEPT
                   !.state = "Idle", !.stop = FALSE, !.stopDone = <<>>, !.ckpt = FALSE,
                   !.ckptDone = NoToken, !.shut = FALSE, !.shutDone = NoToken,
                   !.paused = FALSE, !.ready = FALSE, !.firmware = FALSE,
                   !.standby = FALSE, !.saved = FALSE, !.end = "over", !.taken = q,
                   !.pc = "dispatch", !.next = "none"]
<1>1. /\ q \in Seq(Block) /\ SingleTok(q)
      /\ TokensOf(q) = Kept(r.ckptDone) \cup Kept(r.shutDone) \cup Elems(r.stopDone)
      /\ \A b \in Elems(q) :
           /\ b.stage = "completion"
           /\ \/ b.tok \in Kept(r.ckptDone) /\ b.ok = r.saved
              \/ b.tok \in Kept(r.shutDone) /\ b.ok = FALSE
              \/ b.tok \in Elems(r.stopDone) /\ b.ok = TRUE
  BY LastAnswers
<1>2. eng' = [eng EXCEPT ![e] = n] /\ UNCHANGED <<scr, mainq, jobs, marker, calls>>
  BY DEF Final, Worker
<1>3. r.pc = "final" /\ ~r.disk /\ ~Idle(r)
  BY EngineFields DEF Final, At, Sane, Points1, Idle
<1> HIDE DEF q
<1>4. n \in EngineRec
  <2>1. /\ "Idle" \in States /\ "dispatch" \in Points /\ NoToken \in MaybeToken
        /\ <<>> \in Seq(Token) /\ q \in Seq(Block)
    BY <1>1, TokenFields DEF States, Points
  <2> DEFINE m == [r EXCEPT
                     !.state = "Idle", !.stop = FALSE, !.stopDone = <<>>, !.ckpt = FALSE,
                     !.ckptDone = NoToken, !.shut = FALSE, !.shutDone = NoToken,
                     !.paused = FALSE]
  <2>2. m \in EngineRec
    BY <2>1 DEF EngineRec
  <2>3. [m EXCEPT !.ready = FALSE, !.firmware = FALSE, !.standby = FALSE, !.saved = FALSE,
                  !.end = "over", !.taken = q, !.pc = "dispatch", !.next = "none"] \in EngineRec
    <3> HIDE DEF m
    <3> QED
      BY <2>1, <2>2 DEF EngineRec
  <2> QED
    BY <2>3
<1>5. /\ n.state = "Idle" /\ n.pc = "dispatch" /\ n.next = "none" /\ n.end = "over"
      /\ n.stop = FALSE /\ n.ckpt = FALSE /\ n.shut = FALSE /\ n.ready = FALSE
      /\ n.disk = r.disk /\ n.saved = FALSE /\ n.stopDone = <<>>
      /\ n.taken = q /\ n.ckptDone = NoToken /\ n.shutDone = NoToken
  BY EngineFields DEF EngineRec
<1>6. Points1(n)
  BY <1>3, <1>5 DEF Points1, Idle, Reading
<1>7. Kept(n.ckptDone) = {} /\ Kept(n.shutDone) = {}
  BY <1>5 DEF Kept
<1>8. /\ \A x \in Elems(r.stopDone) : x.kind \in {"reset", "force"}
      /\ \A x \in Kept(r.ckptDone) : x.kind \in {"save", "shutdown", "restart"}
      /\ \A x \in Kept(r.shutDone) : x.kind \in {"shutdown", "restart"}
  BY DEF Sane, Answers1
<1>9. Answers1(n)
  <2>1. \A b \in Elems(q) : b.tok.kind \in {"reset", "force"} => b.ok
    BY <1>1, <1>8
  <2> QED
    BY <1>1, <1>5, <1>7, <2>1, ElemsEmpty DEF Answers1, Idle
<1>10. Once(n) /\ Toks(n) = Toks(r)
  <2>1. TokensOf(r.taken) = {}
    BY <1>3, ElemsEmpty DEF Sane, Points1
  <2> QED
    BY <1>1, <1>5, <1>7, <2>1, ElemsEmpty DEF Once, Toks, Sane
<1>11. MarkOf(n, marker)
  BY <1>3, <1>5 DEF MarkOf
<1>12. \A b \in Elems(n.taken) : Resumable(b) => r.saved
  BY <1>1, <1>5, <1>8 DEF Resumable
<1>13. MarkOf(r, marker) => \A b \in Elems(n.taken) : Resumable(b) => marker
  BY <1>12 DEF MarkOf
<1>14. Follows(r, n)
  BY <1>3, <1>4, <1>5, <1>6, <1>9, <1>10 DEF Follows, Sane, Idle
<1> HIDE DEF n
<1>15. MarkOf(r, marker) => WorkerStep(e, n)
  BY <1>2, <1>3, <1>11, <1>13, <1>14 DEF WorkerStep
<1> QED
  BY <1>15

-----------------------------------------------------------------------------
(* A step of a worker keeps the invariant.                                 *)

LEMMA PendingIs ==
  ASSUME NEW t
  PROVE  t \in Pending <=> \/ \E e \in Engines : t \in Toks(eng[e])
                           \/ t \in TokensOf(mainq) \/ t \in jobs \/ t \in InCall(scr)
<1>1. t \in UNION {Toks(eng[e]) : e \in Engines} <=> \E e \in Engines : t \in Toks(eng[e])
  OBVIOUS
<1> QED
  BY <1>1, Zenon DEF Pending

LEMMA BlockTokens ==
  ASSUME NEW r PROVE \A b \in Elems(r.taken) : b.tok \in Toks(r)
BY DEF Toks, TokensOf

(* A non-idle engine is the one of the screen, so that a positive answer   *)
(* the screen listens to, or a report of a force-off, is not of its time.  *)
LEMMA BusyIsAlone ==
  ASSUME IInv, NEW e \in Engines, ~Idle(eng[e])
  PROVE  /\ e = scr.cur
         /\ \A f \in Engines : f # e => Idle(eng[f]) /\ ~eng[f].disk /\ ~eng[f].saved
                                        /\ eng[f].pc # "admit"
         /\ jobs = {}
         /\ \A b \in Elems(mainq) :
              /\ b.stage # "forced"
              /\ ~(Resumable(b) /\ Mine(b.tok) /\ ~scr.forceReq)
         /\ \A f \in Engines : \A b \in Elems(eng[f].taken) :
              ~(Resumable(b) /\ Mine(b.tok) /\ ~scr.forceReq)
<1>1. e = scr.cur
  BY DEF IInv, Alone
<1>2. \A f \in Engines : f # e => Idle(eng[f]) /\ ~eng[f].disk /\ ~eng[f].saved
                                  /\ eng[f].pc # "admit"
  BY <1>1 DEF IInv, Alone, AllSane, Sane, Points1
<1>3. \A t \in Pending : Facts(t)
  BY DEF IInv, Listened
<1>4. jobs = {}
  <2>1. SUFFICES ASSUME NEW t \in jobs PROVE FALSE
    OBVIOUS
  <2>2. t \in Pending /\ t.kind = "force" /\ Idle(eng[t.eng])
    BY PendingIs DEF IInv, Stages
  <2>3. t.eng = scr.cur
    BY <1>3, <2>2 DEF Facts
  <2> QED
    BY <1>1, <2>2, <2>3
<1>5. ASSUME NEW b \in Elems(mainq)
      PROVE  /\ b.stage # "forced"
             /\ ~(Resumable(b) /\ Mine(b.tok) /\ ~scr.forceReq)
  <2>1. b.tok \in Pending
    BY PendingIs DEF TokensOf
  <2>2. /\ b.ok \/ b.stage = "forced" => Idle(eng[b.tok.eng])
        /\ b.stage = "forced" => b.tok.kind = "force"
    BY DEF IInv, Stages
  <2>3. Facts(b.tok)
    BY <1>3, <2>1
  <2>4. b.stage # "forced"
    BY <1>1, <2>2, <2>3 DEF Facts
  <2>5. ~(Resumable(b) /\ Mine(b.tok) /\ ~scr.forceReq)
    BY <1>1, <2>2, <2>3 DEF Facts, Resumable
  <2> QED
    BY <2>4, <2>5
<1>6. ASSUME NEW f \in Engines, NEW b \in Elems(eng[f].taken)
      PROVE  ~(Resumable(b) /\ Mine(b.tok) /\ ~scr.forceReq)
  <2>1. b.tok \in Toks(eng[f])
    BY BlockTokens
  <2>2. b.tok \in Pending /\ b.tok.eng = f
    BY <2>1, PendingIs DEF IInv, Stages
  <2>3. b.ok => Idle(eng[f])
    BY DEF IInv, AllSane, Sane, Answers1
  <2>4. Facts(b.tok)
    BY <1>3, <2>2
  <2> QED
    BY <1>1, <2>2, <2>3, <2>4 DEF Facts, Resumable
<1> QED
  BY <1>1, <1>2, <1>4, <1>5, <1>6

LEMMA WorkerKeeps ==
  ASSUME IInv, NEW e \in Engines, NEW n, WorkerStep(e, n)
  PROVE  IInv'
<1>1. /\ eng' = [eng EXCEPT ![e] = n] /\ n \in EngineRec /\ Sane(n)
      /\ Toks(n) = Toks(eng[e]) /\ (Idle(eng[e]) => Idle(n))
      /\ n.pc # "none" \/ n.end # "none"
      /\ eng[e].pc # "none"
  BY DEF WorkerStep, Follows
<1>2. scr' = scr /\ mainq' = mainq /\ jobs' = jobs /\ calls' = calls
  BY DEF WorkerStep
<1>3. eng \in [Engines -> EngineRec]
  BY DEF IInv, Types
<1>4. eng'[e] = n /\ \A f \in Engines : f # e => eng'[f] = eng[f]
  BY <1>1, <1>3
<1>5. eng' \in [Engines -> EngineRec]
  BY <1>1, <1>3
<1>6. Launched' = Launched /\ e \in Launched
  BY <1>1, <1>4 DEF Launched
<1>7. \A f \in Engines : Toks(eng'[f]) = Toks(eng[f]) /\ (Idle(eng[f]) => Idle(eng'[f]))
  BY <1>1, <1>4
<1>8. Types'
  BY <1>2, <1>5 DEF IInv, Types, WorkerStep
<1>9. AllSane'
  BY <1>1, <1>4 DEF IInv, AllSane
<1>10. OnePlace'
  BY <1>2, <1>7 DEF IInv, OnePlace
<1>11. Numbered'
  BY <1>2, <1>4, <1>6 DEF IInv, Numbered, Asked
<1>12. Pending' = Pending
  BY <1>2, <1>7 DEF Pending
<1>13. Listened'
  <2>1. \A t : Facts(t)' <=> Facts(t)
    BY <1>2, <1>6 DEF Facts, Mine, Count
  <2>2. \A t : Mine(t)' <=> Mine(t)
    BY <1>2 DEF Mine
  <2> QED
    BY <1>2, <1>12, <2>1, <2>2 DEF IInv, Listened
<1>14. Stages'
  <2>1. \A f \in Engines : \A t \in Toks(eng'[f]) : t.eng = f /\ calls'[t.id] = 0
    BY <1>2, <1>7 DEF IInv, Stages
  <2>2. \A t \in Pending : t.eng \in Engines
    BY DEF IInv, Listened, Facts, Launched
  <2>3. \A b \in Elems(mainq) : b.tok.eng \in Engines
    BY <2>2, PendingIs DEF TokensOf
  <2>4. \A t \in jobs : t.eng \in Engines
    BY <2>2, PendingIs
  <2> QED
    BY <1>2, <1>7, <2>1, <2>3, <2>4 DEF IInv, Stages
<1>15. Alone'
  BY <1>2, <1>7 DEF IInv, Alone
<1>16. Opened'
  BY <1>2 DEF IInv, Opened
<1>17. Marks'
  <2>1. \A f \in Engines : MarkOf(eng[f], marker) /\ \A b \in Elems(eng[f].taken) : Told(b)
    BY DEF IInv, Marks
  <2>2. MarkOf(n, marker')
    BY <2>1 DEF WorkerStep
  <2>3. \A b \in Elems(n.taken) : b \in Elems(eng[e].taken) \/ (Resumable(b) => marker')
    BY DEF WorkerStep
  <2>4. \A b : Told(b)' <=> (Resumable(b) /\ Mine(b.tok) /\ ~scr.forceReq => marker')
    BY <1>2 DEF Told, Mine
  <2>5. CASE marker' = marker
    <3>1. \A b : Told(b)' <=> Told(b)
      BY <2>4, <2>5 DEF Told
    <3>2. ASSUME NEW f \in Engines
          PROVE  MarkOf(eng'[f], marker') /\ \A b \in Elems(eng'[f].taken) : Told(b)'
      BY <1>4, <2>1, <2>2, <2>3, <2>4, <2>5, <3>1
    <3>3. \A b \in Elems(mainq) : Told(b) /\ (b.stage = "forced" /\ b.ok => ~marker)
      BY DEF IInv, Marks
    <3> QED
      BY <1>2, <2>5, <3>1, <3>2, <3>3 DEF Marks
  <2>6. CASE marker' # marker
    <3>1. ~Idle(eng[e])
      BY <2>6 DEF WorkerStep
    <3>2. /\ \A f \in Engines : f # e => Idle(eng[f]) /\ ~eng[f].disk /\ ~eng[f].saved
                                         /\ eng[f].pc # "admit"
          /\ \A b \in Elems(mainq) :
              /\ b.stage # "forced"
              /\ ~(Resumable(b) /\ Mine(b.tok) /\ ~scr.forceReq)
          /\ \A f \in Engines : \A b \in Elems(eng[f].taken) :
              ~(Resumable(b) /\ Mine(b.tok) /\ ~scr.forceReq)
      BY <3>1, BusyIsAlone
    <3>3. \A f \in Engines : MarkOf(eng'[f], marker')
      BY <1>4, <2>2, <3>2 DEF MarkOf
    <3>4. ASSUME NEW f \in Engines, NEW b \in Elems(eng'[f].taken) PROVE Told(b)'
      <4>1. CASE f = e
        BY <1>4, <2>3, <2>4, <3>2, <4>1
      <4>2. CASE f # e
        BY <1>4, <2>4, <3>2, <4>2
      <4> QED
        BY <4>1, <4>2
    <3> QED
      BY <1>2, <2>4, <3>2, <3>3, <3>4 DEF Marks
  <2> QED
    BY <2>5, <2>6
<1>18. Remembered'
  BY <1>2, <1>12 DEF IInv, Remembered
<1> QED
  BY <1>8, <1>9, <1>10, <1>11, <1>13, <1>14, <1>15, <1>16, <1>17, <1>18 DEF IInv

(* The completions taken go to the main queue.                             *)
LEMMA DispatchKeeps ==
  ASSUME IInv, NEW e \in Engines, Dispatch(e)
  PROVE  IInv'
<1> DEFINE r == eng[e]
           n == [r EXCEPT !.taken = <<>>, !.pc = r.next]
<1>1. /\ r \in EngineRec /\ Sane(r) /\ eng \in [Engines -> EngineRec] /\ r.pc = "dispatch"
      /\ r.taken \in Seq(Block) /\ mainq \in Seq(Block)
  BY EngineFields DEF Dispatch, At, IInv, Types, AllSane
<1>2. /\ eng' = [eng EXCEPT ![e] = n] /\ mainq' = mainq \o r.taken
      /\ scr' = scr /\ jobs' = jobs /\ calls' = calls /\ marker' = marker
  BY DEF Dispatch, Worker
<1>3. n \in EngineRec
  <2>1. r.next \in Points /\ <<>> \in Seq(Block)
    BY <1>1, EngineFields DEF Points
  <2> QED
    BY <1>1, <2>1 DEF EngineRec
<1>4. /\ n.state = r.state /\ n.pc = r.next /\ n.next = r.next /\ n.end = r.end
      /\ n.stop = r.stop /\ n.ckpt = r.ckpt /\ n.shut = r.shut /\ n.ready = r.ready
      /\ n.disk = r.disk /\ n.saved = r.saved /\ n.stopDone = r.stopDone
      /\ n.taken = <<>> /\ n.ckptDone = r.ckptDone /\ n.shutDone = r.shutDone
  BY <1>1, EngineFields DEF EngineRec
<1>5. r.next \in {"none", "loop", "run"}
  BY <1>1, EngineFields
<1>6. Sane(n)
  <2>1. Points1(n)
    BY <1>1, <1>4, <1>5 DEF Points1, Idle, Reading, Sane
  <2>2. Answers1(n)
    BY <1>1, <1>4, ElemsEmpty DEF Answers1, Sane
  <2>3. Once(n)
    BY <1>1, <1>4, ElemsEmpty DEF Once, Sane
  <2> QED
    BY <2>1, <2>2, <2>3 DEF Sane
<1>7. /\ Toks(n) \subseteq Toks(r) /\ Toks(n) \cap TokensOf(r.taken) = {}
      /\ TokensOf(r.taken) \subseteq Toks(r) /\ (Idle(n) <=> Idle(r))
      /\ Toks(r) \subseteq Toks(n) \cup TokensOf(r.taken)
  <2>1. Toks(n) = Elems(r.stopDone) \cup Kept(r.ckptDone) \cup Kept(r.shutDone)
    BY <1>4, ElemsEmpty DEF Toks
  <2> QED
    BY <1>1, <1>4, <2>1 DEF Toks, Sane, Once, Idle
<1>8. n.pc # "none" \/ n.end # "none"
  BY <1>1, <1>4, <1>5 DEF Sane, Points1
<1>9. eng'[e] = n /\ \A f \in Engines : f # e => eng'[f] = eng[f]
  BY <1>1, <1>2
<1>10. eng' \in [Engines -> EngineRec]
  BY <1>1, <1>2, <1>3
<1> HIDE DEF n
<1>11. Launched' = Launched
  BY <1>1, <1>8, <1>9 DEF Launched
<1>12. /\ mainq' \in Seq(Block) /\ Elems(mainq') = Elems(mainq) \cup Elems(r.taken)
       /\ TokensOf(mainq') = TokensOf(mainq) \cup TokensOf(r.taken)
  BY <1>1, <1>2, ElemsCat
<1>13. \A f \in Engines : /\ Toks(eng'[f]) \subseteq Toks(eng[f])
                          /\ (Idle(eng[f]) <=> Idle(eng'[f]))
  BY <1>7, <1>9
<1>14. Types'
  BY <1>2, <1>10, <1>12 DEF IInv, Types
<1>15. AllSane'
  BY <1>6, <1>9 DEF IInv, AllSane
<1>16. OnePlace'
  <2>1. SingleTok(mainq')
    BY <1>1, <1>2, <1>7, SingleCat DEF IInv, OnePlace, Sane, Once
  <2>2. \A f \in Engines : Toks(eng'[f]) \cap TokensOf(r.taken) = {}
    BY <1>7, <1>9 DEF IInv, OnePlace
  <2>3. /\ \A f \in Engines : Toks(eng[f]) \cap (TokensOf(mainq) \cup jobs \cup InCall(scr)) = {}
        /\ \A f, g \in Engines : f # g => Toks(eng[f]) \cap Toks(eng[g]) = {}
        /\ TokensOf(mainq) \cap (jobs \cup InCall(scr)) = {}
        /\ jobs \cap InCall(scr) = {}
    BY DEF IInv, OnePlace
  <2>4. \A f \in Engines : Toks(eng'[f]) \cap (TokensOf(mainq') \cup jobs \cup InCall(scr)) = {}
    BY <1>12, <1>13, <2>2, <2>3
  <2>5. TokensOf(mainq') \cap (jobs \cup InCall(scr)) = {}
    BY <1>7, <1>12, <2>3
  <2>6. \A f, g \in Engines : f # g => Toks(eng'[f]) \cap Toks(eng'[g]) = {}
    BY <1>13, <2>3
  <2> QED
    BY <1>2, <2>1, <2>3, <2>4, <2>5, <2>6 DEF OnePlace
<1>17. Numbered'
  BY <1>2, <1>9, <1>11, <1>8, <1>1 DEF IInv, Numbered, Asked, Launched
<1>18. Pending' \subseteq Pending
  <2>1. ASSUME NEW t \in Pending' PROVE t \in Pending
    <3>1. \/ \E f \in Engines : t \in Toks(eng'[f])
          \/ t \in TokensOf(mainq') \/ t \in jobs' \/ t \in InCall(scr')
      BY <2>1 DEF Pending
    <3> QED
      BY <1>2, <1>7, <1>12, <1>13, <3>1, PendingIs
  <2> QED
    BY <2>1
<1>19. Listened'
  <2>1. \A t : Facts(t)' <=> Facts(t)
    BY <1>2, <1>11 DEF Facts, Mine, Count
  <2>2. \A t : Mine(t)' <=> Mine(t)
    BY <1>2 DEF Mine
  <2> QED
    BY <1>2, <1>18, <2>1, <2>2 DEF IInv, Listened
<1>20. \A t \in Pending : t.eng \in Engines
  BY DEF IInv, Listened, Facts, Launched
<1>21. Stages'
  <2>1. \A f \in Engines : \A t \in Toks(eng'[f]) : t.eng = f /\ calls'[t.id] = 0
    BY <1>2, <1>13 DEF IInv, Stages
  <2>2. ASSUME NEW b \in Elems(mainq)
        PROVE  /\ b.ok \/ b.stage = "forced" => Idle(eng'[b.tok.eng])
               /\ b.stage = "finish" => b.tok.kind \in {"shutdown", "restart"}
               /\ b.stage = "forced" => b.tok.kind = "force"
               /\ b.stage = "completion" /\ b.tok.kind \in {"reset", "force"} => b.ok
               /\ calls[b.tok.id] = IF b.stage = "finish" THEN 1 ELSE 0
    <3>1. b.tok.eng \in Engines
      BY <1>20, PendingIs DEF TokensOf
    <3> QED
      BY <1>13, <3>1 DEF IInv, Stages
  <2>3. ASSUME NEW b \in Elems(r.taken)
        PROVE  /\ b.ok \/ b.stage = "forced" => Idle(eng'[b.tok.eng])
               /\ b.stage = "finish" => b.tok.kind \in {"shutdown", "restart"}
               /\ b.stage = "forced" => b.tok.kind = "force"
               /\ b.stage = "completion" /\ b.tok.kind \in {"reset", "force"} => b.ok
               /\ calls[b.tok.id] = IF b.stage = "finish" THEN 1 ELSE 0
    <3>1. b.tok.eng = e /\ calls[b.tok.id] = 0
      BY BlockTokens DEF IInv, Stages
    <3>2. /\ b.stage = "completion" /\ (b.ok => Idle(r))
          /\ b.tok.kind \in {"reset", "force"} => b.ok
      BY <1>1 DEF Sane, Answers1
    <3> QED
      BY <1>13, <3>1, <3>2
  <2>4. \A t \in jobs : t.eng \in Engines
    BY <1>20, PendingIs
  <2>5. \A t \in jobs' : Idle(eng'[t.eng]) /\ t.kind = "force" /\ calls'[t.id] = 0
    BY <1>2, <1>13, <2>4 DEF IInv, Stages
  <2> QED
    BY <1>2, <1>12, <2>1, <2>2, <2>3, <2>5 DEF IInv, Stages
<1>22. Alone'
  BY <1>2, <1>13 DEF IInv, Alone
<1>23. Opened'
  BY <1>2 DEF IInv, Opened
<1>24. Marks'
  <2>1. \A b : Told(b)' <=> Told(b)
    BY <1>2 DEF Told, Mine
  <2>2. MarkOf(n, marker) /\ Elems(n.taken) = {}
    BY <1>4, <1>5, ElemsEmpty DEF IInv, Marks, MarkOf
  <2>3. /\ \A f \in Engines : MarkOf(eng[f], marker) /\ \A b \in Elems(eng[f].taken) : Told(b)
        /\ \A b \in Elems(mainq) : Told(b) /\ (b.stage = "forced" /\ b.ok => ~marker)
    BY DEF IInv, Marks
  <2>4. \A f \in Engines : MarkOf(eng'[f], marker) /\ \A b \in Elems(eng'[f].taken) : Told(b)
    BY <1>9, <2>2, <2>3
  <2>5. \A b \in Elems(r.taken) : b.stage = "completion"
    BY <1>1 DEF Sane, Answers1
  <2>6. \A b \in Elems(mainq') : Told(b) /\ (b.stage = "forced" /\ b.ok => ~marker)
    BY <1>12, <2>3, <2>5
  <2> QED
    BY <1>2, <2>1, <2>4, <2>6 DEF Marks
<1>25. Remembered'
  <2>1. ASSUME NEW u \in Pending PROVE u \in Pending'
    <3>1. \/ \E f \in Engines : u \in Toks(eng'[f])
          \/ u \in TokensOf(mainq') \/ u \in jobs' \/ u \in InCall(scr')
      BY <1>2, <1>7, <1>9, <1>12, <2>1, PendingIs
    <3> QED
      BY <3>1 DEF Pending
  <2> QED
    BY <1>2, <2>1 DEF IInv, Remembered
<1> QED
  BY <1>14, <1>15, <1>16, <1>17, <1>19, <1>21, <1>22, <1>23, <1>24, <1>25 DEF IInv

LEMMA ThreadKeeps ==
  ASSUME IInv, NEW e \in Engines, Thread(e)
  PROVE  IInv'
<1>1. eng[e] \in EngineRec /\ Sane(eng[e]) /\ marker \in BOOLEAN /\ MarkOf(eng[e], marker)
  BY DEF IInv, Types, AllSane, Marks
<1>2. ASSUME \E n : WorkerStep(e, n) PROVE IInv'
  BY <1>2, WorkerKeeps
<1>3. CASE Prepare(e)
  BY <1>1, <1>2, <1>3, PrepareSteps
<1>4. CASE OpenDisk(e)
  BY <1>1, <1>2, <1>4, OpenDiskSteps
<1>5. CASE BootFirmware(e)
  BY <1>1, <1>2, <1>5, BootFirmwareSteps
<1>6. CASE BootFallback(e)
  BY <1>1, <1>2, <1>6, BootFallbackSteps
<1>7. CASE Admit(e)
  BY <1>1, <1>2, <1>7, AdmitSteps
<1>8. CASE Cancel(e)
  BY <1>1, <1>2, <1>8, CancelSteps
<1>9. CASE FinishFailedStartup(e)
  BY <1>1, <1>2, <1>9, FinishFailedStartupSteps
<1>10. CASE Sample(e)
  BY <1>1, <1>2, <1>10, SampleSteps
<1>11. CASE BeginSave(e)
  BY <1>1, <1>2, <1>11, BeginSaveSteps
<1>12. CASE SaveBusy(e)
  BY <1>1, <1>2, <1>12, SaveBusySteps
<1>13. CASE SaveFails(e)
  BY <1>1, <1>2, <1>13, SaveFailsSteps
<1>14. CASE SaveSucceeds(e)
  BY <1>1, <1>2, <1>14, SaveSucceedsSteps
<1>15. CASE Unsaved(e)
  BY <1>1, <1>2, <1>15, UnsavedSteps
<1>16. CASE ShutdownProceeds(e)
  BY <1>1, <1>2, <1>16, ShutdownProceedsSteps
<1>17. CASE ShutdownGivesUp(e)
  <2>1. \E n : WorkerStep(e, n)
    BY <1>1, <1>17, ShutdownEndSteps, Zenon DEF ShutdownGivesUp
  <2> QED
    BY <1>2, <2>1
<1>18. CASE ShutdownComplete(e)
  <2>1. \E n : WorkerStep(e, n)
    BY <1>1, <1>18, ShutdownEndSteps, Zenon DEF ShutdownComplete
  <2> QED
    BY <1>2, <2>1
<1>19. CASE SaveWitness(e)
  BY <1>1, <1>2, <1>19, SaveWitnessSteps
<1>20. CASE Run(e)
  BY <1>1, <1>2, <1>20, RunSteps
<1>21. CASE AfterRun(e)
  BY <1>1, <1>2, <1>21, AfterRunSteps
<1>22. CASE Close(e)
  BY <1>1, <1>2, <1>22, CloseSteps
<1>23. CASE Final(e)
  BY <1>1, <1>2, <1>23, FinalSteps
<1>24. CASE Dispatch(e)
  BY <1>24, DispatchKeeps
<1> QED
  BY <1>3, <1>4, <1>5, <1>6, <1>7, <1>8, <1>9, <1>10, <1>11, <1>12, <1>13, <1>14, <1>15,
     <1>16, <1>17, <1>18, <1>19, <1>20, <1>21, <1>22, <1>23, <1>24
     DEF Thread, Startup, ThreadMain, Saving, ShuttingDown

-----------------------------------------------------------------------------
(* What the entry points make of one engine.                               *)

(* The screen changes requests and flags of an engine and leaves its       *)
(* worker, its image and its answers alone.                                *)
Touches(r, n) ==
  /\ n \in EngineRec /\ Sane(n) /\ (Idle(n) <=> Idle(r))
  /\ n.pc = r.pc /\ n.end = r.end /\ n.disk = r.disk /\ n.ready = r.ready
  /\ n.saved = r.saved /\ n.taken = r.taken

LEMMA SameTouches == ASSUME NEW r \in EngineRec, Sane(r) PROVE Touches(r, r)
BY DEF Touches

LEMMA PausedTouches ==
  ASSUME NEW r \in EngineRec, Sane(r), NEW p \in BOOLEAN
  PROVE  /\ Touches(r, [r EXCEPT !.paused = p])
         /\ Toks([r EXCEPT !.paused = p]) = Toks(r)
<1> DEFINE n == [r EXCEPT !.paused = p]
<1>1. n \in EngineRec
  BY DEF EngineRec
<1>2. /\ SameKept(r, n) /\ n.pc = r.pc /\ n.state = r.state /\ n.stop = r.stop
      /\ n.ckpt = r.ckpt /\ n.shut = r.shut /\ n.ready = r.ready /\ n.disk = r.disk
      /\ n.saved = r.saved /\ n.end = r.end /\ n.next = r.next
  BY EngineFields DEF EngineRec, SameKept
<1>3. Points1(n)
  BY <1>2, EngineFields DEF Points1, Idle, Sane, SameKept
<1>4. Idle(n) <=> Idle(r)
  BY <1>2 DEF Idle
<1> HIDE DEF n
<1>5. Toks(n) = Toks(r) /\ Once(n) /\ Answers1(n)
  BY <1>2, <1>4, SameKeptGood DEF Sane
<1>6. Touches(r, n)
  BY <1>1, <1>2, <1>3, <1>4, <1>5 DEF Touches, Sane, SameKept
<1> QED
  BY <1>5, <1>6 DEF n

(* stopWithCompletion without a completion, or for an engine that is idle. *)
LEMMA StoppedIdle ==
  ASSUME NEW r \in EngineRec, NEW t, Idle(r)
  PROVE  Stopped(r, t) = r
BY DEF Stopped, Idle

LEMMA StoppedTouches ==
  ASSUME NEW r \in EngineRec, Sane(r), ~Idle(r), NEW t \in Token, t \notin Toks(r),
         t.kind \in {"reset", "force"}
  PROVE  Touches(r, Stopped(r, t)) /\ Toks(Stopped(r, t)) = Toks(r) \cup {t}
<1> DEFINE k == [r EXCEPT !.stopDone = Append(@, t)]
           q == Append(r.stopDone, t)
<1>1. t # NoToken /\ r.state \in States /\ r.state # "Idle"
  BY TokenFields, EngineFields DEF Idle
<1>2. /\ q \in Seq(Token) /\ Elems(q) = Elems(r.stopDone) \cup {t} /\ Single(q)
  BY EngineFields, ElemsAppend, SingleAppend DEF Toks, Sane, Once
<1>3. /\ k \in EngineRec /\ k.stopDone = q /\ k.pc = r.pc /\ k.state = r.state
      /\ k.stop = r.stop /\ k.ckpt = r.ckpt /\ k.shut = r.shut /\ k.ready = r.ready
      /\ k.disk = r.disk /\ k.saved = r.saved /\ k.end = r.end /\ k.next = r.next
      /\ k.taken = r.taken /\ k.ckptDone = r.ckptDone /\ k.shutDone = r.shutDone
  BY <1>2, EngineFields DEF EngineRec
<1> DEFINE n == Stopped(r, t)
<1>4. n = IF r.state \in {"Starting", "Running", "Checkpointing"}
          THEN [k EXCEPT !.stop = TRUE, !.paused = FALSE, !.state = "Stopping"] ELSE k
  BY <1>1 DEF Stopped
<1> HIDE DEF k, n, q
<1>5. /\ n \in EngineRec /\ n.stopDone = q /\ n.pc = r.pc /\ n.state # "Idle"
      /\ n.ckpt = r.ckpt /\ n.shut = r.shut /\ n.ready = r.ready
      /\ n.disk = r.disk /\ n.saved = r.saved /\ n.end = r.end /\ n.next = r.next
      /\ n.taken = r.taken /\ n.ckptDone = r.ckptDone /\ n.shutDone = r.shutDone
  <2>1. CASE r.state \in {"Starting", "Running", "Checkpointing"}
    BY <1>1, <1>3, <1>4, <2>1 DEF EngineRec, States
  <2>2. CASE r.state \notin {"Starting", "Running", "Checkpointing"}
    BY <1>1, <1>3, <1>4, <2>2
  <2> QED
    BY <2>1, <2>2
<1>6. Points1(n)
  BY <1>1, <1>5, EngineFields DEF Points1, Idle, Sane
<1>7. Answers1(n)
  BY <1>2, <1>5, EngineFields DEF Answers1, Sane, Idle
<1>8. Once(n) /\ Toks(n) = Toks(r) \cup {t}
  BY <1>2, <1>5 DEF Once, Toks, Sane
<1>9. Touches(r, n)
  BY <1>1, <1>5, <1>6, <1>7, <1>8 DEF Touches, Sane, Idle
<1> QED
  BY <1>8, <1>9 DEF n

LEMMA SaveAskedTouches ==
  ASSUME NEW r \in EngineRec, Sane(r), ~SaveRefused(r), NEW t \in Token, t \notin Toks(r),
         t.kind = "save"
  PROVE  Touches(r, SaveAsked(r, t)) /\ Toks(SaveAsked(r, t)) = Toks(r) \cup {t}
<1> DEFINE n == SaveAsked(r, t)
<1>1. n = [r EXCEPT !.ckpt = TRUE, !.ckptDone = t, !.state = "Checkpointing"]
  BY DEF SaveAsked
<1>2. r.state = "Running" /\ ~r.ckpt /\ ~r.shut /\ r.ready /\ r.ckptDone = NoToken
  BY EngineFields DEF SaveRefused, Sane, Points1
<1> HIDE DEF n
<1>3. t # NoToken /\ t \in MaybeToken /\ "Checkpointing" \in States
  BY TokenFields DEF States
<1>4. /\ n \in EngineRec /\ n.stopDone = r.stopDone /\ n.pc = r.pc /\ n.state = "Checkpointing"
      /\ n.ckpt = TRUE /\ n.shut = r.shut /\ n.ready = r.ready /\ n.stop = r.stop
      /\ n.disk = r.disk /\ n.saved = r.saved /\ n.end = r.end /\ n.next = r.next
      /\ n.taken = r.taken /\ n.ckptDone = t /\ n.shutDone = r.shutDone
  BY <1>1, <1>3, EngineFields DEF EngineRec
<1>5. Points1(n)
  BY <1>2, <1>3, <1>4, EngineFields DEF Points1, Idle, Sane, Reading
<1>6. Kept(n.ckptDone) = {t} /\ Kept(n.shutDone) = Kept(r.shutDone) /\ Kept(r.ckptDone) = {}
  BY <1>2, <1>3, <1>4 DEF Kept
<1>7. Answers1(n)
  BY <1>2, <1>4, <1>6 DEF Answers1, Sane, Idle
<1>8. Once(n) /\ Toks(n) = Toks(r) \cup {t}
  BY <1>4, <1>6 DEF Once, Toks, Sane
<1>9. Touches(r, n)
  BY <1>2, <1>4, <1>5, <1>7, <1>8 DEF Touches, Sane, Idle
<1> QED
  BY <1>8, <1>9 DEF n

LEMMA ShutdownAskedTouches ==
  ASSUME NEW r \in EngineRec, Sane(r), ~ShutdownRefused(r), NEW t \in Token, t \notin Toks(r),
         t.kind \in {"shutdown", "restart"}
  PROVE  Touches(r, ShutdownAsked(r, t)) /\ Toks(ShutdownAsked(r, t)) = Toks(r) \cup {t}
<1> DEFINE n == ShutdownAsked(r, t)
<1>1. n = [r EXCEPT !.shut = TRUE, !.shutDone = t, !.paused = FALSE]
  BY DEF ShutdownAsked
<1>2. r.state = "Running" /\ ~r.ckpt /\ ~r.shut /\ r.ready /\ r.shutDone = NoToken
  BY EngineFields DEF ShutdownRefused, Sane, Points1
<1> HIDE DEF n
<1>3. t # NoToken /\ t \in MaybeToken
  BY TokenFields
<1>4. /\ n \in EngineRec /\ n.stopDone = r.stopDone /\ n.pc = r.pc /\ n.state = r.state
      /\ n.ckpt = r.ckpt /\ n.shut = TRUE /\ n.ready = r.ready /\ n.stop = r.stop
      /\ n.disk = r.disk /\ n.saved = r.saved /\ n.end = r.end /\ n.next = r.next
      /\ n.taken = r.taken /\ n.ckptDone = r.ckptDone /\ n.shutDone = t
  BY <1>1, <1>3, EngineFields DEF EngineRec
<1>5. Points1(n)
  BY <1>2, <1>3, <1>4, EngineFields DEF Points1, Idle, Sane, Reading
<1>6. Kept(n.shutDone) = {t} /\ Kept(n.ckptDone) = Kept(r.ckptDone) /\ Kept(r.shutDone) = {}
  BY <1>2, <1>3, <1>4 DEF Kept
<1>7. Answers1(n)
  BY <1>2, <1>4, <1>6 DEF Answers1, Sane, Idle
<1>8. Once(n) /\ Toks(n) = Toks(r) \cup {t}
  BY <1>4, <1>6 DEF Once, Toks, Sane
<1>9. Touches(r, n)
  BY <1>2, <1>4, <1>5, <1>7, <1>8 DEF Touches, Sane, Idle
<1> QED
  BY <1>8, <1>9 DEF n

-----------------------------------------------------------------------------
(* Engines and requests are numbered as they come.                         *)

LEMMA Bounds == /\ MaxEngines \in Nat \ {0} /\ MaxRequests \in Nat \ {0}
                /\ MaxScreens \in Nat \ {0} /\ PausesInBackground \in BOOLEAN
BY EngineAssumption

LEMMA EnginesNumbered ==
  ASSUME Numbered
  PROVE  /\ Count \in 0 .. MaxEngines /\ Launched = 1 .. Count /\ NextEngine = Count + 1
         /\ scr.cur <= Count
<1>1. PICK k \in 0 .. MaxEngines : Launched = 1 .. k /\ scr.cur <= k
  BY DEF Numbered
<1>2. Cardinality(1 .. k) = k
  BY <1>1, FS_Interval, Bounds
<1>3. Count = k
  BY <1>1, <1>2 DEF Count
<1> QED
  BY <1>1, <1>3 DEF NextEngine, Count

LEMMA RequestsNumbered ==
  ASSUME Numbered, calls \in [Requests -> {-1, 0, 1}], NextRequest \in Requests, Issued
  PROVE  /\ calls[NextRequest] = -1
         /\ calls' \in [Requests -> {-1, 0, 1}]
         /\ calls'[NextRequest] = 0
         /\ \A i \in Requests : i # NextRequest => calls'[i] = calls[i]
         /\ \E m \in 0 .. MaxRequests : Asked' = 1 .. m
<1>1. PICK m \in 0 .. MaxRequests : Asked = 1 .. m
  BY DEF Numbered
<1>2. NextRequest = m + 1
  <2>1. Cardinality(1 .. m) = m
    BY <1>1, FS_Interval, Bounds
  <2> QED
    BY <1>1, <2>1 DEF NextRequest, Asked
<1>3. m + 1 \in Requests /\ m + 1 \notin 1 .. m /\ m \in 0 .. MaxRequests
  BY <1>2
<1>4. calls[NextRequest] = -1
  BY <1>1, <1>2, <1>3 DEF Asked
<1>5. /\ calls' \in [Requests -> {-1, 0, 1}]
      /\ calls'[NextRequest] = 0
      /\ \A i \in Requests : i # NextRequest => calls'[i] = calls[i]
  BY DEF Issued
<1>6. Asked' = Asked \cup {NextRequest}
  BY <1>5 DEF Asked
<1>7. Asked' = 1 .. m + 1 /\ m + 1 \in 0 .. MaxRequests
  BY <1>1, <1>2, <1>3, <1>6, Bounds DEF Requests
<1> QED
  BY <1>4, <1>5, <1>7

(* Every pending token is one of a request already made.                   *)
LEMMA PendingMade ==
  ASSUME IInv, NEW t \in Pending
  PROVE  /\ t \in Token /\ t.eng \in Engines /\ calls[t.id] # -1
         /\ Facts(t)
<1>1. Facts(t)
  BY DEF IInv, Listened
<1>2. \/ \E e \in Engines : t \in Toks(eng[e])
      \/ t \in TokensOf(mainq) \/ t \in jobs \/ t \in InCall(scr)
  BY PendingIs
<1>3. CASE \E e \in Engines : t \in Toks(eng[e])
  <2>1. PICK e \in Engines : t \in Toks(eng[e])
    BY <1>3
  <2>2. eng[e] \in EngineRec /\ calls[t.id] = 0
    BY <2>1 DEF IInv, Types, Stages
  <2>3. t \in Token
    <3>1. \/ t \in Elems(eng[e].stopDone) \/ t \in TokensOf(eng[e].taken)
          \/ t \in Kept(eng[e].ckptDone) \/ t \in Kept(eng[e].shutDone)
      BY <2>1 DEF Toks
    <3>2. /\ eng[e].stopDone \in Seq(Token) /\ eng[e].taken \in Seq(Block)
          /\ eng[e].ckptDone \in MaybeToken /\ eng[e].shutDone \in MaybeToken
      BY <2>2, EngineFields
    <3>3. Elems(eng[e].stopDone) \subseteq Token /\ Elems(eng[e].taken) \subseteq Block
      BY <3>2, ElemsIn
    <3> QED
      BY <3>1, <3>2, <3>3, TokenFields DEF TokensOf, Kept, MaybeToken
  <2> QED
    BY <1>1, <2>2, <2>3, TokenFields
<1>4. CASE t \in TokensOf(mainq)
  <2>1. PICK b \in Elems(mainq) : t = b.tok
    BY <1>4 DEF TokensOf
  <2>2. b \in Block
    BY ElemsIn DEF IInv, Types
  <2>3. calls[t.id] = IF b.stage = "finish" THEN 1 ELSE 0
    BY <2>1 DEF IInv, Stages
  <2> QED
    BY <1>1, <2>1, <2>2, <2>3, TokenFields
<1>5. CASE t \in jobs
  BY <1>1, <1>5, TokenFields DEF IInv, Types, Stages
<1>6. CASE t \in InCall(scr)
  <2>1. t = scr.call.tok /\ scr.call # NoCall
    BY <1>6 DEF InCall
  <2>2. scr.call \in Calls
    BY DEF IInv, Types, Screen
  <2>3. t \in Token
    BY <2>1, <2>2 DEF Calls
  <2> QED
    BY <1>1, <1>6, <2>3, TokenFields DEF IInv, Stages
<1> QED
  BY <1>2, <1>3, <1>4, <1>5, <1>6

(* A new request has a new token.                                          *)
LEMMA Fresh ==
  ASSUME IInv, NEW kind \in Kinds, scr.cur # 0, NextRequest \in Requests, Issued
  PROVE  /\ Ask(kind) \in Token /\ Ask(kind).kind = kind /\ Ask(kind).eng = scr.cur
         /\ Ask(kind).screen = scr.n /\ Ask(kind).id = NextRequest
         /\ scr.cur \in Engines /\ scr.cur \in Launched
         /\ \A u \in Pending : u.id # Ask(kind).id /\ calls'[u.id] = calls[u.id]
         /\ Ask(kind) \notin Pending
<1>1. scr.cur \in 0 .. MaxEngines /\ scr.n \in 0 .. MaxScreens /\ scr.n > 0 /\ scr.cur # 0
  BY DEF IInv, Types, Screen, Opened
<1>2. scr.cur \in Engines /\ scr.cur \in Launched /\ scr.n \in 1 .. MaxScreens
  <2>1. Launched = 1 .. Count /\ scr.cur <= Count /\ Count \in 0 .. MaxEngines
    BY EnginesNumbered DEF IInv
  <2> QED
    BY <1>1, <2>1, Bounds DEF Engines
<1>3. /\ Ask(kind) \in Token /\ Ask(kind).kind = kind /\ Ask(kind).eng = scr.cur
      /\ Ask(kind).screen = scr.n /\ Ask(kind).id = NextRequest
  BY <1>2 DEF Ask, Token
<1>4. /\ calls[NextRequest] = -1
      /\ \A i \in Requests : i # NextRequest => calls'[i] = calls[i]
  BY RequestsNumbered DEF IInv, Types
<1>5. \A u \in Pending : u.id # Ask(kind).id /\ calls'[u.id] = calls[u.id]
  <2>1. ASSUME NEW u \in Pending PROVE u.id # Ask(kind).id /\ calls'[u.id] = calls[u.id]
    <3>1. calls[u.id] # -1 /\ u.id \in Requests
      BY PendingMade, TokenFields
    <3> QED
      BY <1>3, <1>4, <3>1
  <2> QED
    BY <2>1
<1> QED
  BY <1>2, <1>3, <1>5

-----------------------------------------------------------------------------
(* Steps of the screen that keep its engine.                               *)

AllTouched ==
  /\ eng' \in [Engines -> EngineRec]
  /\ \A f \in Engines : /\ Touches(eng[f], eng'[f])
                        /\ f \notin Launched => eng'[f] = eng[f]

LEMMA TouchedFacts ==
  ASSUME IInv, AllTouched
  PROVE  /\ Launched' = Launched /\ Count' = Count /\ AllSane'
         /\ \A f \in Engines : /\ Idle(eng'[f]) <=> Idle(eng[f])
                               /\ MarkOf(eng'[f], marker)
                               /\ eng'[f].taken = eng[f].taken
         /\ \A f \in Engines \ Launched : eng'[f] = Dormant
<1>1. Launched' = Launched
  BY DEF AllTouched, Touches, Launched
<1>2. AllSane'
  BY DEF AllTouched, Touches, AllSane
<1>3. \A f \in Engines : /\ Idle(eng'[f]) <=> Idle(eng[f])
                         /\ MarkOf(eng'[f], marker)
                         /\ eng'[f].taken = eng[f].taken
  BY DEF AllTouched, Touches, IInv, Marks, MarkOf
<1>4. \A f \in Engines \ Launched : eng'[f] = Dormant
  BY DEF AllTouched, IInv, Numbered
<1> QED
  BY <1>1, <1>2, <1>3, <1>4 DEF Count

LEMMA OneTouched ==
  ASSUME IInv, NEW c \in Engines, c \in Launched, NEW n, Touches(eng[c], n),
         eng' = [eng EXCEPT ![c] = n]
  PROVE  /\ AllTouched /\ eng'[c] = n /\ \A f \in Engines : f # c => eng'[f] = eng[f]
<1>1. eng \in [Engines -> EngineRec] /\ \A f \in Engines : Sane(eng[f])
  BY DEF IInv, Types, AllSane
<1>2. n \in EngineRec
  BY DEF Touches
<1>3. eng'[c] = n /\ \A f \in Engines : f # c => eng'[f] = eng[f]
  BY <1>1
<1>4. eng' \in [Engines -> EngineRec]
  BY <1>1, <1>2
<1> QED
  BY <1>1, <1>3, <1>4, SameTouches DEF AllTouched

LEMMA NoneTouched == ASSUME IInv, eng' = eng PROVE AllTouched
BY SameTouches DEF IInv, Types, AllSane, AllTouched

(* applyPauseState.                                                        *)
LEMMA PausedByTouches ==
  ASSUME IInv, NEW s, s.cur = scr.cur, ShouldPause(s) \in BOOLEAN, eng' = PausedBy(s, eng)
  PROVE  AllTouched /\ \A f \in Engines : Toks(eng'[f]) = Toks(eng[f])
<1>1. CASE scr.cur = 0
  BY <1>1, NoneTouched DEF PausedBy
<1>2. CASE scr.cur # 0
  <2> DEFINE c == scr.cur
             n == [eng[c] EXCEPT !.paused = ShouldPause(s)]
  <2>1. c \in Engines /\ c \in Launched
    <3>1. Launched = 1 .. Count /\ c <= Count /\ Count \in 0 .. MaxEngines /\ c \in 0 .. MaxEngines
      BY EnginesNumbered DEF IInv, Types, Screen
    <3> QED
      BY <1>2, <3>1, Bounds DEF Engines
  <2>2. eng[c] \in EngineRec /\ Sane(eng[c])
    BY <2>1 DEF IInv, Types, AllSane
  <2>3. Touches(eng[c], n) /\ Toks(n) = Toks(eng[c])
    BY <2>2, PausedTouches
  <2>4. eng' = [eng EXCEPT ![c] = n]
    BY <1>2 DEF PausedBy
  <2> HIDE DEF c, n
  <2>5. AllTouched /\ eng'[c] = n /\ \A f \in Engines : f # c => eng'[f] = eng[f]
    BY <2>1, <2>3, <2>4, OneTouched
  <2> QED
    BY <2>3, <2>5
<1> QED
  BY <1>1, <1>2

(* Only the pause state and what is not stated about changes.              *)
LEMMA QuietKeeps ==
  ASSUME IInv, AllTouched, \A f \in Engines : Toks(eng'[f]) = Toks(eng[f]),
         scr' \in Screen, scr'.n = scr.n, scr'.open = scr.open, scr'.cur = scr.cur,
         scr'.saving = scr.saving, scr'.restarting = scr.restarting,
         scr'.shutting = scr.shutting, scr'.forceReq = scr.forceReq,
         scr'.forcing = scr.forcing, scr'.call = scr.call,
         UNCHANGED <<mainq, jobs, marker, calls>>
  PROVE  IInv'
<1>1. /\ Launched' = Launched /\ Count' = Count /\ AllSane'
      /\ \A f \in Engines : /\ Idle(eng'[f]) <=> Idle(eng[f])
                            /\ MarkOf(eng'[f], marker)
                            /\ eng'[f].taken = eng[f].taken
      /\ \A f \in Engines \ Launched : eng'[f] = Dormant
  BY TouchedFacts
<1>2. InCall(scr') = InCall(scr)
  BY DEF InCall
<1>3. Types'
  BY DEF IInv, Types, AllTouched
<1>4. OnePlace'
  BY <1>2 DEF IInv, OnePlace
<1>5. Numbered'
  BY <1>1 DEF IInv, Numbered, Asked
<1>6. Pending' = Pending
  BY <1>2 DEF Pending
<1>7. \A t : (Mine(t)' <=> Mine(t)) /\ (Facts(t)' <=> Facts(t))
  BY <1>1 DEF Facts, Mine, Flag
<1>8. Listened'
  BY <1>6, <1>7 DEF IInv, Listened
<1>9. Stages'
  <2>1. \A b \in Elems(mainq) : b.tok.eng \in Engines
    BY PendingIs, PendingMade DEF TokensOf
  <2>2. \A t \in jobs : t.eng \in Engines
    BY PendingIs, PendingMade
  <2> QED
    BY <1>1, <1>2, <2>1, <2>2 DEF IInv, Stages
<1>10. Alone'
  BY <1>1 DEF IInv, Alone
<1>11. Opened'
  BY DEF IInv, Opened
<1>12. Marks'
  <2>1. \A b : Told(b)' <=> Told(b)
    BY <1>7 DEF Told
  <2> QED
    BY <1>1, <2>1 DEF IInv, Marks
<1>13. Remembered'
  BY <1>6 DEF IInv, Remembered
<1> QED
  BY <1>1, <1>3, <1>4, <1>5, <1>8, <1>9, <1>10, <1>11, <1>12, <1>13 DEF IInv

(* A new request: its token goes to the engine, to the main queue (an idle *)
(* engine answers at once) or into the call the screen still has to make.  *)
Placed(t) ==
  \/ /\ Toks(eng'[scr.cur]) = Toks(eng[scr.cur]) \cup {t}
     /\ mainq' = mainq /\ scr'.call = NoCall
  \/ /\ Toks(eng'[scr.cur]) = Toks(eng[scr.cur]) /\ Idle(eng[scr.cur])
     /\ t.kind \in {"reset", "force"}
     /\ mainq' = mainq \o <<Completion(t, TRUE)>> /\ scr'.call = NoCall
  \/ /\ Toks(eng'[scr.cur]) = Toks(eng[scr.cur]) /\ mainq' = mainq
     /\ \/ scr'.call = [op |-> "save", tok |-> t] /\ t.kind = "save"
        \/ /\ scr'.call = [op |-> "shutdown", tok |-> t]
           /\ t.kind \in {"shutdown", "restart"}

LEMMA PlacedQueue ==
  ASSUME IInv, NEW t \in Token, t \notin Pending, Placed(t), scr.call = NoCall
  PROVE  /\ mainq' \in Seq(Block) /\ SingleTok(mainq')
         /\ \A b \in Elems(mainq') : \/ b \in Elems(mainq)
                                     \/ b = Completion(t, TRUE) /\ InCall(scr') = {}
                                        /\ Toks(eng'[scr.cur]) = Toks(eng[scr.cur])
                                        /\ Idle(eng[scr.cur]) /\ t.kind \in {"reset", "force"}
         /\ Elems(mainq) \subseteq Elems(mainq')
         /\ \/ /\ Toks(eng'[scr.cur]) = Toks(eng[scr.cur]) \cup {t}
               /\ TokensOf(mainq') = TokensOf(mainq) /\ InCall(scr') = {}
            \/ /\ Toks(eng'[scr.cur]) = Toks(eng[scr.cur])
               /\ TokensOf(mainq') = TokensOf(mainq) \cup {t} /\ InCall(scr') = {}
            \/ /\ Toks(eng'[scr.cur]) = Toks(eng[scr.cur])
               /\ TokensOf(mainq') = TokensOf(mainq) /\ InCall(scr') = {t}
<1>1. mainq \in Seq(Block) /\ SingleTok(mainq) /\ t \notin TokensOf(mainq)
  BY PendingIs DEF IInv, Types, OnePlace
<1>2. CASE /\ Toks(eng'[scr.cur]) = Toks(eng[scr.cur]) \cup {t}
           /\ mainq' = mainq /\ scr'.call = NoCall
  BY <1>1, <1>2 DEF InCall
<1>3. CASE /\ Toks(eng'[scr.cur]) = Toks(eng[scr.cur]) /\ Idle(eng[scr.cur])
           /\ t.kind \in {"reset", "force"}
           /\ mainq' = mainq \o <<Completion(t, TRUE)>> /\ scr'.call = NoCall
  <2> DEFINE x == Completion(t, TRUE)
             q == <<x>>
  <2>1. x \in Block /\ x.tok = t
    <3>1. TRUE \in BOOLEAN
      OBVIOUS
    <3> QED
      BY <3>1, CompletionGood
  <2> HIDE DEF x
  <2>2. q \in Seq(Block) /\ Elems(q) = {x} /\ SingleTok(q)
    BY <2>1 DEF Elems, SingleTok
  <2> HIDE DEF q
  <2>3. TokensOf(q) = {t}
    BY <2>1, <2>2 DEF TokensOf
  <2>4. /\ mainq \o q \in Seq(Block) /\ Elems(mainq \o q) = Elems(mainq) \cup {x}
        /\ TokensOf(mainq \o q) = TokensOf(mainq) \cup {t}
    BY <1>1, <2>2, <2>3, ElemsCat
  <2>5. SingleTok(mainq \o q)
    BY <1>1, <2>2, <2>3, SingleCat
  <2>6. mainq' = mainq \o q
    BY <1>3 DEF q, x
  <2>7. InCall(scr') = {}
    BY <1>3 DEF InCall
  <2>8. \A b \in Elems(mainq') : b \in Elems(mainq) \/ b = Completion(t, TRUE)
    BY <2>4, <2>6 DEF x
  <2> QED
    BY <1>3, <2>4, <2>5, <2>6, <2>7, <2>8
<1>4. CASE /\ Toks(eng'[scr.cur]) = Toks(eng[scr.cur]) /\ mainq' = mainq
           /\ \/ scr'.call = [op |-> "save", tok |-> t] /\ t.kind = "save"
              \/ /\ scr'.call = [op |-> "shutdown", tok |-> t]
                 /\ t.kind \in {"shutdown", "restart"}
  <2>1. scr'.call.tok = t /\ scr'.call # NoCall
    <3>1. scr'.call.op \in {"save", "shutdown"} /\ scr'.call.tok = t
      BY <1>4
    <3> QED
      BY <3>1 DEF NoCall
  <2>2. InCall(scr') = {t}
    BY <2>1 DEF InCall
  <2> QED
    BY <1>1, <1>4, <2>2
<1> QED
  BY <1>2, <1>3, <1>4 DEF Placed

LEMMA AskKeeps ==
  ASSUME IInv, NEW kind \in Kinds, Tappable, scr.cur # 0, NextRequest \in Requests, Issued,
         AllTouched, \A f \in Engines : f # scr.cur => eng'[f] = eng[f],
         scr' \in Screen, scr'.n = scr.n, scr'.open = scr.open, scr'.cur = scr.cur,
         Placed(Ask(kind)), UNCHANGED <<jobs, marker>>,
         \/ /\ kind = "force" /\ ~scr.forcing /\ scr'.forceReq /\ scr'.forcing
         \/ /\ kind # "force" /\ ~Busy /\ ~scr'.forceReq /\ scr'.forcing = scr.forcing
            /\ Flag(scr', kind) /\ (kind \in {"restart", "reset"} => NextEngine \in Engines)
  PROVE  IInv'
<1> DEFINE c == scr.cur
<1>0. PICK t : t = Ask(kind)
  OBVIOUS
<1>1. /\ t \in Token /\ t.kind = kind /\ t.eng = c /\ t.screen = scr.n /\ t.id = NextRequest
      /\ c \in Engines /\ c \in Launched
      /\ \A u \in Pending : u.id # t.id /\ calls'[u.id] = calls[u.id]
      /\ t \notin Pending
  BY <1>0, Fresh
<1>2. /\ calls' \in [Requests -> {-1, 0, 1}] /\ calls'[t.id] = 0
      /\ \E m \in 0 .. MaxRequests : Asked' = 1 .. m
  BY <1>1, RequestsNumbered DEF IInv, Types
<1>3. /\ Launched' = Launched /\ Count' = Count /\ AllSane'
      /\ \A f \in Engines : /\ Idle(eng'[f]) <=> Idle(eng[f])
                            /\ MarkOf(eng'[f], marker)
                            /\ eng'[f].taken = eng[f].taken
      /\ \A f \in Engines \ Launched : eng'[f] = Dormant
  BY TouchedFacts
<1>4. scr.call = NoCall /\ scr.open
  BY DEF Tappable
<1>5. Placed(t)
  BY <1>0
<1>6. /\ mainq' \in Seq(Block) /\ SingleTok(mainq')
      /\ \A b \in Elems(mainq') : \/ b \in Elems(mainq)
                                  \/ b = Completion(t, TRUE) /\ InCall(scr') = {}
                                     /\ Toks(eng'[c]) = Toks(eng[c])
                                     /\ Idle(eng[c]) /\ t.kind \in {"reset", "force"}
      /\ Elems(mainq) \subseteq Elems(mainq')
      /\ \/ /\ Toks(eng'[c]) = Toks(eng[c]) \cup {t}
            /\ TokensOf(mainq') = TokensOf(mainq) /\ InCall(scr') = {}
         \/ /\ Toks(eng'[c]) = Toks(eng[c])
            /\ TokensOf(mainq') = TokensOf(mainq) \cup {t} /\ InCall(scr') = {}
         \/ /\ Toks(eng'[c]) = Toks(eng[c])
            /\ TokensOf(mainq') = TokensOf(mainq) /\ InCall(scr') = {t}
  BY <1>1, <1>4, <1>5, PlacedQueue
<1>7. InCall(scr) = {} /\ \A f \in Engines : f # c => Toks(eng'[f]) = Toks(eng[f])
  BY <1>4 DEF InCall
<1>8. /\ \A f \in Engines : t \notin Toks(eng[f])
      /\ t \notin TokensOf(mainq) /\ t \notin jobs
  BY <1>1, PendingIs
<1>9. Types'
  BY <1>2, <1>6 DEF IInv, Types, AllTouched
<1>10. OnePlace'
  <2>1. /\ \A f, g \in Engines : f # g => Toks(eng[f]) \cap Toks(eng[g]) = {}
        /\ \A f \in Engines : Toks(eng[f]) \cap (TokensOf(mainq) \cup jobs) = {}
        /\ TokensOf(mainq) \cap jobs = {}
    BY DEF IInv, OnePlace
  <2>2. ASSUME NEW f \in Engines, NEW g \in Engines, f # g
        PROVE  Toks(eng'[f]) \cap Toks(eng'[g]) = {}
    <3>1. Toks(eng'[c]) \subseteq Toks(eng[c]) \cup {t}
      BY <1>6
    <3>2. Toks(eng[f]) \cap Toks(eng[g]) = {} /\ t \notin Toks(eng[f]) /\ t \notin Toks(eng[g])
      BY <1>8, <2>1, <2>2
    <3>3. CASE f = c
      <4>1. Toks(eng'[g]) = Toks(eng[g])
        BY <1>7, <2>2, <3>3
      <4> QED
        BY <3>1, <3>2, <3>3, <4>1
    <3>4. CASE f # c
      <4>1. Toks(eng'[f]) = Toks(eng[f])
        BY <1>7, <3>4
      <4>2. Toks(eng'[g]) \subseteq Toks(eng[g]) \cup {t}
        BY <1>7, <3>1
      <4> QED
        BY <3>2, <4>1, <4>2
    <3> QED
      BY <3>3, <3>4
  <2>3. \A f \in Engines : Toks(eng'[f]) \cap (TokensOf(mainq') \cup jobs \cup InCall(scr')) = {}
    BY <1>1, <1>6, <1>7, <1>8, <2>1
  <2>4. /\ TokensOf(mainq') \cap (jobs \cup InCall(scr')) = {}
        /\ jobs \cap InCall(scr') = {}
    BY <1>6, <1>8, <2>1
  <2> QED
    BY <1>6, <2>2, <2>3, <2>4 DEF OnePlace
<1>11. Numbered'
  BY <1>2, <1>3 DEF IInv, Numbered
<1>12. ASSUME NEW u \in Pending' PROVE u \in Pending \/ u = t
  <2>1. \/ \E e \in Engines : u \in Toks(eng'[e])
        \/ u \in TokensOf(mainq') \/ u \in jobs' \/ u \in InCall(scr')
    BY <1>12 DEF Pending
  <2> QED
    BY <1>6, <1>7, <2>1, PendingIs
<1>13. \A u \in Pending : Facts(u)
  BY DEF IInv, Listened
<1>14. \A u : Mine(u)' <=> Mine(u)
  BY DEF Mine
<1>15. ASSUME kind # "force", NEW u \in Pending
       PROVE  ~Mine(u) /\ u.kind # "force" /\ ~scr.forceReq
  <2>1. ~scr.saving /\ ~scr.restarting /\ ~scr.shutting /\ ~scr.forceReq
    BY <1>15 DEF Busy
  <2>2. u.kind \in Kinds
    BY PendingMade, TokenFields
  <2> QED
    BY <1>13, <2>1, <2>2 DEF Facts, Flag, Kinds
<1>16. ASSUME kind = "force", NEW u \in Pending PROVE u.kind # "force"
  BY <1>13, <1>16 DEF Facts
<1>17. ASSUME NEW u \in Pending PROVE Facts(u)'
  <2>1. u.eng \in Launched' /\ u.screen <= scr'.n
    BY <1>3, <1>13 DEF Facts
  <2>2. u.kind # "force" /\ (~Mine(u) \/ scr'.forceReq)
    BY <1>15, <1>16
  <2> QED
    BY <1>14, <2>1, <2>2 DEF Facts
<1>18. Facts(t)'
  <2>1. Mine(t)
    BY <1>1, <1>4 DEF Mine
  <2>2. scr.n \in Int
    BY DEF IInv, Types, Screen
  <2>3. t.eng \in Launched' /\ t.screen <= scr'.n
    BY <1>1, <1>3, <2>2
  <2> Mine(t)'
    BY <1>14, <2>1, Zenon
  <2> t.kind = kind /\ t.eng = scr'.cur
    BY <1>1
  <2>4. CASE kind = "force"
    <3>1. scr'.forceReq /\ scr'.forcing
      BY <2>4
    <3> QED
      BY <2>3, <2>4, <3>1 DEF Facts
  <2>5. CASE kind # "force"
    <3>1. kind \in {"restart", "reset"} => Count < MaxEngines
      <4>1. NextEngine = Count + 1 /\ Count \in 0 .. MaxEngines
        BY EnginesNumbered DEF IInv
      <4> QED
        BY <2>5, <4>1, Bounds DEF Engines
    <3> QED
      BY <1>3, <2>3, <2>5, <3>1 DEF Facts
  <2> QED
    BY <2>4, <2>5
<1>19. Listened'
  <2>1. ASSUME NEW u \in Pending' PROVE Facts(u)'
    <3>1. CASE u \in Pending
      BY <1>17, <3>1
    <3>2. CASE u = t
      BY <1>18, <3>2, Zenon
    <3> QED
      BY <1>12, <3>1, <3>2
  <2>2. ASSUME NEW u \in Pending', NEW v \in Pending',
               \/ u.id = v.id
               \/ Mine(u)' /\ Mine(v)' /\ ~scr'.forceReq
               \/ u.kind = "force" /\ v.kind = "force"
        PROVE  u = v
    <3>1. CASE u \in Pending /\ v \in Pending
      <4>1. \/ u.id = v.id
            \/ Mine(u) /\ Mine(v) /\ ~scr.forceReq
            \/ u.kind = "force" /\ v.kind = "force"
        BY <1>14, <1>15, <2>2, <3>1
      <4> QED
        BY <3>1, <4>1 DEF IInv, Listened
    <3>2. CASE u \in Pending /\ v = t
      BY <1>1, <1>14, <1>15, <1>16, <2>2, <3>2
    <3>3. CASE u = t /\ v \in Pending
      BY <1>1, <1>14, <1>15, <1>16, <2>2, <3>3
    <3> QED
      BY <1>12, <3>1, <3>2, <3>3
  <2> QED
    BY <2>1, <2>2 DEF Listened
<1>20. Stages'
  <2>1. ASSUME NEW f \in Engines, NEW u \in Toks(eng'[f]) PROVE u.eng = f /\ calls'[u.id] = 0
    <3>1. CASE u = t
      <4>1. f = c
        BY <1>7, <1>8, <2>1, <3>1
      <4> QED
        BY <1>1, <1>2, <3>1, <4>1
    <3>2. CASE u # t
      <4>1. u \in Toks(eng[f])
        BY <1>6, <1>7, <2>1, <3>2
      <4>2. u \in Pending
        BY <4>1, PendingIs
      <4> QED
        BY <1>1, <4>1, <4>2 DEF IInv, Stages
    <3> QED
      BY <3>1, <3>2
  <2>2. ASSUME NEW b \in Elems(mainq')
        PROVE  /\ b.ok \/ b.stage = "forced" => Idle(eng'[b.tok.eng])
               /\ b.stage = "finish" => b.tok.kind \in {"shutdown", "restart"}
               /\ b.stage = "forced" => b.tok.kind = "force"
               /\ b.stage = "completion" /\ b.tok.kind \in {"reset", "force"} => b.ok
               /\ calls'[b.tok.id] = IF b.stage = "finish" THEN 1 ELSE 0
    <3>1. CASE b \in Elems(mainq)
      <4>1. b.tok \in Pending
        BY <3>1, PendingIs DEF TokensOf
      <4>2. b.tok.eng \in Engines /\ calls'[b.tok.id] = calls[b.tok.id]
        BY <1>1, <4>1, PendingMade
      <4> QED
        BY <1>3, <3>1, <4>2 DEF IInv, Stages
    <3>2. CASE b = Completion(t, TRUE) /\ Idle(eng[c])
      <4>1. b.tok = t /\ b.ok = TRUE /\ b.stage = "completion"
        BY <1>1, <3>2, CompletionGood
      <4> QED
        BY <1>1, <1>2, <1>3, <3>2, <4>1
    <3> QED
      BY <1>6, <3>1, <3>2
  <2>3. ASSUME NEW u \in jobs
        PROVE  Idle(eng'[u.eng]) /\ u.kind = "force" /\ calls'[u.id] = 0
    <3>1. u \in Pending
      BY PendingIs
    <3>2. u.eng \in Engines /\ calls'[u.id] = calls[u.id]
      BY <1>1, <3>1, PendingMade
    <3> QED
      BY <1>3, <3>2 DEF IInv, Stages
  <2>4. \A u \in InCall(scr') : calls'[u.id] = 0
    BY <1>2, <1>6
  <2>5. scr'.call # NoCall =>
          /\ scr'.call.op = "save" => scr'.call.tok.kind = "save"
          /\ scr'.call.op = "shutdown" => scr'.call.tok.kind \in {"shutdown", "restart"}
    BY <1>5 DEF Placed
  <2> QED
    BY <2>1, <2>2, <2>3, <2>4, <2>5 DEF Stages
<1>21. Alone'
  BY <1>3 DEF IInv, Alone
<1>22. Opened'
  <2>1. scr'.forcing => scr'.forceReq
    BY DEF Busy, IInv, Opened
  <2> QED
    BY <1>4, <2>1 DEF IInv, Opened
<1>23. Marks'
  <2>1. ASSUME NEW b, Told(b) \/ ~Resumable(b), b.tok \in Pending \/ ~Resumable(b)
        PROVE  Told(b)'
    BY <1>14, <1>15, <2>1 DEF Told
  <2>2. ASSUME NEW f \in Engines, NEW b \in Elems(eng'[f].taken) PROVE Told(b)'
    <3>1. b \in Elems(eng[f].taken)
      BY <1>3, <2>2
    <3>2. b.tok \in Pending /\ Told(b)
      BY <3>1, PendingIs, BlockTokens DEF IInv, Marks
    <3> QED
      BY <2>1, <3>2
  <2>3. ASSUME NEW b \in Elems(mainq')
        PROVE  Told(b)' /\ (b.stage = "forced" /\ b.ok => ~marker)
    <3>1. CASE b \in Elems(mainq)
      <4>1. b.tok \in Pending
        BY <3>1, PendingIs DEF TokensOf
      <4> QED
        BY <2>1, <3>1, <4>1 DEF IInv, Marks
    <3>2. CASE b = Completion(t, TRUE) /\ t.kind \in {"reset", "force"}
      <4>1. b.tok = t /\ b.stage = "completion"
        BY <1>1, <3>2, CompletionGood
      <4>2. ~Resumable(b)
        BY <3>2, <4>1 DEF Resumable
      <4> QED
        BY <2>1, <4>1, <4>2
    <3> QED
      BY <1>6, <3>1, <3>2
  <2> QED
    BY <1>3, <2>2, <2>3 DEF Marks
<1>24. Remembered'
  <2>1. ASSUME NEW u, u \in Pending \/ u = t PROVE u \in Pending'
    <3>1. \/ \E e \in Engines : u \in Toks(eng'[e])
          \/ u \in TokensOf(mainq') \/ u \in jobs' \/ u \in InCall(scr')
      BY <1>1, <1>6, <1>7, <2>1, PendingIs
    <3> QED
      BY <3>1 DEF Pending
  <2>2. \A i \in Requests : i # t.id => calls'[i] = calls[i]
    BY <1>1, RequestsNumbered DEF IInv, Types
  <2> QED
    BY <2>1, <2>2 DEF IInv, Remembered
<1> QED
  BY <1>3, <1>9, <1>10, <1>11, <1>19, <1>20, <1>21, <1>22, <1>23, <1>24 DEF IInv

(* The engine of the screen.                                               *)
LEMMA CurHere ==
  ASSUME IInv, scr.cur # 0
  PROVE  /\ scr.cur \in Engines /\ scr.cur \in Launched
         /\ eng \in [Engines -> EngineRec]
         /\ eng[scr.cur] \in EngineRec /\ Sane(eng[scr.cur])
<1>1. Launched = 1 .. Count /\ scr.cur <= Count /\ Count \in 0 .. MaxEngines
      /\ scr.cur \in 0 .. MaxEngines
  BY EnginesNumbered DEF IInv, Types, Screen
<1>2. scr.cur \in Engines /\ scr.cur \in Launched
  BY <1>1, Bounds DEF Engines
<1> QED
  BY <1>2 DEF IInv, Types, AllSane

(* stopWithCompletion places the completion of a reset or a force-off.     *)
LEMMA StopPlaces ==
  ASSUME IInv, NEW kind \in {"reset", "force"}, scr.cur # 0, scr'.call = NoCall,
         NextRequest \in Requests, Issued,
         eng' = [eng EXCEPT ![scr.cur] = Stopped(@, Ask(kind))],
         mainq' = mainq \o StopAnswer(eng[scr.cur], Ask(kind))
  PROVE  /\ AllTouched /\ \A f \in Engines : f # scr.cur => eng'[f] = eng[f]
         /\ Placed(Ask(kind))
<1> DEFINE c == scr.cur
<1>0. PICK t : t = Ask(kind)
  OBVIOUS
<1>1. /\ c \in Engines /\ c \in Launched /\ eng \in [Engines -> EngineRec]
      /\ eng[c] \in EngineRec /\ Sane(eng[c])
  BY CurHere
<1>2. t \in Token /\ t.kind = kind /\ t \notin Pending
  <2>1. kind \in Kinds
    BY DEF Kinds
  <2> QED
    BY <1>0, <2>1, Fresh
<1>3. t \notin Toks(eng[c])
  BY <1>1, <1>2, PendingIs
<1>4. mainq \in Seq(Block)
  BY DEF IInv, Types
<1>5. CASE Idle(eng[c])
  <2>1. Stopped(eng[c], t) = eng[c]
    BY <1>1, <1>5, StoppedIdle
  <2>2. eng' = eng
    BY <1>0, <1>1, <2>1
  <2>3. StopAnswer(eng[c], t) = <<Completion(t, TRUE)>>
    BY <1>2, <1>5, TokenFields DEF StopAnswer, BlocksOf, Idle
  <2>4. mainq' = mainq \o <<Completion(t, TRUE)>>
    BY <1>0, <2>3
  <2>5. Placed(t)
    BY <1>2, <1>5, <2>2, <2>4 DEF Placed
  <2> QED
    BY <1>0, <2>2, <2>5, NoneTouched
<1>6. CASE ~Idle(eng[c])
  <2>1. Touches(eng[c], Stopped(eng[c], t)) /\ Toks(Stopped(eng[c], t)) = Toks(eng[c]) \cup {t}
    BY <1>1, <1>2, <1>3, <1>6, StoppedTouches
  <2>2. PICK n : n = Stopped(eng[c], t)
    OBVIOUS
  <2>3. Touches(eng[c], n) /\ Toks(n) = Toks(eng[c]) \cup {t}
    BY <2>1, <2>2
  <2>4. eng' = [eng EXCEPT ![c] = n]
    BY <1>0, <2>2
  <2>5. AllTouched /\ eng'[c] = n /\ \A f \in Engines : f # c => eng'[f] = eng[f]
    BY <1>1, <2>3, <2>4, OneTouched
  <2>6. mainq' = mainq
    <3>1. StopAnswer(eng[c], t) = <<>>
      BY <1>6 DEF StopAnswer, Idle
    <3> QED
      BY <1>0, <1>4, <3>1
  <2>7. Placed(t)
    BY <2>3, <2>5, <2>6 DEF Placed
  <2> QED
    BY <1>0, <2>5, <2>7
<1> QED
  BY <1>5, <1>6

LEMMA ForcePowerOffKeeps ==
  ASSUME IInv, Tappable, ForcePowerOff
  PROVE  IInv'
<1>1. /\ scr.cur # 0 /\ ~scr.forcing /\ NextRequest \in Requests /\ Issued
      /\ scr' = [scr EXCEPT !.forceReq = TRUE, !.forcing = TRUE, !.shutting = FALSE,
                            !.restarting = FALSE, !.saving = FALSE]
      /\ eng' = [eng EXCEPT ![scr.cur] = Stopped(@, Ask("force"))]
      /\ mainq' = mainq \o StopAnswer(eng[scr.cur], Ask("force"))
      /\ UNCHANGED <<jobs, marker>>
  BY DEF ForcePowerOff, CanForcePowerOff, CanRequest
<1>2. scr \in Screen /\ scr.call = NoCall
  BY DEF IInv, Types, Tappable
<1>3. /\ scr' \in Screen /\ scr'.n = scr.n /\ scr'.open = scr.open /\ scr'.cur = scr.cur
      /\ scr'.forceReq = TRUE /\ scr'.forcing = TRUE /\ scr'.call = NoCall
  BY <1>1, <1>2 DEF Screen
<1>4. "force" \in {"reset", "force"} /\ "force" \in Kinds
  BY DEF Kinds
<1>5. /\ AllTouched /\ \A f \in Engines : f # scr.cur => eng'[f] = eng[f]
      /\ Placed(Ask("force"))
  BY <1>1, <1>3, <1>4, StopPlaces
<1> QED
  BY <1>1, <1>3, <1>4, <1>5, AskKeeps

(* resetTapped with a machine that has to be stopped first.                *)
LEMMA ResetAsks ==
  ASSUME IInv, Tappable, ~Busy, scr.cur # 0, CanRequest, NextEngine \in Engines,
         scr' = [scr EXCEPT !.restarting = TRUE, !.userPaused = FALSE],
         eng' = [eng EXCEPT ![scr.cur] = Stopped(@, Ask("reset"))],
         mainq' = mainq \o StopAnswer(eng[scr.cur], Ask("reset")),
         Issued, UNCHANGED <<jobs, marker>>
  PROVE  IInv'
<1>2. scr \in Screen /\ scr.call = NoCall /\ NextRequest \in Requests
  BY DEF IInv, Types, Tappable, CanRequest
<1>3. /\ scr' \in Screen /\ scr'.n = scr.n /\ scr'.open = scr.open /\ scr'.cur = scr.cur
      /\ scr'.forceReq = scr.forceReq /\ scr'.forcing = scr.forcing /\ scr'.call = NoCall
      /\ scr'.restarting = TRUE
  BY <1>2 DEF Screen
<1>4. "reset" \in {"reset", "force"} /\ "reset" \in Kinds /\ "reset" # "force"
  BY DEF Kinds
<1>5. /\ AllTouched /\ \A f \in Engines : f # scr.cur => eng'[f] = eng[f]
      /\ Placed(Ask("reset"))
  BY <1>2, <1>3, <1>4, StopPlaces
<1>6. ~scr'.forceReq /\ Flag(scr', "reset")
  BY <1>3 DEF Busy, Flag
<1> QED
  BY <1>2, <1>3, <1>4, <1>5, <1>6, AskKeeps

(* saveAndCloseTapped on a running firmware guest.                         *)
LEMMA SaveAsks ==
  ASSUME IInv, Tappable, ~Busy, scr.cur # 0, CanRequest,
         scr' = [scr EXCEPT !.saving = TRUE, !.call = [op |-> "save", tok |-> Ask("save")]],
         Issued, UNCHANGED <<eng, mainq, jobs, marker>>
  PROVE  IInv'
<1>1. "save" \in Kinds /\ "save" # "force" /\ "save" \notin {"restart", "reset"}
  BY DEF Kinds
<1>2. scr \in Screen /\ scr.call = NoCall /\ NextRequest \in Requests
  BY DEF IInv, Types, Tappable, CanRequest
<1>0. PICK t : t = Ask("save")
  OBVIOUS
<1>3. t \in Token /\ t.kind = "save"
  BY <1>0, <1>1, <1>2, Fresh
<1>4. [op |-> "save", tok |-> t] \in Calls
  BY <1>3 DEF Calls
<1>5. /\ scr' \in Screen /\ scr'.n = scr.n /\ scr'.open = scr.open /\ scr'.cur = scr.cur
      /\ scr'.forceReq = scr.forceReq /\ scr'.forcing = scr.forcing
      /\ scr'.call = [op |-> "save", tok |-> t] /\ scr'.saving = TRUE
  BY <1>0, <1>2, <1>4 DEF Screen
<1>6. AllTouched
  BY NoneTouched
<1>7. Placed(t)
  BY <1>3, <1>5 DEF Placed
<1>8. ~scr'.forceReq /\ Flag(scr', "save")
  BY <1>5 DEF Busy, Flag
<1> QED
  BY <1>0, <1>1, <1>2, <1>5, <1>6, <1>7, <1>8, AskKeeps

LEMMA PauseIsBoolean == ASSUME NEW s \in Screen PROVE ShouldPause(s) \in BOOLEAN
BY Bounds DEF Screen, ShouldPause

LEMMA ShutDownTappedKeeps ==
  ASSUME IInv, ShutDownTapped
  PROVE  IInv'
<1>1. PICK kind \in {"shutdown", "restart"} :
        /\ Tappable /\ ~Busy /\ scr.cur # 0 /\ CanRequest
        /\ kind = "restart" =>
             /\ IsRunningFirmware(eng[scr.cur]) /\ IsRunning(eng[scr.cur])
             /\ NextEngine \in Engines
        /\ scr' = [scr EXCEPT !.shutting = TRUE, !.userPaused = FALSE,
                              !.call = [op |-> "shutdown", tok |-> Ask(kind)]]
        /\ eng' = PausedBy(scr', eng)
        /\ Issued
        /\ UNCHANGED <<mainq, jobs, marker>>
  BY DEF ShutDownTapped
<1>2. kind \in Kinds /\ kind # "force" /\ kind # "reset"
  BY DEF Kinds
<1>3. scr \in Screen /\ scr.call = NoCall /\ NextRequest \in Requests
  BY <1>1 DEF IInv, Types, Tappable, CanRequest
<1>0. PICK t : t = Ask(kind)
  OBVIOUS
<1>4. t \in Token /\ t.kind = kind
  BY <1>0, <1>1, <1>2, <1>3, Fresh
<1>5. [op |-> "shutdown", tok |-> t] \in Calls
  BY <1>4 DEF Calls
<1>6. /\ scr' \in Screen /\ scr'.n = scr.n /\ scr'.open = scr.open /\ scr'.cur = scr.cur
      /\ scr'.forceReq = scr.forceReq /\ scr'.forcing = scr.forcing
      /\ scr'.call = [op |-> "shutdown", tok |-> t] /\ scr'.shutting = TRUE
  BY <1>0, <1>1, <1>3, <1>5 DEF Screen
<1>7. AllTouched /\ \A f \in Engines : Toks(eng'[f]) = Toks(eng[f])
  BY <1>1, <1>6, PauseIsBoolean, PausedByTouches
<1>8. scr.cur \in Engines
  BY <1>1, CurHere
<1>9. \A f \in Engines : f # scr.cur => eng'[f] = eng[f]
  BY <1>1, <1>6, <1>8 DEF PausedBy, IInv, Types
<1>10. Placed(t)
  BY <1>1, <1>4, <1>6, <1>7, <1>8 DEF Placed
<1>11. ~scr'.forceReq /\ Flag(scr', kind)
  BY <1>1, <1>2, <1>6 DEF Busy, Flag
<1> QED
  BY <1>0, <1>1, <1>2, <1>3, <1>6, <1>7, <1>9, <1>10, <1>11, AskKeeps

LEMMA HideKeeps ==
  ASSUME IInv, Hide \/ PauseTapped
  PROVE  IInv'
<1>1. scr \in Screen
  BY DEF IInv, Types
<1>2. /\ scr' \in Screen /\ scr'.n = scr.n /\ scr'.open = scr.open /\ scr'.cur = scr.cur
      /\ scr'.saving = scr.saving /\ scr'.restarting = scr.restarting
      /\ scr'.shutting = scr.shutting /\ scr'.forceReq = scr.forceReq
      /\ scr'.forcing = scr.forcing /\ scr'.call = scr.call
      /\ eng' = PausedBy(scr', eng) /\ UNCHANGED <<mainq, jobs, marker, calls>>
  <2>1. CASE Hide
    BY <1>1, <2>1 DEF Hide, Screen
  <2>2. CASE PauseTapped
    <3>1. scr.cur # 0 /\ scr' = [scr EXCEPT !.userPaused = ~eng[scr.cur].paused]
      BY <2>2 DEF PauseTapped
    <3> QED
      BY <1>1, <2>2, <3>1 DEF PauseTapped, Screen
  <2> QED
    BY <2>1, <2>2
<1>3. AllTouched /\ \A f \in Engines : Toks(eng'[f]) = Toks(eng[f])
  BY <1>2, PauseIsBoolean, PausedByTouches
<1> QED
  BY <1>2, <1>3, QuietKeeps

(* The second half of a request: the token of the call goes to the engine, *)
(* or back to the screen when the engine refuses.                          *)
LEMMA CallKeeps ==
  ASSUME IInv, NEW t, scr.call # NoCall, t = scr.call.tok,
         scr' = [scr EXCEPT !.call = NoCall], UNCHANGED <<jobs, marker, calls>>,
         AllTouched, \A f \in Engines : f # t.eng => eng'[f] = eng[f],
         \/ Toks(eng'[t.eng]) = Toks(eng[t.eng]) \cup {t} /\ mainq' = mainq
         \/ Toks(eng'[t.eng]) = Toks(eng[t.eng]) /\ mainq' = mainq \o <<Completion(t, FALSE)>>
  PROVE  IInv'
<1>1. /\ InCall(scr) = {t} /\ t \in Pending /\ scr \in Screen /\ mainq \in Seq(Block)
  BY PendingIs DEF InCall, IInv, Types
<1>2. t \in Token /\ t.eng \in Engines /\ calls[t.id] = 0 /\ t.kind \in {"save", "shutdown", "restart"}
  <2>1. scr.call \in Calls /\ calls[t.id] = 0
    BY <1>1 DEF Screen, IInv, Stages
  <2>2. scr.call.op \in {"save", "shutdown"}
    BY <2>1 DEF Calls
  <2>3. t.kind \in {"save", "shutdown", "restart"}
    BY <2>2 DEF IInv, Stages
  <2> QED
    BY <1>1, <2>1, <2>3, PendingMade
<1>3. /\ Launched' = Launched /\ Count' = Count /\ AllSane'
      /\ \A f \in Engines : /\ Idle(eng'[f]) <=> Idle(eng[f])
                            /\ MarkOf(eng'[f], marker)
                            /\ eng'[f].taken = eng[f].taken
      /\ \A f \in Engines \ Launched : eng'[f] = Dormant
  BY TouchedFacts
<1>4. /\ scr' \in Screen /\ scr'.n = scr.n /\ scr'.open = scr.open /\ scr'.cur = scr.cur
      /\ scr'.saving = scr.saving /\ scr'.restarting = scr.restarting
      /\ scr'.shutting = scr.shutting /\ scr'.forceReq = scr.forceReq
      /\ scr'.forcing = scr.forcing /\ scr'.call = NoCall
  <2>1. NoCall \in Calls
    BY DEF Calls
  <2> QED
    BY <1>1, <2>1 DEF Screen
<1>5. InCall(scr') = {}
  BY <1>4 DEF InCall
<1>6. /\ \A f \in Engines : t \notin Toks(eng[f])
      /\ t \notin TokensOf(mainq) /\ t \notin jobs
  BY <1>1 DEF IInv, OnePlace
<1>7. /\ mainq' \in Seq(Block) /\ SingleTok(mainq')
      /\ \A b \in Elems(mainq') :
           b \in Elems(mainq) \/ (b.tok = t /\ b.ok = FALSE /\ b.stage = "completion")
      /\ \/ /\ Toks(eng'[t.eng]) = Toks(eng[t.eng]) \cup {t}
            /\ TokensOf(mainq') = TokensOf(mainq)
         \/ /\ Toks(eng'[t.eng]) = Toks(eng[t.eng])
            /\ TokensOf(mainq') = TokensOf(mainq) \cup {t}
  <2>1. CASE Toks(eng'[t.eng]) = Toks(eng[t.eng]) \cup {t} /\ mainq' = mainq
    BY <1>1, <2>1 DEF IInv, OnePlace
  <2>2. CASE Toks(eng'[t.eng]) = Toks(eng[t.eng]) /\ mainq' = mainq \o <<Completion(t, FALSE)>>
    <3> DEFINE x == Completion(t, FALSE)
               q == <<x>>
    <3>1. x \in Block /\ x.tok = t /\ x.ok = FALSE /\ x.stage = "completion"
      <4>1. FALSE \in BOOLEAN
        OBVIOUS
      <4> QED
        BY <1>2, <4>1, CompletionGood
    <3> HIDE DEF x
    <3>2. q \in Seq(Block) /\ Elems(q) = {x} /\ SingleTok(q)
      BY <3>1 DEF Elems, SingleTok
    <3> HIDE DEF q
    <3>3. TokensOf(q) = {t}
      BY <3>1, <3>2 DEF TokensOf
    <3>4. /\ mainq \o q \in Seq(Block) /\ Elems(mainq \o q) = Elems(mainq) \cup {x}
          /\ TokensOf(mainq \o q) = TokensOf(mainq) \cup {t}
      BY <1>1, <3>2, <3>3, ElemsCat
    <3>5. SingleTok(mainq \o q)
      BY <1>1, <1>6, <3>2, <3>3, SingleCat DEF IInv, OnePlace
    <3>6. mainq' = mainq \o q
      BY <2>2 DEF q, x
    <3> QED
      BY <2>2, <3>1, <3>4, <3>5, <3>6
  <2> QED
    BY <2>1, <2>2
<1>8. \A f \in Engines : f # t.eng => Toks(eng'[f]) = Toks(eng[f])
  OBVIOUS
<1>9. Types'
  BY <1>4, <1>7 DEF IInv, Types, AllTouched
<1>10. OnePlace'
  <2>1. /\ \A f, g \in Engines : f # g => Toks(eng[f]) \cap Toks(eng[g]) = {}
        /\ \A f \in Engines : Toks(eng[f]) \cap (TokensOf(mainq) \cup jobs) = {}
        /\ TokensOf(mainq) \cap jobs = {}
    BY DEF IInv, OnePlace
  <2>2. ASSUME NEW f \in Engines, NEW g \in Engines, f # g
        PROVE  Toks(eng'[f]) \cap Toks(eng'[g]) = {}
    <3>1. Toks(eng'[t.eng]) \subseteq Toks(eng[t.eng]) \cup {t}
      BY <1>7
    <3>2. Toks(eng[f]) \cap Toks(eng[g]) = {} /\ t \notin Toks(eng[f]) /\ t \notin Toks(eng[g])
      BY <1>6, <2>1, <2>2
    <3>3. CASE f = t.eng
      <4>1. Toks(eng'[g]) = Toks(eng[g])
        BY <1>8, <2>2, <3>3
      <4> QED
        BY <3>1, <3>2, <3>3, <4>1
    <3>4. CASE f # t.eng
      <4>1. Toks(eng'[f]) = Toks(eng[f])
        BY <1>8, <3>4
      <4>2. Toks(eng'[g]) \subseteq Toks(eng[g]) \cup {t}
        BY <1>8, <3>1
      <4> QED
        BY <3>2, <4>1, <4>2
    <3> QED
      BY <3>3, <3>4
  <2>3. \A f \in Engines : Toks(eng'[f]) \cap (TokensOf(mainq') \cup jobs) = {}
    BY <1>2, <1>6, <1>7, <1>8, <2>1
  <2>4. TokensOf(mainq') \cap jobs = {}
    BY <1>6, <1>7, <2>1
  <2> QED
    BY <1>5, <1>7, <2>2, <2>3, <2>4 DEF OnePlace
<1>11. Numbered'
  BY <1>3, <1>4 DEF IInv, Numbered, Asked
<1>12. ASSUME NEW u \in Pending' PROVE u \in Pending
  <2>1. \/ \E e \in Engines : u \in Toks(eng'[e])
        \/ u \in TokensOf(mainq') \/ u \in jobs' \/ u \in InCall(scr')
    BY <1>12 DEF Pending
  <2> QED
    BY <1>1, <1>5, <1>7, <1>8, <2>1, PendingIs
<1>13. \A u : (Mine(u)' <=> Mine(u)) /\ (Facts(u)' <=> Facts(u))
  BY <1>3, <1>4 DEF Facts, Mine, Flag
<1>14. Listened'
  BY <1>4, <1>12, <1>13 DEF IInv, Listened
<1>15. Stages'
  <2>1. ASSUME NEW f \in Engines, NEW u \in Toks(eng'[f]) PROVE u.eng = f /\ calls'[u.id] = 0
    <3>1. CASE u = t
      <4>1. f = t.eng
        BY <1>6, <1>8, <2>1, <3>1
      <4> QED
        BY <1>2, <3>1, <4>1
    <3>2. CASE u # t
      <4>1. u \in Toks(eng[f])
        BY <1>7, <1>8, <2>1, <3>2
      <4> QED
        BY <4>1 DEF IInv, Stages
    <3> QED
      BY <3>1, <3>2
  <2>2. ASSUME NEW b \in Elems(mainq')
        PROVE  /\ b.ok \/ b.stage = "forced" => Idle(eng'[b.tok.eng])
               /\ b.stage = "finish" => b.tok.kind \in {"shutdown", "restart"}
               /\ b.stage = "forced" => b.tok.kind = "force"
               /\ b.stage = "completion" /\ b.tok.kind \in {"reset", "force"} => b.ok
               /\ calls'[b.tok.id] = IF b.stage = "finish" THEN 1 ELSE 0
    <3>1. CASE b \in Elems(mainq)
      <4>1. b.tok \in Pending
        BY <3>1, PendingIs DEF TokensOf
      <4>2. b.tok.eng \in Engines
        BY <4>1, PendingMade
      <4> QED
        BY <1>3, <3>1, <4>2 DEF IInv, Stages
    <3>2. CASE b.tok = t /\ b.ok = FALSE /\ b.stage = "completion"
      BY <1>2, <3>2
    <3> QED
      BY <1>7, <3>1, <3>2
  <2>3. ASSUME NEW u \in jobs
        PROVE  Idle(eng'[u.eng]) /\ u.kind = "force" /\ calls'[u.id] = 0
    <3>1. u.eng \in Engines
      BY PendingIs, PendingMade
    <3> QED
      BY <1>3, <3>1 DEF IInv, Stages
  <2> QED
    BY <1>4, <1>5, <2>1, <2>2, <2>3 DEF Stages
<1>16. Alone'
  BY <1>3, <1>4 DEF IInv, Alone
<1>17. Opened'
  BY <1>4 DEF IInv, Opened
<1>18. Marks'
  <2>1. \A b : Told(b)' <=> Told(b)
    BY <1>4, <1>13 DEF Told
  <2>2. \A b : b.ok = FALSE => Told(b)
    BY DEF Told, Resumable
  <2>3. ASSUME NEW b \in Elems(mainq') PROVE Told(b)' /\ (b.stage = "forced" /\ b.ok => ~marker)
    BY <1>7, <2>1, <2>2 DEF IInv, Marks
  <2> QED
    BY <1>3, <2>1, <2>3 DEF IInv, Marks
<1>19. Remembered'
  <2>1. ASSUME NEW u \in Pending PROVE u \in Pending'
    <3>1. \/ \E e \in Engines : u \in Toks(eng'[e])
          \/ u \in TokensOf(mainq') \/ u \in jobs' \/ u \in InCall(scr')
      BY <1>1, <1>2, <1>7, <1>8, <2>1, PendingIs
    <3> QED
      BY <3>1 DEF Pending
  <2> QED
    BY <2>1 DEF IInv, Remembered
<1> QED
  BY <1>3, <1>9, <1>10, <1>11, <1>14, <1>15, <1>16, <1>17, <1>18, <1>19 DEF IInv

LEMMA RequestCallKeeps ==
  ASSUME IInv, SaveCall \/ ShutDownCall
  PROVE  IInv'
<1>0. PICK t : t = scr.call.tok
  OBVIOUS
<1>1. scr.call # NoCall
  <2>1. scr.call.op = "save" \/ scr.call.op = "shutdown"
    BY DEF SaveCall, ShutDownCall
  <2>2. NoCall.op = "none"
    BY DEF NoCall
  <2> QED
    BY <2>1, <2>2
<1>2. t \in InCall(scr) /\ t \in Pending
  BY <1>0, <1>1, PendingIs DEF InCall
<1>3. t \in Token /\ t.eng \in Engines /\ t.eng \in Launched /\ t \notin Toks(eng[t.eng]) /\ t # NoToken
  <2>1. t \in Token /\ t.eng \in Engines /\ Facts(t)
    BY <1>2, PendingMade
  <2> QED
    BY <1>2, <2>1, TokenFields DEF IInv, OnePlace, Facts
<1>4. eng \in [Engines -> EngineRec] /\ eng[t.eng] \in EngineRec /\ Sane(eng[t.eng])
      /\ mainq \in Seq(Block)
  BY <1>3 DEF IInv, Types, AllSane
<1>5. scr' = [scr EXCEPT !.call = NoCall] /\ UNCHANGED <<jobs, marker, calls>>
  BY DEF SaveCall, ShutDownCall
<1>6. /\ scr.call.op = "save" => t.kind = "save"
      /\ scr.call.op = "shutdown" => t.kind \in {"shutdown", "restart"}
  BY <1>0, <1>1 DEF IInv, Stages
<1>7. ASSUME NEW n, eng' = [eng EXCEPT ![t.eng] = n], mainq' = mainq \o <<>>,
             Touches(eng[t.eng], n), Toks(n) = Toks(eng[t.eng]) \cup {t}
      PROVE  IInv'
  <2>1. AllTouched /\ eng'[t.eng] = n /\ \A f \in Engines : f # t.eng => eng'[f] = eng[f]
    BY <1>3, <1>7, OneTouched
  <2>2. mainq' = mainq
    BY <1>4, <1>7
  <2> QED
    BY <1>0, <1>1, <1>5, <1>7, <2>1, <2>2, CallKeeps
<1>8. ASSUME eng' = [eng EXCEPT ![t.eng] = eng[t.eng]], mainq' = mainq \o BlocksOf(t, FALSE)
      PROVE  IInv'
  <2>1. eng' = eng
    BY <1>3, <1>4, <1>8
  <2>2. mainq' = mainq \o <<Completion(t, FALSE)>>
    BY <1>3, <1>8 DEF BlocksOf
  <2>3. AllTouched
    BY <2>1, NoneTouched
  <2> QED
    BY <1>0, <1>1, <1>5, <2>1, <2>2, <2>3, CallKeeps
<1>9. CASE SaveCall
  <2>1. CASE SaveRefused(eng[t.eng])
    BY <1>0, <1>8, <1>9, <2>1 DEF SaveCall, SaveAsked
  <2>2. CASE ~SaveRefused(eng[t.eng])
    <3>1. PICK n : n = SaveAsked(eng[t.eng], t)
      OBVIOUS
    <3>2. t.kind = "save"
      BY <1>6, <1>9 DEF SaveCall
    <3>3. Touches(eng[t.eng], n) /\ Toks(n) = Toks(eng[t.eng]) \cup {t}
      BY <1>3, <1>4, <2>2, <3>1, <3>2, SaveAskedTouches
    <3>4. eng' = [eng EXCEPT ![t.eng] = n] /\ mainq' = mainq \o <<>>
      BY <1>0, <1>9, <2>2, <3>1 DEF SaveCall
    <3> QED
      BY <1>7, <3>3, <3>4
  <2> QED
    BY <2>1, <2>2
<1>10. CASE ShutDownCall
  <2>1. CASE ShutdownRefused(eng[t.eng])
    BY <1>0, <1>8, <1>10, <2>1 DEF ShutDownCall, ShutdownAsked
  <2>2. CASE ~ShutdownRefused(eng[t.eng])
    <3>1. PICK n : n = ShutdownAsked(eng[t.eng], t)
      OBVIOUS
    <3>2. t.kind \in {"shutdown", "restart"}
      BY <1>6, <1>10 DEF ShutDownCall
    <3>3. Touches(eng[t.eng], n) /\ Toks(n) = Toks(eng[t.eng]) \cup {t}
      BY <1>3, <1>4, <2>2, <3>1, <3>2, ShutdownAskedTouches
    <3>4. eng' = [eng EXCEPT ![t.eng] = n] /\ mainq' = mainq \o <<>>
      BY <1>0, <1>10, <2>2, <3>1 DEF ShutDownCall
    <3> QED
      BY <1>7, <3>3, <3>4
  <2> QED
    BY <2>1, <2>2
<1> QED
  BY <1>9, <1>10

-----------------------------------------------------------------------------
(* Steps of the screen that replace or leave its engine.                   *)

(* The engine a launch adds.                                               *)
NewEngine(n) ==
  /\ n \in EngineRec /\ Sane(n) /\ Toks(n) = {} /\ n.taken = <<>>
  /\ n.pc = "prepare" /\ ~n.disk /\ ~n.saved

LEMMA StartedGood ==
  ASSUME NEW p \in BOOLEAN
  PROVE  NewEngine([Started EXCEPT !.paused = p])
<1> DEFINE d == Dormant
           r == Started
<1>1. "Starting" \in States /\ "prepare" \in Points /\ "Idle" \in States /\ "none" \in Points
      /\ <<>> \in Seq(Token) /\ <<>> \in Seq(Block) /\ NoToken \in MaybeToken
      /\ TRUE \in BOOLEAN /\ FALSE \in BOOLEAN
  BY TokenFields DEF States, Points
<1>2. d \in EngineRec
  BY <1>1 DEF EngineRec, Dormant
<1>3. r \in EngineRec
  BY <1>1, <1>2 DEF EngineRec, Started
<1>4. /\ r.state = "Starting" /\ r.pc = "prepare" /\ r.stop = FALSE /\ r.ckpt = FALSE
      /\ r.shut = FALSE /\ r.ready = FALSE /\ r.disk = FALSE /\ r.saved = FALSE
      /\ r.stopDone = <<>> /\ r.taken = <<>> /\ r.ckptDone = NoToken /\ r.shutDone = NoToken
  BY DEF Started, Dormant
<1> HIDE DEF r, d
<1>5. Points1(r)
  BY <1>4 DEF Points1, Idle, Reading
<1>6. Toks(r) = {} /\ Answers1(r) /\ Once(r)
  BY <1>4, ElemsEmpty DEF Toks, Answers1, Once, Kept
<1>7. Touches(r, [r EXCEPT !.paused = p]) /\ Toks([r EXCEPT !.paused = p]) = Toks(r)
  BY <1>3, <1>5, <1>6, PausedTouches DEF Sane
<1> QED
  BY <1>4, <1>6, <1>7 DEF NewEngine, Touches, r

LEMMA RelaunchGives ==
  ASSUME IInv, NEW s \in Screen, NextEngine \in Engines, NEW l \in LaunchedOn(s, eng),
         scr' = l.s, eng' = l.es
  PROVE  /\ scr' = [s EXCEPT !.cur = scr'.cur] /\ scr' \in Screen
         /\ \/ eng' = eng /\ scr'.cur = 0
            \/ /\ scr'.cur = NextEngine
               /\ \E n : NewEngine(n) /\ eng' = [eng EXCEPT ![NextEngine] = n]
<1> DEFINE e == NextEngine
           z == [s EXCEPT !.cur = e]
           es == [eng EXCEPT ![e] = Started]
<1>1. eng \in [Engines -> EngineRec] /\ e \in 1 .. MaxEngines /\ MaxEngines \in Nat
  BY Bounds DEF IInv, Types, Engines
<1>2. z \in Screen /\ z.cur = e /\ e # 0
  BY <1>1 DEF Screen
<1>3. CASE l = [s |-> z, es |-> PausedBy(z, es)]
  <2>1. ShouldPause(z) \in BOOLEAN
    BY <1>2, PauseIsBoolean
  <2>2. PICK p \in BOOLEAN : p = ShouldPause(z)
    BY <2>1
  <2>3. PausedBy(z, es) = [es EXCEPT ![e].paused = p]
    BY <1>2, <2>2 DEF PausedBy
  <2>4. PICK n : n = [Started EXCEPT !.paused = p]
    OBVIOUS
  <2>5. [es EXCEPT ![e].paused = p] = [eng EXCEPT ![e] = n]
    BY <1>1, <2>4 DEF Engines
  <2>6. NewEngine(n)
    BY <2>2, <2>4, StartedGood
  <2>7. scr' = z /\ eng' = [eng EXCEPT ![e] = n]
    BY <1>3, <2>3, <2>5
  <2>8. scr'.cur = e
    BY <1>2, <2>7
  <2> QED
    BY <1>2, <2>6, <2>7, <2>8
<1>4. CASE l = [s |-> [s EXCEPT !.cur = 0], es |-> eng]
  <2>1. scr' = [s EXCEPT !.cur = 0] /\ eng' = eng
    BY <1>4
  <2>2. 0 \in 0 .. MaxEngines
    BY <1>1
  <2>3. scr' \in Screen /\ scr'.cur = 0
    BY <2>1, <2>2 DEF Screen
  <2> QED
    BY <2>1, <2>3
<1> QED
  BY <1>3, <1>4 DEF LaunchedOn

(* The screen keeps its engine, gives it up or has a new one.              *)
EngineKept ==
  \/ eng' = eng /\ scr'.cur \in {scr.cur, 0}
  \/ /\ Count < MaxEngines /\ scr'.cur = Count + 1
     /\ \E n : NewEngine(n) /\ eng' = [eng EXCEPT ![Count + 1] = n]

LEMMA KeptEngines ==
  ASSUME IInv, EngineKept
  PROVE  /\ eng' \in [Engines -> EngineRec] /\ AllSane'
         /\ \A e \in Launched : eng'[e] = eng[e]
         /\ \A e \in Engines : eng'[e] = eng[e] \/ (e = scr'.cur /\ NewEngine(eng'[e]))
         /\ \A e \in Engines : Toks(eng'[e]) = Toks(eng[e])
         /\ \E k \in 0 .. MaxEngines : Launched' = 1 .. k /\ scr'.cur <= k
         /\ Launched \subseteq Launched'
         /\ \A e \in Engines \ Launched' : eng'[e] = Dormant
<1>1. /\ Count \in 0 .. MaxEngines /\ Launched = 1 .. Count /\ scr.cur <= Count
      /\ scr.cur \in 0 .. MaxEngines /\ MaxEngines \in Nat
  BY EnginesNumbered, Bounds DEF IInv, Types, Screen
<1>2. eng \in [Engines -> EngineRec] /\ \A e \in Engines : Sane(eng[e])
  BY DEF IInv, Types, AllSane
<1>3. \A e \in Engines \ Launched : eng[e] = Dormant
  BY DEF IInv, Numbered
<1>4. Toks(Dormant) = {}
  <2>1. /\ Dormant.stopDone = <<>> /\ Dormant.taken = <<>> /\ Dormant.ckptDone = NoToken
        /\ Dormant.shutDone = NoToken
    BY DEF Dormant
  <2> QED
    BY <2>1, ElemsEmpty DEF Toks, Kept
<1>5. CASE eng' = eng /\ scr'.cur \in {scr.cur, 0}
  <2>1. Launched' = Launched
    BY <1>5 DEF Launched
  <2>2. scr'.cur <= Count
    BY <1>1, <1>5
  <2>3. AllSane'
    BY <1>2, <1>5 DEF AllSane
  <2>4. \E k \in 0 .. MaxEngines : Launched' = 1 .. k /\ scr'.cur <= k
    BY <1>1, <2>1, <2>2
  <2> QED
    BY <1>2, <1>3, <1>5, <2>1, <2>3, <2>4
<1>6. CASE /\ Count < MaxEngines /\ scr'.cur = Count + 1
           /\ \E n : NewEngine(n) /\ eng' = [eng EXCEPT ![Count + 1] = n]
  <2>1. PICK n : NewEngine(n) /\ eng' = [eng EXCEPT ![Count + 1] = n]
    BY <1>6
  <2>2. PICK k \in 1 .. MaxEngines : k = Count + 1
    BY <1>1, <1>6
  <2>3. k \in Engines /\ n \in EngineRec /\ Sane(n) /\ n.pc = "prepare" /\ Toks(n) = {}
    BY <2>1, <2>2 DEF Engines, NewEngine
  <2>4. eng'[k] = n /\ \A e \in Engines : e # k => eng'[e] = eng[e]
    BY <1>2, <2>1, <2>2, <2>3
  <2>5. eng' \in [Engines -> EngineRec]
    BY <1>2, <2>1, <2>2, <2>3
  <2>6. k \notin Launched
    BY <1>1, <2>2
  <2>7. Launched' = Launched \cup {k}
    BY <2>3, <2>4 DEF Launched
  <2>8. Launched' = 1 .. k
    BY <1>1, <2>2, <2>7
  <2>9. AllSane'
    BY <1>2, <2>3, <2>4 DEF AllSane
  <2>10. \A e \in Engines : Toks(eng'[e]) = Toks(eng[e])
    BY <1>3, <1>4, <2>3, <2>4, <2>6
  <2>11. \A e \in Launched : eng'[e] = eng[e]
    BY <2>4, <2>6 DEF Launched
  <2>12. \A e \in Engines : eng'[e] = eng[e] \/ (e = scr'.cur /\ NewEngine(eng'[e]))
    <3>1. k = scr'.cur /\ NewEngine(eng'[k])
      BY <1>6, <2>1, <2>2, <2>4, Zenon
    <3> QED
      BY <2>4, <3>1, Zenon
  <2>13. k \in 0 .. MaxEngines /\ scr'.cur <= k
    BY <1>1, <1>6, <2>2
  <2>14. \A e \in Engines \ Launched' : eng'[e] = Dormant
    BY <1>3, <2>4, <2>7
  <2> QED
    BY <2>5, <2>7, <2>8, <2>9, <2>10, <2>11, <2>12, <2>13, <2>14 DEF IInv
<1> QED
  BY <1>5, <1>6 DEF EngineKept

(* The completions that are left after the step: the screen is as it was,  *)
(* or it listens to none of them.                                          *)
Unheard ==
  \A u \in Pending' : u.kind # "force" /\ (Mine(u)' => scr'.forceReq)

(* A completion leaves only by running.                                    *)
NoneLost ==
  /\ \A u \in Pending : u \in Pending' \/ calls'[u.id] # 0
  /\ \A i \in Requests : calls'[i] = 0 => calls[i] = 0

LEMMA NoneLostRemembers == ASSUME IInv, NoneLost PROVE Remembered'
<1>1. ASSUME NEW i \in Requests, calls'[i] = 0 PROVE \E u \in Pending' : u.id = i
  <2>1. PICK u \in Pending : u.id = i
    BY <1>1 DEF NoneLost, IInv, Remembered
  <2>2. u \in Pending'
    BY <1>1, <2>1 DEF NoneLost
  <2> QED
    BY <2>1, <2>2
<1> QED
  BY <1>1 DEF Remembered

LEMMA ScreenKeeps ==
  ASSUME IInv, EngineKept, scr.cur = scr'.cur \/ scr.cur = 0 \/ Idle(eng[scr.cur]),
         scr' \in Screen, scr'.n >= scr.n, scr.call = NoCall, scr'.call = NoCall, Opened',
         mainq' \in Seq(Block), SingleTok(mainq'), Elems(mainq') \subseteq Elems(mainq),
         UNCHANGED <<jobs, marker>>,
         calls' \in [Requests -> {-1, 0, 1}], Asked' = Asked,
         \A u \in Pending' : calls'[u.id] = calls[u.id], NoneLost,
         (eng' = eng /\ scr' = scr) \/ Unheard
  PROVE  IInv'
<1>1. /\ eng' \in [Engines -> EngineRec] /\ AllSane'
      /\ \A e \in Launched : eng'[e] = eng[e]
      /\ \A e \in Engines : eng'[e] = eng[e] \/ (e = scr'.cur /\ NewEngine(eng'[e]))
      /\ \A e \in Engines : Toks(eng'[e]) = Toks(eng[e])
      /\ \E k \in 0 .. MaxEngines : Launched' = 1 .. k /\ scr'.cur <= k
      /\ Launched \subseteq Launched'
      /\ \A e \in Engines \ Launched' : eng'[e] = Dormant
  BY KeptEngines
<1>2. InCall(scr) = {} /\ InCall(scr') = {}
  BY DEF InCall
<1>3. TokensOf(mainq') \subseteq TokensOf(mainq)
  BY DEF TokensOf
<1>4. Types'
  BY <1>1 DEF IInv, Types
<1>5. OnePlace'
  BY <1>1, <1>2, <1>3 DEF IInv, OnePlace
<1>6. Numbered'
  BY <1>1 DEF IInv, Numbered
<1>7. ASSUME NEW u \in Pending' PROVE u \in Pending
  <2>1. \/ \E e \in Engines : u \in Toks(eng'[e])
        \/ u \in TokensOf(mainq') \/ u \in jobs' \/ u \in InCall(scr')
    BY <1>7 DEF Pending
  <2> QED
    BY <1>1, <1>2, <1>3, <2>1, PendingIs
<1>8. \A u \in Pending : Facts(u)
  BY DEF IInv, Listened
<1>9. Listened'
  <2>1. CASE eng' = eng /\ scr' = scr
    <3>1. \A t : (Mine(t)' <=> Mine(t)) /\ (Facts(t)' <=> Facts(t))
      BY <2>1 DEF Facts, Mine, Count, Launched
    <3> QED
      BY <1>7, <2>1, <3>1 DEF IInv, Listened
  <2>2. CASE Unheard
    <3>1. \A u \in Pending' : u.kind # "force" /\ (Mine(u)' => scr'.forceReq)
      BY <2>2 DEF Unheard
    <3>2. ASSUME NEW u \in Pending' PROVE Facts(u)'
      <4>1. u.eng \in Launched /\ u.screen <= scr.n /\ u.screen \in Int
        BY <1>7, <1>8, PendingMade, TokenFields, Bounds DEF Facts
      <4>2. scr.n \in Int /\ scr'.n \in Int
        BY DEF IInv, Types, Screen
      <4>3. u.screen <= scr'.n
        BY <4>1, <4>2
      <4>4. u.eng \in Launched'
        BY <1>1, <4>1
      <4> QED
        BY <3>1, <4>3, <4>4 DEF Facts
    <3>3. ASSUME NEW u \in Pending', NEW v \in Pending',
                 \/ u.id = v.id
                 \/ Mine(u)' /\ Mine(v)' /\ ~scr'.forceReq
                 \/ u.kind = "force" /\ v.kind = "force"
          PROVE  u = v
      <4>1. u.id = v.id
        BY <3>1, <3>3
      <4> QED
        BY <1>7, <4>1 DEF IInv, Listened
    <3> QED
      BY <3>2, <3>3 DEF Listened
  <2> QED
    BY <2>1, <2>2
<1>10. Stages'
  <2>1. \A e \in Engines : \A u \in Toks(eng'[e]) : u \in Pending'
    BY DEF Pending
  <2>2. \A u \in TokensOf(mainq') \cup jobs : u \in Pending'
    BY DEF Pending
  <2>3. ASSUME NEW e \in Engines, NEW u \in Toks(eng'[e]) PROVE u.eng = e /\ calls'[u.id] = 0
    BY <1>1, <2>1 DEF IInv, Stages
  <2>4. ASSUME NEW u \in Pending' PROVE u.eng \in Engines /\ eng'[u.eng] = eng[u.eng]
    BY <1>1, <1>7, <1>8 DEF Facts, Launched
  <2>5. ASSUME NEW b \in Elems(mainq')
        PROVE  /\ b.ok \/ b.stage = "forced" => Idle(eng'[b.tok.eng])
               /\ b.stage = "finish" => b.tok.kind \in {"shutdown", "restart"}
               /\ b.stage = "forced" => b.tok.kind = "force"
               /\ b.stage = "completion" /\ b.tok.kind \in {"reset", "force"} => b.ok
               /\ calls'[b.tok.id] = IF b.stage = "finish" THEN 1 ELSE 0
    <3>1. b.tok \in Pending' /\ b \in Elems(mainq)
      BY <2>2 DEF TokensOf
    <3>2. eng'[b.tok.eng] = eng[b.tok.eng] /\ calls'[b.tok.id] = calls[b.tok.id]
      BY <2>4, <3>1
    <3> QED
      BY <3>1, <3>2 DEF IInv, Stages
  <2>6. ASSUME NEW u \in jobs
        PROVE  Idle(eng'[u.eng]) /\ u.kind = "force" /\ calls'[u.id] = 0
    <3>1. eng'[u.eng] = eng[u.eng] /\ calls'[u.id] = calls[u.id]
      BY <2>2, <2>4
    <3> QED
      BY <3>1 DEF IInv, Stages
  <2> QED
    BY <1>2, <2>3, <2>5, <2>6 DEF Stages
<1>11. Alone'
  <2>1. \A e \in Engines : e # scr'.cur => eng'[e] = eng[e]
    BY <1>1
  <2>2. ASSUME NEW e \in Engines, e # scr'.cur PROVE Idle(eng[e])
    <3>1. e # 0 /\ (e # scr.cur => Idle(eng[e]))
      BY DEF Engines, IInv, Alone
    <3> QED
      BY <2>2, <3>1
  <2> QED
    BY <2>1, <2>2 DEF Alone
<1>12. Marks'
  <2>1. \A e \in Engines : MarkOf(eng[e], marker) /\ \A b \in Elems(eng[e].taken) : Told(b)
    BY DEF IInv, Marks
  <2>2. \A n : NewEngine(n) => MarkOf(n, marker) /\ Elems(n.taken) = {}
    BY ElemsEmpty DEF NewEngine, MarkOf
  <2>3. ASSUME NEW b, b.tok \in Pending', Told(b) PROVE Told(b)'
    <3>1. CASE eng' = eng /\ scr' = scr
      BY <2>3, <3>1 DEF Told, Mine
    <3>2. CASE Unheard
      BY <2>3, <3>2 DEF Told, Unheard
    <3> QED
      BY <3>1, <3>2
  <2>4. ASSUME NEW e \in Engines
        PROVE  MarkOf(eng'[e], marker) /\ \A b \in Elems(eng'[e].taken) : Told(b)'
    <3>1. CASE eng'[e] = eng[e]
      <4>1. ASSUME NEW b \in Elems(eng[e].taken) PROVE Told(b)'
        <5>1. b.tok \in Toks(eng'[e])
          BY <3>1, BlockTokens
        <5>2. b.tok \in Pending'
          BY <5>1 DEF Pending
        <5> QED
          BY <2>1, <2>3, <5>2
      <4> QED
        BY <2>1, <3>1, <4>1
    <3>2. CASE NewEngine(eng'[e])
      BY <2>2, <3>2
    <3> QED
      BY <1>1, <3>1, <3>2
  <2>5. ASSUME NEW b \in Elems(mainq')
        PROVE  Told(b)' /\ (b.stage = "forced" /\ b.ok => ~marker)
    <3>1. b \in Elems(mainq) /\ b.tok \in Pending'
      BY DEF Pending, TokensOf
    <3>2. Told(b) /\ (b.stage = "forced" /\ b.ok => ~marker)
      BY <3>1 DEF IInv, Marks
    <3> QED
      BY <2>3, <3>1, <3>2
  <2> QED
    BY <2>4, <2>5 DEF Marks
<1> QED
  BY <1>1, <1>4, <1>5, <1>6, <1>9, <1>10, <1>11, <1>12, NoneLostRemembers DEF IInv

LEMMA StillPending ==
  ASSUME IInv, EngineKept, scr'.call = NoCall, jobs' = jobs, NEW u \in Pending'
  PROVE  \/ \E e \in Engines : u \in Toks(eng[e])
         \/ u \in TokensOf(mainq') \/ u \in jobs
<1>1. \A e \in Engines : Toks(eng'[e]) = Toks(eng[e])
  BY KeptEngines
<1>2. InCall(scr') = {}
  BY DEF InCall
<1>3. \/ \E e \in Engines : u \in Toks(eng'[e])
      \/ u \in TokensOf(mainq') \/ u \in jobs' \/ u \in InCall(scr')
  BY DEF Pending
<1> QED
  BY <1>1, <1>2, <1>3

LEMMA StaysPending ==
  ASSUME IInv, EngineKept, scr.call = NoCall, jobs' = jobs,
         NEW u \in Pending, u \in TokensOf(mainq) => u \in TokensOf(mainq')
  PROVE  u \in Pending'
<1>1. \A e \in Engines : Toks(eng'[e]) = Toks(eng[e])
  BY KeptEngines
<1>2. InCall(scr) = {}
  BY DEF InCall
<1>3. \/ \E e \in Engines : u \in Toks(eng'[e])
      \/ u \in TokensOf(mainq') \/ u \in jobs'
  BY <1>1, <1>2, PendingIs
<1> QED
  BY <1>3 DEF Pending

(* A screen that is not busy waits for no completion.                      *)
LEMMA NobodyListens ==
  ASSUME IInv, ~scr.open \/ ~Busy, NEW u \in Pending
  PROVE  ~Mine(u) /\ u.kind # "force" /\ u.screen \in Int /\ u.screen <= scr.n
<1>1. Facts(u) /\ u.kind \in Kinds /\ u.screen \in Int
  BY PendingMade, TokenFields, Bounds
<1> QED
  BY <1>1 DEF Facts, Mine, Flag, Busy, Kinds

(* A screen without an engine goes away, is opened or gets an engine.      *)
LEMMA FreeScreenKeeps ==
  ASSUME IInv, EngineKept, ~scr.open \/ ~Busy, scr.cur = 0, scr.call = NoCall,
         scr' \in Screen, scr'.n >= scr.n, scr'.call = NoCall, Opened',
         scr'.open => (scr.open /\ scr'.n = scr.n) \/ scr'.n > scr.n,
         UNCHANGED <<mainq, jobs, marker, calls>>
  PROVE  IInv'
<1>1. ASSUME NEW u \in Pending' PROVE u \in Pending
  BY <1>1, StillPending, PendingIs
<1>2. ASSUME NEW u \in Pending' PROVE u.kind # "force" /\ ~Mine(u)'
  <2>1. ~Mine(u) /\ u.kind # "force" /\ u.screen \in Int /\ u.screen <= scr.n
    BY <1>1, <1>2, NobodyListens
  <2>2. scr.n \in Int /\ scr'.n \in Int
    BY DEF IInv, Types, Screen
  <2> QED
    BY <2>1, <2>2 DEF Mine
<1>3. Unheard
  BY <1>2 DEF Unheard
<1>4. /\ mainq' \in Seq(Block) /\ SingleTok(mainq') /\ Elems(mainq') \subseteq Elems(mainq)
      /\ calls' \in [Requests -> {-1, 0, 1}] /\ Asked' = Asked
  BY DEF IInv, Types, OnePlace, Asked
<1>5. NoneLost
  BY StaysPending DEF NoneLost
<1> QED
  BY <1>3, <1>4, <1>5, ScreenKeeps

LEMMA OpenKeeps ==
  ASSUME IInv, Open
  PROVE  IInv'
<1> DEFINE s == NewScreen(scr.n + 1)
<1>1. ~scr.open /\ scr.n < MaxScreens /\ NextEngine \in Engines /\ scr.cur = 0 /\ scr.call = NoCall
      /\ UNCHANGED <<mainq, jobs, marker, calls>>
  BY DEF Open, IInv, Opened
<1>2. scr.n \in 0 .. MaxScreens /\ MaxScreens \in Nat /\ MaxEngines \in Nat
  BY Bounds DEF IInv, Types, Screen
<1>3. /\ s \in Screen /\ s.n = scr.n + 1 /\ s.forceReq = FALSE /\ s.forcing = FALSE
      /\ s.call = NoCall /\ s.open = TRUE
  <2>1. NoCall \in Calls /\ scr.n + 1 \in 0 .. MaxScreens /\ 0 \in 0 .. MaxEngines
        /\ TRUE \in BOOLEAN /\ FALSE \in BOOLEAN
    BY <1>1, <1>2 DEF Calls
  <2> QED
    BY <2>1 DEF NewScreen, Screen
<1> HIDE DEF s
<1>4. PICK l \in LaunchedOn(s, eng) : scr' = l.s /\ eng' = l.es
  BY DEF Open, s
<1>5. /\ scr' = [s EXCEPT !.cur = scr'.cur] /\ scr' \in Screen
      /\ \/ eng' = eng /\ scr'.cur = 0
         \/ /\ scr'.cur = NextEngine
            /\ \E n : NewEngine(n) /\ eng' = [eng EXCEPT ![NextEngine] = n]
  BY <1>1, <1>3, <1>4, RelaunchGives
<1>6. NextEngine = Count + 1 /\ Count \in 0 .. MaxEngines /\ Count < MaxEngines
  <2>1. NextEngine = Count + 1 /\ Count \in 0 .. MaxEngines
    BY EnginesNumbered DEF IInv
  <2> QED
    BY <1>1, <1>2, <2>1 DEF Engines
<1>7. EngineKept
  BY <1>5, <1>6 DEF EngineKept
<1>8. /\ scr'.n = scr.n + 1 /\ scr'.forceReq = FALSE /\ scr'.forcing = FALSE
      /\ scr'.call = NoCall /\ scr'.open = TRUE
  BY <1>3, <1>5 DEF Screen
<1>9. Opened'
  BY <1>2, <1>8 DEF Opened
<1> QED
  BY <1>1, <1>2, <1>5, <1>7, <1>8, <1>9, FreeScreenKeeps

LEMMA ResetLaunches ==
  ASSUME IInv, Tappable, ~Busy, scr.cur = 0, NextEngine \in Engines,
         \E l \in LaunchedOn([scr EXCEPT !.userPaused = FALSE], eng) : scr' = l.s /\ eng' = l.es,
         UNCHANGED <<mainq, jobs, marker, calls>>
  PROVE  IInv'
<1> DEFINE s == [scr EXCEPT !.userPaused = FALSE]
<1>1. scr.open /\ scr.call = NoCall /\ scr.forceReq = FALSE /\ scr \in Screen
  BY DEF Tappable, Busy, IInv, Types, Screen
<1>2. scr.n \in 0 .. MaxScreens /\ MaxScreens \in Nat /\ MaxEngines \in Nat
  BY Bounds DEF IInv, Types, Screen
<1>3. /\ s \in Screen /\ s.n = scr.n /\ s.forceReq = scr.forceReq /\ s.forcing = scr.forcing
      /\ s.call = NoCall /\ s.open = scr.open
  BY <1>1 DEF Screen
<1> HIDE DEF s
<1>4. PICK l \in LaunchedOn(s, eng) : scr' = l.s /\ eng' = l.es
  BY DEF s
<1>5. /\ scr' = [s EXCEPT !.cur = scr'.cur] /\ scr' \in Screen
      /\ \/ eng' = eng /\ scr'.cur = 0
         \/ /\ scr'.cur = NextEngine
            /\ \E n : NewEngine(n) /\ eng' = [eng EXCEPT ![NextEngine] = n]
  BY <1>3, <1>4, RelaunchGives
<1>6. NextEngine = Count + 1 /\ Count \in 0 .. MaxEngines /\ Count < MaxEngines
  <2>1. NextEngine = Count + 1 /\ Count \in 0 .. MaxEngines
    BY EnginesNumbered DEF IInv
  <2> QED
    BY <1>2, <2>1 DEF Engines
<1>7. EngineKept
  BY <1>5, <1>6 DEF EngineKept
<1>8. /\ scr'.n = scr.n /\ scr'.forceReq = scr.forceReq /\ scr'.forcing = scr.forcing
      /\ scr'.call = NoCall /\ scr'.open = scr.open
  BY <1>3, <1>5 DEF Screen
<1>9. Opened'
  BY <1>1, <1>8 DEF IInv, Opened
<1> QED
  BY <1>1, <1>2, <1>5, <1>7, <1>8, <1>9, FreeScreenKeeps

LEMMA FreePops ==
  ASSUME IInv, Tappable, ~Busy, scr.cur = 0, scr' = PoppedScreen(scr),
         UNCHANGED <<eng, mainq, jobs, marker, calls>>
  PROVE  IInv'
<1>1. scr \in Screen /\ scr.call = NoCall /\ scr.n \in 0 .. MaxScreens /\ MaxScreens \in Nat
      /\ 0 \in 0 .. MaxEngines
  BY Bounds DEF Tappable, IInv, Types, Screen
<1>2. /\ scr' \in Screen /\ scr'.n = scr.n /\ scr'.open = FALSE /\ scr'.cur = 0
      /\ scr'.call = NoCall /\ scr'.forcing = scr.forcing /\ scr'.forceReq = scr.forceReq
  BY <1>1 DEF PoppedScreen, Screen
<1>3. Opened'
  BY <1>2 DEF IInv, Opened
<1>4. EngineKept
  BY <1>2 DEF EngineKept
<1> QED
  BY <1>1, <1>2, <1>3, <1>4, FreeScreenKeeps

LEMMA OwnerKeeps ==
  ASSUME IInv, Owner
  PROVE  IInv'
<1>1. CASE Open
  BY <1>1, OpenKeeps
<1>2. CASE ForceTapped
  BY <1>2, ForcePowerOffKeeps DEF ForceTapped
<1>3. CASE SaveTapped
  <2>1. Tappable /\ ~Busy
    BY <1>3 DEF SaveTapped
  <2>2. CASE scr.cur = 0
    BY <1>3, <2>1, <2>2, FreePops DEF SaveTapped
  <2>3. CASE ForcePowerOff
    BY <2>1, <2>3, ForcePowerOffKeeps
  <2>4. CASE /\ scr.cur # 0 /\ CanRequest
             /\ scr' = [scr EXCEPT !.saving = TRUE,
                                   !.call = [op |-> "save", tok |-> Ask("save")]]
             /\ Issued
             /\ UNCHANGED <<eng, mainq, jobs, marker>>
    BY <2>1, <2>4, SaveAsks
  <2> QED
    BY <1>3, <2>2, <2>3, <2>4 DEF SaveTapped
<1>4. CASE ShutDownTapped
  BY <1>4, ShutDownTappedKeeps
<1>5. CASE ResetTapped
  <2>1. Tappable /\ ~Busy
    BY <1>5 DEF ResetTapped
  <2>2. CASE /\ scr.cur = 0 /\ NextEngine \in Engines
             /\ \E l \in LaunchedOn([scr EXCEPT !.userPaused = FALSE], eng) :
                  scr' = l.s /\ eng' = l.es
             /\ UNCHANGED <<mainq, jobs, marker, calls>>
    BY <2>1, <2>2, ResetLaunches
  <2>3. CASE /\ scr.cur # 0 /\ CanRequest /\ NextEngine \in Engines
             /\ scr' = [scr EXCEPT !.restarting = TRUE, !.userPaused = FALSE]
             /\ eng' = [eng EXCEPT ![scr.cur] = Stopped(@, Ask("reset"))]
             /\ mainq' = mainq \o StopAnswer(eng[scr.cur], Ask("reset"))
             /\ Issued
             /\ UNCHANGED <<jobs, marker>>
    BY <2>1, <2>3, ResetAsks
  <2> QED
    BY <1>5, <2>2, <2>3 DEF ResetTapped
<1>6. CASE Hide \/ PauseTapped
  BY <1>6, HideKeeps
<1> QED
  BY <1>1, <1>2, <1>3, <1>4, <1>5, <1>6 DEF Owner

-----------------------------------------------------------------------------
(* The main queue.                                                         *)

LEMMA HeadIs ==
  ASSUME IInv, mainq # <<>>, NEW b, b = Head(mainq)
  PROVE  /\ b \in Block /\ b \in Elems(mainq)
         /\ b.tok \in Token /\ b.tok \in Pending /\ Facts(b.tok)
         /\ Tail(mainq) \in Seq(Block) /\ SingleTok(Tail(mainq))
         /\ Elems(Tail(mainq)) \subseteq Elems(mainq)
         /\ TokensOf(mainq) = {b.tok} \cup TokensOf(Tail(mainq))
         /\ b.tok \notin TokensOf(Tail(mainq))
<1>1. mainq \in Seq(Block) /\ SingleTok(mainq)
  BY DEF IInv, Types, OnePlace
<1>2. /\ Tail(mainq) \in Seq(Block) /\ b \in Block /\ b \in Elems(mainq)
      /\ Elems(mainq) = {b} \cup Elems(Tail(mainq))
      /\ TokensOf(mainq) = {b.tok} \cup TokensOf(Tail(mainq))
      /\ SingleTok(Tail(mainq)) /\ b.tok \notin TokensOf(Tail(mainq))
  BY <1>1, ElemsTail
<1>3. b.tok \in Pending
  BY <1>2, PendingIs
<1> QED
  BY <1>2, <1>3, PendingMade

(* Once a completion has left the queue, no other is of the same request,  *)
(* and the screen listens to no other.                                     *)
LEMMA OthersLeft ==
  ASSUME IInv, mainq # <<>>, NEW b, b = Head(mainq), scr.call = NoCall, NEW u,
         \/ \E e \in Engines : u \in Toks(eng[e])
         \/ u \in TokensOf(Tail(mainq)) \/ u \in jobs
  PROVE  /\ u \in Pending /\ u # b.tok /\ u.id # b.tok.id /\ u.id \in Requests
         /\ Mine(b.tok) /\ ~scr.forceReq => ~Mine(u) /\ u.kind # "force"
         /\ b.tok.kind = "force" => u.kind # "force"
<1>1. /\ b.tok \in Pending /\ b.tok \in TokensOf(mainq)
      /\ TokensOf(mainq) = {b.tok} \cup TokensOf(Tail(mainq))
      /\ b.tok \notin TokensOf(Tail(mainq))
  BY HeadIs
<1>2. u \in Pending
  BY <1>1, PendingIs
<1>3. u # b.tok
  BY <1>1 DEF IInv, OnePlace
<1>4. \A t, v \in Pending :
        \/ t.id = v.id
        \/ Mine(t) /\ Mine(v) /\ ~scr.forceReq
        \/ t.kind = "force" /\ v.kind = "force"
        => t = v
  BY DEF IInv, Listened
<1>5. u.id # b.tok.id
  BY <1>1, <1>2, <1>3, <1>4
<1>6. Facts(u) /\ u.id \in Requests
  BY <1>2, PendingMade, TokenFields
<1>7. ASSUME Mine(b.tok), ~scr.forceReq PROVE ~Mine(u) /\ u.kind # "force"
  BY <1>1, <1>2, <1>3, <1>4, <1>6, <1>7 DEF Facts
<1>8. ASSUME b.tok.kind = "force" PROVE u.kind # "force"
  BY <1>1, <1>2, <1>3, <1>4, <1>8
<1> QED
  BY <1>2, <1>3, <1>5, <1>6, <1>7, <1>8

(* The count of a completion that runs.                                    *)
LEMMA RanOnce ==
  ASSUME IInv, NEW t \in Token, calls[t.id] = 0, Ran(t)
  PROVE  /\ calls' \in [Requests -> {-1, 0, 1}] /\ Asked' = Asked
         /\ calls'[t.id] = 1
         /\ \A i \in Requests : i # t.id => calls'[i] = calls[i]
<1>1. calls \in [Requests -> {-1, 0, 1}] /\ t.id \in Requests
  BY TokenFields DEF IInv, Types
<1>2. calls' = [calls EXCEPT ![t.id] = 1]
  BY <1>1 DEF Ran
<1>3. /\ calls' \in [Requests -> {-1, 0, 1}] /\ calls'[t.id] = 1
      /\ \A i \in Requests : i # t.id => calls'[i] = calls[i]
  BY <1>1, <1>2
<1> QED
  BY <1>3 DEF Asked

(* A completion at the head of the main queue runs.                        *)
LEMMA AnswerKeeps ==
  ASSUME IInv, mainq # <<>>, NEW b, b = Head(mainq), scr.call = NoCall,
         mainq' = Tail(mainq), UNCHANGED <<jobs, marker>>,
         \/ Ran(b.tok) /\ b.stage # "finish"
         \/ calls' = calls /\ b.stage = "finish",
         EngineKept, scr.cur = scr'.cur \/ scr.cur = 0 \/ Idle(eng[scr.cur]),
         scr' \in Screen, scr'.n = scr.n, scr'.open => scr.open, scr'.call = NoCall, Opened',
         \/ eng' = eng /\ scr' = scr
         \/ Mine(b.tok) /\ ~scr.forceReq
         \/ b.tok.kind = "force" /\ (scr'.open => scr'.forceReq)
  PROVE  IInv'
<1>1. /\ b \in Block /\ b \in Elems(mainq) /\ b.tok \in Token
      /\ mainq' \in Seq(Block) /\ SingleTok(mainq') /\ Elems(mainq') \subseteq Elems(mainq)
  BY HeadIs
<1>2. ASSUME NEW u \in Pending'
      PROVE  /\ u.id # b.tok.id /\ u.id \in Requests
             /\ Mine(b.tok) /\ ~scr.forceReq => ~Mine(u) /\ u.kind # "force"
             /\ b.tok.kind = "force" => u.kind # "force"
  <2>1. \/ \E e \in Engines : u \in Toks(eng[e])
        \/ u \in TokensOf(Tail(mainq)) \/ u \in jobs
    BY <1>2, StillPending
  <2> QED
    BY <2>1, OthersLeft
<1>3. /\ calls' \in [Requests -> {-1, 0, 1}] /\ Asked' = Asked
      /\ \A u \in Pending' : calls'[u.id] = calls[u.id]
      /\ calls'[b.tok.id] = 1 /\ \A i \in Requests : calls'[i] = 0 => calls[i] = 0
  <2>1. CASE Ran(b.tok) /\ b.stage # "finish"
    <3>1. calls[b.tok.id] = 0
      BY <1>1, <2>1 DEF IInv, Stages
    <3> QED
      BY <1>1, <1>2, <2>1, <3>1, RanOnce
  <2>2. CASE calls' = calls /\ b.stage = "finish"
    <3>1. calls[b.tok.id] = 1
      BY <1>1, <2>2 DEF IInv, Stages
    <3> QED
      BY <2>2, <3>1 DEF IInv, Types, Asked
  <2> QED
    BY <2>1, <2>2
<1>6. NoneLost
  <2>1. ASSUME NEW u \in Pending PROVE u \in Pending' \/ calls'[u.id] # 0
    <3>1. TokensOf(mainq) = {b.tok} \cup TokensOf(mainq')
      BY HeadIs
    <3>2. CASE u = b.tok
      BY <1>3, <3>2
    <3>3. CASE u # b.tok
      BY <3>1, <3>3, StaysPending
    <3> QED
      BY <3>2, <3>3
  <2> QED
    BY <1>3, <2>1 DEF NoneLost
<1>4. (eng' = eng /\ scr' = scr) \/ Unheard
  <2>1. ASSUME Mine(b.tok), ~scr.forceReq PROVE Unheard
    BY <1>2, <2>1 DEF Unheard, Mine
  <2>2. ASSUME b.tok.kind = "force", scr'.open => scr'.forceReq PROVE Unheard
    BY <1>2, <2>2 DEF Unheard, Mine
  <2> QED
    BY <2>1, <2>2
<1>5. scr'.n >= scr.n
  BY DEF IInv, Types, Screen
<1> QED
  BY <1>1, <1>3, <1>4, <1>5, <1>6, ScreenKeeps

(* A block leaves the main queue.                                          *)
HeadRuns(b) ==
  /\ mainq # <<>> /\ b = Head(mainq) /\ scr.call = NoCall /\ mainq' = Tail(mainq)
  /\ UNCHANGED <<jobs, marker>>
  /\ \/ Ran(b.tok) /\ b.stage # "finish"
     \/ calls' = calls /\ b.stage = "finish"
Heard(b) == Mine(b.tok) /\ ~scr.forceReq

LEMMA IgnoredKeeps ==
  ASSUME IInv, NEW b, HeadRuns(b), Ignored
  PROVE  IInv'
<1>1. scr' = scr /\ eng' = eng
  BY DEF Ignored
<1>2. EngineKept /\ scr' \in Screen /\ scr'.call = NoCall /\ Opened'
  BY <1>1 DEF EngineKept, IInv, Types, HeadRuns, Opened
<1> QED
  BY <1>1, <1>2, AnswerKeeps DEF HeadRuns

(* The screen goes on with its engine.                                     *)
LEMMA FlagsKeep ==
  ASSUME IInv, NEW b, HeadRuns(b), eng' = eng,
         scr' \in Screen, scr'.n = scr.n, scr'.open = scr.open, scr'.cur = scr.cur,
         scr'.call = scr.call, scr'.forceReq = scr.forceReq, scr'.forcing => scr.forcing,
         Heard(b) \/ (b.tok.kind = "force" /\ scr.forceReq)
  PROVE  IInv'
<1>1. EngineKept
  BY DEF EngineKept
<1>2. Opened'
  BY DEF IInv, Opened
<1> QED
  BY <1>1, <1>2, AnswerKeeps DEF HeadRuns, Heard

(* A positive answer: the engine of the screen is idle.                    *)
LEMMA AnswerIsIdle ==
  ASSUME IInv, NEW b, HeadRuns(b), b.ok \/ b.stage = "forced",
         Heard(b) \/ b.tok.kind = "force"
  PROVE  /\ b.tok.eng = scr.cur /\ scr.cur \in Engines /\ Idle(eng[scr.cur])
         /\ b.tok.kind = "force" => scr.forceReq /\ Mine(b.tok)
<1>1. Facts(b.tok) /\ b \in Elems(mainq)
  BY HeadIs DEF HeadRuns
<1>2. b.tok.eng = scr.cur /\ scr.cur \in Engines
  BY <1>1 DEF Facts, Heard, Launched
<1> QED
  BY <1>1, <1>2 DEF IInv, Stages, Facts

LEMMA PoppedKeeps ==
  ASSUME IInv, NEW b, HeadRuns(b), b.ok, Heard(b) \/ b.tok.kind = "force", Popped
  PROVE  IInv'
<1>1. scr.cur \in Engines /\ Idle(eng[scr.cur])
  BY AnswerIsIdle
<1>2. eng \in [Engines -> EngineRec] /\ scr \in Screen /\ 0 \in 0 .. MaxEngines
  BY Bounds DEF IInv, Types
<1>3. eng' = eng
  <2>1. Stopped(eng[scr.cur], NoToken) = eng[scr.cur]
    BY <1>1, <1>2, StoppedIdle
  <2>2. scr.cur # 0
    BY <1>1 DEF Engines
  <2> QED
    BY <1>1, <1>2, <2>1, <2>2 DEF Popped, StoppedEngines
<1>4. /\ scr' \in Screen /\ scr'.n = scr.n /\ scr'.open = FALSE /\ scr'.cur = 0
      /\ scr'.call = scr.call /\ scr'.forcing = scr.forcing /\ scr'.forceReq = scr.forceReq
  BY <1>2 DEF Popped, PoppedScreen, Screen
<1>5. EngineKept
  BY <1>3, <1>4 DEF EngineKept
<1>6. scr.call = NoCall
  BY DEF HeadRuns
<1>7. Opened'
  BY <1>4, <1>6 DEF IInv, Opened
<1> QED
  BY <1>1, <1>4, <1>5, <1>6, <1>7, AnswerKeeps DEF HeadRuns, Heard

LEMMA RelaunchedKeeps ==
  ASSUME IInv, NEW b, HeadRuns(b), b.ok, Heard(b), b.tok.kind \in {"restart", "reset"},
         NEW s \in Screen, s.n = scr.n, s.open = scr.open, s.call = scr.call,
         s.forceReq = scr.forceReq, s.forcing = scr.forcing, Relaunched(s)
  PROVE  IInv'
<1>1. scr.cur \in Engines /\ Idle(eng[scr.cur]) /\ scr.call = NoCall /\ ~scr.forceReq
  BY AnswerIsIdle DEF HeadRuns, Heard
<1>2. Facts(b.tok)
  BY HeadIs DEF HeadRuns
<1>3. NextEngine = Count + 1 /\ Count \in 0 .. MaxEngines /\ Count < MaxEngines
      /\ MaxEngines \in Nat
  BY <1>2, EnginesNumbered, Bounds DEF Facts, Heard, IInv
<1>4. NextEngine \in Engines
  BY <1>3 DEF Engines
<1>5. PICK l \in LaunchedOn(s, eng) : scr' = l.s /\ eng' = l.es
  BY DEF Relaunched
<1>6. /\ scr' = [s EXCEPT !.cur = scr'.cur] /\ scr' \in Screen
      /\ \/ eng' = eng /\ scr'.cur = 0
         \/ /\ scr'.cur = NextEngine
            /\ \E n : NewEngine(n) /\ eng' = [eng EXCEPT ![NextEngine] = n]
  BY <1>4, <1>5, RelaunchGives
<1>7. EngineKept
  BY <1>3, <1>6 DEF EngineKept
<1>8. /\ scr'.n = scr.n /\ scr'.forceReq = scr.forceReq /\ scr'.forcing = scr.forcing
      /\ scr'.call = NoCall /\ scr'.open = scr.open
  BY <1>1, <1>6 DEF Screen
<1>9. Opened'
  <2>1. scr.open /\ scr.n > 0
    BY DEF Heard, Mine, IInv, Opened
  <2>2. ~scr.forcing
    BY <1>1 DEF IInv, Opened
  <2> QED
    BY <1>1, <1>8, <2>1, <2>2 DEF Opened
<1> QED
  BY <1>1, <1>6, <1>7, <1>8, <1>9, AnswerKeeps DEF HeadRuns, Heard

(* The handlers.                                                           *)
LEMMA ForceAnsweredKeeps ==
  ASSUME IInv, NEW b, HeadRuns(b), b.stage = "forced", ForceAnswered(b)
  PROVE  IInv'
<1>1. b.tok.kind = "force"
  BY HeadIs DEF HeadRuns, IInv, Stages
<1>2. scr.forceReq /\ Mine(b.tok)
  BY <1>1, AnswerIsIdle
<1>3. CASE b.ok
  BY <1>1, <1>2, <1>3, PoppedKeeps DEF ForceAnswered
<1>4. CASE ~b.ok
  <2>1. scr' = [scr EXCEPT !.forcing = FALSE, !.saving = FALSE] /\ eng' = eng
    BY <1>2, <1>4 DEF ForceAnswered
  <2>2. scr \in Screen
    BY DEF IInv, Types
  <2>3. /\ scr' \in Screen /\ scr'.n = scr.n /\ scr'.open = scr.open /\ scr'.cur = scr.cur
        /\ scr'.call = scr.call /\ scr'.forceReq = scr.forceReq /\ scr'.forcing = FALSE
    BY <2>1, <2>2 DEF Screen
  <2> QED
    BY <1>1, <1>2, <2>1, <2>3, FlagsKeep
<1> QED
  BY <1>3, <1>4

LEMMA SaveAnsweredKeeps ==
  ASSUME IInv, NEW b, HeadRuns(b), SaveAnswered(b)
  PROVE  IInv'
<1>1. CASE ~Mine(b.tok) \/ scr.forceReq
  BY <1>1, IgnoredKeeps DEF SaveAnswered
<1>2. CASE Mine(b.tok) /\ ~scr.forceReq /\ b.ok
  BY <1>2, PoppedKeeps DEF SaveAnswered, Heard
<1>3. CASE Mine(b.tok) /\ ~scr.forceReq /\ ~b.ok
  <2>1. scr' = [scr EXCEPT !.saving = FALSE] /\ eng' = eng
    BY <1>3 DEF SaveAnswered
  <2>2. scr \in Screen
    BY DEF IInv, Types
  <2>3. /\ scr' \in Screen /\ scr'.n = scr.n /\ scr'.open = scr.open /\ scr'.cur = scr.cur
        /\ scr'.call = scr.call /\ scr'.forceReq = scr.forceReq /\ scr'.forcing = scr.forcing
    BY <2>1, <2>2 DEF Screen
  <2> QED
    BY <1>3, <2>1, <2>3, FlagsKeep DEF Heard
<1> QED
  BY <1>1, <1>2, <1>3

LEMMA ShutdownFinishedKeeps ==
  ASSUME IInv, NEW b, HeadRuns(b), ShutdownFinished(b)
  PROVE  IInv'
<1> DEFINE s == [scr EXCEPT !.shutting = FALSE, !.saving = FALSE]
<1>0. scr \in Screen
  BY DEF IInv, Types
<1>1. /\ s \in Screen /\ s.n = scr.n /\ s.open = scr.open /\ s.cur = scr.cur
      /\ s.call = scr.call /\ s.forceReq = scr.forceReq /\ s.forcing = scr.forcing
  BY <1>0 DEF Screen
<1>2. CASE ~Mine(b.tok) \/ scr.forceReq
  BY <1>2, IgnoredKeeps DEF ShutdownFinished
<1>3. CASE Mine(b.tok) /\ ~scr.forceReq /\ ~b.ok
  <2>1. scr' = s /\ eng' = eng
    BY <1>3 DEF ShutdownFinished
  <2> HIDE DEF s
  <2> QED
    BY <1>1, <1>3, <2>1, FlagsKeep DEF Heard
<1>4. CASE Mine(b.tok) /\ ~scr.forceReq /\ b.ok /\ b.tok.kind = "restart"
  <2>1. Relaunched(s)
    BY <1>4 DEF ShutdownFinished
  <2> HIDE DEF s
  <2> QED
    BY <1>1, <1>4, <2>1, RelaunchedKeeps DEF Heard
<1>5. CASE Mine(b.tok) /\ ~scr.forceReq /\ b.ok /\ b.tok.kind # "restart"
  BY <1>5, PoppedKeeps DEF ShutdownFinished, Heard
<1> QED
  BY <1>2, <1>3, <1>4, <1>5

LEMMA ResetAnsweredKeeps ==
  ASSUME IInv, NEW b, HeadRuns(b), b.stage = "completion", b.tok.kind = "reset",
         ResetAnswered(b)
  PROVE  IInv'
<1> DEFINE s == [scr EXCEPT !.restarting = FALSE]
<1>0. scr \in Screen
  BY DEF IInv, Types
<1>1. /\ s \in Screen /\ s.n = scr.n /\ s.open = scr.open /\ s.cur = scr.cur
      /\ s.call = scr.call /\ s.forceReq = scr.forceReq /\ s.forcing = scr.forcing
  BY <1>0 DEF Screen
<1>2. CASE ~Mine(b.tok) \/ scr.cur # b.tok.eng \/ scr.forceReq
  BY <1>2, IgnoredKeeps DEF ResetAnswered
<1>3. CASE ~(~Mine(b.tok) \/ scr.cur # b.tok.eng \/ scr.forceReq)
  <2>1. Relaunched(s)
    BY <1>3 DEF ResetAnswered
  <2>2. b.ok
    BY HeadIs DEF HeadRuns, IInv, Stages
  <2> HIDE DEF s
  <2> QED
    BY <1>1, <1>3, <2>1, <2>2, RelaunchedKeeps DEF Heard
<1> QED
  BY <1>2, <1>3

(* Steps that only move a completion on.                                   *)
LEMMA MoveKeeps ==
  ASSUME IInv, eng' = eng, scr' = scr, Types', OnePlace', Stages', Marks', Asked' = Asked,
         NoneLost, \A u \in Pending' : u \in Pending
  PROVE  IInv'
<1>1. AllSane' /\ Alone' /\ Opened' /\ Numbered'
  BY DEF IInv, AllSane, Alone, Opened, Numbered, Launched
<1>2. \A t : (Mine(t)' <=> Mine(t)) /\ (Facts(t)' <=> Facts(t))
  BY DEF Facts, Mine, Count, Launched
<1>3. Listened'
  BY <1>2 DEF IInv, Listened
<1> QED
  BY <1>1, <1>3, NoneLostRemembers DEF IInv

(* The stop completion of a force-off goes on on the global queue.         *)
LEMMA ForceToJobs ==
  ASSUME IInv, mainq # <<>>, NEW b, b = Head(mainq), b.stage = "completion",
         b.tok.kind = "force", scr.call = NoCall, mainq' = Tail(mainq),
         jobs' = jobs \cup {b.tok}, UNCHANGED <<eng, scr, calls, marker>>
  PROVE  IInv'
<1>1. /\ b \in Block /\ b \in Elems(mainq) /\ b.tok \in Token /\ b.tok \in Pending
      /\ Tail(mainq) \in Seq(Block) /\ SingleTok(Tail(mainq))
      /\ Elems(Tail(mainq)) \subseteq Elems(mainq)
      /\ TokensOf(mainq) = {b.tok} \cup TokensOf(Tail(mainq))
      /\ b.tok \notin TokensOf(Tail(mainq))
  BY HeadIs
<1>2. b.ok /\ Idle(eng[b.tok.eng]) /\ calls[b.tok.id] = 0
  BY <1>1 DEF IInv, Stages
<1>3. Types'
  BY <1>1 DEF IInv, Types
<1>4. OnePlace'
  BY <1>1 DEF IInv, OnePlace
<1>5. \A u \in Pending' : u \in Pending
  BY <1>1 DEF Pending
<1>6. Stages'
  BY <1>1, <1>2 DEF IInv, Stages
<1>7. Marks'
  <2>1. \A x : Told(x)' <=> Told(x)
    BY DEF Told, Mine
  <2> QED
    BY <1>1, <2>1 DEF IInv, Marks
<1>8. Asked' = Asked
  BY DEF Asked
<1>9. NoneLost
  BY <1>1 DEF NoneLost, Pending
<1> QED
  BY <1>3, <1>4, <1>5, <1>6, <1>7, <1>8, <1>9, MoveKeeps

(* The completion of a shutdown waits for an alert to go away.             *)
LEMMA FinishKeeps ==
  ASSUME IInv, mainq # <<>>, NEW b, b = Head(mainq), b.stage = "completion",
         b.tok.kind \in {"shutdown", "restart"}, scr.call = NoCall,
         mainq' = Append(Tail(mainq), [b EXCEPT !.stage = "finish"]),
         Ran(b.tok), UNCHANGED <<eng, scr, jobs, marker>>
  PROVE  IInv'
<1>0. PICK x : x = [b EXCEPT !.stage = "finish"]
  OBVIOUS
<1>1. /\ b \in Block /\ b \in Elems(mainq) /\ b.tok \in Token /\ b.tok \in Pending
      /\ Tail(mainq) \in Seq(Block) /\ SingleTok(Tail(mainq))
      /\ Elems(Tail(mainq)) \subseteq Elems(mainq)
      /\ TokensOf(mainq) = {b.tok} \cup TokensOf(Tail(mainq))
      /\ b.tok \notin TokensOf(Tail(mainq))
  BY HeadIs
<1>2. x \in Block /\ x.tok = b.tok /\ x.ok = b.ok /\ x.stage = "finish"
  <2>1. "finish" \in {"completion", "finish", "forced"}
    OBVIOUS
  <2> QED
    BY <1>0, <1>1, <2>1 DEF Block
<1>3. /\ mainq' \in Seq(Block) /\ Elems(mainq') = Elems(Tail(mainq)) \cup {x}
      /\ TokensOf(mainq') = TokensOf(mainq)
  <2>1. mainq' = Append(Tail(mainq), x)
    BY <1>0
  <2>2. PICK q \in Seq(Block) : q = Tail(mainq)
    BY <1>1
  <2>3. /\ Append(q, x) \in Seq(Block) /\ Elems(Append(q, x)) = Elems(q) \cup {x}
        /\ TokensOf(Append(q, x)) = TokensOf(q) \cup {x.tok}
    BY <1>2, ElemsAppend
  <2> QED
    BY <1>1, <1>2, <2>1, <2>2, <2>3
<1>4. SingleTok(mainq')
  <2>1. mainq' = Append(Tail(mainq), x)
    BY <1>0
  <2>2. PICK q \in Seq(Block) : q = Tail(mainq)
    BY <1>1
  <2>3. SingleTok(q) /\ x.tok \notin TokensOf(q)
    BY <1>1, <1>2, <2>2
  <2>4. SingleTok(Append(q, x))
    BY <1>2, <2>3, SingleTokAppend
  <2> QED
    BY <2>1, <2>2, <2>4
<1>5. /\ calls' \in [Requests -> {-1, 0, 1}] /\ Asked' = Asked /\ calls'[b.tok.id] = 1
      /\ \A i \in Requests : i # b.tok.id => calls'[i] = calls[i]
  <2>1. calls[b.tok.id] = 0
    BY <1>1 DEF IInv, Stages
  <2> QED
    BY <1>1, <2>1, RanOnce
<1>6. Types'
  BY <1>3, <1>5 DEF IInv, Types
<1>7. OnePlace'
  BY <1>3, <1>4 DEF IInv, OnePlace
<1>8. \A u \in Pending' : u \in Pending
  BY <1>3 DEF Pending
<1>9. ASSUME NEW u, \/ \E e \in Engines : u \in Toks(eng[e])
                    \/ u \in TokensOf(Tail(mainq)) \/ u \in jobs
      PROVE  calls'[u.id] = calls[u.id]
  BY <1>5, <1>9, OthersLeft
<1>10. Stages'
  <2>1. \A e \in Engines : \A t \in Toks(eng[e]) : t.eng = e /\ calls'[t.id] = 0
    BY <1>9 DEF IInv, Stages
  <2>2. ASSUME NEW y \in Elems(mainq')
        PROVE  /\ y.ok \/ y.stage = "forced" => Idle(eng[y.tok.eng])
               /\ y.stage = "finish" => y.tok.kind \in {"shutdown", "restart"}
               /\ y.stage = "forced" => y.tok.kind = "force"
               /\ y.stage = "completion" /\ y.tok.kind \in {"reset", "force"} => y.ok
               /\ calls'[y.tok.id] = IF y.stage = "finish" THEN 1 ELSE 0
    <3>1. CASE y \in Elems(Tail(mainq))
      <4>1. calls'[y.tok.id] = calls[y.tok.id] /\ y \in Elems(mainq)
        BY <1>1, <1>9, <3>1 DEF TokensOf
      <4> QED
        BY <4>1 DEF IInv, Stages
    <3>2. CASE y = x
      <4>1. b.ok => Idle(eng[b.tok.eng])
        BY <1>1 DEF IInv, Stages
      <4> QED
        BY <1>2, <1>5, <3>2, <4>1
    <3> QED
      BY <1>3, <3>1, <3>2
  <2>3. \A t \in jobs : Idle(eng[t.eng]) /\ t.kind = "force" /\ calls'[t.id] = 0
    BY <1>9 DEF IInv, Stages
  <2>4. InCall(scr) = {}
    BY DEF InCall
  <2> QED
    BY <2>1, <2>2, <2>3, <2>4 DEF Stages
<1>11. Marks'
  <2>1. \A y : Told(y)' <=> Told(y)
    BY DEF Told, Mine
  <2>2. Told(x) <=> Told(b)
    BY <1>2 DEF Told, Resumable
  <2>3. \A y \in Elems(mainq') : Told(y) /\ (y.stage = "forced" /\ y.ok => ~marker)
    BY <1>1, <1>2, <1>3, <2>2 DEF IInv, Marks
  <2> QED
    BY <2>1, <2>3 DEF IInv, Marks
<1>12. NoneLost
  <2>1. \A u \in Pending : u \in Pending'
    BY <1>3 DEF Pending
  <2>2. \A i \in Requests : calls'[i] = 0 => calls[i] = 0
    BY <1>5
  <2> QED
    BY <2>1, <2>2 DEF NoneLost
<1> QED
  BY <1>5, <1>6, <1>7, <1>8, <1>10, <1>11, <1>12, MoveKeeps

LEMMA RunBlockKeeps ==
  ASSUME IInv, RunBlock
  PROVE  IInv'
<1>0. PICK b : b = Head(mainq)
  OBVIOUS
<1>1. scr.call = NoCall /\ mainq # <<>> /\ marker' = marker
  BY DEF RunBlock
<1>2. CASE /\ b.stage = "forced"
           /\ mainq' = Tail(mainq) /\ Ran(b.tok) /\ ForceAnswered(b)
           /\ UNCHANGED jobs
  <2>1. HeadRuns(b)
    BY <1>0, <1>1, <1>2 DEF HeadRuns
  <2> QED
    BY <1>2, <2>1, ForceAnsweredKeeps
<1>3. CASE /\ b.stage = "finish"
           /\ mainq' = Tail(mainq) /\ ShutdownFinished(b)
           /\ UNCHANGED <<calls, jobs>>
  <2>1. HeadRuns(b)
    BY <1>0, <1>1, <1>3 DEF HeadRuns
  <2> QED
    BY <1>3, <2>1, ShutdownFinishedKeeps
<1>4. CASE /\ b.stage = "completion" /\ b.tok.kind = "force"
           /\ mainq' = Tail(mainq) /\ jobs' = jobs \union {b.tok}
           /\ Ignored /\ UNCHANGED calls
  BY <1>0, <1>1, <1>4, ForceToJobs DEF Ignored
<1>5. CASE /\ b.stage = "completion" /\ b.tok.kind = "save"
           /\ mainq' = Tail(mainq) /\ Ran(b.tok) /\ SaveAnswered(b)
           /\ UNCHANGED jobs
  <2>1. HeadRuns(b)
    BY <1>0, <1>1, <1>5 DEF HeadRuns
  <2> QED
    BY <1>5, <2>1, SaveAnsweredKeeps
<1>6. CASE /\ b.stage = "completion" /\ b.tok.kind = "reset"
           /\ mainq' = Tail(mainq) /\ Ran(b.tok) /\ ResetAnswered(b)
           /\ UNCHANGED jobs
  <2>1. HeadRuns(b)
    BY <1>0, <1>1, <1>6 DEF HeadRuns
  <2> QED
    BY <1>6, <2>1, ResetAnsweredKeeps
<1>7. CASE /\ b.stage = "completion" /\ b.tok.kind \in {"shutdown", "restart"}
           /\ mainq' = Tail(mainq) /\ Ran(b.tok) /\ ShutdownFinished(b)
           /\ UNCHANGED jobs
  <2>1. HeadRuns(b)
    BY <1>0, <1>1, <1>7 DEF HeadRuns
  <2> QED
    BY <1>7, <2>1, ShutdownFinishedKeeps
<1>8. CASE /\ b.stage = "completion" /\ b.tok.kind \in {"shutdown", "restart"}
           /\ mainq' = Append(Tail(mainq), [b EXCEPT !.stage = "finish"])
           /\ Ran(b.tok) /\ Ignored /\ UNCHANGED jobs
  BY <1>0, <1>1, <1>8, FinishKeeps DEF Ignored
<1> QED
  BY <1>0, <1>2, <1>3, <1>4, <1>5, <1>6, <1>7, <1>8 DEF RunBlock

(* The job of a force-off: no engine has the disk while it disarms.        *)
LEMMA DisarmKeeps ==
  ASSUME IInv, Disarm
  PROVE  IInv'
<1>0. PICK t \in jobs : \E ok \in BOOLEAN :
        /\ jobs' = jobs \ {t} /\ marker' = (marker /\ ~ok)
        /\ mainq' = Append(mainq, [stage |-> "forced", tok |-> t, ok |-> ok])
        /\ UNCHANGED <<eng, scr, calls>>
  BY DEF Disarm
<1>1. PICK ok \in BOOLEAN :
        /\ jobs' = jobs \ {t} /\ marker' = (marker /\ ~ok)
        /\ mainq' = Append(mainq, [stage |-> "forced", tok |-> t, ok |-> ok])
        /\ UNCHANGED <<eng, scr, calls>>
  BY <1>0
<1>2. PICK x : x = [stage |-> "forced", tok |-> t, ok |-> ok]
  OBVIOUS
<1>3. /\ t \in Token /\ t \in Pending /\ Facts(t) /\ t.kind = "force"
      /\ Idle(eng[t.eng]) /\ calls[t.id] = 0
  BY PendingIs, PendingMade DEF IInv, Stages
<1>4. x \in Block /\ x.tok = t /\ x.ok = ok /\ x.stage = "forced"
  BY <1>2, <1>3 DEF Block
<1>5. mainq \in Seq(Block) /\ SingleTok(mainq) /\ t \notin TokensOf(mainq)
  BY DEF IInv, Types, OnePlace
<1>6. /\ mainq' \in Seq(Block) /\ Elems(mainq') = Elems(mainq) \cup {x}
      /\ TokensOf(mainq') = TokensOf(mainq) \cup {t}
  <2>1. mainq' = Append(mainq, x)
    BY <1>1, <1>2
  <2> QED
    BY <1>4, <1>5, <2>1, ElemsAppend
<1>7. SingleTok(mainq')
  <2>1. mainq' = Append(mainq, x)
    BY <1>1, <1>2
  <2> QED
    BY <1>4, <1>5, <2>1, SingleTokAppend
<1>8. Types'
  BY <1>1, <1>6 DEF IInv, Types
<1>9. OnePlace'
  <2>1. /\ \A e, f \in Engines : e # f => Toks(eng[e]) \cap Toks(eng[f]) = {}
        /\ \A e \in Engines : Toks(eng[e]) \cap (TokensOf(mainq) \cup jobs \cup InCall(scr)) = {}
        /\ TokensOf(mainq) \cap (jobs \cup InCall(scr)) = {}
        /\ jobs \cap InCall(scr) = {}
    BY DEF IInv, OnePlace
  <2>2. TokensOf(mainq') \cup jobs' = TokensOf(mainq) \cup jobs
    BY <1>1, <1>6
  <2>3. \A e \in Engines : Toks(eng[e]) \cap (TokensOf(mainq') \cup jobs' \cup InCall(scr)) = {}
    BY <2>1, <2>2
  <2>4. TokensOf(mainq') \cap (jobs' \cup InCall(scr)) = {} /\ jobs' \cap InCall(scr) = {}
    BY <1>1, <1>6, <2>1
  <2> QED
    BY <1>1, <1>7, <2>1, <2>3, <2>4 DEF OnePlace
<1>10. \A u \in Pending' : u \in Pending
  BY <1>1, <1>3, <1>6 DEF Pending
<1>11. Stages'
  BY <1>1, <1>3, <1>4, <1>6 DEF IInv, Stages
<1>12. scr.forceReq
  BY <1>3 DEF Facts
<1>13. \A e \in Engines : Idle(eng[e]) /\ ~eng[e].disk /\ ~eng[e].saved /\ eng[e].pc # "admit"
  <2>1. ASSUME NEW e \in Engines PROVE Idle(eng[e])
    BY BusyIsAlone
  <2> QED
    BY <2>1 DEF IInv, AllSane, Sane, Points1
<1>14. Marks'
  <2>1. \A y : Told(y)'
    BY <1>1, <1>12 DEF Told
  <2>2. \A e \in Engines : MarkOf(eng'[e], marker')
    BY <1>1, <1>13 DEF MarkOf
  <2>3. \A y \in Elems(mainq) : y.stage = "forced" /\ y.ok => ~marker
    BY DEF IInv, Marks
  <2>4. \A y \in Elems(mainq') : y.stage = "forced" /\ y.ok => ~marker'
    BY <1>1, <1>4, <1>6, <2>3
  <2> QED
    BY <2>1, <2>2, <2>4 DEF Marks
<1>15. Asked' = Asked
  BY <1>1 DEF Asked
<1>16. NoneLost
  <2>1. \A u \in Pending : u \in Pending'
    BY <1>1, <1>6 DEF Pending
  <2> QED
    BY <1>1, <2>1 DEF NoneLost
<1> QED
  BY <1>1, <1>8, <1>9, <1>10, <1>11, <1>14, <1>15, <1>16, MoveKeeps

-----------------------------------------------------------------------------
(* The invariant and the theorems.                                         *)

LEMMA InitOwned == Init => IInv
<1> SUFFICES ASSUME Init PROVE IInv
  OBVIOUS
<1>1. /\ eng = [e \in Engines |-> Dormant]
      /\ scr = [NewScreen(0) EXCEPT !.open = FALSE]
      /\ mainq = <<>> /\ jobs = {} /\ marker \in BOOLEAN
      /\ calls = [i \in Requests |-> -1]
  BY DEF Init
<1>2. \A e \in Engines : eng[e] = Dormant
  BY <1>1
<1>3. Dormant \in EngineRec
  <2>1. "Idle" \in States /\ "none" \in Points /\ <<>> \in Seq(Token) /\ <<>> \in Seq(Block)
        /\ NoToken \in MaybeToken /\ FALSE \in BOOLEAN
    BY TokenFields DEF States, Points
  <2> QED
    BY <2>1 DEF Dormant, EngineRec
<1>4. /\ Dormant.state = "Idle" /\ Dormant.pc = "none" /\ Dormant.end = "none"
      /\ Dormant.next = "none" /\ ~Dormant.stop /\ ~Dormant.ckpt /\ ~Dormant.shut
      /\ ~Dormant.ready /\ ~Dormant.disk /\ ~Dormant.saved
      /\ Dormant.stopDone = <<>> /\ Dormant.taken = <<>>
      /\ Dormant.ckptDone = NoToken /\ Dormant.shutDone = NoToken
  BY DEF Dormant
<1>5. Toks(Dormant) = {} /\ Elems(Dormant.taken) = {}
  BY <1>4, ElemsEmpty DEF Toks, Kept
<1>6. Sane(Dormant)
  <2>1. Points1(Dormant)
    BY <1>4 DEF Points1, Idle, Reading
  <2>2. Answers1(Dormant) /\ Once(Dormant)
    BY <1>4, ElemsEmpty DEF Answers1, Once, Kept
  <2> QED
    BY <2>1, <2>2 DEF Sane
<1>7. /\ scr \in Screen /\ scr.n = 0 /\ scr.cur = 0 /\ scr.open = FALSE /\ scr.call = NoCall
      /\ scr.forcing = FALSE /\ scr.forceReq = FALSE
  <2>1. 0 \in 0 .. MaxScreens /\ 0 \in 0 .. MaxEngines /\ NoCall \in Calls
        /\ TRUE \in BOOLEAN /\ FALSE \in BOOLEAN
    BY Bounds DEF Calls
  <2> QED
    BY <1>1, <2>1 DEF NewScreen, Screen
<1>8. Types
  <2>1. mainq \in Seq(Block) /\ jobs \subseteq Token
    BY <1>1
  <2>2. eng \in [Engines -> EngineRec] /\ calls \in [Requests -> {-1, 0, 1}]
    BY <1>1, <1>3
  <2> QED
    BY <1>1, <1>7, <2>1, <2>2 DEF Types
<1>9. AllSane
  BY <1>2, <1>6 DEF AllSane
<1>10. /\ \A e \in Engines : Toks(eng[e]) = {}
       /\ Elems(mainq) = {} /\ TokensOf(mainq) = {} /\ SingleTok(mainq) /\ InCall(scr) = {}
  BY <1>1, <1>2, <1>5, <1>7, ElemsEmpty DEF InCall
<1>11. OnePlace
  BY <1>1, <1>10 DEF OnePlace
<1>12. \A t : t \notin Pending
  BY <1>1, <1>10, PendingIs
<1>13. Numbered
  <2>1. Launched = {} /\ Asked = {}
    BY <1>1, <1>2, <1>4 DEF Launched, Asked
  <2>2. 0 \in 0 .. MaxEngines /\ 0 \in 0 .. MaxRequests /\ 1 .. 0 = {}
    BY Bounds
  <2> QED
    BY <1>2, <1>7, <2>1, <2>2 DEF Numbered
<1>14. Listened
  BY <1>12 DEF Listened
<1>15. Stages
  BY <1>1, <1>7, <1>10 DEF Stages
<1>16. Alone
  BY <1>2, <1>4 DEF Alone, Idle
<1>17. Opened
  BY <1>7 DEF Opened
<1>18. Marks
  <2>1. MarkOf(Dormant, marker)
    BY <1>4 DEF MarkOf
  <2> QED
    BY <1>2, <1>5, <1>10, <2>1 DEF Marks
<1>19. Remembered
  BY <1>1 DEF Remembered
<1> QED
  BY <1>8, <1>9, <1>11, <1>13, <1>14, <1>15, <1>16, <1>17, <1>18, <1>19 DEF IInv

LEMMA IdleKeeps == ASSUME IInv, UNCHANGED vars PROVE IInv'
<1>1. eng' = eng /\ scr' = scr /\ mainq' = mainq /\ jobs' = jobs /\ marker' = marker
      /\ calls' = calls
  BY DEF vars
<1> QED
  <2>1. Types' /\ OnePlace' /\ Stages' /\ Asked' = Asked
    BY <1>1 DEF IInv, Types, OnePlace, Stages, Asked
  <2>2. \A t : Told(t)' <=> Told(t)
    BY <1>1 DEF Told, Mine
  <2>3. Marks'
    BY <1>1, <2>2 DEF IInv, Marks
  <2>4. Pending' = Pending
    BY <1>1 DEF Pending
  <2>5. NoneLost
    BY <1>1, <2>4 DEF NoneLost
  <2> QED
    BY <1>1, <2>1, <2>3, <2>4, <2>5, MoveKeeps

LEMMA NextKeeps == IInv /\ [Next]_vars => IInv'
<1> SUFFICES ASSUME IInv, [Next]_vars PROVE IInv'
  OBVIOUS
<1>1. ASSUME NEW e \in Engines, Thread(e) PROVE IInv'
  BY <1>1, ThreadKeeps
<1>2. CASE Owner
  BY <1>2, OwnerKeeps
<1>3. CASE Main
  BY <1>3, RequestCallKeeps, RunBlockKeeps DEF Main
<1>4. CASE Disarm
  BY <1>4, DisarmKeeps
<1>5. CASE UNCHANGED vars
  BY <1>5, IdleKeeps
<1> QED
  BY <1>1, <1>2, <1>3, <1>4, <1>5 DEF Next

LEMMA Invariant == Spec => []IInv
BY InitOwned, NextKeeps, PTL DEF Spec

LEMMA OwnedDisk == IInv => DiskOwned
<1> SUFFICES ASSUME IInv PROVE DiskOwned
  OBVIOUS
<1>1. ASSUME NEW e \in Engines
      PROVE  LET r == eng[e] IN
             /\ r.state \in States /\ r.pc \in Points /\ r.next \in {"none", "loop", "run"}
             /\ r.ckptDone \in MaybeToken /\ r.shutDone \in MaybeToken
             /\ r.stopDone \in Seq(Token) /\ r.taken \in Seq(Block)
             /\ r.end \in {"none", "stopped", "halted", "capped", "over"}
             /\ {r.stop, r.ckpt, r.shut, r.paused, r.ready, r.firmware, r.disk,
                 r.standby, r.saved} \subseteq BOOLEAN
             /\ r.state = "Idle" =>
                  /\ ~r.stop /\ ~r.ckpt /\ ~r.shut /\ ~r.ready /\ ~r.disk
                  /\ r.stopDone = <<>> /\ r.ckptDone = NoToken /\ r.shutDone = NoToken
  <2>1. eng[e] \in EngineRec /\ Points1(eng[e])
    BY DEF IInv, Types, AllSane, Sane
  <2>2. eng[e].state = "Idle" =>
          /\ ~eng[e].stop /\ ~eng[e].ckpt /\ ~eng[e].shut /\ ~eng[e].ready /\ ~eng[e].disk
          /\ eng[e].stopDone = <<>> /\ eng[e].ckptDone = NoToken /\ eng[e].shutDone = NoToken
    BY <2>1 DEF Points1, Idle
  <2> QED
    BY <2>1, <2>2, EngineFields
<1>2. calls \in [Requests -> -1 .. 1]
  <2>1. {-1, 0, 1} \subseteq -1 .. 1
    OBVIOUS
  <2> QED
    BY <2>1 DEF IInv, Types
<1>3. TypeOK
  BY <1>1, <1>2 DEF TypeOK, IInv, Types, Screen
<1>4. OneOwner
  <2>1. ASSUME NEW e \in Engines, eng[e].disk PROVE e = scr.cur
    <3>1. ~Idle(eng[e])
      BY <2>1 DEF IInv, AllSane, Sane, Points1
    <3> QED
      BY <3>1 DEF IInv, Alone
  <2> QED
    BY <2>1 DEF OneOwner
<1> QED
  BY <1>3, <1>4 DEF DiskOwned

LEMMA HonestMarker == IInv => MarkerIsHonest
<1> SUFFICES ASSUME IInv PROVE MarkerIsHonest
  OBVIOUS
<1>1. \A i \in DOMAIN mainq : mainq[i] \in Elems(mainq)
  BY DEF Elems
<1>2. MarkerIsCurrent
  <2>1. marker => \A e \in Engines : eng[e].disk /\ eng[e].ready => eng[e].saved
    BY DEF IInv, Marks, MarkOf
  <2>2. \A i \in DOMAIN mainq : Told(mainq[i])
    BY <1>1 DEF IInv, Marks
  <2> QED
    BY <2>1, <2>2 DEF MarkerIsCurrent, Told
<1>3. ForcedOffIsCold
  <2>1. ASSUME jobs # {}, NEW e \in Engines PROVE ~eng[e].disk
    <3>1. Idle(eng[e])
      BY <2>1, BusyIsAlone
    <3> QED
      BY <3>1 DEF IInv, AllSane, Sane, Points1
  <2>2. \A i \in DOMAIN mainq : mainq[i].stage = "forced" /\ mainq[i].ok => ~marker
    BY <1>1 DEF IInv, Marks
  <2> QED
    BY <2>1, <2>2 DEF ForcedOffIsCold
<1> QED
  BY <1>2, <1>3 DEF MarkerIsHonest

(* Whatever the owner taps while a machine starts, saves, shuts down,      *)
(* resets or is forced off, and whatever fails, two engines never hold the *)
(* work image at once, and an idle engine keeps neither the image nor an   *)
(* unanswered request (EmulatorViewController.m, VMEngine.m).              *)
THEOREM WorkImageHasOneOwner == Spec => []DiskOwned
BY Invariant, OwnedDisk, PTL

(* The resume marker is never there beside a machine that may still write  *)
(* its disk, a screen that is told its machine was saved or shut down      *)
(* finds it, a force-off disarms it only when no engine has the disk, and  *)
(* it is gone when the force-off is reported                               *)
(* (forcePowerOffWithCompletion in VMEngine.m).                            *)
THEOREM MarkerTellsTheTruth == Spec => []MarkerIsHonest
BY Invariant, HonestMarker, PTL

-----------------------------------------------------------------------------
(* Every completion runs once.                                             *)

LEMMA CountNone == Cardinality({}) = 0
BY FS_EmptySet

LEMMA CountOne == ASSUME NEW x PROVE Cardinality({x}) = 1
BY FS_Singleton

(* How often the tokens of one request occur in a sequence without doubles: *)
(* C is the set of their places.                                            *)
LEMMA CountTokens ==
  ASSUME NEW q \in Seq(Token), Single(q), NEW i, NEW t, t.id = i,
         \A u \in Elems(q) : u.id = i => u = t,
         NEW C, \A j : j \in C <=> j \in DOMAIN q /\ q[j].id = i
  PROVE  Cardinality(C) = IF t \in Elems(q) THEN 1 ELSE 0
<1>1. CASE t \in Elems(q)
  <2>1. PICK k \in DOMAIN q : q[k] = t
    BY <1>1 DEF Elems
  <2>2. \A j \in DOMAIN q : q[j].id = i => j = k
    BY <2>1 DEF Elems, Single
  <2>3. C = {k}
    BY <2>1, <2>2
  <2> QED
    BY <1>1, <2>3, CountOne
<1>2. CASE t \notin Elems(q)
  <2>1. C = {}
    BY <1>2 DEF Elems
  <2> QED
    BY <1>2, <2>1, CountNone
<1> QED
  BY <1>1, <1>2

(* The same for the tokens of the blocks in a queue. *)
LEMMA CountBlocks ==
  ASSUME NEW q \in Seq(Block), SingleTok(q), NEW i, NEW t, t.id = i,
         \A u \in TokensOf(q) : u.id = i => u = t,
         NEW C, \A j : j \in C <=> j \in DOMAIN q /\ q[j].tok.id = i
  PROVE  Cardinality(C) = IF t \in TokensOf(q) THEN 1 ELSE 0
<1>1. CASE t \in TokensOf(q)
  <2>1. PICK k \in DOMAIN q : q[k].tok = t
    BY <1>1 DEF TokensOf, Elems
  <2>2. \A j \in DOMAIN q : q[j].tok.id = i => j = k
    BY <2>1 DEF TokensOf, Elems, SingleTok
  <2>3. C = {k}
    BY <2>1, <2>2
  <2> QED
    BY <1>1, <2>3, CountOne
<1>2. CASE t \notin TokensOf(q)
  <2>1. C = {}
    BY <1>2 DEF TokensOf, Elems
  <2> QED
    BY <1>2, <2>1, CountNone
<1> QED
  BY <1>1, <1>2

(* The same for a set that holds one such token at most. *)
LEMMA CountSet ==
  ASSUME NEW S, NEW i, NEW t, t.id = i, \A u \in S : u.id = i => u = t,
         NEW C, \A u : u \in C <=> u \in S /\ u.id = i
  PROVE  Cardinality(C) = IF t \in S THEN 1 ELSE 0
<1>1. CASE t \in S
  <2>1. C = {t}
    BY <1>1
  <2> QED
    BY <1>1, <2>1, CountOne
<1>2. CASE t \notin S
  <2>1. C = {}
    BY <1>2
  <2> QED
    BY <1>2, <2>1, CountNone
<1> QED
  BY <1>1, <1>2

LEMMA CountHeld ==
  ASSUME IInv, NEW e \in Engines, NEW i, NEW t, t.id = i,
         \A u \in Toks(eng[e]) : u.id = i => u = t
  PROVE  Holds(e, i) = IF t \in Toks(eng[e]) THEN 1 ELSE 0
<1> DEFINE r == eng[e]
<1>1. /\ r \in EngineRec /\ Once(r)
      /\ r.stopDone \in Seq(Token) /\ r.taken \in Seq(Block)
      /\ r.ckptDone \in MaybeToken /\ r.shutDone \in MaybeToken
  BY EngineFields DEF IInv, Types, AllSane, Sane
<1>2. /\ \A u \in Elems(r.stopDone) : u.id = i => u = t
      /\ \A u \in TokensOf(r.taken) : u.id = i => u = t
      /\ \A u \in Kept(r.ckptDone) : u.id = i => u = t
      /\ \A u \in Kept(r.shutDone) : u.id = i => u = t
  BY DEF Toks
<1>3. /\ Cardinality({j \in DOMAIN r.stopDone : r.stopDone[j].id = i})
           = IF t \in Elems(r.stopDone) THEN 1 ELSE 0
      /\ Cardinality({j \in DOMAIN r.taken : r.taken[j].tok.id = i})
           = IF t \in TokensOf(r.taken) THEN 1 ELSE 0
      /\ Cardinality({u \in {r.ckptDone} \ {NoToken} : u.id = i})
           = IF t \in Kept(r.ckptDone) THEN 1 ELSE 0
      /\ Cardinality({u \in {r.shutDone} \ {NoToken} : u.id = i})
           = IF t \in Kept(r.shutDone) THEN 1 ELSE 0
  <2> DEFINE A == {j \in DOMAIN r.stopDone : r.stopDone[j].id = i}
             B == {j \in DOMAIN r.taken : r.taken[j].tok.id = i}
             C == {u \in {r.ckptDone} \ {NoToken} : u.id = i}
             D == {u \in {r.shutDone} \ {NoToken} : u.id = i}
  <2>1. Single(r.stopDone) /\ SingleTok(r.taken)
    BY <1>1 DEF Once
  <2>2. /\ \A j : j \in A <=> j \in DOMAIN r.stopDone /\ r.stopDone[j].id = i
        /\ \A j : j \in B <=> j \in DOMAIN r.taken /\ r.taken[j].tok.id = i
        /\ \A u : u \in C <=> u \in Kept(r.ckptDone) /\ u.id = i
        /\ \A u : u \in D <=> u \in Kept(r.shutDone) /\ u.id = i
    BY DEF Kept
  <2> HIDE DEF A, B, C, D, r
  <2>3. Cardinality(A) = IF t \in Elems(r.stopDone) THEN 1 ELSE 0
    BY <1>1, <1>2, <2>1, <2>2, CountTokens
  <2>4. Cardinality(B) = IF t \in TokensOf(r.taken) THEN 1 ELSE 0
    BY <1>1, <1>2, <2>1, <2>2, CountBlocks
  <2>5. Cardinality(C) = IF t \in Kept(r.ckptDone) THEN 1 ELSE 0
    BY <1>2, <2>2, CountSet
  <2>6. Cardinality(D) = IF t \in Kept(r.shutDone) THEN 1 ELSE 0
    BY <1>2, <2>2, CountSet
  <2> QED
    BY <2>3, <2>4, <2>5, <2>6 DEF A, B, C, D
<1>4. Holds(e, i) = (IF t \in Elems(r.stopDone) THEN 1 ELSE 0)
                    + (IF t \in TokensOf(r.taken) THEN 1 ELSE 0)
                    + (IF t \in Kept(r.ckptDone) THEN 1 ELSE 0)
                    + (IF t \in Kept(r.shutDone) THEN 1 ELSE 0)
  BY <1>3 DEF Holds
<1>5. /\ t \in Elems(r.stopDone) =>
           t \notin TokensOf(r.taken) /\ t \notin Kept(r.ckptDone) /\ t \notin Kept(r.shutDone)
      /\ t \in TokensOf(r.taken) => t \notin Kept(r.ckptDone) /\ t \notin Kept(r.shutDone)
      /\ t \in Kept(r.ckptDone) => t \notin Kept(r.shutDone)
  BY <1>1 DEF Once
<1>6. t \in Toks(r) <=> \/ t \in Elems(r.stopDone) \/ t \in TokensOf(r.taken)
                        \/ t \in Kept(r.ckptDone) \/ t \in Kept(r.shutDone)
  BY DEF Toks
<1> QED
  BY <1>4, <1>5, <1>6

LEMMA CountWaiting ==
  ASSUME IInv, NEW i, NEW t, t.id = i,
         \A u \in TokensOf(mainq) \cup jobs \cup InCall(scr) : u.id = i => u = t,
         \A b \in Elems(mainq) : b.tok.id = i => b.stage # "finish"
  PROVE  Waiting(i) = IF t \in TokensOf(mainq) \cup jobs \cup InCall(scr) THEN 1 ELSE 0
<1>1. Cardinality({j \in DOMAIN mainq : mainq[j].tok.id = i /\ mainq[j].stage # "finish"})
        = IF t \in TokensOf(mainq) THEN 1 ELSE 0
  <2> DEFINE C == {j \in DOMAIN mainq : mainq[j].tok.id = i /\ mainq[j].stage # "finish"}
  <2>1. mainq \in Seq(Block) /\ SingleTok(mainq)
    BY DEF IInv, Types, OnePlace
  <2>2. \A j : j \in C <=> j \in DOMAIN mainq /\ mainq[j].tok.id = i
    BY DEF Elems
  <2>3. \A u \in TokensOf(mainq) : u.id = i => u = t
    OBVIOUS
  <2> HIDE DEF C
  <2>4. Cardinality(C) = IF t \in TokensOf(mainq) THEN 1 ELSE 0
    BY <2>1, <2>2, <2>3, CountBlocks
  <2> QED
    BY <2>4 DEF C
<1>2. Cardinality({u \in jobs : u.id = i}) = IF t \in jobs THEN 1 ELSE 0
  <2> DEFINE C == {u \in jobs : u.id = i}
  <2>1. \A u : u \in C <=> u \in jobs /\ u.id = i
    OBVIOUS
  <2> HIDE DEF C
  <2>2. Cardinality(C) = IF t \in jobs THEN 1 ELSE 0
    BY <2>1, CountSet
  <2> QED
    BY <2>2 DEF C
<1>3. (scr.call # NoCall /\ scr.call.tok.id = i) <=> t \in InCall(scr)
  BY DEF InCall
<1>4. Waiting(i) = (IF t \in TokensOf(mainq) THEN 1 ELSE 0) + (IF t \in jobs THEN 1 ELSE 0)
                   + (IF t \in InCall(scr) THEN 1 ELSE 0)
  BY <1>1, <1>2, <1>3 DEF Waiting
<1>5. /\ t \in TokensOf(mainq) => t \notin jobs /\ t \notin InCall(scr)
      /\ t \in jobs => t \notin InCall(scr)
  BY DEF IInv, OnePlace
<1> QED
  BY <1>4, <1>5

LEMMA OnceAnswered == IInv => AnsweredOnce
<1> SUFFICES ASSUME IInv, NEW i \in Requests, calls[i] # -1
             PROVE  \E e \in Engines :
                      /\ Holds(e, i) + Waiting(i) + calls[i] = 1
                      /\ \A f \in Engines \ {e} : Holds(f, i) = 0
  BY DEF AnsweredOnce
<1>1. calls[i] = 0 \/ calls[i] = 1
  BY DEF IInv, Types
<1>2. 1 \in Engines
  BY Bounds DEF Engines
<1>3. CASE calls[i] = 0
  <2>1. PICK t \in Pending : t.id = i
    BY <1>3 DEF IInv, Remembered
  <2>2. \A u \in Pending : u.id = i => u = t
    BY <2>1 DEF IInv, Listened
  <2>3. ASSUME NEW e \in Engines PROVE Holds(e, i) = IF t \in Toks(eng[e]) THEN 1 ELSE 0
    <3>1. \A u \in Toks(eng[e]) : u.id = i => u = t
      BY <2>2, PendingIs
    <3> QED
      BY <2>1, <3>1, CountHeld
  <2>4. Waiting(i) = IF t \in TokensOf(mainq) \cup jobs \cup InCall(scr) THEN 1 ELSE 0
    <3>1. \A u \in TokensOf(mainq) \cup jobs \cup InCall(scr) : u.id = i => u = t
      BY <2>2, PendingIs
    <3>2. \A b \in Elems(mainq) : b.tok.id = i => b.stage # "finish"
      BY <1>3 DEF IInv, Stages
    <3> QED
      BY <2>1, <3>1, <3>2, CountWaiting
  <2>5. CASE \E e \in Engines : t \in Toks(eng[e])
    <3>1. PICK e \in Engines : t \in Toks(eng[e])
      BY <2>5
    <3>2. \A f \in Engines \ {e} : t \notin Toks(eng[f])
      BY <3>1 DEF IInv, OnePlace
    <3>3. t \notin TokensOf(mainq) \cup jobs \cup InCall(scr)
      BY <3>1 DEF IInv, OnePlace
    <3>4. Holds(e, i) = 1 /\ Waiting(i) = 0 /\ \A f \in Engines \ {e} : Holds(f, i) = 0
      BY <2>3, <2>4, <3>1, <3>2, <3>3
    <3> QED
      BY <1>3, <3>4
  <2>6. CASE ~\E e \in Engines : t \in Toks(eng[e])
    <3>1. t \in TokensOf(mainq) \cup jobs \cup InCall(scr)
      BY <2>1, <2>6, PendingIs
    <3>2. Waiting(i) = 1 /\ \A f \in Engines : Holds(f, i) = 0
      BY <2>3, <2>4, <2>6, <3>1
    <3> QED
      BY <1>2, <1>3, <3>2
  <2> QED
    BY <2>5, <2>6
<1>4. CASE calls[i] = 1
  <2>1. ASSUME NEW e \in Engines PROVE Holds(e, i) = 0
    <3>1. PICK t : t = [id |-> i, kind |-> "none"]
      OBVIOUS
    <3>2. \A u \in Toks(eng[e]) : u.id # i
      BY <1>4 DEF IInv, Stages
    <3>3. t.id = i
      BY <3>1
    <3> QED
      BY <3>2, <3>3, CountHeld
  <2>2. Waiting(i) = 0
    <3>1. {j \in DOMAIN mainq : mainq[j].tok.id = i /\ mainq[j].stage # "finish"} = {}
      BY <1>4 DEF IInv, Stages, Elems
    <3>2. {u \in jobs : u.id = i} = {}
      BY <1>4 DEF IInv, Stages
    <3>3. ~(scr.call # NoCall /\ scr.call.tok.id = i)
      BY <1>4 DEF IInv, Stages, InCall
    <3>4. /\ Cardinality({j \in DOMAIN mainq :
                           mainq[j].tok.id = i /\ mainq[j].stage # "finish"}) = 0
          /\ Cardinality({u \in jobs : u.id = i}) = 0
      BY <3>1, <3>2, CountNone, Zenon
    <3> QED
      BY <3>3, <3>4 DEF Waiting
  <2> QED
    BY <1>2, <1>4, <2>1, <2>2
<1> QED
  BY <1>1, <1>3, <1>4

(* Every completion runs exactly once: until then its token is in one      *)
(* place, kept by one engine, on its way to the main queue or handed over  *)
(* to the force-off job, and no step drops or doubles it; afterwards       *)
(* nothing is left of it (finish, Unsaved and Final in threadMain).        *)
THEOREM CompletionsRunOnce == Spec => []AnsweredOnce
BY Invariant, OnceAnswered, PTL
=============================================================================
