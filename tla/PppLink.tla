------------------------------ MODULE PppLink ------------------------------
(***************************************************************************)
(* The host's PPP peer (core/src/net/ppp.c) and the guest's pppd at the    *)
(* other end of uart4: two layers (LCP, and IPCP above it), each an        *)
(* automaton of RFC 1661 at both ends, over a serial line that delivers    *)
(* frames in order and may lose any of them (a bad FCS, an overlong frame, *)
(* a full transmit ring).                                                  *)
(*                                                                         *)
(* ppp.c is translated handler by handler into operators that take the     *)
(* state of one end, with its transmit ring, to the state after the        *)
(* handler.  The guest's pppd is not part of the repository; it is given   *)
(* the same automaton, as the repository's tests do when they put a second *)
(* ppp_peer_t on the line, and it may be killed, quit and be launched      *)
(* again.  It may also send what this automaton never does: a rejection, a *)
(* code or a protocol ppp.c does not know.                                 *)
(*                                                                         *)
(* A Configure-Request is reduced to what decides its answer: whether it   *)
(* carries an option the other end rejects, and whether its value is the   *)
(* one the other end wants.  For the guest's IPCP request these are the    *)
(* Van Jacobson option and the address 0.0.0.0.                            *)
(***************************************************************************)
EXTENDS Naturals, Sequences

CONSTANTS IDS,                 \* identifiers; 256 in the code
          PPP_MAX_CONFIGURE, PPP_MAX_TERMINATE, PPP_MAX_FAILURE,
          TX_FRAMES,           \* frames the transmit ring holds
          First,               \* First[end][layer]: the proposal an end starts with
          Budgets              \* bound: how often the line loses a frame, a timer
                               \* expires with frames still on the line, pppd is
                               \* killed or told to quit, pppd sends a frame out
                               \* of turn, and ppp_close is called

End == {"host", "guest"}
Layer == {"lcp", "ipcp"}
Proposal == [extra : BOOLEAN, value : {"good", "bad"}]

ASSUME PppAssumption ==
    /\ {IDS, PPP_MAX_CONFIGURE, PPP_MAX_TERMINATE, PPP_MAX_FAILURE, TX_FRAMES} \subseteq Nat \ {0}
    /\ First \in [End -> [Layer -> Proposal]]
    /\ Budgets \subseteq [loss : Nat, haste : Nat, death : Nat, stray : Nat, close : Nat]

VARIABLES peer,    \* ppp_peer_t of each end: both automata, opened, assigned, out;
                   \* and rejected, a history: which of its layers were rejected
                   \* since its LCP last went down
          faults   \* what is left of the budget

vars == <<peer, faults>>

State == {"Initial", "Closed", "Stopped", "Closing", "Stopping",
          "Req-Sent", "Ack-Rcvd", "Ack-Sent", "Opened"}

Negotiating == {"Req-Sent", "Ack-Rcvd", "Ack-Sent"}

\* "reject" is Code-Reject and Protocol-Reject, which are answered alike.
Code == {"req", "ack", "nak", "rej", "term-req", "term-ack",
         "reject", "echo-req", "echo-rep", "unknown"}

\* "other" is any protocol but LCP, IPCP and IP.
Frame == [layer : Layer \cup {"other"}, code : Code, id : 0..(IDS - 1), body : Proposal]

Nothing == [extra |-> FALSE, value |-> "good"]

Other(e) == CHOOSE x \in End : x # e

-----------------------------------------------------------------------------
\* Actions of the automaton.  c is one end.

\* Mutant: the room in the ring is not looked at.
SendUnchecked(c, p, code, id, body) ==
    [c EXCEPT !.out = Append(@, [layer |-> p, code |-> code, id |-> id, body |-> body])]

\* tx_frame: a whole frame is queued or none of it.
Send(c, p, code, id, body) ==
    IF Len(c.out) < TX_FRAMES
    THEN [c EXCEPT !.out = Append(@, [layer |-> p, code |-> code, id |-> id, body |-> body])]
    ELSE c

Irc(c, p, n) == [c EXCEPT ![p].restarts = n, ![p].failures = PPP_MAX_FAILURE]

RestartStart(c, p) == [c EXCEPT ![p].timer = TRUE]

RestartStop(c, p) == [c EXCEPT ![p].timer = FALSE]

Goto(c, p, state) == [c EXCEPT ![p].state = state]

\* A fresh request takes a new identifier; a retransmission keeps the old one.
NewId(c, p) == [c EXCEPT ![p].last = c[p].next, ![p].next = (@ + 1) % IDS]

Spend(c, p) == [c EXCEPT ![p].restarts = IF @ > 0 THEN @ - 1 ELSE 0]

Scr(c, p, fresh) ==
    LET d == IF fresh THEN NewId(c, p) ELSE c
    IN  RestartStart(Spend(Send(d, p, "req", d[p].last, d[p].want), p), p)

Str(c, p) ==
    LET d == NewId(c, p)
    IN  RestartStart(Spend(Send(d, p, "term-req", d[p].last, Nothing), p), p)

Sta(c, p, id) == Send(c, p, "term-ack", id, Nothing)

\* LCP's up event starts IPCP, which asks for every option again; IPCP's hands
\* out the address.
IpcpStart(c) ==
    LET d == [c EXCEPT !.ipcp.state = "Req-Sent", !.ipcp.want.extra = First[c.end].ipcp.extra]
    IN  Scr(Irc(d, "ipcp", PPP_MAX_CONFIGURE), "ipcp", TRUE)

Tlu(c, p) == IF p = "lcp" THEN IpcpStart(c) ELSE [c EXCEPT !.assigned = TRUE]

Tld(c, p) ==
    LET d == [c EXCEPT !.assigned = FALSE]
    IN  IF p = "lcp" THEN RestartStop(Goto([d EXCEPT !.rejected = {}], "ipcp", "Initial"), "ipcp")
        ELSE d

-----------------------------------------------------------------------------
\* Option negotiation.

\* Mutant: any address the guest asks for is acknowledged.
VerdictLenient(body) == IF body.extra THEN "rej" ELSE "ack"

\* classify_confreq: Reject beats Nak beats Ack.
Verdict(body) ==
    CASE body.extra -> "rej"
      [] ~body.extra /\ body.value = "bad" -> "nak"
      [] OTHER -> "ack"

\* apply_nak and apply_rej
ApplyNak(c, p) == [c EXCEPT ![p].want.value = "good"]
ApplyRej(c, p) == [c EXCEPT ![p].want.extra = FALSE]

-----------------------------------------------------------------------------
\* Events.

\* Mutant: an automaton that has given up does not start again.
EvRcrStaysStopped(c, p, m) ==
    LET verdict == Verdict(m.body)
        answered == Send(c, p, verdict, m.id, m.body)
        good == verdict = "ack"
    IN  CASE c[p].state \in {"Initial", "Closed", "Stopped"} -> Sta(c, p, m.id)
          [] c[p].state = "Opened" ->
                Goto(Send(Scr(Tld(c, p), p, TRUE), p, verdict, m.id, m.body), p,
                     IF good THEN "Ack-Sent" ELSE "Req-Sent")
          [] c[p].state \in {"Req-Sent", "Ack-Sent"} ->
                Goto(answered, p, IF good THEN "Ack-Sent" ELSE "Req-Sent")
          [] c[p].state = "Ack-Rcvd" /\ good -> Tlu(RestartStop(Goto(answered, p, "Opened"), p), p)
          [] OTHER -> answered

\* The other end asks.  In Stopped and Opened our own request goes first.
EvRcr(c, p, m) ==
    LET entry == c[p].state
        verdict == Verdict(m.body)
        again == CASE entry = "Stopped" -> Scr(Irc(c, p, PPP_MAX_CONFIGURE), p, TRUE)
                   [] entry = "Opened" -> Scr(Irc(Tld(c, p), p, PPP_MAX_CONFIGURE), p, TRUE)
                   [] OTHER -> c
        answered == Send(again, p, verdict, m.id, m.body)
        counted == IF verdict = "ack" THEN answered
                   ELSE [answered EXCEPT ![p].failures = @ - 1]
    IN  CASE entry \in {"Initial", "Closed"} -> Sta(c, p, m.id)
          [] OTHER ->
             IF verdict # "ack" /\ answered[p].failures = 0
             THEN RestartStop(Goto(answered, p, "Stopped"), p)
             ELSE CASE entry \in {"Stopped", "Opened", "Req-Sent", "Ack-Sent"} ->
                          Goto(counted, p, IF verdict = "ack" THEN "Ack-Sent" ELSE "Req-Sent")
                    [] entry = "Ack-Rcvd" /\ verdict = "ack" ->
                          Tlu(RestartStop(Goto(counted, p, "Opened"), p), p)
                    [] OTHER -> counted

\* Mutant: the timer is stopped as soon as our request is acknowledged.
EvRcaStopsTimer(c, p, m) ==
    CASE c[p].state = "Req-Sent" -> RestartStop(Goto(c, p, "Ack-Rcvd"), p)
      [] c[p].state = "Ack-Sent" -> Tlu(RestartStop(Goto(c, p, "Opened"), p), p)
      [] OTHER -> c

\* Our request is acknowledged; an Ack of another identifier is ignored.
EvRca(c, p, m) ==
    IF m.id # c[p].last THEN c
    ELSE CASE c[p].state \in {"Closed", "Stopped"} -> Sta(c, p, m.id)
           [] c[p].state = "Req-Sent" -> Goto(Irc(c, p, PPP_MAX_CONFIGURE), p, "Ack-Rcvd")
           [] c[p].state = "Ack-Rcvd" -> Goto(Scr(c, p, TRUE), p, "Req-Sent")
           [] c[p].state = "Ack-Sent" ->
                 Tlu(Goto(RestartStop(Irc(c, p, PPP_MAX_CONFIGURE), p), p, "Opened"), p)
           [] c[p].state = "Opened" -> Goto(Scr(Tld(c, p), p, TRUE), p, "Req-Sent")
           [] OTHER -> c

\* Our request is refused, in part or in whole; cp_input applies the refusal
\* before the event.
EvRcn(c, p, m) ==
    LET d == IF m.code = "nak" THEN ApplyNak(c, p) ELSE ApplyRej(c, p)
    IN  IF m.id # c[p].last THEN c
        ELSE CASE c[p].state \in {"Closed", "Stopped"} -> Sta(d, p, m.id)
               [] c[p].state \in {"Req-Sent", "Ack-Sent"} ->
                     Scr(Irc(d, p, PPP_MAX_CONFIGURE), p, TRUE)
               [] c[p].state = "Ack-Rcvd" -> Goto(Scr(d, p, TRUE), p, "Req-Sent")
               [] c[p].state = "Opened" -> Goto(Scr(Tld(d, p), p, TRUE), p, "Req-Sent")
               [] OTHER -> d

\* Mutant: the layer above is not told.
EvRtrQuiet(c, p, m) ==
    LET d == Sta(c, p, m.id)
    IN  CASE c[p].state = "Opened" ->
               RestartStart([Goto(d, p, "Stopping") EXCEPT ![p].restarts = 0], p)
          [] c[p].state \in Negotiating -> Goto(d, p, "Req-Sent")
          [] OTHER -> d

EvRtr(c, p, m) ==
    CASE c[p].state = "Opened" ->
           RestartStart(Goto(Sta([Tld(c, p) EXCEPT ![p].restarts = 0], p, m.id), p, "Stopping"), p)
      [] c[p].state \in Negotiating -> Goto(Sta(c, p, m.id), p, "Req-Sent")
      [] OTHER -> Sta(c, p, m.id)

EvRta(c, p) ==
    CASE c[p].state = "Closing" -> Goto(RestartStop(c, p), p, "Closed")
      [] c[p].state = "Stopping" -> Goto(RestartStop(c, p), p, "Stopped")
      [] c[p].state = "Ack-Rcvd" -> Goto(c, p, "Req-Sent")
      [] c[p].state = "Opened" -> Goto(Scr(Tld(c, p), p, TRUE), p, "Req-Sent")
      [] OTHER -> c

\* Mutant: a rejected LCP leaves IPCP as it is.
RejectedAlone(c, p) ==
    [RestartStop(Goto(c, p, "Stopped"), p) EXCEPT !.rejected = @ \cup {p}]

\* A Code-Reject or a Protocol-Reject stops the layer it arrives in, in
\* whatever state that is.  Only LCP's goes through tld: an IPCP that was open
\* keeps its address, one that was not started is in Stopped from now on.
Rejected(c, p) ==
    LET d == IF p = "lcp" THEN Tld(c, p) ELSE c
    IN  [RestartStop(Goto(d, p, "Stopped"), p) EXCEPT !.rejected = @ \cup {p}]

\* A code or a protocol that is not known is rejected, under a fresh identifier.
Reject(c, p) ==
    LET d == Send(c, p, "reject", c[p].next, Nothing)
    IN  [d EXCEPT ![p].next = (@ + 1) % IDS]

EchoReply(c, m) ==
    IF m.layer = "lcp" /\ c.lcp.state = "Opened" THEN Send(c, "lcp", "echo-rep", m.id, m.body)
    ELSE c

\* cp_input
CpInput(c, m) ==
    CASE m.code = "req" -> EvRcr(c, m.layer, m)
      [] m.code = "ack" -> EvRca(c, m.layer, m)
      [] m.code \in {"nak", "rej"} -> EvRcn(c, m.layer, m)
      [] m.code = "term-req" -> EvRtr(c, m.layer, m)
      [] m.code = "term-ack" -> EvRta(c, m.layer)
      [] m.code = "reject" -> Rejected(c, m.layer)
      [] m.code = "echo-req" -> EchoReply(c, m)
      [] m.code = "echo-rep" -> c
      [] m.code = "unknown" -> Reject(c, m.layer)

\* frame_input: a protocol that is not known is rejected by an open LCP only.
FrameInput(c, m) ==
    CASE m.layer \in Layer -> CpInput(c, m)
      [] m.layer = "other" -> IF c.lcp.state = "Opened" THEN Reject(c, "lcp") ELSE c

\* restart_timeout: retransmit, or give the layer up.
RestartTimeout(c, p) ==
    IF c[p].restarts = 0
    THEN Goto(RestartStop(c, p), p,
              CASE c[p].state = "Closing" -> "Closed"
                [] c[p].state \in {"Stopping"} \cup Negotiating -> "Stopped"
                [] OTHER -> c[p].state)
    ELSE CASE c[p].state \in {"Closing", "Stopping"} ->
                 RestartStart(Spend(Send(c, p, "term-req", c[p].last, Nothing), p), p)
           [] c[p].state \in Negotiating -> Scr(c, p, FALSE)
           [] OTHER -> RestartStop(c, p)

\* ppp_open
PppOpen(c) ==
    IF c.opened THEN c
    ELSE Scr(Goto(Irc([c EXCEPT !.opened = TRUE, !.lcp.want.extra = First[c.end].lcp.extra],
                      "lcp", PPP_MAX_CONFIGURE), "lcp", "Req-Sent"), "lcp", TRUE)

\* ppp_close
PppClose(c) ==
    LET d == [c EXCEPT !.opened = FALSE]
        down == IF d.lcp.state = "Opened" THEN Tld(d, "lcp") ELSE d
    IN  IF d.lcp.state \in {"Initial", "Closed"} THEN Goto(d, "lcp", "Closed")
        ELSE Str(Goto(Irc(down, "lcp", PPP_MAX_TERMINATE), "lcp", "Closing"), "lcp")

-----------------------------------------------------------------------------
Fsm(e, p) == [state |-> "Initial", last |-> 0, next |-> 1 % IDS, restarts |-> 0,
              failures |-> 0, timer |-> FALSE, want |-> First[e][p]]

\* ppp_init
Blank(e) == [end |-> e, lcp |-> Fsm(e, "lcp"), ipcp |-> Fsm(e, "ipcp"),
             opened |-> FALSE, assigned |-> FALSE, rejected |-> {}, out |-> <<>>]

Init ==
    /\ peer = [e \in End |-> Blank(e)]
    /\ faults \in Budgets

\* The session opens the host's peer at the first octet the guest sends
\* (uart4_guest_tx), whether its frame arrives whole or not.
Heard(host) == IF host.lcp.state = "Initial" THEN PppOpen(host) ELSE host

\* The frame an end sent first reaches the other end.  A guest without pppd
\* does not read it.
Deliver(e) ==
    LET to == Other(e)
        listener == IF to = "host" THEN Heard(peer.host) ELSE peer.guest
        m == Head(peer[e].out)
    IN  /\ peer[e].out # <<>>
        /\ peer' = [peer EXCEPT ![e].out = Tail(@),
                                ![to] = IF listener.opened \/ to = "host" THEN FrameInput(listener, m)
                                        ELSE listener]
        /\ UNCHANGED faults

\* The frame is damaged on the line.
Lose(e) ==
    /\ peer[e].out # <<>> /\ faults.loss > 0
    /\ LET line == [peer EXCEPT ![e].out = Tail(@)]
       IN  peer' = IF e = "guest" THEN [line EXCEPT !.host = Heard(@)] ELSE line
    /\ faults' = [faults EXCEPT !.loss = @ - 1]

Quiet == \A e \in End : peer[e].out = <<>>

\* ppp_tick: a restart timer expires, on a quiet line or, so many times, with
\* an answer still on its way.
Timeout(e, p) ==
    /\ peer[e][p].timer
    /\ \/ Quiet /\ UNCHANGED faults
       \/ ~Quiet /\ faults.haste > 0 /\ faults' = [faults EXCEPT !.haste = @ - 1]
    /\ peer' = [peer EXCEPT ![e] = RestartTimeout(@, p)]

HostClose ==
    /\ peer.host.opened /\ faults.close > 0
    /\ peer' = [peer EXCEPT !.host = PppClose(@)]
    /\ faults' = [faults EXCEPT !.close = @ - 1]

\* pppd starts, or starts again: a new process with the state of ppp_init.
GuestLaunch ==
    /\ ~peer.guest.opened
    /\ peer' = [peer EXCEPT !.guest = PppOpen([Blank("guest") EXCEPT !.out = peer.guest.out])]
    /\ UNCHANGED faults

\* pppd is killed, or quits and says so; what it has sent stays on the line.
GuestDies ==
    /\ peer.guest.opened /\ faults.death > 0
    /\ \E farewell \in BOOLEAN :
         peer' = [peer EXCEPT !.guest =
                    [Blank("guest") EXCEPT
                        !.out = IF farewell THEN Str(peer.guest, "lcp").out ELSE peer.guest.out]]
    /\ faults' = [faults EXCEPT !.death = @ - 1]

\* What pppd may send beside this automaton: a rejection of something it was
\* sent, an echo, a code or a protocol that ppp.c does not know.
Strays == ({"lcp", "ipcp"} \X {"reject", "echo-req", "unknown"}) \cup {<<"other", "unknown">>}

GuestStrays ==
    /\ peer.guest.opened /\ faults.stray > 0
    /\ \E s \in Strays : peer' = [peer EXCEPT !.guest = Send(@, s[1], s[2], 0, Nothing)]
    /\ faults' = [faults EXCEPT !.stray = @ - 1]

\* pppd exits when a layer has given up.
GuestGivesUp ==
    /\ peer.guest.opened
    /\ "Stopped" \in {peer.guest.lcp.state, peer.guest.ipcp.state}
    /\ peer' = [peer EXCEPT !.guest = [Blank("guest") EXCEPT !.out = peer.guest.out]]
    /\ UNCHANGED faults

Next ==
    \/ \E e \in End : Deliver(e) \/ Lose(e)
    \/ \E e \in End, p \in Layer : Timeout(e, p)
    \/ HostClose \/ GuestLaunch \/ GuestDies \/ GuestStrays \/ GuestGivesUp

\* Frames that are not lost arrive, timers expire, and launchd starts pppd
\* again after it has exited.
Fairness ==
    /\ \A e \in End : WF_vars(Deliver(e))
    /\ \A e \in End, p \in Layer : SF_vars(Timeout(e, p))
    /\ WF_vars(GuestLaunch) /\ WF_vars(GuestGivesUp)

Spec == Init /\ [][Next]_vars /\ Fairness

-----------------------------------------------------------------------------
FsmType == [state : State, last : 0..(IDS - 1), next : 0..(IDS - 1),
            restarts : 0..(PPP_MAX_CONFIGURE + PPP_MAX_TERMINATE), failures : 0..PPP_MAX_FAILURE,
            timer : BOOLEAN, want : Proposal]

\* Every automaton is in one of its states with its counters in range, and the
\* transmit ring of ppp.c never holds more than it has room for.
TypeOK ==
    \A e \in End :
        /\ peer[e].lcp \in FsmType /\ peer[e].ipcp \in FsmType
        /\ peer[e].opened \in BOOLEAN /\ peer[e].assigned \in BOOLEAN
        /\ peer[e].rejected \subseteq Layer
        /\ peer[e].out \in Seq(Frame) /\ Len(peer[e].out) <= TX_FRAMES

\* An open IPCP has handed out its address.  Nothing but a rejection of IPCP
\* (cp_input, RXJ-) takes the layers out of order: unless one has come since LCP
\* last went down, IPCP has left Initial only while LCP is open, and the guest's
\* address is assigned only while IPCP is.  However many rejections came, LCP
\* going down restores the order (tlu and tld of ppp.c).
Layered ==
    LET h == peer.host
    IN  /\ h.ipcp.state = "Opened" => h.assigned
        /\ "ipcp" \notin h.rejected =>
             /\ h.ipcp.state # "Initial" => h.lcp.state = "Opened"
             /\ h.assigned => h.ipcp.state = "Opened"

\* A rejection "takes the layer down" (cp_input), and IPCP's tld takes the
\* address back: an address is assigned only while IPCP is open.  The code does
\* not keep this: it calls tld for a rejected LCP only (PppLinkReject.cfg).
AssignedWhileOpen == peer.host.assigned => peer.host.ipcp.state = "Opened"

\* Every state in which the host waits for the other end has a timer that ends
\* the wait ("leave this side waiting forever with no timer to notice",
\* ev_rca of ppp.c), and no timer runs anywhere else.
WaitsAreTimed ==
    \A p \in Layer :
        peer.host[p].timer <=> peer.host[p].state \in Negotiating \cup {"Closing", "Stopping"}

\* The host's two automata stay in order: layered, timed, and within the room of
\* the transmit ring.
Orderly == TypeOK /\ Layered /\ WaitsAreTimed

\* When a layer is open at both ends and nothing is on the line, each end has
\* asked for what the other accepts, and the host has handed out the address
\* the guest uses.
Agreement ==
    \A p \in Layer :
        /\ Quiet
        /\ \A e \in End : peer[e][p].state = "Opened"
        => \A e \in End : peer[e][p].want = [extra |-> FALSE, value |-> "good"]

\* However frames are lost, timers hurry and pppd dies or speaks out of turn, the
\* link comes up in the end and stays up, unless the host has closed it or a layer
\* of it stays stopped by a rejection, which pppd has to end by asking again.
LinkComesUp ==
    <>[](\/ peer.host.lcp.state \in {"Closing", "Closed"}
         \/ \E p \in peer.host.rejected : peer.host[p].state = "Stopped"
         \/ \A e \in End : peer[e].ipcp.state = "Opened")
=============================================================================
