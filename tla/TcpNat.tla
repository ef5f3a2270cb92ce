--------------------------------- MODULE TcpNat ---------------------------------
(***************************************************************************)
(* The TCP endpoint that faces the guest (core/src/net/tcp.c) and what it  *)
(* uses of core/src/net/net.c: one flow of the NAT, the bounded queue of   *)
(* datagrams toward the guest, and the host socket behind the egress       *)
(* callbacks.  The guest's TCP, the link and the host are external; the    *)
(* guest may send any segment a TCP in its position may send.              *)
(*                                                                         *)
(* A byte is its position in its stream, 1, 2, ...  Sequence numbers wrap  *)
(* at SeqMod (2^32 in the code) and are compared as signed differences.    *)
(* A deadline is "off", "armed" or "due"; Elapse makes an armed one due.   *)
(***************************************************************************)
EXTENDS Integers, Sequences

CONSTANTS
  SeqMod,        \* sequence numbers are taken modulo this
  NatIss,        \* where the NAT's initial send sequences start
  IssStride,     \* and what the walk adds for each connection
  GuestIss,      \* the guest's initial send sequence
  HostBytes,     \* the bytes the host has for the guest
  GuestBytes,    \* the bytes the guest has for the host
  Mss,           \* the segment size the guest's SYN settles
  CwndFloor,     \* RFC 3390's floor of the initial window (4380)
  CwndSegments,  \* NET_TCP_CWND_MAX_SEGMENTS
  TxBuf, RxBuf,  \* NET_TCP_TXBUF and NET_TCP_RXBUF
  OutSlots,      \* NET_OUT_SLOTS
  RtxMax,        \* NET_TCP_RTX_MAX
  GuestWindow,   \* the receive buffer of the guest
  LinkSlots,     \* bound: segments under way to the NAT
  MaxSyns,       \* bound: SYNs the guest sends
  MaxLoss,       \* bound: segments the link loses
  MaxFaults,     \* bound: resets and stray segments of the guest
  ServerFirst,   \* the host may speak before it has heard the guest
  HostFails,     \* host sockets may fail, and the flow table may be full
  Prompt         \* a retransmission timer never runs out while an answer
                 \* is under way

ASSUME SequenceAssumption ==
  /\ SeqMod \in Nat /\ IssStride \in Nat
  /\ SeqMod > 2 * (HostBytes + GuestBytes + TxBuf + RxBuf + 4)
  /\ {NatIss, GuestIss} \subseteq 0 .. SeqMod - 1

ASSUME SizeAssumption ==
  /\ {HostBytes, GuestBytes, RtxMax, MaxSyns, MaxLoss, MaxFaults}
       \subseteq Nat
  /\ {Mss, CwndFloor, CwndSegments, TxBuf, RxBuf, OutSlots, GuestWindow,
      LinkSlots} \subseteq Nat \ {0}
  /\ {ServerFirst, HostFails, Prompt} \subseteq BOOLEAN

VARIABLES
  flow,    \* the net_flow_t of the connection
  outq,    \* ns->out, the datagrams toward the guest
  iss,     \* ns->iss_walk
  host,    \* the egress socket
  guest,   \* the guest's end of the connection
  link,    \* segments on their way from the guest
  budget   \* SYNs, losses and faults that happened

vars == <<flow, outq, iss, host, guest, link, budget>>

----------------------------------------------------------------------------
(* Sequence numbers: net_seq_lt and net_seq_le. *)

Add(a, n) == (a + n) % SeqMod
Gap(a, b) == (a - b) % SeqMod
SeqLt(a, b) == Gap(a, b) >= SeqMod \div 2
SeqLe(a, b) == a = b \/ SeqLt(a, b)

Least(a, b) == IF a < b THEN a ELSE b
Most(a, b) == IF a < b THEN b ELSE a
Drop(s, n) == SubSeq(s, n + 1, Len(s))

Segment(flags, seq, ack, wnd, data) ==
  [flags |-> flags, seq |-> seq, ack |-> ack, wnd |-> wnd, data |-> data]

States == {"CLOSED", "SYN_RCVD", "ESTABLISHED", "FIN_WAIT_1", "FIN_WAIT_2",
           "CLOSE_WAIT", "CLOSING", "LAST_ACK", "TIME_WAIT"}

(* A slot of the flow table that net_flow_free has zeroed. *)
NoFlow ==
  [used |-> FALSE, state |-> "CLOSED", rcv_nxt |-> 0, snd_una |-> 0,
   snd_nxt |-> 0, snd_max |-> 0, snd_wnd |-> 0, cwnd |-> 0, ssthresh |-> 0,
   fin_sent |-> FALSE, host_eof |-> FALSE, tx_shutdown |-> FALSE,
   need_ack |-> FALSE, rto |-> "off", rtx |-> 0, close_at |-> "off",
   txbuf |-> <<>>, rxbuf |-> <<>>]

(* What a handler works on: the flow, the output queue and the socket. *)
Now == [f |-> flow, out |-> outq, h |-> host]
Become(S) == flow' = S.f /\ outq' = S.out /\ host' = S.h

----------------------------------------------------------------------------
(* Sending *)

Room(S) == Len(S.out) < OutSlots

(* tcp_out: a segment that finds no room in the queue is not sent and      *)
(* commits no sequence space.                                              *)
TcpOut(S, flags, seq, data) ==
  IF ~Room(S) THEN S
  ELSE LET occupied == Len(data) + (IF flags \cap {"SYN", "FIN"} # {} THEN 1 ELSE 0)
           end == Add(seq, occupied)
       IN [S EXCEPT
             !.out = Append(@, Segment(flags, seq, S.f.rcv_nxt,
                                       RxBuf - Len(S.f.rxbuf), data)),
             !.f.snd_max = IF occupied > 0 /\ SeqLt(@, end) THEN end ELSE @,
             !.f.need_ack = @ /\ "ACK" \notin flags]

(* tcp_reject: the reset for a segment no connection accepts. *)
TcpReject(S, seg) ==
  IF "RST" \in seg.flags \/ ~Room(S) THEN S
  ELSE LET end == Add(seg.seq, Len(seg.data)
                        + (IF "SYN" \in seg.flags THEN 1 ELSE 0)
                        + (IF "FIN" \in seg.flags THEN 1 ELSE 0))
       IN [S EXCEPT !.out = Append(@,
             IF "ACK" \in seg.flags
             THEN Segment({"RST"}, seg.ack, 0, 0, <<>>)
             ELSE Segment({"RST", "ACK"}, 0, end, 0, <<>>))]

(* net_flow_free: the socket is closed and the slot goes back. *)
FlowFree(S, why) == [S EXCEPT !.f = NoFlow, !.h.end = why]

TcpAbort(S) == FlowFree(TcpOut(S, {"RST", "ACK"}, S.f.snd_nxt, <<>>), "reset")

----------------------------------------------------------------------------
(* Timers and the congestion window *)

Unacked(f) == f.snd_nxt # f.snd_una
(* Mutant: no timer for a closed window. *)
PersistingNever(f) == FALSE
Persisting(f) == ~Unacked(f) /\ f.txbuf # <<>> /\ f.snd_wnd = 0

TcpTimers(S) ==
  IF Unacked(S.f) \/ Persisting(S.f)
  THEN [S EXCEPT !.f.rto = IF @ = "off" THEN "armed" ELSE @]
  ELSE [S EXCEPT !.f.rto = "off", !.f.rtx = 0]

(* tcp_inflight: the FIN occupies a sequence and no byte of the buffer. *)
Inflight(f) ==
  LET n == Gap(f.snd_nxt, f.snd_una)
  IN IF f.fin_sent THEN Least(n, Len(f.txbuf)) ELSE n

InitialCwnd == Least(4 * Mss, Most(2 * Mss, CwndFloor))
CwndCeiling == Least(Least(CwndSegments, OutSlots) * Mss, TxBuf)

CwndAck(f, acked) ==
  LET increase == IF f.cwnd < f.ssthresh
                  THEN Least(acked, Mss)
                  ELSE Most(1, (Mss * Mss) \div f.cwnd)
  IN IF acked = 0 THEN f.cwnd ELSE Least(CwndCeiling, f.cwnd + increase)

CwndTimeout(f) ==
  [f EXCEPT !.ssthresh = Least(Most(Inflight(f) \div 2, 2 * Mss), CwndCeiling),
            !.cwnd = Mss]

----------------------------------------------------------------------------
(* tcp_pump *)

(* The data the two windows and the queue admit, as full segments and a    *)
(* shorter last one.                                                       *)
PumpData(S) ==
  LET f == S.f
      sent == Inflight(f)
      limit == Least(Len(f.txbuf), Least(f.snd_wnd, f.cwnd))
      wanted == IF limit > sent THEN (limit - sent + Mss - 1) \div Mss ELSE 0
      k == Least(wanted, OutSlots - Len(S.out))
      upto == Least(sent + k * Mss, limit)
      Piece(i) ==
        Segment({"ACK"}, Add(f.snd_nxt, (i - 1) * Mss), f.rcv_nxt,
                RxBuf - Len(f.rxbuf),
                SubSeq(f.txbuf, sent + (i - 1) * Mss + 1,
                       Least(sent + i * Mss, limit)))
      next == Add(f.snd_nxt, upto - sent)
  IN IF k = 0 THEN S
     ELSE [S EXCEPT !.out = @ \o [i \in 1 .. k |-> Piece(i)],
                    !.f.snd_nxt = next,
                    !.f.snd_max = IF SeqLt(@, next) THEN next ELSE @,
                    !.f.need_ack = FALSE]

(* The end of the host stream commits the FIN. *)
PumpClose(S) ==
  IF S.f.host_eof /\ ~S.f.fin_sent /\ S.f.state \in {"ESTABLISHED", "CLOSE_WAIT"}
  THEN [S EXCEPT !.f.fin_sent = TRUE,
                 !.f.state = IF @ = "CLOSE_WAIT" THEN "LAST_ACK" ELSE "FIN_WAIT_1"]
  ELSE S

(* The FIN follows the last byte of the buffer while it is outstanding. *)
(* Mutant: every state in which a FIN was sent. *)
FinOutstandingAcked(f) == f.state \in {"FIN_WAIT_1", "FIN_WAIT_2", "CLOSING", "LAST_ACK"}
FinOutstanding(f) == f.state \in {"FIN_WAIT_1", "CLOSING", "LAST_ACK"}
(* Mutant: the FIN does not wait for the data before it. *)
PumpFinEarly(S) ==
  IF S.f.fin_sent /\ ~SeqLt(Add(S.f.snd_una, Len(S.f.txbuf)), S.f.snd_nxt)
     /\ FinOutstanding(S.f) /\ Room(S)
  THEN [TcpOut(S, {"ACK", "FIN"}, S.f.snd_nxt, <<>>) EXCEPT !.f.snd_nxt = Add(@, 1)]
  ELSE S
PumpFin(S) ==
  IF /\ S.f.fin_sent
     /\ S.f.snd_nxt = Add(S.f.snd_una, Len(S.f.txbuf))
     /\ FinOutstanding(S.f)
     /\ Room(S)
  THEN [TcpOut(S, {"ACK", "FIN"}, S.f.snd_nxt, <<>>) EXCEPT !.f.snd_nxt = Add(@, 1)]
  ELSE S

PumpAck(S) ==
  IF S.f.need_ack THEN TcpOut(S, {"ACK"}, S.f.snd_nxt, <<>>) ELSE S

TcpPump(S) ==
  IF S.f.state \in {"SYN_RCVD", "TIME_WAIT"} THEN S
  ELSE TcpTimers(PumpAck(PumpFin(PumpClose(PumpData(S)))))

----------------------------------------------------------------------------
(* net_tcp_tick *)

GuestFinished(s) == s \in {"CLOSE_WAIT", "CLOSING", "LAST_ACK", "TIME_WAIT"}

(* TIME_WAIT acknowledges what needs it until its deadline passes. *)
TimeWaitTick(S) ==
  LET A == IF S.f.need_ack THEN TcpOut(S, {"ACK"}, S.f.snd_nxt, <<>>) ELSE S
  IN Become(IF S.f.close_at = "due" THEN FlowFree(A, "clean") ELSE A)

Connecting(f) == f.state = "SYN_RCVD" /\ ~Unacked(f)

(* The guest's SYN is answered once the host socket is connected.  The     *)
(* connect deadline is read only before that, so it is dropped here.       *)
ConnectTick(S) ==
  \/ /\ ~S.h.ready
     /\ Become(IF S.f.close_at = "due" THEN TcpAbort(S) ELSE S)
  \/ /\ HostFails
     /\ Become(TcpAbort(S))
  \/ LET R == [S EXCEPT !.h.ready = TRUE, !.f.close_at = "off"]
     IN Become(IF ~Room(R) THEN R
               ELSE TcpTimers([TcpOut(R, {"SYN", "ACK"}, R.f.snd_nxt, <<>>)
                                 EXCEPT !.f.snd_nxt = Add(@, 1)]))

(* The socket takes the first w bytes of rxbuf; once the guest's stream is *)
(* over and flushed the socket is half-closed.                             *)
ToHost(S, w) ==
  IF w = 0 THEN S
  ELSE [S EXCEPT !.f.rxbuf = Drop(@, w),
                 !.f.need_ack = TRUE,
                 !.h.got = @ \o SubSeq(S.f.rxbuf, 1, w)]
HalfClose(S) ==
  IF GuestFinished(S.f.state) /\ S.f.rxbuf = <<>> /\ ~S.f.tx_shutdown
  THEN [S EXCEPT !.f.tx_shutdown = TRUE, !.h.shut = TRUE]
  ELSE S

(* The socket gives k bytes and then the end of its stream, or no end yet. *)
Readable(S) == ~S.f.host_eof /\ Len(S.f.txbuf) < TxBuf
Available(h) == IF ServerFirst \/ h.got # <<>> THEN HostBytes - h.sent ELSE 0
Offered(S) ==
  IF Readable(S) THEN 0 .. Least(Available(S.h), TxBuf - Len(S.f.txbuf)) ELSE {0}
FromHost(S, k) ==
  [S EXCEPT !.f.txbuf = @ \o [i \in 1 .. k |-> S.h.sent + i], !.h.sent = @ + k]
SeesEnd(S) == Readable(S) /\ S.h.sent = HostBytes

(* Mutant: one retransmission too many. *)
TimerExpiredLate(S) ==
  LET T == [S EXCEPT !.f.rto = "off", !.f.rtx = @ + 1]
      back == [CwndTimeout(T.f) EXCEPT !.snd_nxt = T.f.snd_una]
  IN IF T.f.rtx > RtxMax + 1 THEN TcpAbort(T) ELSE TcpPump([T EXCEPT !.f = back])
(* A due timer: give up, probe a closed window, or go back to snd_una. *)
TimerExpired(S) ==
  LET T == [S EXCEPT !.f.rto = "off", !.f.rtx = @ + 1]
      back == [CwndTimeout(T.f) EXCEPT !.snd_nxt = T.f.snd_una]
  IN CASE T.f.rtx > RtxMax -> TcpAbort(T)
       [] T.f.rtx <= RtxMax /\ Persisting(T.f) ->
            IF Room(T)
            THEN TcpTimers(TcpOut(T, {"ACK"}, T.f.snd_nxt, <<Head(T.f.txbuf)>>))
            ELSE T
       [] OTHER -> TcpPump([T EXCEPT !.f = back])

TickEnd(S) == IF S.f.rto = "due" THEN TimerExpired(S) ELSE TcpPump(S)

TransferTick(S) ==
  \/ \E w \in 0 .. Len(S.f.rxbuf) :
       LET A == HalfClose(ToHost(S, w))
       IN \E k \in Offered(A) :
            LET B == FromHost(A, k)
            IN \/ Become(TickEnd(B))
               \/ SeesEnd(B) /\ Become(TickEnd([B EXCEPT !.f.host_eof = TRUE]))
               \/ HostFails /\ Readable(B) /\ Become(TcpAbort(B))
  \/ HostFails /\ S.f.rxbuf # <<>> /\ Become(TcpAbort(S))

NetTcpTick(S) ==
  \/ S.f.state = "TIME_WAIT" /\ TimeWaitTick(S)
  \/ S.f.state = "CLOSED" /\ Become(FlowFree(S, "clean"))
  \/ Connecting(S.f) /\ ConnectTick(S)
  \/ /\ S.f.state \notin {"TIME_WAIT", "CLOSED"}
     /\ ~Connecting(S.f)
     /\ TransferTick(S)

----------------------------------------------------------------------------
(* net_tcp_input *)

(* tcp_syn: a slot, a socket and a first look at it. *)
NewFlow(seg, isn) ==
  [NoFlow EXCEPT !.used = TRUE, !.state = "SYN_RCVD",
     !.rcv_nxt = Add(seg.seq, 1), !.snd_wnd = seg.wnd,
     !.cwnd = InitialCwnd, !.ssthresh = CwndCeiling,
     !.snd_una = isn, !.snd_nxt = isn, !.snd_max = isn, !.close_at = "armed"]
NewSocket == [end |-> "open", ready |-> FALSE, sent |-> 0, got |-> <<>>, shut |-> FALSE]
TcpSyn(S, seg) ==
  LET isn == Add(iss, IssStride)
      new == NewFlow(seg, isn)
  IN \/ HostFails /\ Become(TcpReject(S, seg)) /\ UNCHANGED iss
     \/ /\ HostFails
        /\ Become([TcpOut([S EXCEPT !.f = new], {"RST", "ACK"}, isn, <<>>)
                     EXCEPT !.f = NoFlow])
        /\ iss' = isn
     \/ NetTcpTick([S EXCEPT !.f = new, !.h = NewSocket]) /\ iss' = isn

(* tcp_consume_ack: only what was emitted can be acknowledged. *)
AfterFinAck(s) ==
  CASE s = "FIN_WAIT_1" -> "FIN_WAIT_2"
    [] s = "CLOSING" -> "TIME_WAIT"
    [] s = "LAST_ACK" -> "CLOSED"
    [] OTHER -> s
(* Mutant: an acknowledgement that passes the cursor leaves it behind. *)
ConsumeAckKeepsCursor(f, ack) ==
  LET advance == Gap(ack, f.snd_una)
      dat == Least(advance, Len(f.txbuf))
      finAcked == f.fin_sent /\ advance > Len(f.txbuf)
  IN IF ~(SeqLt(f.snd_una, ack) /\ SeqLe(ack, f.snd_max)) THEN f
     ELSE [f EXCEPT !.cwnd = CwndAck(f, dat), !.txbuf = Drop(@, dat),
                    !.snd_una = ack, !.rtx = 0, !.rto = "off",
                    !.state = IF finAcked THEN AfterFinAck(@) ELSE @]
ConsumeAck(f, ack) ==
  LET advance == Gap(ack, f.snd_una)
      dat == Least(advance, Len(f.txbuf))
      finAcked == f.fin_sent /\ advance > Len(f.txbuf)
  IN IF ~(SeqLt(f.snd_una, ack) /\ SeqLe(ack, f.snd_max)) THEN f
     ELSE [f EXCEPT !.cwnd = CwndAck(f, dat),
                    !.txbuf = Drop(@, dat),
                    !.snd_una = ack,
                    !.snd_nxt = IF SeqLt(@, ack) THEN ack ELSE @,
                    !.rtx = 0,
                    !.rto = "off",
                    !.state = IF finAcked THEN AfterFinAck(@) ELSE @,
                    !.close_at = IF finAcked /\ f.state = "CLOSING" THEN "armed" ELSE @]

(* The window, the acknowledgement, and the end of the handshake. *)
AckTaken(S, seg) ==
  LET A == [S EXCEPT !.f = ConsumeAck([S.f EXCEPT !.snd_wnd = seg.wnd], seg.ack)]
      T == IF Unacked(A.f) THEN A ELSE TcpTimers(A)
  IN [T EXCEPT !.f.state = IF @ = "SYN_RCVD" THEN "ESTABLISHED" ELSE @]

SegEnd(seg) == Add(seg.seq, Len(seg.data))
Fits(S, seg) == SeqLe(seg.seq, S.f.rcv_nxt) /\ SeqLt(S.f.rcv_nxt, SegEnd(seg))
(* Mutants: the prefix already seen is taken again; what found no space is *)
(* acknowledged; what was stored is not counted.                           *)
DataTakenAgain(S, seg) ==
  IF seg.data = <<>> \/ GuestFinished(S.f.state) \/ ~Fits(S, seg) THEN S
  ELSE LET len == Least(Len(seg.data), RxBuf - Len(S.f.rxbuf))
       IN [S EXCEPT !.f.rxbuf = @ \o SubSeq(seg.data, 1, len),
                    !.f.rcv_nxt = Add(@, len), !.f.need_ack = TRUE]
DataTakenUnstored(S, seg) ==
  IF seg.data = <<>> \/ GuestFinished(S.f.state) \/ ~Fits(S, seg) THEN S
  ELSE LET skip == Gap(S.f.rcv_nxt, seg.seq)
           len == Least(Len(seg.data) - skip, RxBuf - Len(S.f.rxbuf))
       IN [S EXCEPT !.f.rxbuf = @ \o SubSeq(seg.data, skip + 1, skip + len),
                    !.f.rcv_nxt = SegEnd(seg), !.f.need_ack = TRUE]
DataTakenUncounted(S, seg) ==
  IF seg.data = <<>> \/ GuestFinished(S.f.state) \/ ~Fits(S, seg) THEN S
  ELSE LET skip == Gap(S.f.rcv_nxt, seg.seq)
           len == Least(Len(seg.data) - skip, RxBuf - Len(S.f.rxbuf))
       IN [S EXCEPT !.f.rxbuf = @ \o SubSeq(seg.data, skip + 1, skip + len),
                    !.f.need_ack = TRUE]
(* The next bytes, less the prefix already seen and what finds no space;   *)
(* anything else is answered with the cumulative acknowledgement.          *)
DataTaken(S, seg) ==
  LET skip == Gap(S.f.rcv_nxt, seg.seq)
      len == Least(Len(seg.data) - skip, RxBuf - Len(S.f.rxbuf))
  IN IF seg.data = <<>> \/ GuestFinished(S.f.state) THEN S
     ELSE IF Fits(S, seg)
     THEN [S EXCEPT !.f.rxbuf = @ \o SubSeq(seg.data, skip + 1, skip + len),
                    !.f.rcv_nxt = Add(@, len),
                    !.f.need_ack = TRUE]
     ELSE [S EXCEPT !.f.need_ack = TRUE]

(* The guest's FIN, or its retransmission. *)
AfterFin(s) ==
  CASE s = "ESTABLISHED" -> "CLOSE_WAIT"
    [] s = "FIN_WAIT_1" -> "CLOSING"
    [] s = "FIN_WAIT_2" -> "TIME_WAIT"
    [] OTHER -> s
FinTaken(S, seg) ==
  IF "FIN" \notin seg.flags THEN S
  ELSE IF GuestFinished(S.f.state)
  THEN [S EXCEPT !.f.need_ack = TRUE,
                 !.f.close_at = IF S.f.state = "TIME_WAIT" THEN "armed" ELSE @]
  ELSE IF SegEnd(seg) = S.f.rcv_nxt
  THEN [S EXCEPT !.f.rcv_nxt = Add(@, 1),
                 !.f.need_ack = TRUE,
                 !.f.state = AfterFin(@),
                 !.f.close_at = IF S.f.state = "FIN_WAIT_2" THEN "armed" ELSE @]
  ELSE S

FutureAck(f, seg) == SeqLt(f.snd_max, seg.ack)
RefusedAck(f, seg) ==
  f.state = "SYN_RCVD" /\ (FutureAck(f, seg) \/ ~SeqLt(f.snd_una, seg.ack))

(* A segment for the flow: reset, SYN, or an acknowledgement with whatever *)
(* it carries.                                                             *)
ForFlow(S, seg) ==
  \/ "RST" \in seg.flags /\ Become(FlowFree(S, "reset"))
  \/ /\ "SYN" \in seg.flags /\ "RST" \notin seg.flags
     /\ Become(IF S.f.state # "SYN_RCVD" THEN TcpAbort(S)
               ELSE IF Unacked(S.f)
                    THEN TcpOut(S, {"SYN", "ACK"}, S.f.snd_una, <<>>)
                    ELSE S)
  \/ seg.flags \cap {"RST", "SYN", "ACK"} = {} /\ Become(S)
  \/ /\ seg.flags \cap {"RST", "SYN", "ACK"} = {"ACK"}
     /\ \/ RefusedAck(S.f, seg) /\ Become(TcpReject(S, seg))
        \/ /\ ~RefusedAck(S.f, seg) /\ FutureAck(S.f, seg)
           /\ Become(TcpOut([S EXCEPT !.f.need_ack = TRUE], {"ACK"}, S.f.snd_nxt, <<>>))
        \/ /\ ~RefusedAck(S.f, seg) /\ ~FutureAck(S.f, seg)
           /\ NetTcpTick(FinTaken(DataTaken(AckTaken(S, seg), seg), seg))

Opens(seg) == seg.flags = {"SYN"}
NetTcpInput(seg) ==
  \/ flow.used /\ ForFlow(Now, seg) /\ UNCHANGED iss
  \/ ~flow.used /\ Opens(seg) /\ TcpSyn(Now, seg)
  \/ ~flow.used /\ ~Opens(seg) /\ Become(TcpReject(Now, seg)) /\ UNCHANGED iss

Tick == /\ flow.used /\ NetTcpTick(Now)
        /\ UNCHANGED <<iss, guest, link, budget>>

Input == /\ link # <<>>
         /\ link' = Tail(link)
         /\ NetTcpInput(Head(link))
         /\ UNCHANGED <<guest, budget>>

(* The clock passes a deadline. *)
Quiet == /\ outq = <<>> /\ link = <<>>
         /\ ~guest.owes /\ guest.wnd = GuestWindow
Elapse ==
  /\ \/ /\ flow.rto = "armed" /\ (Prompt => Quiet)
        /\ flow' = [flow EXCEPT !.rto = "due"]
     \/ /\ flow.close_at = "armed" /\ flow.state \in {"SYN_RCVD", "TIME_WAIT"}
        /\ flow' = [flow EXCEPT !.close_at = "due"]
  /\ UNCHANGED <<outq, iss, host, guest, link, budget>>

----------------------------------------------------------------------------
(* The guest's TCP (external).  Byte i of its stream has the sequence      *)
(* number GuestIss + i, its FIN the one after the last byte; una is the    *)
(* offset of the oldest one it has not seen acknowledged.                  *)

Last == GuestBytes + 1
Sendable == Len(link) < LinkSlots
GuestSyn ==
  /\ guest.st = "SYN_SENT" /\ Sendable /\ budget.syns < MaxSyns
  /\ link' = Append(link, Segment({"SYN"}, GuestIss, 0, guest.wnd, <<>>))
  /\ budget' = [budget EXCEPT !.syns = @ + 1]
  /\ UNCHANGED <<flow, outq, iss, host, guest>>

GuestSegment(a, b, fin) ==
  Segment(IF fin THEN {"ACK", "FIN"} ELSE {"ACK"}, Add(GuestIss, a), guest.rcv,
          guest.wnd, [i \in 1 .. b - a |-> a + i - 1])
Emits(a, b, fin) ==
  /\ guest.st = "OPEN" /\ Sendable
  /\ link' = Append(link, GuestSegment(a, b, fin))
  /\ guest' = [guest EXCEPT !.owes = FALSE]
  /\ UNCHANGED <<flow, outq, iss, host, budget>>

(* Any part of what is not acknowledged yet, a FIN once the guest closed. *)
GuestSend ==
  \/ \E a \in guest.una .. Last : \E b \in a .. Least(Last, a + Mss) :
       \/ Emits(a, b, FALSE)
       \/ b = Last /\ guest.closed /\ Emits(a, b, TRUE)
  \/ guest.una > Last /\ Emits(guest.una, guest.una, FALSE)

(* What a TCP owes: an answer, or the oldest unacknowledged bytes again. *)
Unfinished == guest.una < Last \/ (guest.closed /\ guest.una = Last)
GuestAnswer ==
  /\ guest.owes \/ Unfinished
  /\ LET b == Least(Last, guest.una + Mss)
     IN IF guest.una > Last THEN Emits(guest.una, guest.una, FALSE)
        ELSE Emits(guest.una, b, b = Last /\ guest.closed)

(* In order, no more than the window, and only new bytes. *)
Took(g, seg) ==
  LET off == Gap(seg.ack, GuestIss)
      skip == Gap(g.rcv, seg.seq)
      n == IF SeqLe(seg.seq, g.rcv) /\ skip < Len(seg.data)
           THEN Least(Len(seg.data) - skip, g.wnd) ELSE 0
      ends == "FIN" \in seg.flags /\ ~g.fin /\ SegEnd(seg) = Add(g.rcv, n)
  IN [g EXCEPT !.una = IF off > @ /\ off <= Last + 1 THEN off ELSE @,
               !.app = @ \o SubSeq(seg.data, skip + 1, skip + n),
               !.rcv = Add(@, n + (IF ends THEN 1 ELSE 0)),
               !.wnd = @ - n,
               !.fin = @ \/ ends,
               !.owes = @ \/ seg.data # <<>> \/ "FIN" \in seg.flags]

GuestRecv ==
  /\ outq # <<>>
  /\ outq' = Tail(outq)
  /\ LET seg == Head(outq)
     IN \/ /\ "RST" \in seg.flags
           /\ guest' = [guest EXCEPT !.st = "DEAD"]
           /\ UNCHANGED link
        \/ /\ "RST" \notin seg.flags /\ guest.st = "SYN_SENT"
           /\ guest' = IF "SYN" \in seg.flags /\ seg.ack = Add(GuestIss, 1)
                       THEN [guest EXCEPT !.st = "OPEN", !.una = 1, !.owes = TRUE,
                                          !.rcv = Add(seg.seq, 1)]
                       ELSE guest
           /\ UNCHANGED link
        \/ /\ "RST" \notin seg.flags /\ guest.st = "OPEN"
           /\ guest' = IF "SYN" \in seg.flags THEN [guest EXCEPT !.owes = TRUE]
                       ELSE Took(guest, seg)
           /\ UNCHANGED link
        \/ /\ "RST" \notin seg.flags /\ guest.st = "DEAD"
           /\ link' = IF Sendable
                      THEN Append(link, Segment({"RST"}, 0, 0, 0, <<>>)) ELSE link
           /\ UNCHANGED guest
  /\ UNCHANGED <<flow, iss, host, budget>>

GuestRead ==
  /\ guest.wnd < GuestWindow
  /\ guest' = [guest EXCEPT !.wnd = GuestWindow, !.owes = TRUE]
  /\ UNCHANGED <<flow, outq, iss, host, link, budget>>

GuestClose ==
  /\ guest.st = "OPEN" /\ ~guest.closed
  /\ guest' = [guest EXCEPT !.closed = TRUE]
  /\ UNCHANGED <<flow, outq, iss, host, link, budget>>

GuestReset ==
  /\ guest.st = "OPEN" /\ Sendable /\ budget.faults < MaxFaults
  /\ guest' = [guest EXCEPT !.st = "DEAD"]
  /\ link' = Append(link, Segment({"RST"}, 0, 0, 0, <<>>))
  /\ budget' = [budget EXCEPT !.faults = @ + 1]
  /\ UNCHANGED <<flow, outq, iss, host>>

(* Segments of no use to a connection: an old SYN, one without ACK, and    *)
(* one that carries a byte and acknowledges more than was ever sent.       *)
Strays ==
  {Segment({"SYN"}, GuestIss, 0, GuestWindow, <<>>),
   Segment({}, flow.rcv_nxt, 0, 0, <<0>>),
   Segment({"ACK"}, flow.rcv_nxt, Add(flow.snd_max, 1), 0, <<0>>)}
Stray ==
  /\ flow.used /\ budget.faults < MaxFaults
  /\ budget' = [budget EXCEPT !.faults = @ + 1]
  /\ \E seg \in Strays : NetTcpInput(seg)
  /\ UNCHANGED <<guest, link>>

Lose ==
  /\ budget.loss < MaxLoss
  /\ budget' = [budget EXCEPT !.loss = @ + 1]
  /\ \/ outq # <<>> /\ outq' = Tail(outq) /\ UNCHANGED link
     \/ link # <<>> /\ link' = Tail(link) /\ UNCHANGED outq
  /\ UNCHANGED <<flow, iss, host, guest>>

----------------------------------------------------------------------------
NoSocket == [end |-> "none", ready |-> FALSE, sent |-> 0, got |-> <<>>, shut |-> FALSE]
Init ==
  /\ flow = NoFlow
  /\ outq = <<>>
  /\ iss = NatIss
  /\ host = NoSocket
  /\ guest = [st |-> "SYN_SENT", una |-> 0, rcv |-> 0, app |-> <<>>, fin |-> FALSE,
              wnd |-> GuestWindow, closed |-> FALSE, owes |-> FALSE]
  /\ link = <<>>
  /\ budget = [syns |-> 0, loss |-> 0, faults |-> 0]

Next ==
  \/ Tick \/ Input \/ Elapse
  \/ GuestSyn \/ GuestSend \/ GuestRecv \/ GuestRead \/ GuestClose \/ GuestReset
  \/ Stray \/ Lose

Spec == Init /\ [][Next]_vars

(* net_tick is called for as long as the machine runs, the clock runs, the *)
(* link is drained in both directions, the guest answers what it must,     *)
(* reads what it was sent, and repeats what was not acknowledged.  A       *)
(* socket that is polled for ever takes and gives bytes.  The fairness of  *)
(* Input and Tick is written out with the condition under which the step   *)
(* changes the state.                                                      *)
Transfers(f) == f.used /\ f.state \notin {"TIME_WAIT", "CLOSED"} /\ ~Connecting(f)
TickMoves ==
  /\ flow.used
  /\ \/ flow.state = "CLOSED"
     \/ flow.state = "TIME_WAIT" /\ (flow.close_at = "due" \/ (flow.need_ack /\ Room(Now)))
     \/ Connecting(flow) /\ host.ready /\ Room(Now)
     \/ Transfers(flow) /\ TickEnd(HalfClose(Now)) # Now
Progress ==
  /\ SF_vars(Elapse) /\ SF_vars(GuestAnswer)
  /\ WF_vars(GuestSyn) /\ WF_vars(GuestRecv) /\ WF_vars(GuestRead)
  /\ []<>(link = <<>>) \/ []<><<Input>>_vars
  /\ []<>(~TickMoves) \/ []<><<Tick>>_vars
  /\ <>[](~Transfers(flow) \/ flow.rxbuf = <<>>)
       \/ []<><<Tick /\ host'.got # host.got>>_vars
  /\ <>[](~Transfers(flow) \/ ~Readable(Now) \/ Available(host) = 0)
       \/ []<><<Tick /\ host'.sent # host.sent>>_vars

FairSpec == Spec /\ Progress

----------------------------------------------------------------------------
Deadlines == {"off", "armed", "due"}
SeqNumbers == 0 .. SeqMod - 1
TypeOK ==
  /\ flow.used \in BOOLEAN /\ flow.state \in States
  /\ flow.used \/ flow = NoFlow
  /\ {flow.rcv_nxt, flow.snd_una, flow.snd_nxt, flow.snd_max, iss, guest.rcv}
       \subseteq SeqNumbers
  /\ flow.snd_wnd \in 0 .. GuestWindow
  /\ {flow.cwnd, flow.ssthresh} \subseteq Nat
  /\ {flow.fin_sent, flow.host_eof, flow.tx_shutdown, flow.need_ack} \subseteq BOOLEAN
  /\ flow.rto \in Deadlines /\ flow.close_at \in Deadlines
  /\ flow.rtx \in 0 .. RtxMax
  /\ Len(flow.txbuf) <= TxBuf /\ Len(flow.rxbuf) <= RxBuf
  /\ Len(outq) <= OutSlots /\ Len(link) <= LinkSlots
  /\ host.end \in {"none", "open", "clean", "reset"}
  /\ flow.used <=> host.end = "open"

(* The guest reads the host's bytes, each once and in order, and sees the  *)
(* end of the stream only behind the last of them (tcp_pump,               *)
(* tcp_consume_ack).                                                       *)
GuestReadsHostStream ==
  /\ \A i \in 1 .. Len(guest.app) : guest.app[i] = i
  /\ guest.fin => Len(guest.app) = HostBytes

(* The host socket reads the guest's bytes, each once and in order, and is *)
(* half-closed only behind the last of them (net_tcp_input, net_tcp_tick). *)
HostReadsGuestStream ==
  /\ \A i \in 1 .. Len(host.got) : host.got[i] = i
  /\ host.shut => Len(host.got) = GuestBytes

(* While the socket is open, every byte the guest saw acknowledged has     *)
(* reached it or is still buffered: an acknowledgement never precedes the  *)
(* storage of what it covers.                                              *)
AckedIsKept ==
  host.end = "open" /\ guest.una > 0 =>
    Len(host.got) + Len(flow.rxbuf) >= Least(guest.una - 1, GuestBytes)

(* The guest's stream is kept: what the host socket has read is the beginning *)
(* of it, and what was acknowledged but not read yet is still buffered.       *)
GuestStreamKept == TypeOK /\ HostReadsGuestStream /\ AckedIsKept

(* The same of a connection that ended without a reset: closing it did not *)
(* throw away what back-pressure had left in the buffer (the half-close    *)
(* comes after "we have flushed its data").                                *)
CleanCloseFlushed ==
  host.end = "clean" => Len(host.got) >= Least(guest.una - 1, GuestBytes)

(* The send window: the cursor is between the oldest unacknowledged        *)
(* sequence and the furthest emitted one, which passes the buffered bytes  *)
(* by the SYN or the FIN at most, and txbuf[0] is sequence snd_una.        *)
Flight ==
  flow.used =>
    /\ SeqLe(flow.snd_una, flow.snd_nxt) /\ SeqLe(flow.snd_nxt, flow.snd_max)
    /\ Gap(flow.snd_max, flow.snd_una) <=
         Len(flow.txbuf) + (IF flow.state = "SYN_RCVD" \/ flow.fin_sent THEN 1 ELSE 0)
    /\ \A i \in 1 .. Len(flow.txbuf) :
         flow.txbuf[i] = Gap(flow.snd_una, iss) + i - 1

(* An acknowledged FIN is not sent again: nothing is in flight once the    *)
(* state says the FIN was acknowledged (the trap tcp_pump describes).      *)
FinAckedOnce ==
  flow.state \in {"FIN_WAIT_2", "TIME_WAIT"} =>
    flow.snd_nxt = flow.snd_una /\ flow.snd_max = flow.snd_una

(* The cursor of tcp_pump is sound in every state, retransmissions and the    *)
(* closing states included.                                                   *)
CursorSound == Flight /\ FinAckedOnce

(* The receive window offered to the guest never retracts (tcp_out).       *)
Edge(f) == Add(f.rcv_nxt, RxBuf - Len(f.rxbuf))
WindowNeverShrinks ==
  [][flow.used /\ flow'.used => SeqLe(Edge(flow), Edge(flow'))]_vars

(* No silent stall: with segments lost in either direction, and a closed   *)
(* window whose reopening may be one of them, the guest reads the whole    *)
(* host stream (tcp_timers, net_tcp_tick).                                 *)
StreamArrives == guest.st = "OPEN" ~> Len(guest.app) = HostBytes
=============================================================================
