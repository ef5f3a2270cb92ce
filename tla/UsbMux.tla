------------------------------- MODULE UsbMux -------------------------------
(***************************************************************************)
(* core/src/usb_mux.c: the host end of the usbmux protocol, as operators   *)
(* on the state u of one usb_mux_t.  A frame is a record: how it is laid   *)
(* out in bytes and cut into 512-byte packets is left out, and so are the  *)
(* frame counters of the version 2 header, which are not looked at.        *)
(***************************************************************************)
EXTENDS Integers, Sequences, SequencesExt

CONSTANTS USB_MUX_CHANNELS,  \* service channels of one mux
          RX_SIZE, TX_SIZE,  \* bytes of a channel's receive and send buffer
          MAX_PAYLOAD,       \* stream bytes that fit into one frame
          WINDOW_UNIT,       \* granularity of an advertised window (256)
          SEQ,               \* modulus of the stream sequence numbers (2^32)
          PORTS              \* modulus of the local port numbers (2^16)

ASSUME MuxAssumption ==
    /\ {USB_MUX_CHANNELS, RX_SIZE, TX_SIZE, MAX_PAYLOAD, WINDOW_UNIT} \subseteq Nat \ {0}
    /\ SEQ \in Nat /\ SEQ > 2 * RX_SIZE /\ SEQ > 2 * TX_SIZE
    /\ PORTS \in Nat /\ PORTS > 1

Slots == 0..(USB_MUX_CHANNELS - 1)

NoFrame == [kind |-> "none"]

\* a zeroed usb_mux_channel_t; why is its error, sent what the guest's reset
\* says of the stream (see UsbServices)
FreshChannel ==
    [state |-> "UNUSED", local |-> 0, remote |-> 0, send_next |-> 0, send_acked |-> 0,
     receive_next |-> 0, peer_window |-> 0, receive |-> <<>>, send |-> <<>>,
     ack_pending |-> FALSE, why |-> "none", sent |-> 0]

usb_mux_init(session) ==
    [stage |-> "SEND_VERSION", next_port |-> 1, round_robin |-> 0, transmit |-> NoFrame,
     channel |-> [i \in Slots |-> FreshChannel], session |-> session]

usb_mux_ready(u) == u.stage = "ACTIVE"

\* The mutant of Window: what the receive buffer holds does not count.
WindowWhole(free) == RX_SIZE

\* the advertised window, in units of 256 bytes
Window(free) == (free \div WINDOW_UNIT) * WINDOW_UNIT

Minus(a, b) == (a - b) % SEQ

LeastOf(S) == CHOOSE x \in S : \A y \in S : x <= y

usb_mux_cancel(u) ==
    [u EXCEPT !.stage = "FAILED", !.transmit = NoFrame,
              !.channel = [i \in Slots |->
                  IF @[i].state \in {"UNUSED", "CLOSED"} THEN @[i]
                  ELSE [@[i] EXCEPT !.state = "ERROR", !.why = "link"]]]

-----------------------------------------------------------------------------
Free(u) == {i \in Slots : u.channel[i].state \in {"UNUSED", "CLOSED"}}

\* usb_mux_connect succeeds, and takes the first free slot
CanConnect(u) == usb_mux_ready(u) /\ u.next_port # 0 /\ Free(u) # {}

ConnectSlot(u) == LeastOf(Free(u))

usb_mux_connect(u, port) ==
    [u EXCEPT !.channel[ConnectSlot(u)] =
                  [FreshChannel EXCEPT !.state = "CONNECT", !.local = u.next_port,
                                       !.remote = port],
              !.next_port = (u.next_port + 1) % PORTS]

usb_mux_write(u, i, bytes) ==
    IF usb_mux_ready(u) /\ u.channel[i].state = "OPEN"
    THEN [u EXCEPT !.channel[i].send = @ \o bytes]
    ELSE u

\* The mutant of usb_mux_read: no window update
usb_mux_read_quiet(u, i, n) ==
    [u EXCEPT !.channel[i].receive = SubSeq(@, n + 1, Len(@))]

\* Another mutant of usb_mux_read: the last byte read stays.
usb_mux_read_short(u, i, n) ==
    [u EXCEPT !.channel[i].receive = IF n = 0 THEN @ ELSE SubSeq(@, n, Len(@)),
              !.channel[i].ack_pending = @ \/ (n > 0 /\ u.channel[i].state = "OPEN")]

\* n bytes leave the receive buffer: an open stream owes the guest the window
usb_mux_read(u, i, n) ==
    [u EXCEPT !.channel[i].receive = SubSeq(@, n + 1, Len(@)),
              !.channel[i].ack_pending = @ \/ (n > 0 /\ u.channel[i].state = "OPEN")]

usb_mux_close(u, i) ==
    IF u.channel[i].state \in {"UNUSED", "CLOSED"} THEN u
    ELSE [u EXCEPT !.channel[i] =
              [@ EXCEPT !.send = <<>>, !.receive = <<>>,
                        !.state = IF usb_mux_ready(u) THEN "CLOSING" ELSE "CLOSED"]]

-----------------------------------------------------------------------------
\* The mutant of Sendable: bytes in flight do not use up the window
SendableUncounted(c) == LeastOf({Len(c.send), MAX_PAYLOAD, c.peer_window})

\* usb_mux_output.  The bytes an open channel may put into its next frame: what
\* is queued, what fits, and what the guest's window leaves.
Sendable(c) ==
    LET flight == Minus(c.send_next, c.send_acked)
        available == IF flight < c.peer_window THEN c.peer_window - flight ELSE 0
    IN  LeastOf({Len(c.send), MAX_PAYLOAD, available})

HasFrame(c) ==
    \/ c.state \in {"CONNECT", "CLOSING"}
    \/ c.state = "OPEN" /\ (Sendable(c) > 0 \/ c.ack_pending)

\* tcp_frame and the state change that goes with it.  Nothing but the ports of a
\* closed channel is looked at again, so its other fields are zeroed here.
tcp_frame(u, i) ==
    LET c == u.channel[i]
        n == IF c.state = "OPEN" THEN Sendable(c) ELSE 0
        flags == CASE c.state = "CONNECT" -> "syn" [] c.state = "CLOSING" -> "rst"
                   [] OTHER -> "ack"
    IN  [u EXCEPT
           !.transmit = [kind |-> "tcp", session |-> u.session, local |-> c.local,
                         remote |-> c.remote, flags |-> flags, seq |-> c.send_next,
                         ack |-> c.receive_next,
                         window |-> Window(RX_SIZE - Len(c.receive)),
                         data |-> SubSeq(c.send, 1, n)],
           !.channel[i] =
               IF flags = "rst"
               THEN [FreshChannel EXCEPT !.state = "CLOSED", !.local = c.local,
                                         !.remote = c.remote]
               ELSE [c EXCEPT !.send = SubSeq(@, n + 1, Len(@)),
                              !.send_next = (@ + n + (IF flags = "syn" THEN 1 ELSE 0)) % SEQ,
                              !.ack_pending = FALSE,
                              !.state = IF flags = "syn" THEN "SYN_SENT" ELSE "OPEN"],
           !.round_robin = (i + 1) % USB_MUX_CHANNELS]

\* how far behind the last served channel slot i is
Turn(u, i) == (i - u.round_robin) % USB_MUX_CHANNELS

\* the first channel with something to say, from the one after the last served
NextSlots(u) ==
    {i \in Slots : /\ HasFrame(u.channel[i])
                   /\ \A j \in Slots : HasFrame(u.channel[j]) => Turn(u, i) <= Turn(u, j)}

usb_mux_output(u) ==
    IF u.transmit # NoFrame \/ u.stage = "FAILED" THEN u
    ELSE CASE u.stage = "SEND_VERSION" ->
                [u EXCEPT !.transmit = [kind |-> "version", session |-> u.session],
                          !.stage = "WAIT_VERSION"]
           [] u.stage = "SEND_SETUP" ->
                [u EXCEPT !.transmit = [kind |-> "setup", session |-> u.session],
                          !.stage = "WAIT_SETUP"]
           [] u.stage = "ACTIVE" /\ NextSlots(u) # {} ->
                CHOOSE v \in {tcp_frame(u, i) : i \in NextSlots(u)} : TRUE
           [] OTHER -> u

usb_mux_output_complete(u) ==
    [u EXCEPT !.transmit = NoFrame,
              !.stage = IF @ = "WAIT_SETUP" THEN "ACTIVE" ELSE @]

-----------------------------------------------------------------------------
channel_error(u, i, why, sent) ==
    [u EXCEPT !.channel[i].state = "ERROR", !.channel[i].why = why,
              !.channel[i].sent = sent, !.channel[i].send = <<>>]

\* the channel a frame of the guest is for; answers to one that was given up
\* are dropped
Addressed(u, f) ==
    {i \in Slots : u.channel[i].local = f.local /\ u.channel[i].remote = f.remote
                   /\ u.channel[i].state \notin {"CLOSED", "CLOSING", "ERROR"}}

\* a stream frame for the open channel i
OpenInput(u, i, f) ==
    LET c == u.channel[i]
        behind == Minus(c.receive_next, f.seq)
        acked == [u EXCEPT !.channel[i].send_acked = f.ack,
                           !.channel[i].peer_window = f.window]
    IN  IF f.flags # "ack" THEN channel_error(u, i, "flags", 0)
        ELSE IF Minus(f.ack, c.send_acked) > Minus(c.send_next, c.send_acked)
        THEN channel_error(u, i, "ack", 0)
        ELSE IF f.seq # c.receive_next
        THEN IF behind >= Len(f.data) /\ behind <= RX_SIZE
             THEN [acked EXCEPT !.channel[i].ack_pending = TRUE]
             ELSE channel_error(acked, i, "order", 0)
        ELSE IF Len(f.data) > RX_SIZE - Len(c.receive)
        THEN channel_error(acked, i, "window", 0)
        ELSE [acked EXCEPT
                !.channel[i].receive = @ \o f.data,
                !.channel[i].receive_next = (@ + Len(f.data)) % SEQ,
                !.channel[i].ack_pending = @ \/ f.data # <<>>]

TcpInput(u, i, f) ==
    LET c == u.channel[i]
    IN  CASE f.flags = "rst" -> channel_error(u, i, "reset", f.sent)
          [] f.flags # "rst" /\ c.state = "SYN_SENT" ->
               IF f.flags = "synack" /\ f.data = <<>> /\ f.ack = c.send_next
               THEN [u EXCEPT !.channel[i] =
                       [c EXCEPT !.send_acked = f.ack, !.receive_next = (f.seq + 1) % SEQ,
                                 !.peer_window = f.window, !.state = "OPEN",
                                 !.ack_pending = TRUE]]
               ELSE channel_error(u, i, "handshake", 0)
          [] f.flags # "rst" /\ c.state = "OPEN" -> OpenInput(u, i, f)
          [] OTHER -> channel_error(u, i, "flags", 0)

input_frame(u, f) ==
    CASE u.stage = "FAILED" -> u
      [] u.stage = "WAIT_VERSION" ->
           IF f.kind = "version"
           THEN [u EXCEPT !.stage = IF f.version = 2 THEN "SEND_SETUP" ELSE "ACTIVE"]
           ELSE usb_mux_cancel(u)
      [] u.stage \in {"SEND_VERSION", "SEND_SETUP", "WAIT_SETUP"} -> usb_mux_cancel(u)
      [] u.stage = "ACTIVE" /\ f.kind = "control" ->
           IF f.notice THEN u ELSE usb_mux_cancel(u)
      [] u.stage = "ACTIVE" /\ f.kind = "tcp" ->
           IF Addressed(u, f) = {} THEN u
           ELSE CHOOSE v \in {TcpInput(u, i, f) : i \in Addressed(u, f)} : TRUE
      [] OTHER -> usb_mux_cancel(u)

\* usb_mux_feed: the frames of one batch of packets, in order
usb_mux_feed(u, frames) == FoldLeft(input_frame, u, frames)
=============================================================================
