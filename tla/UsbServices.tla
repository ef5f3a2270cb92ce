---------------------------- MODULE UsbServices -----------------------------
(***************************************************************************)
(* The virtual USB cable and the service connections that use it:          *)
(*                                                                         *)
(*   - client threads call -[VMUSBTransport openPort:...] and then talk    *)
(*     through a socket pair, whose other end the transport holds;         *)
(*   - the emulator thread, between two chunks of guest execution, polls   *)
(*     the host side of the cable (core/src/usb_host.c), the mux (UsbMux)  *)
(*     and the transport (-pollWithMux:), and lets vm_usb_recovery decide  *)
(*     whether the cable is to be pulled and plugged in again;             *)
(*   - the guest's USB driver, its usbmux end and the services behind it   *)
(*     are external: they follow the protocol, but may reset the           *)
(*     controller, refuse, stall and hang up.                              *)
(*                                                                         *)
(* The transport's lock makes a client step and a poll atomic.  The        *)
(* emulator thread is the only one that touches the mux and the host.      *)
(***************************************************************************)
EXTENDS UsbMux

CONSTANTS Opens,       \* the openPort calls, each one from a thread of its own
          Service,     \* the port they ask for
          Up, Down,    \* bytes a client writes, bytes the service of a stream writes
          SOCKET,      \* bytes a socket buffer holds
          GUEST_WINDOW,  \* bytes the guest buffers per stream
          GUEST_ISN,   \* the first sequence number of the guest's streams
          Versions,    \* the usbmux versions a guest may speak
          CONFIGS, MUX_CONFIG,  \* USB configurations, and the one with the mux
          MaxQueue,    \* bound: frames the guest has queued for the host
          MaxFaults    \* bound: resets, stalls, control errors, timeouts, stops

ASSUME ServiceAssumption ==
    /\ {SOCKET, GUEST_WINDOW, MaxQueue, CONFIGS} \subseteq Nat \ {0}
    /\ GUEST_WINDOW < SEQ  \* the field has 16 bits, in units of 256
    /\ Up \in [Opens -> Nat] /\ Down \in [1..(PORTS - 1) -> Nat] /\ MaxFaults \in Nat
    /\ MUX_CONFIG \in 0..(CONFIGS - 1)
    /\ GUEST_ISN \in 0..(SEQ - 1) /\ Versions \subseteq {1, 2} /\ Versions # {}

VARIABLES
    conn,      \* per open: the VMUSBConnection and the caller's thread
    list,      \* _connections
    accepting, \* _accepting
    sock,      \* per open: [up, down], the bytes inside the socket pair
    wrote,     \* per open: bytes the client has written
    got,       \* per open: the bytes the client has read
    host,      \* usb_host_t and whether vm_usb_recovery has the cable pulled
    mux,       \* _usbMux, or NoMux
    dev,       \* external: the guest's USB controller and driver
    guest,     \* external: the guest's usbmux end
    gout, gin, \* the frame handed to the guest, the frames it has queued
    faults     \* faults so far

vars == <<conn, list, accepting, sock, wrote, got, host, mux, dev, guest, gout, gin, faults>>

clientVars == <<conn, list, accepting, sock, wrote, got>>
linkVars == <<host, mux, dev, guest, gout, gin>>

NoMux == [stage |-> "NONE"]
Ports == 1..(PORTS - 1)

-----------------------------------------------------------------------------
\* a VMUSBConnection: thread is where the caller is, chan is -1 until the mux has
\* a channel for it, fd says that the transport's end of the socket is open
FreshConn == [thread |-> "new", chan |-> -1, ready |-> FALSE, canceled |-> FALSE,
              error |-> "none", fd |-> FALSE, sent |-> 0]

\* the caller has its answer and the transport has forgotten the connection
Gone(thread) == [FreshConn EXCEPT !.thread = thread]

\* usb_host_init's and usb_host_poll's memset: the generation it remembers
FreshHost(gen) == [stage |-> "WAIT_DEVICE", control |-> "IDLE", gen |-> gen, index |-> 0,
                   attached |-> TRUE]
Detached == [FreshHost(0) EXCEPT !.attached = FALSE]

\* the controller after its reset: not armed for a bus reset, the bus not
\* enumerated (control packets are not taken), no address
FreshDevice(gen) == [gen |-> gen, armed |-> FALSE, reset |-> FALSE, enum |-> FALSE,
                     enumerated |-> FALSE, address |-> FALSE, unplugged |-> FALSE]

\* one stream at the guest's end: what it has sent and heard, what the service
\* has not read yet (buffer) and has read (taken)
NoStream == [state |-> "none", sent |-> 0, acked |-> 0, window |-> 0, next |-> 0,
             buffer |-> <<>>, taken |-> <<>>, owes |-> FALSE]

\* session counts the mux the guest has answered; 0 is none
NoSession == [session |-> 0, stream |-> [p \in Ports |-> NoStream]]

Init ==
    /\ conn = [k \in Opens |-> FreshConn]
    /\ list = <<>>
    /\ accepting = TRUE
    /\ sock = [k \in Opens |-> [up |-> <<>>, down |-> <<>>]]
    /\ wrote = [k \in Opens |-> 0]
    /\ got = [k \in Opens |-> <<>>]
    /\ host = FreshHost(0)
    /\ mux = NoMux
    /\ dev = FreshDevice(0)
    /\ guest = NoSession
    /\ gout = NoFrame
    /\ gin = <<>>
    /\ faults = 0

Fault == faults < MaxFaults /\ faults' = faults + 1

-----------------------------------------------------------------------------
\* The mutant of Room: the connections are not counted.
RoomAlways == accepting

Room == accepting /\ Len(list) < USB_MUX_CHANNELS

\* openPort: the part before the wait.  The calls are numbered in their order.
Open(k) ==
    /\ conn[k].thread = "new" /\ \A j \in 1..(k - 1) : conn[j].thread # "new"
    /\ IF Room
       THEN /\ conn' = [conn EXCEPT ![k] = [FreshConn EXCEPT !.thread = "waiting", !.fd = TRUE]]
            /\ list' = Append(list, k)
       ELSE conn' = [conn EXCEPT ![k] = Gone("failed")] /\ UNCHANGED list
    /\ UNCHANGED <<accepting, sock, wrote, got, linkVars, faults>>

\* openPort: the failure branch.  Only a request without a channel leaves the
\* list here: the emulator thread has to close the channel of the others.
Failed(k) ==
    IF k \in ToSet(list) /\ conn[k].chan # -1
    THEN [conn[k] EXCEPT !.thread = "failed", !.canceled = TRUE, !.fd = FALSE]
    ELSE Gone("failed")

\* the requests l but those of ks, in their order
Without(l, ks) == FoldLeft(LAMBDA r, k : IF k \in ks THEN r ELSE Append(r, k), <<>>, l)

\* The mutant of WithoutFailed: every failed request leaves the list at once.
WithoutFailedAlways(k) == Without(list, {k})

WithoutFailed(k) ==
    IF conn[k].chan = -1 THEN Without(list, {k}) ELSE list

\* the wait ends: the stream is open, or it failed
Wake(k) ==
    /\ conn[k].thread = "waiting"
    /\ conn[k].ready \/ conn[k].error # "none"
    /\ IF conn[k].error # "none"
       THEN conn' = [conn EXCEPT ![k] = Failed(k)] /\ list' = WithoutFailed(k)
       ELSE conn' = [conn EXCEPT ![k].thread = "using"] /\ UNCHANGED list
    /\ UNCHANGED <<accepting, sock, wrote, got, linkVars, faults>>

\* the wait ends: the deadline, or the caller's canceled block
GiveUp(k) ==
    /\ conn[k].thread = "waiting" /\ ~conn[k].ready /\ conn[k].error = "none"
    /\ conn' = [conn EXCEPT ![k] = Failed(k)]
    /\ list' = WithoutFailed(k)
    /\ UNCHANGED <<accepting, sock, wrote, got, linkVars, faults>>

\* the client at its end of the socket pair
ClientWrite(k) ==
    /\ conn[k].thread = "using" /\ conn[k].fd
    /\ wrote[k] < Up[k] /\ Len(sock[k].up) < SOCKET
    /\ sock' = [sock EXCEPT ![k].up = Append(@, [from |-> k, i |-> wrote[k] + 1])]
    /\ wrote' = [wrote EXCEPT ![k] = @ + 1]
    /\ UNCHANGED <<conn, list, accepting, got, linkVars, faults>>

\* the client closes its end: its unread bytes, and the account of its streams, go
Finished(k, c) ==
    /\ conn' = [conn EXCEPT ![k] = c]
    /\ sock' = [sock EXCEPT ![k].down = <<>>]
    /\ wrote' = [wrote EXCEPT ![k] = 0] /\ got' = [got EXCEPT ![k] = <<>>]
    /\ UNCHANGED <<list, accepting, linkVars, faults>>

ClientRead(k) ==
    /\ conn[k].thread = "using" /\ sock[k].down # <<>>
    /\ got' = [got EXCEPT ![k] = Append(@, Head(sock[k].down))]
    /\ sock' = [sock EXCEPT ![k].down = Tail(@)]
    /\ UNCHANGED <<conn, list, accepting, wrote, linkVars, faults>>

ClientEof(k) ==
    /\ conn[k].thread = "using" /\ sock[k].down = <<>> /\ ~conn[k].fd
    /\ Finished(k, Gone("closed"))

ClientClose(k) ==
    /\ conn[k].thread = "using"
    /\ Finished(k, IF conn[k].fd THEN [conn[k] EXCEPT !.thread = "closed"] ELSE Gone("closed"))

\* the client's end of the socket is closed
Hung(k) == conn[k].thread \in {"closed", "failed"}

\* hasServiceActivity, asked while the guest sleeps
hasServiceActivity ==
    /\ \E k \in ToSet(list) : ~conn[k].canceled /\ conn[k].fd /\ sock[k].up = <<>> /\ Hung(k)
    /\ conn' = [k \in Opens |->
                  IF k \in ToSet(list) /\ conn[k].fd /\ sock[k].up = <<>> /\ Hung(k)
                  THEN [conn[k] EXCEPT !.canceled = TRUE] ELSE conn[k]]
    /\ UNCHANGED <<list, accepting, sock, wrote, got, linkVars, faults>>

-----------------------------------------------------------------------------
\* endSession and reconnectSession: the requests that are dropped, and why.  A
\* request that has no channel yet survives a reconnect.
Dropped(ks, why) ==
    /\ conn' = [k \in Opens |-> IF k \notin ks THEN conn[k]
                                ELSE IF Hung(k) THEN Gone(conn[k].thread)
                                ELSE [conn[k] EXCEPT !.error = why, !.fd = FALSE]]
    /\ list' = Without(list, ks)
    /\ sock' = [k \in Opens |-> IF k \in ks THEN [sock[k] EXCEPT !.up = <<>>] ELSE sock[k]]

endSession == Dropped(ToSet(list), "ended") /\ accepting' = FALSE

beginSession == Dropped(ToSet(list), "ended") /\ accepting' = TRUE

Assigned == {k \in ToSet(list) : conn[k].chan # -1 \/ conn[k].canceled}

reconnectSession == Dropped(Assigned, "link") /\ accepting' = TRUE

-----------------------------------------------------------------------------
(* -pollWithMux:, one connection: S is the transport's view, [u, conn, list,  *)
(* sock]; every connection of the list is visited in order.                   *)


\* the connection leaves the list; the transport's end of its socket is closed
Closed(S, k, why, u) ==
    [S EXCEPT !.u = u, !.list = Without(@, {k}), !.sock[k].up = <<>>,
              !.conn[k] = IF Hung(k) THEN Gone(@.thread)
                          ELSE [@ EXCEPT !.fd = FALSE, !.error = why,
                                         !.sent = S.u.channel[S.conn[k].chan].sent]]

\* send(): the bytes of the channel the client's socket takes, none if it is gone
ToClient(S, k) ==
    IF Hung(k) THEN 0
    ELSE LeastOf({Len(S.u.channel[S.conn[k].chan].receive), SOCKET - Len(S.sock[k].down)})

\* recv(): the bytes of the client the channel has room for
Space(S, k) == TX_SIZE - Len(S.u.channel[S.conn[k].chan].send)
FromClient(S, k) == LeastOf({Len(S.sock[k].up), Space(S, k)})

\* send() fails or recv() returns 0
HangUpSeen(S, k) ==
    Hung(k) /\ \/ S.u.channel[S.conn[k].chan].receive # <<>>
               \/ Space(S, k) > 0 /\ S.sock[k].up = <<>>

\* n bytes go to the client, m bytes come from it
Moved(S, k, n, m) ==
    [S EXCEPT !.u = usb_mux_write(usb_mux_read(@, S.conn[k].chan, n), S.conn[k].chan,
                                  SubSeq(S.sock[k].up, 1, m)),
              !.sock[k] = [up |-> SubSeq(@.up, m + 1, Len(@.up)),
                           down |-> @.down \o SubSeq(S.u.channel[S.conn[k].chan].receive, 1, n)]]

\* an open stream: a transfer in each direction
Transfer(S, k) ==
    [Moved(S, k, ToClient(S, k), FromClient(S, k)) EXCEPT
        !.conn[k] = [@ EXCEPT !.ready = TRUE, !.canceled = HangUpSeen(S, k)]]

\* The mutant of Serve: the end of a stream is seen before its last bytes.
ServeNoDrain(S, k) ==
    LET c == S.u.channel[S.conn[k].chan]
    IN  IF c.state \in {"ERROR", "CLOSED"}
        THEN Closed(S, k, c.why, usb_mux_close(S.u, S.conn[k].chan))
        ELSE IF c.state = "OPEN" THEN Transfer(S, k) ELSE S

\* a connection with a channel.  The bytes of a stream the client has go first: as
\* long as some are left, its end is not looked at and nothing is taken from the
\* client.
Serve(S, k) ==
    LET i == S.conn[k].chan
        c == S.u.channel[i]
    IN  CASE S.conn[k].ready /\ ~Hung(k) /\ ToClient(S, k) < Len(c.receive) ->
               Moved(S, k, ToClient(S, k), 0)
          [] c.state \in {"ERROR", "CLOSED"}
                /\ (S.conn[k].ready /\ ~Hung(k) => ToClient(S, k) = Len(c.receive)) ->
               LET n == IF S.conn[k].ready THEN ToClient(S, k) ELSE 0 IN
               Closed(Moved(S, k, n, 0), k, c.why, usb_mux_close(S.u, i))
          [] c.state = "OPEN"
                /\ (S.conn[k].ready /\ ~Hung(k) => ToClient(S, k) = Len(c.receive)) ->
               Transfer(S, k)
          [] OTHER -> S

\* a new channel has nothing to serve yet
PollOne(S, k) ==
    LET c == S.conn[k]
    IN  CASE c.canceled ->
               Closed(S, k, c.error, IF c.chan # -1 THEN usb_mux_close(S.u, c.chan) ELSE S.u)
          [] ~c.canceled /\ usb_mux_ready(S.u) /\ c.chan # -1 -> Serve(S, k)
          [] ~c.canceled /\ c.chan = -1 /\ CanConnect(S.u) ->
               [S EXCEPT !.u = usb_mux_connect(@, Service), !.conn[k].chan = ConnectSlot(S.u)]
          [] OTHER -> S

pollWithMux(u) ==
    \E before \in {[u |-> u, conn |-> conn, list |-> list, sock |-> sock]} :
    \E S \in {FoldLeft(PollOne, before, list)} :
        /\ mux' = S.u /\ conn' = S.conn /\ list' = S.list /\ sock' = S.sock
        /\ UNCHANGED accepting

-----------------------------------------------------------------------------
(* The emulator thread: one pass of its loop does one of these.               *)

\* vm_usb_recovery_poll's DISCONNECT and what the loop does with it
LinkLost ==
    /\ reconnectSession
    /\ mux' = NoMux /\ host' = Detached
    /\ dev' = [dev EXCEPT !.unplugged = TRUE]
    /\ gout' = NoFrame /\ gin' = <<>>
    /\ UNCHANGED <<wrote, got, guest>>

\* RECONNECT: the backoff is over, and the guest has run without the cable for
\* long enough to notice
Reattach ==
    /\ ~host.attached /\ host.stage # "OFF" /\ ~dev.unplugged
    /\ host' = FreshHost(dev.gen)
    /\ UNCHANGED <<clientVars, mux, dev, guest, gout, gin, faults>>

\* usb_host_poll's two checks for a controller that was reset meanwhile
Current ==
    /\ host.attached
    /\ host.gen = dev.gen
    /\ host.stage = "READY" => dev.address

\* The mutant of StaleHost: the mux outlives the reset.
StaleHostKeepsMux ==
    /\ host.attached /\ ~Current
    /\ host' = FreshHost(dev.gen)
    /\ UNCHANGED <<clientVars, mux, dev, guest, gout, gin, faults>>

\* everything that was negotiated is forgotten, and the mux with it
StaleHost ==
    /\ host.attached /\ ~Current
    /\ host' = FreshHost(dev.gen)
    /\ IF mux = NoMux THEN UNCHANGED clientVars
       ELSE reconnectSession /\ UNCHANGED <<wrote, got>>
    /\ mux' = NoMux
    /\ UNCHANGED <<dev, guest, gout, gin, faults>>

Request(stage) == [host EXCEPT !.stage = stage, !.control = "SETUP"]

\* usb_host_poll while no control transfer is under way.  The bus reset takes
\* the guest's address and disables its endpoints.
PollIdle ==
    /\ Current /\ host.control = "IDLE"
    /\ \/ /\ host.stage = "WAIT_DEVICE" /\ dev.armed
          /\ host' = [host EXCEPT !.stage = "WAIT_RESET"]
          /\ dev' = [dev EXCEPT !.reset = TRUE, !.enumerated = FALSE, !.address = FALSE]
          /\ guest' = NoSession /\ gout' = NoFrame /\ gin' = <<>>
       \/ /\ host.stage = "WAIT_RESET" /\ ~dev.reset
          /\ host' = [host EXCEPT !.stage = "WAIT_ENUM"]
          /\ dev' = [dev EXCEPT !.enum = TRUE]
          /\ UNCHANGED <<guest, gout, gin>>
       \/ /\ host.stage = "WAIT_ENUM" /\ ~dev.enum
          /\ host' = Request("DEVICE")
          /\ UNCHANGED <<dev, guest, gout, gin>>
       \/ /\ host.stage = "ADDRESS"
          /\ host' = Request("CONFIG_HEAD")
          /\ UNCHANGED <<dev, guest, gout, gin>>
    /\ UNCHANGED <<clientVars, mux, faults>>

\* the stage after a control transfer that ended well
NextStage ==
    CASE host.stage = "DEVICE" -> Request("ADDRESS")
      [] host.stage = "ADDRESS" -> Request("CONFIG_HEAD")
      [] host.stage = "CONFIG_HEAD" -> Request("CONFIG_BODY")
      [] host.stage = "CONFIG_BODY" /\ host.index = MUX_CONFIG -> Request("CONFIG_SET")
      [] host.stage = "CONFIG_BODY" /\ host.index # MUX_CONFIG ->
           [host EXCEPT !.stage = "ADDRESS", !.control = "IDLE", !.index = @ + 1]
      [] host.stage = "CONFIG_SET" -> [host EXCEPT !.stage = "READY", !.control = "IDLE"]

\* control_poll, when the guest takes the packet: setup, data if any is wanted,
\* status.  The guest takes its address with the setup of SET_ADDRESS.
PollControl ==
    /\ Current /\ host.control # "IDLE" /\ dev.enumerated
    /\ host' = CASE host.control = "SETUP" ->
                      [host EXCEPT !.control =
                          IF host.stage \in {"DEVICE", "CONFIG_HEAD", "CONFIG_BODY"}
                          THEN "DATA" ELSE "STATUS"]
                 [] host.control = "DATA" -> [host EXCEPT !.control = "STATUS"]
                 [] host.control = "STATUS" -> NextStage
    /\ dev' = [dev EXCEPT !.address =
                  @ \/ (host.stage = "ADDRESS" /\ host.control = "SETUP")]
    /\ UNCHANGED <<clientVars, mux, guest, gout, gin, faults>>

\* the cable is ready: the mux is made if there is none, takes the first n of
\* the guest's frames, gives it a frame if it can, and the transport is polled.
\* A mux that failed takes the link down.
Serving(n) ==
    /\ Current /\ host.stage = "READY"
    /\ n \in IF gin = <<>> THEN {0} ELSE 1..Len(gin)
    /\ \E u \in {IF mux = NoMux THEN usb_mux_init(faults + 1) ELSE mux} :
       \E fed \in {usb_mux_feed(u, SubSeq(gin, 1, n))} :
       \E out \in {usb_mux_output(fed)} :
          IF fed.stage = "FAILED"
          THEN LinkLost
          ELSE LET goes == gout = NoFrame /\ out.transmit # NoFrame IN
               /\ pollWithMux(IF goes THEN usb_mux_output_complete(out) ELSE out)
               /\ gout' = IF goes THEN out.transmit ELSE gout
               /\ gin' = SubSeq(gin, n + 1, Len(gin))
               /\ UNCHANGED <<wrote, got, host, dev, guest>>
    /\ UNCHANGED faults

\* a packet is stalled or refused, a descriptor is not supported, or a
\* negotiation takes 120 seconds
LinkFails ==
    /\ Current
    /\ host.control # "IDLE" \/ host.stage \notin {"WAIT_DEVICE", "READY"} \/ mux # NoMux
    /\ Fault
    /\ LinkLost

\* the watchdog replaces the board
Reboot ==
    /\ host.stage # "OFF" /\ Fault
    /\ beginSession
    /\ mux' = NoMux /\ host' = FreshHost(0) /\ dev' = FreshDevice(0)
    /\ guest' = NoSession /\ gout' = NoFrame /\ gin' = <<>>
    /\ UNCHANGED <<wrote, got>>

\* the machine is stopped
Stop ==
    /\ host.stage # "OFF" /\ Fault
    /\ endSession
    /\ mux' = NoMux /\ host' = [Detached EXCEPT !.stage = "OFF"]
    /\ UNCHANGED <<wrote, got, dev, guest, gout, gin>>

\* the machine is started: a cold board, or the saved one, whose controller
\* still believes in the cable and in the streams of the process that is gone
Start ==
    /\ host.stage = "OFF"
    /\ beginSession
    /\ \/ host' = FreshHost(0) /\ dev' = FreshDevice(0) /\ guest' = NoSession
       \/ host' = Detached /\ dev' = [dev EXCEPT !.unplugged = TRUE] /\ UNCHANGED guest
    /\ gout' = NoFrame /\ gin' = <<>>
    /\ UNCHANGED <<mux, wrote, got, faults>>

EngineTurn ==
    \/ Reattach \/ StaleHost \/ PollIdle \/ PollControl
    \/ \E n \in 0..MaxQueue : Serving(n)

-----------------------------------------------------------------------------
(* The guest: external.                                                       *)

\* its driver: ready for a bus reset, interrupts served, the unplugged cable
\* noticed, and a reset of the controller
GuestDriver ==
    /\ \/ ~dev.armed /\ dev' = [dev EXCEPT !.armed = TRUE] /\ UNCHANGED guest
       \/ dev.armed /\ dev.reset /\ dev' = [dev EXCEPT !.reset = FALSE] /\ UNCHANGED guest
       \/ /\ dev.armed /\ dev.enum
          /\ dev' = [dev EXCEPT !.enum = FALSE, !.enumerated = TRUE] /\ UNCHANGED guest
       \/ /\ dev.unplugged /\ host.stage # "OFF"
          /\ dev' = [dev EXCEPT !.unplugged = FALSE, !.address = FALSE]
          /\ guest' = NoSession
    /\ UNCHANGED <<clientVars, host, mux, gout, gin, faults>>

GuestCoreReset ==
    /\ host.stage # "OFF" /\ Fault
    /\ dev' = FreshDevice(dev.gen + 1)
    /\ guest' = NoSession /\ gout' = NoFrame /\ gin' = <<>>
    /\ UNCHANGED <<clientVars, host, mux>>

Reply(p, flags, seq, ack, data) ==
    [kind |-> "tcp", session |-> guest.session, local |-> p, remote |-> Service,
     flags |-> flags, seq |-> seq % SEQ, ack |-> ack, data |-> data,
     sent |-> guest.stream[p].sent, window |-> Window(GUEST_WINDOW - Len(guest.stream[p].buffer))]

\* its usbmux end takes the frame it was handed
GuestTake ==
    /\ gout # NoFrame /\ Len(gin) < MaxQueue
    /\ gout' = NoFrame
    /\ CASE gout.kind = "version" ->
              /\ guest' = [NoSession EXCEPT !.session = gout.session]
              /\ \E v \in Versions :
                    gin' = Append(gin, [kind |-> "version", session |-> gout.session,
                                        version |-> v])
         [] gout.kind = "setup" -> UNCHANGED <<guest, gin>>
         [] gout.kind = "tcp" ->
              LET p == gout.local
                  s == guest.stream[p]
              IN  \/ /\ gout.flags = "syn"
                     /\ guest' = [guest EXCEPT !.stream[p] =
                            [NoStream EXCEPT !.state = "open", !.window = gout.window,
                                             !.next = (gout.seq + 1) % SEQ]]
                     /\ gin' = Append(gin, Reply(p, "synack", GUEST_ISN,
                                                  (gout.seq + 1) % SEQ, <<>>))
                  \/ /\ gout.flags = "syn" \/ (gout.flags = "ack" /\ s.state # "open")
                     /\ gin' = Append(gin, Reply(p, "rst", 0, 0, <<>>))
                     /\ UNCHANGED guest
                  \/ /\ gout.flags = "ack" /\ s.state = "open"
                     /\ guest' = [guest EXCEPT !.stream[p] =
                            [s EXCEPT !.window = gout.window,
                                      !.acked = Minus(gout.ack, GUEST_ISN + 1),
                                      !.next = (@ + Len(gout.data)) % SEQ,
                                      !.buffer = @ \o gout.data,
                                      !.owes = @ \/ gout.data # <<>>]]
                     /\ UNCHANGED gin
                  \/ /\ gout.flags = "rst"
                     /\ guest' = [guest EXCEPT !.stream[p] = [NoStream EXCEPT !.state = "gone"]]
                     /\ UNCHANGED gin
    /\ UNCHANGED <<clientVars, host, mux, dev, faults>>

GuestSend(p) ==
    LET s == guest.stream[p]
        room == s.window - (s.sent - s.acked)
        n == LeastOf({Down[p] - s.sent, IF room > 0 THEN room ELSE 0})
    IN  /\ s.state = "open" /\ Len(gin) < MaxQueue /\ ~dev.unplugged /\ host.stage # "OFF"
        /\ n > 0 \/ s.owes
        /\ gin' = Append(gin, Reply(p, "ack", GUEST_ISN + 1 + s.sent, s.next,
              [i \in 1..n |-> [session |-> guest.session, port |-> p, i |-> s.sent + i]]))
        /\ guest' = [guest EXCEPT !.stream[p].sent = @ + n, !.stream[p].owes = FALSE]
        /\ UNCHANGED <<clientVars, host, mux, dev, gout, faults>>

GuestRead(p) ==
    /\ guest.stream[p].state = "open" /\ guest.stream[p].buffer # <<>>
    /\ guest' = [guest EXCEPT !.stream[p] =
                    [guest.stream[p] EXCEPT !.taken = @ \o guest.stream[p].buffer,
                                            !.buffer = <<>>, !.owes = TRUE]]
    /\ UNCHANGED <<clientVars, host, mux, dev, gout, gin, faults>>

GuestHangUp(p) ==
    /\ guest.stream[p].state = "open" /\ Len(gin) < MaxQueue /\ ~dev.unplugged /\ host.stage # "OFF"
    /\ gin' = Append(gin, Reply(p, "rst", 0, 0, <<>>))
    /\ guest' = [guest EXCEPT !.stream[p] = [NoStream EXCEPT !.state = "gone"]]
    /\ UNCHANGED <<clientVars, host, mux, dev, gout, faults>>

GuestControl(notice) ==
    /\ guest.session # 0 /\ Len(gin) < MaxQueue /\ ~dev.unplugged /\ host.stage # "OFF"
    /\ Fault
    /\ gin' = Append(gin, [kind |-> "control", session |-> guest.session, notice |-> notice])
    /\ UNCHANGED <<clientVars, host, mux, dev, guest, gout>>

-----------------------------------------------------------------------------
Next ==
    \/ \E k \in Opens : \/ Open(k) \/ Wake(k) \/ GiveUp(k)
                        \/ ClientWrite(k) \/ ClientRead(k) \/ ClientEof(k) \/ ClientClose(k)
    \/ hasServiceActivity
    \/ EngineTurn
    \/ LinkFails \/ Reboot \/ Stop \/ Start
    \/ GuestDriver \/ GuestCoreReset \/ GuestTake
    \/ \E p \in Ports : GuestSend(p) \/ GuestRead(p) \/ GuestHangUp(p)
    \/ \E notice \in BOOLEAN : GuestControl(notice)

GuestRuns ==
    GuestDriver \/ GuestTake \/ \E p \in Ports : GuestSend(p) \/ GuestRead(p)

\* The emulator thread keeps looping while the machine runs, a waiting thread is
\* woken and a client reads what it is sent, and the guest's driver, usbmux end
\* and services run.  Nobody has to give up, to hang up, or to break anything.
Fairness ==
    /\ WF_vars(EngineTurn)
    /\ WF_vars(\E k \in Opens : Wake(k) \/ ClientRead(k))
    /\ WF_vars(GuestRuns)

Spec == Init /\ [][Next]_vars /\ Fairness

-----------------------------------------------------------------------------
\* A channel is a record of the mux, a connection one of the transport, and no
\* buffer holds more than its size.
TypeOK ==
    /\ \A k \in Opens :
         /\ conn[k].thread \in {"new", "waiting", "using", "failed", "closed"}
         /\ conn[k].chan \in Slots \cup {-1}
         /\ Len(sock[k].up) <= SOCKET /\ Len(sock[k].down) <= SOCKET
    /\ IsInjective(list) /\ ToSet(list) \subseteq Opens /\ Len(list) <= USB_MUX_CHANNELS
    /\ mux # NoMux =>
         /\ mux.stage \in {"SEND_VERSION", "WAIT_VERSION", "SEND_SETUP", "WAIT_SETUP", "ACTIVE"}
         /\ \A i \in Slots : /\ Len(mux.channel[i].receive) <= RX_SIZE
                             /\ Len(mux.channel[i].send) <= TX_SIZE
                             /\ mux.channel[i].local \in 0..(PORTS - 1)
    /\ Len(gin) <= MaxQueue
    /\ faults \in 0..MaxFaults

\* A byte is read in the stream it was written to and at its place: what a client
\* has read is the beginning of one stream of the guest, what a service has read
\* the beginning of one client's stream, and the two are the ends of the same
\* connection.  Neither a reused channel nor a late answer nor a reconnected
\* cable mixes two streams.
StreamsArePure ==
    /\ \A k \in Opens : \A i \in DOMAIN got[k] :
         got[k][i] = [session |-> got[k][1].session, port |-> got[k][1].port, i |-> i]
    /\ \A p \in Ports : LET t == guest.stream[p].taken IN
         /\ \A i \in DOMAIN t : t[i] = [from |-> t[1].from, i |-> i]
         /\ \A k \in Opens :
              t # <<>> /\ got[k] # <<>> /\ got[k][1].session = guest.session =>
                 ((got[k][1].port = p) = (t[1].from = k))

\* A guest that keeps to the protocol is never accused: a channel fails because
\* the guest reset it, and for no other reason.
NoFalseAlarm ==
    mux # NoMux => \A i \in Slots : mux.channel[i].why \in {"none", "reset"}

\* A frame handed to the guest is in order and fits into its window.
WithinGuestWindow ==
    gout # NoFrame /\ gout.kind = "tcp" /\ gout.flags = "ack" =>
        LET s == guest.stream[gout.local] IN
        s.state = "open" => /\ gout.seq = s.next
                            /\ Len(s.buffer) + Len(gout.data) <= GUEST_WINDOW

\* Both windows are kept: what the mux sends fits the guest's, and a guest that
\* keeps to ours is never cut off.
WindowsKept == NoFalseAlarm /\ WithinGuestWindow

\* A channel that is in use belongs to exactly one connection of the list, and
\* no two connections share one: a channel cannot leak, whoever gave up when.
ChannelsOwned ==
    mux # NoMux =>
        /\ \A i \in Slots :
             mux.channel[i].state \in {"CONNECT", "SYN_SENT", "OPEN", "ERROR"} =>
                \E k \in ToSet(list) : conn[k].chan = i
        /\ \A j, k \in ToSet(list) : j # k /\ conn[j].chan = conn[k].chan => conn[j].chan = -1

\* The transport's list and the mux agree about the channels, within their sizes.
ChannelsSound == TypeOK /\ ChannelsOwned

\* The mux that talks to the guest is the one the guest has answered since it was
\* last reset, and its controller has the address this enumeration gave it.
SessionsAgree ==
    /\ gout # NoFrame => /\ dev.address
                         /\ gout.kind # "version" => gout.session = guest.session
    /\ mux # NoMux => \A i \in DOMAIN gin : gin[i].session = mux.session

\* A client that sees the end of a stream the guest has closed has read every byte
\* the service wrote before.
CloseDrains ==
    \A k \in Opens :
        conn[k].thread = "using" /\ ~conn[k].fd /\ sock[k].down = <<>> /\ conn[k].error = "reset"
            => Len(got[k]) = conn[k].sent

\* A stream arrives pure, and whole when the guest closes it.
StreamsAreWhole == StreamsArePure /\ CloseDrains

\* The client waits for its open call, or an open stream owes somebody bytes: what
\* the client has written to the service, what the service has to say to the client.
Unsettled(k) ==
    \/ conn[k].thread = "waiting"
    \/ /\ conn[k].thread = "using" /\ conn[k].fd
       /\ ~\E p \in Ports :
             /\ mux # NoMux /\ mux.channel[conn[k].chan].local = p
             /\ Len(guest.stream[p].taken) = wrote[k] /\ Len(got[k]) = Down[p]

\* Every open call is answered, through link failures, reboots and resets of the
\* guest and without anybody giving up, and the bytes of every open stream get
\* through.
ServicesProgress == (\E k \in Opens : Unsettled(k)) ~> (\A k \in Opens : ~Unsettled(k))
=============================================================================
