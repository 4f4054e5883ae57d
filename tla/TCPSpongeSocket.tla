-------------------------- MODULE TCPSpongeSocket --------------------------
(***************************************************************************)
(* libsponge/tcp_helpers/tcp_sponge_socket.{hh,cc}: a TCPConnection with a *)
(* thread of its own, which moves bytes between the connection and the     *)
(* owner's end of a socket pair and segments between the connection and a  *)
(* datagram adapter.                                                       *)
(*                                                                         *)
(* One turn of _tcp_loop is three kinds of steps, between which the owner  *)
(* and the network run: Poll, a Serve for each rule that poll(2) reported, *)
(* and AfterEvent.  connect() and listen_and_accept() take these steps in  *)
(* the owner's thread, until the handshake is over; then _tcp_main does.   *)
(***************************************************************************)
EXTENDS TCPState, EventLoop, SocketPair

VARIABLES sock,      \* the members of the socket
          tloop,     \* where its event loop is: pc, rules, and what is to be served
          pair,      \* the socket pair
          net,       \* datagrams that wait at the adapter, and that it has sent
          elapsed,   \* time since base_time
          fate       \* of the process: "running" or "sigpipe"

R1 == Rule("segment_in", "adapter", "in")
R2 == Rule("bytes_out", "data", "in")
R3 == Rule("bytes_in", "data", "out")
R4 == Rule("segment_out", "adapter", "out")

\* phase: "connect" or "listen", in the owner's thread; "main"; "over".
NewSocket(phase, c) ==
    [tcp |-> c, phase |-> phase, data_eof |-> FALSE, abort |-> FALSE,
     outbound_shutdown |-> FALSE, inbound_shutdown |-> FALSE]
NewTcpLoop == [pc |-> "poll", rules |-> <<R1, R2, R3, R4>>, todo |-> <<>>]

\* connect() and listen_and_accept(), up to their loop.  The adapter filters
\* what it reads (Adapters.tla).
Connect(isn) == NewSocket("connect", TCPConnection_connect(NewConnection(isn)))
Listen(isn) == NewSocket("listen", NewConnection(isn))
SocketInit(role, isn) ==
    /\ sock = IF role = "connect" THEN Connect(isn) ELSE Listen(isn)
    /\ tloop = NewTcpLoop
    /\ pair = NewPair
    /\ elapsed = 0
    /\ fate = "running"

Gone(s, r) == r = R2 /\ s.data_eof

InboundOver(s) == eof(inbound(s.tcp)) \/ inbound(s.tcp).error

\* Wrong variant: a connection that is over has nothing left to deliver or to send.
Interest_if_active(s, r) ==
    CASE r = R1 -> s.tcp.active
      [] r = R2 -> s.tcp.active /\ ~s.outbound_shutdown /\ remaining_capacity(outbound(s.tcp)) > 0
      [] r = R3 -> s.tcp.active /\ (~buffer_empty(inbound(s.tcp)) \/ (InboundOver(s) /\ ~s.inbound_shutdown))
      [] r = R4 -> s.tcp.active /\ s.tcp.segments_out # <<>>

Interest(s, r) ==
    CASE r = R1 -> s.tcp.active
      [] r = R2 -> s.tcp.active /\ ~s.outbound_shutdown /\ remaining_capacity(outbound(s.tcp)) > 0
      [] r = R3 -> ~buffer_empty(inbound(s.tcp)) \/ (InboundOver(s) /\ ~s.inbound_shutdown)
      [] r = R4 -> s.tcp.segments_out # <<>>

\* Wrong variant: the connection is not told.
EndOutbound_no_fin(s) == [s EXCEPT !.outbound_shutdown = TRUE]

EndOutbound(s) == [s EXCEPT !.tcp = end_input_stream(@), !.outbound_shutdown = TRUE]
Cancel(s, r) == IF r = R2 THEN EndOutbound(s) ELSE s

TcpSetup(w, rules) ==
    FoldLeft(LAMBDA acc, r : SetupRule(acc, r, Gone(acc.w, r), Interest(acc.w, r), Cancel(acc.w, r)),
             SetupStart(w), rules)

Revents ==
    [data |-> PairRevents(pair, "thread"),
     adapter |-> {"out"} \cup (IF net.in # <<>> THEN {"in"} ELSE {})]

-----------------------------------------------------------------------------
(* The rules' callbacks                                                    *)

SegmentIn ==
    /\ sock' = [sock EXCEPT !.tcp = TCPConnection_segment_received(@, Head(net.in))]
    /\ net' = [net EXCEPT !.in = Tail(@)]
    /\ UNCHANGED <<pair, fate>>

\* read() asks for what the stream can take, so write() takes it all.
EndAtEof(s, at_end) == IF at_end THEN EndOutbound(s) ELSE s
BytesOutLimited(limit) ==
    /\ sock' = EndAtEof([sock EXCEPT !.tcp = TCPConnection_write(@, Taken(pair, "thread", limit)),
                                  !.data_eof = @ \/ SetsEof(pair, "thread", limit)],
                     sock.data_eof \/ SetsEof(pair, "thread", limit))
    /\ pair' = ReadPair(pair, "thread", limit)
    /\ UNCHANGED <<net, fate>>
BytesOut == BytesOutLimited(remaining_capacity(outbound(sock.tcp)))

\* What was written is popped, and only that.
Popped(s, n) == [s EXCEPT !.tcp.receiver.reassembler.output = pop_output(@, n)]
ShutInbound(s, p) ==
    IF InboundOver(s)
    THEN sock' = [s EXCEPT !.inbound_shutdown = TRUE] /\ pair' = ShutWr(p, "thread")
    ELSE sock' = s /\ pair' = p
WriteInbound(data) ==
    /\ IF BreaksPipe(pair, "thread", data)
       THEN fate' = "sigpipe" /\ UNCHANGED <<sock, pair>>
       ELSE /\ ShutInbound(Popped(sock, Len(Given(pair, "thread", data))),
                           WritePair(pair, "thread", data))
            /\ UNCHANGED fate
    /\ UNCHANGED net
\* Wrong variant: everything is popped, even if the pair took a part.
BytesIn_pops_all ==
    /\ ShutInbound(Popped(sock, buffer_size(inbound(sock.tcp))),
                   WritePair(pair, "thread", inbound(sock.tcp).buffer))
    /\ UNCHANGED <<net, fate>>
BytesIn == WriteInbound(inbound(sock.tcp).buffer)

SegmentOut ==
    /\ net' = [net EXCEPT !.out = @ \o sock.tcp.segments_out]
    /\ sock' = [sock EXCEPT !.tcp.segments_out = <<>>]
    /\ UNCHANGED <<pair, fate>>

Callback(r) ==
    \/ r = R1 /\ SegmentIn
    \/ r = R2 /\ BytesOut
    \/ r = R3 /\ BytesIn
    \/ r = R4 /\ SegmentOut

-----------------------------------------------------------------------------
(* The loop                                                                *)

\* The condition of the loop.
KeepsLooping(s) ==
    \/ s.phase = "main"
    \/ s.phase = "connect" /\ In(s.tcp, {"SYN_SENT"})
    \/ s.phase = "listen" /\ In(s.tcp, {"LISTEN", "SYN_RCVD", "SYN_SENT"})

\* The loop is left: connect() and listen_and_accept() start the thread, and
\* _tcp_main shuts both ends of the pair and destroys the connection, with what
\* that puts in its segments_out.
EndLoop(s) ==
    IF s.phase = "main"
    THEN /\ sock' = [s EXCEPT !.phase = "over",
                              !.tcp = [TCPConnection_destroy(@) EXCEPT !.segments_out = <<>>]]
         /\ pair' = ShutRdWr(pair)
    ELSE /\ sock' = [s EXCEPT !.phase = "main"]
         /\ UNCHANGED pair

\* wait_next_event up to the return of poll(2).
Polled(p) ==
    \/ /\ p.asked = {}
       /\ EndLoop(p.w)
       /\ tloop' = [tloop EXCEPT !.rules = p.rules]
    \/ /\ p.asked # {}
       /\ PollReturns(p.rules, p.asked, Revents) \/ elapsed > 0
       /\ sock' = p.w
       /\ tloop' = [pc |-> "serve", rules |-> p.rules, todo |-> Todo(p.rules, p.asked, Revents)]
       /\ UNCHANGED pair
Poll ==
    /\ fate = "running" /\ sock.phase # "over" /\ tloop.pc = "poll"
    /\ IF KeepsLooping(sock) THEN Polled(TcpSetup(sock, tloop.rules))
       ELSE EndLoop(sock) /\ UNCHANGED tloop
    /\ UNCHANGED <<net, elapsed, fate>>

\* A signal interrupts poll(2), which is an Exit too.
PolledInterrupted(p) ==
    /\ p.asked # {}
    /\ EndLoop(p.w)
    /\ tloop' = [tloop EXCEPT !.rules = p.rules]
PollInterrupted ==
    /\ fate = "running" /\ sock.phase # "over" /\ tloop.pc = "poll" /\ KeepsLooping(sock)
    /\ PolledInterrupted(TcpSetup(sock, tloop.rules))
    /\ UNCHANGED <<net, elapsed, fate>>

\* The first rule that is left to be served.
ServeFirst(first) ==
    \/ /\ first.what = "callback"
       /\ Callback(first.rule)
       /\ tloop' = [tloop EXCEPT !.todo = Tail(@)]
    \/ /\ first.what = "cancel"
       /\ sock' = Cancel(sock, first.rule)
       /\ tloop' = [tloop EXCEPT !.todo = Tail(@), !.rules = EraseRule(@, first.rule)]
       /\ UNCHANGED <<pair, net, fate>>
Serve ==
    /\ fate = "running" /\ tloop.pc = "serve" /\ tloop.todo # <<>>
    /\ ServeFirst(Head(tloop.todo))
    /\ UNCHANGED elapsed

\* Back in _tcp_loop.
AfterEvent ==
    /\ fate = "running" /\ tloop.pc = "serve" /\ tloop.todo = <<>>
    /\ tloop' = [tloop EXCEPT !.pc = "poll"]
    /\ IF sock.abort
       THEN EndLoop(sock) /\ UNCHANGED elapsed
       ELSE /\ sock' = [sock EXCEPT !.tcp = IF @.active THEN TCPConnection_tick(@, elapsed) ELSE @]
            /\ elapsed' = IF sock.tcp.active THEN 0 ELSE elapsed
            /\ UNCHANGED pair
    /\ UNCHANGED <<net, fate>>

socketVars == <<sock, tloop, pair, net, elapsed, fate>>
=============================================================================
