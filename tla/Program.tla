------------------------------ MODULE Program ------------------------------
(***************************************************************************)
(* A whole program, tcp_udp and its like: an owner with bidirectional_     *)
(* stream_copy, the TCP thread of its socket, and, over a network that     *)
(* delivers in order and in time, a peer of the same implementation whose  *)
(* application reads at once.  At any moment a peer that waits may give up *)
(* and reset the connection, an exception may end the owner's copying, or  *)
(* a signal interrupt one of the two threads.                              *)
(***************************************************************************)
EXTENDS StreamCopy

CONSTANTS Sessions,           \* what is run, see SessionType
          LocalISN, PeerISN,
          MaxFaults           \* bound: how many faults

FaultKinds == {"reset", "exception", "signal"}

\* role: that of our socket.  typed: is the standard input typed, or a file?
\* input, peer: the number of bytes it holds, and that the peer's application
\* writes.  late: does the peer wait for the end of our stream before it ends
\* its own?  faults: what may happen.
SessionType ==
    [role : {"connect", "listen"}, typed : BOOLEAN, input : Nat, peer : Nat,
     late : BOOLEAN, faults : SUBSET FaultKinds]

ASSUME ProgramAssumption == Sessions \subseteq SessionType /\ MaxFaults \in Nat

VARIABLES session,   \* the one of Sessions that is run
          peer,      \* the peer's connection
          heard,     \* what its application has read
          faults,    \* the faults that have happened
          cut_short  \* history: a FIN has ended the inbound stream without the byte before it

vars == <<sock, tloop, pair, net, elapsed, fate, owner, copy, oloop, input, output,
          session, peer, heard, faults, cut_short>>

Bytes(index, len) == [k \in 1 .. len |-> index + k - 1]

Init ==
    /\ session \in Sessions
    /\ SocketInit(session.role, LocalISN)
    /\ CopyInit(session.input, session.typed)
    /\ peer = [(IF session.role = "connect" THEN NewConnection(PeerISN)
                ELSE TCPConnection_connect(NewConnection(PeerISN))) EXCEPT !.segments_out = <<>>]
    /\ net = [out |-> <<>>,
              in |-> IF session.role = "connect" THEN <<>>
                     ELSE TCPConnection_connect(NewConnection(PeerISN)).segments_out]
    /\ heard = <<>>
    /\ faults = {}
    /\ cut_short = FALSE

-----------------------------------------------------------------------------
(* The peer                                                                *)

PeerRead(c) == [c EXCEPT !.receiver.reassembler.output = pop_output(@, buffer_size(@))]
PeerWrite(c) ==
    IF c.active /\ c.sender.abs_ackno > 0 /\ outbound(c).bytes_written < session.peer
    THEN TCPConnection_write(c, Bytes(outbound(c).bytes_written, session.peer - outbound(c).bytes_written))
    ELSE c
PeerEnd(c) ==
    IF /\ c.active /\ c.sender.abs_ackno > 0
       /\ outbound(c).bytes_written = session.peer /\ ~outbound(c).input_ended
       /\ session.late => inbound(c).input_ended
    THEN end_input_stream(c)
    ELSE c

\* The peer's connection becomes c, its application acts, and what it has to
\* send goes to the network, which has given up the first g of our segments.
\* Nothing arrives at a socket whose connection is over.
PeerSends(c, g) ==
    /\ peer' = [c EXCEPT !.segments_out = <<>>]
    /\ net' = [in |-> IF sock.tcp.active THEN net.in \o c.segments_out ELSE <<>>,
               out |-> SubSeq(net.out, g + 1, Len(net.out))]
PeerActs(c, g) ==
    /\ heard' = heard \o inbound(c).buffer
    /\ PeerSends(PeerEnd(PeerWrite(PeerRead(c))), g)
    /\ UNCHANGED <<sock, tloop, pair, elapsed, fate, copyVars, session, faults, cut_short>>

PeerReceives ==
    /\ net.out # <<>>
    /\ IF peer.active THEN PeerActs(TCPConnection_segment_received(peer, Head(net.out)), 1)
       ELSE PeerActs(peer, 1)

\* Nothing is on its way to someone who listens, and nothing waits to be sent.
Quiet ==
    /\ net.in = <<>> \/ ~sock.tcp.active
    /\ net.out = <<>> /\ sock.tcp.segments_out = <<>>

PeerTicks ==
    /\ peer.active /\ Quiet
    /\ PeerActs(TCPConnection_tick(peer, 1), 0)

Fault(f) ==
    /\ f \in session.faults \ faults /\ Cardinality(faults) < MaxFaults
    /\ faults' = faults \cup {f}

PeerResets ==
    /\ session.late /\ peer.active /\ Fault("reset")
    /\ peer' = _kill_connection(peer, FALSE)
    /\ net' = [net EXCEPT !.in = Append(@, [EmptySegment EXCEPT !.rst = TRUE])]
    /\ UNCHANGED <<sock, tloop, pair, elapsed, fate, copyVars, session, heard, cut_short>>

TimePasses ==
    /\ elapsed = 0 /\ Quiet
    /\ elapsed' = 1
    /\ UNCHANGED <<sock, tloop, pair, net, fate, copyVars, session, peer, heard, faults,
                   cut_short>>

\* A signal interrupts the poll(2) of either thread.
ThreadFails ==
    /\ \/ Unwind /\ Fault("exception")
       \/ Interrupted /\ Fault("signal")
       \/ PollInterrupted /\ UNCHANGED copyVars /\ Fault("signal")
    /\ UNCHANGED <<session, peer, heard, cut_short>>

TcpThread == Poll \/ Serve \/ AfterEvent
OwnerThread == CopyPoll \/ CopyServe \/ Join

\* The connection has assembled the peer's whole stream, or stored its last byte.
HasLast(v) ==
    \/ first_unassembled(v) = session.peer
    \/ \E i \in DOMAIN v.reassembler.segments : i + Len(v.reassembler.segments[i]) = session.peer
\* The TCP thread hands the connection a FIN that ends the inbound stream early.
CutsShort ==
    /\ net'.in # net.in /\ Head(net.in).fin
    /\ inbound(sock'.tcp).input_ended /\ ~HasLast(sock'.tcp.receiver)

Next ==
    \/ /\ TcpThread
       /\ cut_short' = (cut_short \/ CutsShort)
       /\ UNCHANGED <<copyVars, session, peer, heard, faults>>
    \/ /\ OwnerThread \/ Type
       /\ UNCHANGED <<session, peer, heard, faults, cut_short>>
    \/ PeerReceives \/ PeerTicks \/ PeerResets \/ TimePasses \/ ThreadFails

(***************************************************************************)
(* Fairness: the two threads run, the standard input is typed and ends,    *)
(* the network delivers and clocks move.                                   *)
(* For the threads and the peer it is weak fairness with the condition     *)
(* under which they can move, and the change by which a move of theirs     *)
(* shows, written out.                                                     *)
(***************************************************************************)
TcpPollCan(p) == p.asked = {} \/ elapsed > 0 \/ PollReturns(p.rules, p.asked, Revents)
TcpCan ==
    /\ fate = "running" /\ sock.phase # "over"
    /\ \/ tloop.pc = "serve" \/ ~KeepsLooping(sock)
       \/ TcpPollCan(TcpSetup(sock, tloop.rules))
TcpMoves == tloop' # tloop \/ sock'.phase # sock.phase

CopyPollCan(p) == p.asked = {} \/ Todo(p.rules, p.asked, CopyRevents) # <<>>
OwnerCan ==
    \/ Copying /\ oloop.todo # <<>>
    \/ Copying /\ CopyPollCan(CopySetup(copy, oloop.rules))
    \/ fate = "running" /\ owner = "joining" /\ sock.phase = "over"
OwnerMoves == oloop' # oloop \/ owner' # owner

PeerCanTick == peer.active /\ Quiet /\ TCPConnection_tick(peer, 1) # peer

Fairness ==
    /\ []<>~TcpCan \/ []<><<TcpMoves>>_vars
    /\ []<>~OwnerCan \/ []<><<OwnerMoves>>_vars
    /\ []<>(net.out = <<>>) \/ []<><<Len(net'.out) < Len(net.out)>>_vars
    /\ []<>~PeerCanTick \/ []<><<peer' # peer>>_vars
    /\ WF_vars(Type /\ UNCHANGED <<session, peer, heard, faults, cut_short>>)
    /\ WF_vars(TimePasses)

Spec == Init /\ [][Next]_vars /\ Fairness

-----------------------------------------------------------------------------
(***************************************************************************)
(* Between the peer and the standard output, and between the standard      *)
(* input and the connection, no byte is lost, repeated or overtaken: what  *)
(* has come out, and what each buffer on the way holds, is in order what   *)
(* went in.  The pair may take a part of a write, and each side pops only  *)
(* that part (tcp_sponge_socket.cc:131-135, bidirectional_stream_copy.cc:  *)
(* 44-48).                                                                 *)
(***************************************************************************)
NothingLostBetween ==
    /\ output \o copy.inbound.buffer \o pair["owner"].bytes \o inbound(sock.tcp).buffer
          = Bytes(0, first_unassembled(sock.tcp.receiver))
    /\ pair["thread"].bytes \o copy.outbound.buffer
          = Bytes(outbound(sock.tcp).bytes_written, input.read - outbound(sock.tcp).bytes_written)

(***************************************************************************)
(* The program is not killed by a write to the shut pair, unless the       *)
(* connection was reset or a thread interrupted: the thread does not shut  *)
(* the pair before the owner is done with it, nor the owner while there    *)
(* are bytes for it.  A stream that is cut short (see CompleteAtExit)      *)
(* leads to a reset too: the peer's FIN is never acknowledged, and the     *)
(* peer gives up.                                                          *)
(***************************************************************************)
NoBrokenPipe == fate = "sigpipe" => cut_short \/ faults \cap {"reset", "signal"} # {}

(***************************************************************************)
(* When the program ends, its input has been read by the peer and its      *)
(* output is all that the peer wrote, unless one of the faults occurred,   *)
(* or the error of tcp_receiver.cc:35 (see EofComplete of TCPPair): the    *)
(* owner lets the window close, the byte that probes it is dropped, the    *)
(* window opens, and the FIN ends the stream without that byte.            *)
(***************************************************************************)
CompleteAtExit ==
    owner = "done" /\ faults = {} /\ ~cut_short =>
        output = Bytes(0, session.peer) /\ heard = Bytes(0, session.input)

(***************************************************************************)
(* While the owner stays, _tcp_main leaves its loop only when the          *)
(* connection is over, everything it received is with the owner and        *)
(* everything it had to send is sent (tcp_sponge_socket.cc:145-162).  A    *)
(* reset shuts the owner's side of the pair with bytes still to be         *)
(* delivered; if the owner has shut its own and the pair is full, the      *)
(* hangup cancels rule 3, and these bytes are given up.                    *)
(***************************************************************************)
LeavesNothingBehind ==
    [][sock.phase = "main" /\ sock'.phase = "over" /\ faults' \subseteq {"reset"} =>
          /\ ~sock.tcp.active /\ sock.tcp.segments_out = <<>>
          /\ sock.inbound_shutdown
          /\ buffer_empty(inbound(sock.tcp)) \/ inbound(sock.tcp).error]_vars

(***************************************************************************)
(* The program ends: a full pair, copying buffer or window does not stop   *)
(* its reader and its writer for good, wait_until_closed() gets to join    *)
(* the thread, and so does the destructor that sets _abort                 *)
(* (tcp_sponge_socket.cc:180-201).                                         *)
(***************************************************************************)
Terminates == <>(owner = "done" \/ fate # "running")
=============================================================================
