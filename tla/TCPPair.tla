------------------------------- MODULE TCPPair -------------------------------
(***************************************************************************)
(* Two TCPConnections, their applications, their clocks and the network    *)
(* between them.  The byte at index i of either stream is i itself.        *)
(*                                                                         *)
(* net[e] holds the segments that e has sent and that have not arrived, in *)
(* the order they were sent.  The owner of a connection moves its          *)
(* segments_out to the network after each call, as rule 4 of the socket's  *)
(* event loop does (tcp_sponge_socket.cc:154-162).                         *)
(***************************************************************************)
EXTENDS TCPState, SequencesExt

CONSTANTS Client, Server,
          ISN,          \* initial sequence number of each endpoint
          Length,       \* number of bytes each endpoint's application writes
          Closers,      \* the endpoints whose application ends its stream
          Destroyable,  \* the endpoints whose owner may destroy the connection
          Timely,       \* do segments always arrive before a clock ticks?
          Prompt,       \* do applications read before the next segment arrives?
          Reorder,      \* may segments overtake each other?
          MaxFaults,    \* bound: segments lost or duplicated, connections destroyed
          MaxInFlight   \* bound: segments on their way in one direction

Endpoint == {Client, Server}

ASSUME PairAssumption ==
    /\ Client # Server
    /\ ISN \in [Endpoint -> WrappingInt32]
    /\ Length \in [Endpoint -> Nat]
    /\ Closers \subseteq Endpoint /\ Destroyable \subseteq Endpoint
    /\ Timely \in BOOLEAN /\ Prompt \in BOOLEAN /\ Reorder \in BOOLEAN
    /\ MaxFaults \in Nat /\ MaxInFlight \in Nat
    /\ UINT16_MAX < UINT64_MOD

\* A segment may be late for as long as the connection lasts, so a stream is
\* taken to be shorter than half the sequence space, and no index overflows.
ASSUME ShortStreams ==
    \A e \in Endpoint : /\ 2 * (Length[e] + 3) < WRAP_MOD
                       /\ Length[e] + recv_capacity + 2 < SIZE_MAX

VARIABLES conn,         \* the two connections
          net,          \* the segments on their way
          consumed,     \* what each application has read
          destroyed,    \* the endpoints whose connection is gone
          faults        \* how many segments have been lost or duplicated, and
                        \* connections destroyed

vars == <<conn, net, consumed, destroyed, faults>>

Peer(e) == IF e = Client THEN Server ELSE Client
Bytes(index, len) == [k \in 1 .. len |-> index + k - 1]

Init ==
    /\ conn = [e \in Endpoint |-> NewConnection(ISN[e])]
    /\ net = [e \in Endpoint |-> <<>>]
    /\ consumed = [e \in Endpoint |-> <<>>]
    /\ destroyed = {}
    /\ faults = 0

\* e's connection becomes c, and what c has to send goes to the network, which
\* has lost what in_flight leaves out.
Emit(e, c, in_flight) ==
    /\ conn' = [conn EXCEPT ![e] = [c EXCEPT !.segments_out = <<>>]]
    /\ net' = [in_flight EXCEPT ![e] = @ \o c.segments_out]

Usable(e) == conn[e].active /\ ~conn[e].threw /\ Len(net[e]) < MaxInFlight
CanHear(e) == Prompt => buffer_empty(inbound(conn[e]))

Connect ==
    /\ Usable(Client) /\ conn[Client].sender.next_seqno = 0
    /\ Emit(Client, TCPConnection_connect(conn[Client]), net)
    /\ UNCHANGED <<consumed, destroyed, faults>>

\* The application of a connected endpoint writes (rule 2).
Write(e) ==
    LET written == outbound(conn[e]).bytes_written
        len == MinOf(Length[e] - written, remaining_capacity(outbound(conn[e])))
    IN  /\ Usable(e) /\ conn[e].sender.abs_ackno > 0
        /\ ~outbound(conn[e]).input_ended
        /\ len > 0
        /\ Emit(e, TCPConnection_write(conn[e], Bytes(written, len)), net)
        /\ UNCHANGED <<consumed, destroyed, faults>>

Close(e) ==
    /\ Usable(e) /\ conn[e].sender.abs_ackno > 0
    /\ e \in Closers
    /\ ~outbound(conn[e]).input_ended
    /\ outbound(conn[e]).bytes_written = Length[e]
    /\ Emit(e, end_input_stream(conn[e]), net)
    /\ UNCHANGED <<consumed, destroyed, faults>>

\* The application takes the bytes that have been reassembled (rule 3).
Read(e) ==
    LET n == buffer_size(inbound(conn[e]))
    IN  /\ e \notin destroyed /\ n > 0
        /\ consumed' = [consumed EXCEPT ![e] = @ \o peek_output(inbound(conn[e]), n)]
        /\ conn' = [conn EXCEPT ![e].receiver.reassembler.output = pop_output(@, n)]
        /\ UNCHANGED <<net, destroyed, faults>>

\* The i-th segment from e's peer reaches e (rule 1).
Deliver(e, i) ==
    /\ Usable(e) /\ CanHear(e)
    /\ Emit(e, TCPConnection_segment_received(conn[e], net[Peer(e)][i]),
            [net EXCEPT ![Peer(e)] = RemoveAt(@, i)])
    /\ UNCHANGED <<consumed, destroyed, faults>>

\* It reaches e and a copy of it stays on its way.
Duplicate(e, i) ==
    /\ Usable(e) /\ CanHear(e) /\ faults < MaxFaults
    /\ Emit(e, TCPConnection_segment_received(conn[e], net[Peer(e)][i]), net)
    /\ faults' = faults + 1
    /\ UNCHANGED <<consumed, destroyed>>

Lose(e, i) ==
    /\ faults < MaxFaults
    /\ net' = [net EXCEPT ![e] = RemoveAt(@, i)]
    /\ faults' = faults + 1
    /\ UNCHANGED <<conn, consumed, destroyed>>

\* Nobody listens at e any more.
Discard(e) ==
    /\ ~conn[e].active
    /\ net[Peer(e)] # <<>>
    /\ net' = [net EXCEPT ![Peer(e)] = Tail(@)]
    /\ UNCHANGED <<conn, consumed, destroyed, faults>>

Quiet == \A e \in Endpoint : net[e] = <<>> /\ buffer_empty(inbound(conn[e]))

\* One unit of time passes at e.
Tick(e) ==
    /\ Usable(e)
    /\ Timely => Quiet
    /\ Emit(e, TCPConnection_tick(conn[e], 1), net)
    /\ UNCHANGED <<consumed, destroyed, faults>>

\* The destructor: what it puts in segments_out is destroyed with it.
Destroy(e) ==
    /\ e \in Destroyable \ destroyed /\ faults < MaxFaults
    /\ faults' = faults + 1
    /\ conn' = [conn EXCEPT ![e] = [TCPConnection_destroy(@) EXCEPT !.segments_out = <<>>]]
    /\ destroyed' = destroyed \cup {e}
    /\ UNCHANGED <<net, consumed>>

Arrivals(e) == IF Reorder THEN DOMAIN net[e] ELSE {1} \cap DOMAIN net[e]

Next ==
    \/ Connect
    \/ \E e \in Endpoint :
          \/ Write(e) \/ Close(e) \/ Read(e) \/ Discard(e) \/ Tick(e) \/ Destroy(e)
          \/ \E i \in Arrivals(Peer(e)) : Deliver(e, i) \/ Duplicate(e, i)
          \/ \E i \in Arrivals(e) : Lose(e, i)

Spec == Init /\ [][Next]_vars

(***************************************************************************)
(* Fairness: something is done as long as there is something to do.        *)
(* Applications write, read and close, the network delivers and clocks     *)
(* tick (the event loop returns at least every TCP_TICK_MS,                *)
(* tcp_sponge_socket.cc:25-40).  It is weak fairness of all of it taken    *)
(* together, with the condition for it written out.                        *)
(***************************************************************************)
CanConnect == Usable(Client) /\ conn[Client].sender.next_seqno = 0
CanWrite(e) ==
    /\ Usable(e) /\ conn[e].sender.abs_ackno > 0
    /\ ~outbound(conn[e]).input_ended
    /\ outbound(conn[e]).bytes_written < Length[e]
    /\ remaining_capacity(outbound(conn[e])) > 0
CanClose(e) ==
    /\ Usable(e) /\ conn[e].sender.abs_ackno > 0 /\ e \in Closers
    /\ ~outbound(conn[e]).input_ended
    /\ outbound(conn[e]).bytes_written = Length[e]
CanRead(e) == e \notin destroyed /\ ~buffer_empty(inbound(conn[e]))
CanTick(e) ==
    /\ Usable(e) /\ (Timely => Quiet)
    /\ TCPConnection_tick(conn[e], 1) # conn[e]
CanArrive(e) == net[Peer(e)] # <<>> /\ (conn[e].active => Usable(e) /\ CanHear(e))
SomethingToDo ==
    CanConnect \/ \E e \in Endpoint :
        CanWrite(e) \/ CanClose(e) \/ CanRead(e) \/ CanArrive(e) \/ CanTick(e)

-----------------------------------------------------------------------------
Failed(e) == inbound(conn[e]).error \/ outbound(conn[e]).error

(***************************************************************************)
(* Neither half of a connection ever goes back in the order of the state   *)
(* diagram, whatever arrives late, twice or not at all: the summaries that *)
(* connect() and listen_and_accept() wait for are passed once, and a FIN   *)
(* that is acknowledged stays so (tcp_state.cc:82-110).                    *)
(***************************************************************************)
ReceiverOrder == [LISTEN |-> 0, SYN_RECV |-> 1, FIN_RECV |-> 2, ERROR |-> 3]
SenderOrder == [CLOSED |-> 0, SYN_SENT |-> 1, SYN_ACKED |-> 2, FIN_SENT |-> 3, FIN_ACKED |-> 4, ERROR |-> 5]
StatesForward ==
    [][\A e \in Endpoint :
          /\ ReceiverOrder[state(conn[e]).receiver] <= ReceiverOrder[state(conn[e]).receiver']
          /\ SenderOrder[state(conn[e]).sender] <= SenderOrder[state(conn[e]).sender']
          /\ conn[e]'.active => conn[e].active]_vars

(***************************************************************************)
(* What an application has read is a prefix of what the other one wrote,   *)
(* whatever the network loses, repeats or reorders.  In particular, no     *)
(* payload is read from memory that the popped queue entry has given back  *)
(* (tcp_connection.cc:47-65).                                              *)
(***************************************************************************)
PrefixDelivered ==
    \A e \in Endpoint :
        /\ consumed[e] \o inbound(conn[e]).buffer = Bytes(0, first_unassembled(conn[e].receiver))
        /\ first_unassembled(conn[e].receiver) <= outbound(conn[Peer(e)]).bytes_written

(***************************************************************************)
(* A sender never lets go of a byte that the other side does not have:     *)
(* every byte before its _abs_ackno has been reassembled by the peer       *)
(* (tcp_sender.cc:137-150, tcp_receiver.cc:41-50), until a FIN has ended   *)
(* the peer's stream, perhaps too early (see EofComplete).  It takes       *)
(* initial sequence numbers that are apart: a segment without ACK is       *)
(* handled as if it acknowledged what the receiver itself has got from the *)
(* peer (tcp_connection.cc:91-95), a number that must not lie among those  *)
(* the sender has used.                                                    *)
(***************************************************************************)
IsnsApart ==
    \A e \in Endpoint : \A x \in 1 .. Length[Peer(e)] + 2 :
        Minus(wrap(x, ISN[Peer(e)]), ISN[e]) > Length[e] + 2
AckedIsReceived ==
    \A e \in Endpoint : ~inbound(conn[Peer(e)]).input_ended =>
        conn[e].sender.abs_ackno <= first_unassembled(conn[Peer(e)].receiver) + 1

(***************************************************************************)
(* No segment that a peer of this implementation sends, at whatever time   *)
(* it arrives, makes segment_received ask an empty optional for its value  *)
(* (tcp_connection.cc:94).                                                 *)
(***************************************************************************)
NeverThrows == \A e \in Endpoint : ~conn[e].threw

(***************************************************************************)
(* An inbound stream that has ended is complete: the other application has *)
(* ended it, and every byte it wrote has been reassembled, each in its     *)
(* place.  tcp_benchmark.cc:87 makes this check of its own transfer.       *)
(***************************************************************************)
EofComplete ==
    \A e \in Endpoint : inbound(conn[e]).input_ended =>
        /\ outbound(conn[Peer(e)]).input_ended
        /\ first_unassembled(conn[e].receiver) = outbound(conn[Peer(e)]).bytes_written
        /\ consumed[e] \o inbound(conn[e]).buffer = Bytes(0, first_unassembled(conn[e].receiver))

(***************************************************************************)
(* A connection that closed cleanly has done its work in both directions:  *)
(* it has the peer's FIN, and the peer has taken all that it sent, its own *)
(* FIN included, whatever has been lost on the way (tcp_connection.cc:     *)
(* 69-77, 145-154).  The one exception is a last byte that an overtaken    *)
(* acknowledgement has left in the buffer, which takes a window of one     *)
(* byte: the ackno went back, the window looked full with nothing in       *)
(* flight, and line 75 compares next_seqno with bytes_written, which it is *)
(* when one byte is missing.                                               *)
(***************************************************************************)
LastByteLeft(e) ==
    /\ conn[e].sender.abs_ackno < conn[e].sender.next_seqno
    /\ outbound(conn[e]).bytes_read = Length[e] - 1
CleanCloseComplete ==
    \A e \in Endpoint : ~conn[e].active /\ ~Failed(e) =>
        /\ inbound(conn[e]).input_ended
        /\ \/ outbound(conn[e]).bytes_read = Length[e] /\ inbound(conn[Peer(e)]).input_ended
           \/ LastByteLeft(e)

(***************************************************************************)
(* Of two endpoints at least one stays to acknowledge the other's FIN: it  *)
(* takes a FIN received before one's own close to skip lingering, and the  *)
(* two cannot both have closed second (tcp_connection.cc:114, 164).        *)
(***************************************************************************)
SomeoneLingers == \E e \in Endpoint : conn[e].linger_after_streams_finish

(***************************************************************************)
(* On a network that delivers in time, both connections close once both    *)
(* applications have, and neither has failed (tcp_connection.cc:69-77,     *)
(* 145-154): a failure leaves its mark for good.  For tcp_benchmark.cc     *)
(* this is the end of its last loop (line 101).                            *)
(***************************************************************************)
BothClose == <>(\A e \in Endpoint : ~conn[e].active /\ ~Failed(e))

=============================================================================
