------------------------------ MODULE Benchmark ------------------------------
(***************************************************************************)
(* apps/tcp_benchmark.cc: one thread that moves the segments of two        *)
(* connections x and y from one to the other, in their order or in the     *)
(* reverse one, and lets the retransmission timeout pass every time round. *)
(* y ends its stream before x has called.  x is the Client of TCPPair, y   *)
(* the Server.                                                             *)
(***************************************************************************)
EXTENDS TCPPair

CONSTANT BenchLengths     \* the numbers of bytes sent, len in the code

ASSUME BenchAssumption == BenchLengths \subseteq Nat

VARIABLE bench    \* [on |-> FALSE], or what main_loop was called with

benchVars == <<vars, bench>>

BenchInit ==
    /\ \E len \in BenchLengths, reorder \in BOOLEAN :
          bench = [on |-> TRUE, len |-> len, reorder |-> reorder]
    /\ conn = [e \in Endpoint |->
                 IF e = Client THEN TCPConnection_connect(NewConnection(ISN[e]))
                 ELSE end_input_stream(NewConnection(ISN[e]))]
    /\ net = [e \in Endpoint |-> <<>>]
    /\ consumed = [e \in Endpoint |-> <<>>]
    /\ destroyed = {}
    /\ faults = 0

\* The while loop that writes: write may send at once, and so make room.
WriteOnce(x, len) ==
    LET written == outbound(x).bytes_written
        want == MinOf(remaining_capacity(outbound(x)), len - written)
    IN  IF want = 0 THEN x ELSE TCPConnection_write(x, Bytes(written, want))
WriteAll(x, len) == FoldLeft(LAMBDA c, k : WriteOnce(c, len), x, [k \in 1 .. len |-> k])

\* end_input_stream, once everything has been written.
EndWhenWritten(x, len) ==
    IF outbound(x).bytes_written = len /\ ~outbound(x).input_ended THEN end_input_stream(x) ELSE x

\* w holds x and y.  move_segments empties the queue of the one, then gives
\* the segments to the other.
move_segments(w, from, to, reorder) ==
    LET segments == w[from].segments_out
        ordered == IF reorder THEN Reverse(segments) ELSE segments
    IN  [w EXCEPT ![from].segments_out = <<>>,
                  ![to] = FoldLeft(TCPConnection_segment_received, @, ordered)]

Exchanged(w, reorder) ==
    move_segments(move_segments(w, Client, Server, reorder), Server, Client, FALSE)

\* y's output is read, and time passes.
AfterExchange(w) ==
    LET n == buffer_size(inbound(w[Server]))
    IN  /\ consumed' = [consumed EXCEPT ![Server] = @ \o peek_output(inbound(w[Server]), n)]
        /\ conn' = [e \in Endpoint |->
              TCPConnection_tick(IF e = Client THEN w[e]
                                 ELSE [w[e] EXCEPT !.receiver.reassembler.output = pop_output(@, n)],
                                 rt_timeout)]

\* The lambda loop, which main_loop repeats until y's inbound stream is at its
\* end, and from then on until neither connection is active.
CanLoop ==
    /\ bench.on
    /\ ~eof(inbound(conn[Server])) \/ \E e \in Endpoint : conn[e].active
Loop ==
    /\ CanLoop
    /\ AfterExchange(Exchanged(
          [conn EXCEPT ![Client] = EndWhenWritten(WriteAll(@, bench.len), bench.len)],
          bench.reorder))
    /\ UNCHANGED <<net, destroyed, faults, bench>>

BenchNext ==
    \/ ~bench.on /\ Next /\ UNCHANGED bench
    \/ Loop

(***************************************************************************)
(* The loop of the benchmark goes on; without it, something is done as     *)
(* long as there is something to do (TCPPair).                             *)
(***************************************************************************)
BenchSpec ==
    /\ (Init /\ bench = [on |-> FALSE]) \/ BenchInit
    /\ [][BenchNext]_benchVars
    /\ []<>~(IF bench.on THEN CanLoop ELSE SomethingToDo) \/ []<><<TRUE>>_benchVars
=============================================================================
