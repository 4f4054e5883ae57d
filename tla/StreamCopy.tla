----------------------------- MODULE StreamCopy -----------------------------
(***************************************************************************)
(* apps/bidirectional_stream_copy.cc and the main() of tcp_udp.cc,         *)
(* tcp_ipv4.cc and tcp_ip_ethernet.cc: the owner of a TCPSpongeSocket.     *)
(* Once connected, it copies its standard input to the socket and the      *)
(* socket to its standard output, in an event loop of its own, and waits   *)
(* for the TCP thread.  A failed system call ends it by an exception, and  *)
(* the socket's destructor runs.                                           *)
(***************************************************************************)
EXTENDS TCPSpongeSocket

CONSTANT COPY_CAPACITY        \* buffer_size of the two streams

VARIABLES owner,     \* "copy", "joining" or "done"
          copy,      \* the locals of bidirectional_stream_copy
          oloop,     \* its event loop: rules, and what is to be served
          input,     \* the standard input: its length, bytes typed, bytes read, closed
          output     \* what the standard output took

C1 == Rule("input", "stdin", "in")
C2 == Rule("to_socket", "socket", "out")
C3 == Rule("from_socket", "socket", "in")
C4 == Rule("output", "stdout", "out")

\* The standard input has len bytes, typed one after the other or there from
\* the start, as in a file.
CopyInit(len, typed) ==
    /\ owner = "copy"
    /\ copy = [outbound |-> NewStream(COPY_CAPACITY), inbound |-> NewStream(COPY_CAPACITY),
               outbound_shutdown |-> FALSE, inbound_shutdown |-> FALSE,
               input_eof |-> FALSE, socket_eof |-> FALSE, output_closed |-> FALSE]
    /\ oloop = [rules |-> <<C1, C2, C3, C4>>, todo |-> <<>>]
    /\ input = [length |-> len, typed |-> IF typed THEN 0 ELSE len, read |-> 0, closed |-> ~typed]
    /\ output = <<>>

CopyGone(k, r) ==
    \/ r = C1 /\ k.input_eof
    \/ r = C3 /\ k.socket_eof
    \/ r = C4 /\ k.output_closed

\* Wrong variant: nothing is read any more once the input is copied.
CopyInterest_one_way(k, r) ==
    CASE r = C1 -> ~k.outbound.error /\ remaining_capacity(k.outbound) > 0 /\ ~k.inbound.error
      [] r = C2 -> ~buffer_empty(k.outbound) \/ (eof(k.outbound) /\ ~k.outbound_shutdown)
      [] r = C3 -> remaining_capacity(k.inbound) > 0 /\ ~k.outbound_shutdown
      [] r = C4 -> ~buffer_empty(k.inbound) \/ (eof(k.inbound) /\ ~k.inbound_shutdown)

CopyInterest(k, r) ==
    CASE r = C1 -> ~k.outbound.error /\ remaining_capacity(k.outbound) > 0 /\ ~k.inbound.error
      [] r = C2 -> ~buffer_empty(k.outbound) \/ (eof(k.outbound) /\ ~k.outbound_shutdown)
      [] r = C3 -> ~k.inbound.error /\ remaining_capacity(k.inbound) > 0 /\ ~k.outbound.error
      [] r = C4 -> ~buffer_empty(k.inbound) \/ (eof(k.inbound) /\ ~k.inbound_shutdown)

CopyCancel(k, r) ==
    IF r \in {C1, C2} THEN [k EXCEPT !.outbound = end_input(@)]
    ELSE [k EXCEPT !.inbound = end_input(@)]

CopySetup(w, rules) ==
    FoldLeft(LAMBDA acc, r : SetupRule(acc, r, CopyGone(acc.w, r), CopyInterest(acc.w, r),
                                       CopyCancel(acc.w, r)),
             SetupStart(w), rules)

CopyRevents ==
    [stdin |-> IF input.read < input.typed \/ input.closed THEN {"in"} ELSE {},
     socket |-> PairRevents(pair, "owner"),
     stdout |-> {"out"}]

-----------------------------------------------------------------------------
(* The rules' callbacks                                                    *)

EndStream(s, at_end) == IF at_end THEN end_input(s) ELSE s

\* Byte i of the standard input is i.
ReadInput(n, limit) ==
    /\ copy' = [copy EXCEPT
           !.outbound = EndStream(write(@, [i \in 1 .. n |-> input.read + i - 1]), limit > 0 /\ n = 0),
           !.input_eof = limit > 0 /\ n = 0]
    /\ input' = [input EXCEPT !.read = @ + n]
    /\ UNCHANGED <<pair, output, fate>>
Input ==
    ReadInput(MinOf(input.typed - input.read, remaining_capacity(copy.outbound)),
              remaining_capacity(copy.outbound))

ShutOutbound(k, p) ==
    IF eof(k.outbound)
    THEN copy' = [k EXCEPT !.outbound_shutdown = TRUE] /\ pair' = ShutWr(p, "owner")
    ELSE copy' = k /\ pair' = p
WriteSocket(data) ==
    /\ IF BreaksPipe(pair, "owner", data)
       THEN fate' = "sigpipe" /\ UNCHANGED <<copy, pair>>
       ELSE /\ ShutOutbound([copy EXCEPT !.outbound = pop_output(@, Len(Given(pair, "owner", data)))],
                            WritePair(pair, "owner", data))
            /\ UNCHANGED fate
    /\ UNCHANGED <<input, output>>
ToSocket == WriteSocket(copy.outbound.buffer)

ReadSocket(limit) ==
    /\ copy' = [copy EXCEPT
           !.inbound = EndStream(write(@, Taken(pair, "owner", limit)), SetsEof(pair, "owner", limit)),
           !.socket_eof = SetsEof(pair, "owner", limit)]
    /\ pair' = ReadPair(pair, "owner", limit)
    /\ UNCHANGED <<input, output, fate>>
FromSocket == ReadSocket(remaining_capacity(copy.inbound))

\* The standard output takes one byte at a time.
CloseOutput(k) ==
    IF eof(k.inbound) THEN [k EXCEPT !.output_closed = TRUE, !.inbound_shutdown = TRUE] ELSE k
WriteOutput(data) ==
    /\ copy' = CloseOutput([copy EXCEPT !.inbound = pop_output(@, Len(data))])
    /\ output' = output \o data
    /\ UNCHANGED <<pair, input, fate>>
Output == WriteOutput(peek_output(copy.inbound, 1))

CopyCallback(r) ==
    \/ r = C1 /\ Input
    \/ r = C2 /\ ToSocket
    \/ r = C3 /\ FromSocket
    \/ r = C4 /\ Output

-----------------------------------------------------------------------------
(* The loop, which waits without a time limit, and what follows it         *)

Copying == fate = "running" /\ owner = "copy" /\ sock.phase \in {"main", "over"}

\* Exit: back in main(), wait_until_closed() shuts the pair down and joins.
CopyExit(p) ==
    /\ owner' = "joining"
    /\ pair' = ShutRdWr(pair)
    /\ oloop' = [oloop EXCEPT !.rules = p.rules]
CopyPolled(p) ==
    /\ copy' = p.w
    /\ \/ p.asked = {} /\ CopyExit(p)
       \/ /\ p.asked # {}
          /\ PollReturns(p.rules, p.asked, CopyRevents)
          /\ oloop' = [rules |-> p.rules, todo |-> Todo(p.rules, p.asked, CopyRevents)]
          /\ UNCHANGED <<owner, pair>>
CopyPoll ==
    /\ Copying /\ oloop.todo = <<>>
    /\ CopyPolled(CopySetup(copy, oloop.rules))
    /\ UNCHANGED <<sock, tloop, net, elapsed, fate, input, output>>

\* A signal is caught in poll(2), which is an Exit too.
CopyInterrupted(p) == copy' = p.w /\ p.asked # {} /\ CopyExit(p)
Interrupted ==
    /\ Copying /\ oloop.todo = <<>>
    /\ CopyInterrupted(CopySetup(copy, oloop.rules))
    /\ UNCHANGED <<sock, tloop, net, elapsed, fate, input, output>>

CopyServeFirst(first) ==
    \/ /\ first.what = "callback"
       /\ CopyCallback(first.rule)
       /\ oloop' = [oloop EXCEPT !.todo = Tail(@)]
    \/ /\ first.what = "cancel"
       /\ copy' = CopyCancel(copy, first.rule)
       /\ oloop' = [oloop EXCEPT !.todo = Tail(@), !.rules = EraseRule(@, first.rule)]
       /\ UNCHANGED <<pair, input, output, fate>>
CopyServe ==
    /\ Copying /\ oloop.todo # <<>>
    /\ CopyServeFirst(Head(oloop.todo))
    /\ UNCHANGED <<sock, tloop, net, elapsed, owner>>

\* A system call of a callback fails: the exception leaves main(), and the
\* destructor has the thread stop.
Unwind ==
    /\ Copying /\ oloop.todo # <<>>
    /\ sock' = [sock EXCEPT !.abort = TRUE]
    /\ owner' = "joining"
    /\ UNCHANGED <<tloop, pair, net, elapsed, fate, copy, oloop, input, output>>

Join ==
    /\ fate = "running" /\ owner = "joining" /\ sock.phase = "over"
    /\ owner' = "done"
    /\ UNCHANGED <<sock, tloop, pair, net, elapsed, fate, copy, oloop, input, output>>

-----------------------------------------------------------------------------
(* The world outside                                                       *)

Type ==
    /\ ~input.closed
    /\ input' = IF input.typed < input.length THEN [input EXCEPT !.typed = @ + 1]
                ELSE [input EXCEPT !.closed = TRUE]
    /\ UNCHANGED <<sock, tloop, pair, net, elapsed, fate, owner, copy, oloop, output>>

copyVars == <<owner, copy, oloop, input, output>>
=============================================================================
