----------------------------- MODULE SocketPair -----------------------------
(***************************************************************************)
(* The AF_UNIX stream socket pair between the owner of a TCPSpongeSocket   *)
(* and its TCP thread, as the kernel implements it and as Socket and       *)
(* FileDescriptor (util/socket.cc, util/file_descriptor.cc) use it.  The   *)
(* pair is one record per direction: the bytes on their way and whether    *)
(* the direction has been shut down, by either of its ends.                *)
(***************************************************************************)
EXTENDS Integers, Sequences

CONSTANT PAIR_CAPACITY        \* what the kernel holds in one direction

ASSUME PairCapacity == PAIR_CAPACITY \in Nat \ {0}

Ends == {"owner", "thread"}
Other(end) == IF end = "owner" THEN "thread" ELSE "owner"

\* pair[end] is the direction that end reads from.
NewPair == [end \in Ends |-> [bytes |-> <<>>, shut |-> FALSE]]

Space(pair, end) == PAIR_CAPACITY - Len(pair[Other(end)].bytes)

\* poll(2): end of file is readable; a shut direction is writable, if there is
\* space; a hangup is reported once both directions are shut.
PairRevents(pair, end) ==
    (IF pair[end].bytes # <<>> \/ pair[end].shut THEN {"in"} ELSE {})
        \cup (IF Space(pair, end) > 0 THEN {"out"} ELSE {})
        \cup (IF \A e \in Ends : pair[e].shut THEN {"hup"} ELSE {})

\* FileDescriptor::read(limit): what it returns, what it leaves, and whether it
\* sets _eof.
Taken(pair, end, limit) ==
    SubSeq(pair[end].bytes, 1, IF limit < Len(pair[end].bytes) THEN limit ELSE Len(pair[end].bytes))
ReadPair(pair, end, limit) ==
    [pair EXCEPT ![end].bytes = SubSeq(@, Len(Taken(pair, end, limit)) + 1, Len(@))]
SetsEof(pair, end, limit) == limit > 0 /\ pair[end].bytes = <<>>

\* FileDescriptor::write(data, false): part of the data may be written.  A byte
\* written to a shut direction raises SIGPIPE; an empty write is harmless.
Given(pair, end, data) ==
    SubSeq(data, 1, IF Space(pair, end) < Len(data) THEN Space(pair, end) ELSE Len(data))
WritePair(pair, end, data) == [pair EXCEPT ![Other(end)].bytes = @ \o Given(pair, end, data)]
BreaksPipe(pair, end, data) == data # <<>> /\ pair[Other(end)].shut

\* Socket::shutdown(SHUT_WR) and shutdown(SHUT_RDWR).
ShutWr(pair, end) == [pair EXCEPT ![Other(end)].shut = TRUE]
ShutRdWr(pair) == [e \in Ends |-> [pair[e] EXCEPT !.shut = TRUE]]
=============================================================================
