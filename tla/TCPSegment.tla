----------------------------- MODULE TCPSegment -----------------------------
(***************************************************************************)
(* libsponge/tcp_helpers/tcp_segment.{hh,cc} and tcp_header.hh: the parts  *)
(* of a segment that the TCP implementation reads.  Ports, checksum and    *)
(* the urgent and push fields are left out: no code in the endpoint        *)
(* branches on them.                                                       *)
(***************************************************************************)
EXTENDS Integers, Sequences

\* A segment with the header's defaults.
EmptySegment ==
    [seqno |-> 0, syn |-> FALSE, fin |-> FALSE, rst |-> FALSE,
     ack |-> FALSE, ackno |-> 0, win |-> 0, payload |-> <<>>]

OneIf(b) == IF b THEN 1 ELSE 0

length_in_sequence_space(seg) == Len(seg.payload) + OneIf(seg.syn) + OneIf(seg.fin)
=============================================================================
