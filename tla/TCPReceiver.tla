----------------------------- MODULE TCPReceiver -----------------------------
(***************************************************************************)
(* libsponge/tcp_receiver.{hh,cc}: the receiving half of an endpoint. It   *)
(* turns sequence numbers into stream indices, feeds the reassembler and   *)
(* computes the ackno and the window that are advertised to the peer.      *)
(***************************************************************************)
EXTENDS WrappingIntegers, StreamReassembler, TCPSegment

NewReceiver(capacity) ==
    [reassembler |-> NewReassembler(capacity), capacity |-> capacity,
     syn |-> FALSE, fin |-> FALSE, isn |-> 0]

stream_out(v) == v.reassembler.output
first_unassembled(v) == v.reassembler.first_unassembled

\* Wrong variant: stored bytes are acknowledged.
AbsAckno_with_stored(v) ==
    first_unassembled(v) + unassembled_bytes(v.reassembler) + 1
        + OneIf(stream_out(v).input_ended)

\* The absolute ackno, and the one that is sent; there is one once syn is set.
AbsAckno(v) == first_unassembled(v) + 1 + OneIf(stream_out(v).input_ended)
ackno(v) == wrap(AbsAckno(v), v.isn)

\* Wrong variant: stored bytes are counted against the window.
window_size_less_stored(v) ==
    v.capacity - buffer_size(stream_out(v)) - unassembled_bytes(v.reassembler)

window_size(v) == v.capacity - buffer_size(stream_out(v))

\* The stream index of the first payload byte of seg.
PayloadIndex(v, seg) ==
    unwrap(Minus(seg.seqno, OneIf(~seg.syn)), v.isn, first_unassembled(v))

\* Wrong variants: the SYN's place in the sequence space is not subtracted; raw
\* sequence numbers are compared.
PushPayload_off_by_one(v, seg) ==
    IF seg.payload # <<>>
    THEN [v EXCEPT !.reassembler =
            push_substring(@, seg.payload, unwrap(seg.seqno, v.isn, first_unassembled(v)), seg.fin)]
    ELSE v

PushPayload_raw_compare(v, seg) ==
    IF seg.payload # <<>> /\ (seg.syn \/ seg.seqno > v.isn)
    THEN [v EXCEPT !.reassembler =
            push_substring(@, seg.payload, PayloadIndex(v, seg), seg.fin)]
    ELSE v

\* A payload that starts at the ISN's own number is not pushed.
PushPayload(v, seg) ==
    IF seg.payload # <<>> /\ (seg.syn \/ seg.seqno # v.isn)
    THEN [v EXCEPT !.reassembler =
            push_substring(@, seg.payload, PayloadIndex(v, seg), seg.fin)]
    ELSE v

\* Wrong variant: the FIN ends the stream at once.
NoteFin_at_once(v, seg) ==
    IF seg.fin THEN [v EXCEPT !.fin = TRUE, !.reassembler.output = end_input(@)] ELSE v

\* Once a FIN has been seen, the stream ends when nothing is stored.
NoteFin(v, seg) ==
    IF seg.fin \/ v.fin
    THEN LET w == [v EXCEPT !.fin = TRUE]
         IN  IF unassembled_bytes(w.reassembler) = 0
             THEN [w EXCEPT !.reassembler.output = end_input(@)]
             ELSE w
    ELSE v

\* Wrong variant: every SYN begins a connection.
TCPReceiver_segment_received_anew(v, seg) ==
    IF ~v.syn /\ ~seg.syn THEN v
    ELSE LET w == IF seg.syn THEN [NewReceiver(v.capacity) EXCEPT !.isn = seg.seqno, !.syn = TRUE] ELSE v
         IN  NoteFin(PushPayload(w, seg), seg)

TCPReceiver_segment_received(v, seg) ==
    IF ~v.syn /\ ~seg.syn THEN v
    ELSE LET w == IF v.syn THEN v ELSE [v EXCEPT !.isn = seg.seqno, !.syn = TRUE]
         IN  NoteFin(PushPayload(w, seg), seg)
=============================================================================
