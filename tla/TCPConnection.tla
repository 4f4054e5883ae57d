--------------------------- MODULE TCPConnection ---------------------------
(***************************************************************************)
(* libsponge/tcp_connection.{hh,cc}: one endpoint, a TCPReceiver and a     *)
(* TCPSender with the rules that tie them together: acknowledging,         *)
(* resetting, lingering and closing.  Each public method is an operator    *)
(* from the old connection record to the new one.                          *)
(***************************************************************************)
EXTENDS TCPReceiver, TCPSender

CONSTANTS MAX_RETX_ATTEMPTS,  \* TCPConfig::MAX_RETX_ATTEMPTS
          LINGER_FACTOR,      \* the 10 of 10 * rt_timeout
          UINT16_MAX,         \* largest window a header can carry
          rt_timeout, recv_capacity, send_capacity  \* the TCPConfig

ASSUME ConnectionConstants ==
    /\ MAX_RETX_ATTEMPTS \in Nat /\ LINGER_FACTOR \in Nat /\ UINT16_MAX \in Nat
    /\ rt_timeout \in Nat \ {0}
    /\ recv_capacity \in Nat \ {0} /\ send_capacity \in Nat \ {0}

LingerTime == LINGER_FACTOR * rt_timeout

\* threw: a method has left with an exception.
NewConnection(isn) ==
    [receiver |-> NewReceiver(recv_capacity),
     sender |-> NewSender(send_capacity, rt_timeout, isn),
     segments_out |-> <<>>, linger_after_streams_finish |-> TRUE,
     time_last_recv |-> 0, active |-> TRUE, threw |-> FALSE]

inbound(c) == stream_out(c.receiver)
outbound(c) == c.sender.stream

_kill_connection(c, clean) ==
    IF clean THEN [c EXCEPT !.active = FALSE]
    ELSE [c EXCEPT !.active = FALSE, !.sender.stream = set_error(@),
                   !.receiver.reassembler.output = set_error(@)]

\* What is read of a segment through the reference that pop() has left
\* dangling.  The header's bytes are still in place.  The payload is shared
\* with the queue of outstanding segments; if that queue does not hold it any
\* more, its memory has been freed.
FREED == -1
AfterPop(c, seg) ==
    IF \/ seg.payload = <<>>
       \/ \E i \in 1 .. Len(c.sender.outstanding) :
             /\ c.sender.outstanding[i].seg.payload = seg.payload
             /\ wrap(c.sender.outstanding[i].seqno, c.sender.isn) = seg.seqno
    THEN seg
    ELSE [seg EXCEPT !.payload = [i \in DOMAIN seg.payload |-> FREED]]

\* Wrong variant: the ACK flag is never set.
Stamp_no_ack(c, seg) ==
    [AfterPop(c, seg) EXCEPT !.win = MinOf(window_size(c.receiver), UINT16_MAX)]

\* The window and, once a SYN has arrived, the ackno go into the header.
Stamp(c, seg) ==
    LET win == MinOf(window_size(c.receiver), UINT16_MAX)
    IN  IF c.receiver.syn
        THEN [AfterPop(c, seg) EXCEPT !.win = win, !.ack = TRUE, !.ackno = ackno(c.receiver)]
        ELSE [AfterPop(c, seg) EXCEPT !.win = win]

_clear_sender_buffer(c) ==
    LET queue == c.sender.segments_out
    IN  [c EXCEPT !.segments_out = @ \o [i \in DOMAIN queue |-> Stamp(c, queue[i])],
                  !.sender.segments_out = <<>>]

_send_rst_empty_segment(c) ==
    _clear_sender_buffer(
        [c EXCEPT !.sender = send_empty_segment_flags(@, FALSE, FALSE, TRUE)])

\* Wrong variant: whether the FIN has been sent and acknowledged is not asked.
_kill_condition_no_fin(c) ==
    /\ inbound(c).input_ended
    /\ unassembled_bytes(c.receiver.reassembler) = 0
    /\ outbound(c).input_ended

_kill_condition_check(c) ==
    /\ inbound(c).input_ended
    /\ unassembled_bytes(c.receiver.reassembler) = 0
    /\ outbound(c).input_ended
    /\ bytes_in_flight(c.sender) = 0
    /\ c.sender.next_seqno = outbound(c).bytes_written + (IF eof(outbound(c)) THEN 2 ELSE 0)

-----------------------------------------------------------------------------
\* Wrong variant: only new data carries an acknowledgement.
Answer_with_data_only(c, seg) ==
    IF c.sender.segments_out # <<>> \/ length_in_sequence_space(seg) = 0 THEN c
    ELSE [c EXCEPT !.sender = fill_window(@)]

\* An answer to every segment that takes up sequence space: new data if there
\* is any, and an empty segment otherwise.
EmptyIfSilent(sender) ==
    IF sender.segments_out # <<>> THEN sender ELSE send_empty_segment(sender)
Answer(c, seg) ==
    IF c.sender.segments_out # <<>> \/ length_in_sequence_space(seg) = 0 THEN c
    ELSE [c EXCEPT !.sender = EmptyIfSilent(fill_window(@))]

\* An answer to a keep-alive, a segment of no length just before the ackno.
AnswerKeepAlive(c, seg) ==
    IF /\ c.receiver.syn
       /\ length_in_sequence_space(seg) = 0
       /\ seg.seqno = Minus(ackno(c.receiver), 1)
    THEN [c EXCEPT !.sender = send_empty_segment(@)]
    ELSE c

\* Wrong variant: an endpoint that has ended its own stream stops lingering too.
NoLingerIfPassive_always(c) ==
    IF inbound(c).input_ended THEN [c EXCEPT !.linger_after_streams_finish = FALSE] ELSE c

\* The peer's stream ended before ours: no lingering.
NoLingerIfPassive(c) ==
    IF inbound(c).input_ended /\ ~outbound(c).input_ended
    THEN [c EXCEPT !.linger_after_streams_finish = FALSE]
    ELSE c

\* The part of segment_received after the receiver has the segment.  A segment
\* without ACK is taken to acknowledge what the receiver would.
HandleReceived(c, seg) ==
    LET ack == IF seg.ack THEN seg.ackno ELSE ackno(c.receiver)
        acked == [c EXCEPT !.sender = ack_received(@, ack, seg.win)]
    IN  IF ~seg.ack /\ ~c.receiver.syn
        THEN [c EXCEPT !.threw = TRUE]              \* ackno().value() of an empty optional
        ELSE NoLingerIfPassive(
                _clear_sender_buffer(AnswerKeepAlive(Answer(acked, seg), seg)))

TCPConnection_segment_received(c, seg) ==
    IF seg.rst THEN _kill_connection(c, FALSE)
    ELSE HandleReceived([c EXCEPT !.time_last_recv = 0,
                                  !.receiver = TCPReceiver_segment_received(@, seg)], seg)

TCPConnection_write(c, data) ==
    _clear_sender_buffer(
        [c EXCEPT !.sender = fill_window([@ EXCEPT !.stream = write(@, data)])])

CloseIfFinished(c) ==
    IF /\ _kill_condition_check(c)
       /\ ~c.linger_after_streams_finish \/ c.time_last_recv >= LingerTime
    THEN _kill_connection(c, TRUE)
    ELSE c

\* time_last_recv is only compared with LingerTime, and stops there.
TCPConnection_tick(c, ms) ==
    LET aged == [c EXCEPT !.time_last_recv = MinOf(@ + ms, LingerTime)]
        ticked == [aged EXCEPT !.sender = TCPSender_tick(@, ms)]
    IN  IF c.sender.consecutive_retransmissions >= MAX_RETX_ATTEMPTS
        THEN _kill_connection(_send_rst_empty_segment(aged), FALSE)
        ELSE _clear_sender_buffer(CloseIfFinished(ticked))

NoLingerIfBothEnded(c) ==
    IF inbound(c).input_ended /\ eof(outbound(c))
    THEN [c EXCEPT !.linger_after_streams_finish = FALSE]
    ELSE c

end_input_stream(c) ==
    NoLingerIfBothEnded(_clear_sender_buffer(
        [c EXCEPT !.sender = fill_window([@ EXCEPT !.stream = end_input(@)])]))

TCPConnection_connect(c) == _clear_sender_buffer([c EXCEPT !.sender = fill_window(@)])

\* The destructor of an active connection.
TCPConnection_destroy(c) ==
    IF c.active
    THEN [_send_rst_empty_segment(
            [c EXCEPT !.sender.stream = set_error(@),
                      !.receiver.reassembler.output = set_error(@)]) EXCEPT !.active = FALSE]
    ELSE c
=============================================================================
