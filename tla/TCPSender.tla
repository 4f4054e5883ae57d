------------------------------ MODULE TCPSender ------------------------------
(***************************************************************************)
(* libsponge/tcp_sender.{hh,cc}: the sending half of an endpoint.  It cuts *)
(* the outgoing ByteStream into segments that fit the peer's window, keeps *)
(* the ones that are not acknowledged and retransmits the oldest when the  *)
(* retransmission timer expires.                                           *)
(*                                                                         *)
(* The members _bytes_in_flight, _elapsed_time and _time_expired are       *)
(* written or initialised but never read, and are left out.                *)
(***************************************************************************)
EXTENDS WrappingIntegers, ByteStream, TCPSegment, FiniteSetsExt

CONSTANTS MAX_PAYLOAD_SIZE,   \* TCPConfig::MAX_PAYLOAD_SIZE
          UINT64_MOD          \* number of values of a uint64_t

ASSUME SenderConstants == MAX_PAYLOAD_SIZE \in Nat \ {0} /\ UINT64_MOD \in Nat \ {0}

-----------------------------------------------------------------------------
(* Timer                                                                   *)

StoppedTimer == [active |-> FALSE, expired |-> FALSE, current_time |-> 0, timeout |-> 0]

Timer_start(timeout) ==
    [active |-> TRUE, expired |-> FALSE, current_time |-> 0, timeout |-> timeout]

Timer_update(t, elapsed) ==
    IF ~t.active THEN t
    ELSE [t EXCEPT !.current_time = @ + elapsed,
                   !.expired = @ \/ t.current_time + elapsed >= t.timeout]

-----------------------------------------------------------------------------
NewSender(capacity, retx_timeout, isn) ==
    [isn |-> isn, segments_out |-> <<>>, initial_retransmission_timeout |-> retx_timeout,
     stream |-> NewStream(capacity), timer |-> StoppedTimer, next_seqno |-> 0,
     abs_ackno |-> 0, window_size |-> 1, outstanding |-> <<>>,
     retransmission_timeout |-> retx_timeout, consecutive_retransmissions |-> 0]

\* _outstanding_segments is a queue of (absolute seqno, segment) pairs.
Outstanding(seqno, seg) == [seqno |-> seqno, seg |-> seg]
EndOf(o) == o.seqno + length_in_sequence_space(o.seg)

bytes_in_flight(s) ==
    LET n == Len(s.outstanding)
        sum[k \in 0 .. n] ==
            IF k = 0 THEN 0 ELSE sum[k - 1] + length_in_sequence_space(s.outstanding[k].seg)
    IN  sum[n]

\* Wrong variant: there is always room for one more.
EffectiveWindow_plus_one(s) == s.window_size + 1

\* A closed window is probed with one number.
EffectiveWindow(s) == IF s.window_size = 0 THEN 1 ELSE s.window_size

\* Unsigned: it wraps around when next_seqno is past the right edge.
AvailableSpace(s) == (s.abs_ackno + EffectiveWindow(s) - s.next_seqno) % UINT64_MOD

SynNeeded(s) == s.next_seqno = 0

FinNeeded(s) == eof(s.stream) /\ s.next_seqno < s.stream.bytes_written + 2

\* The conditions under which the loop of fill_window makes another segment.
MoreToSend(s) ==
    AvailableSpace(s) > 0 /\ (SynNeeded(s) \/ ~buffer_empty(s.stream) \/ FinNeeded(s))

\* Wrong variant: the FIN is set without asking whether there is room for it.
NextSegment_no_fin_space(s) ==
    LET len == MinOf(MAX_PAYLOAD_SIZE, AvailableSpace(s) - OneIf(SynNeeded(s)))
    IN  [EmptySegment EXCEPT !.seqno = wrap(s.next_seqno, s.isn), !.syn = SynNeeded(s),
                             !.payload = peek_output(s.stream, len),
                             !.fin = eof(read(s.stream, len))]

\* The segment that one turn of the loop builds.
NextSegment(s) ==
    LET room == AvailableSpace(s) - OneIf(SynNeeded(s))
        len == MinOf(MAX_PAYLOAD_SIZE, room)
        payload == peek_output(s.stream, len)
    IN  [EmptySegment EXCEPT !.seqno = wrap(s.next_seqno, s.isn), !.syn = SynNeeded(s),
                             !.payload = payload,
                             !.fin = eof(read(s.stream, len)) /\ room > Len(payload)]

SendNew(s, seg) ==
    [s EXCEPT !.stream = read(@, Len(seg.payload)), !.segments_out = Append(@, seg),
              !.outstanding = Append(@, Outstanding(s.next_seqno, seg)),
              !.next_seqno = @ + length_in_sequence_space(seg),
              !.timer = IF @.active THEN @ ELSE Timer_start(s.retransmission_timeout)]

\* One turn of the loop.  acc holds the sender, and stop once the loop is left:
\* when there is nothing to send, or on a segment of no length or longer than
\* the space, whose payload has already been read out of the stream.
SendOrStop(s, seg, size) ==
    IF size = 0 \/ size > AvailableSpace(s)
    THEN [sender |-> [s EXCEPT !.stream = read(@, Len(seg.payload))], stop |-> TRUE]
    ELSE [sender |-> SendNew(s, seg), stop |-> FALSE]
FillTurn(acc) ==
    LET seg == NextSegment(acc.sender)
    IN  IF acc.stop \/ ~MoreToSend(acc.sender) THEN [acc EXCEPT !.stop = TRUE]
        ELSE SendOrStop(acc.sender, seg, length_in_sequence_space(seg))

\* A turn takes the SYN, the FIN or a byte, so there are at most as many turns
\* as buffered bytes and two more.
fill_window(s) ==
    LET turns == buffer_size(s.stream) + 2
        after[k \in 0 .. turns] ==
            IF k = 0 THEN [sender |-> s, stop |-> FALSE] ELSE FillTurn(after[k - 1])
    IN  after[turns].sender

\* Wrong variants: a segment that is acknowledged in part is dropped; the
\* backoff survives an acknowledgement.
PopAcknowledged_partial(s) ==
    [s EXCEPT !.outstanding = SelectSeq(@, LAMBDA o : o.seqno >= s.abs_ackno)]
PopAcknowledged_keeps_backoff(s) ==
    LET kept == SelectSeq(s.outstanding, LAMBDA o : EndOf(o) > s.abs_ackno)
    IN  IF kept = s.outstanding THEN s
        ELSE [s EXCEPT !.outstanding = kept, !.consecutive_retransmissions = 0,
                       !.timer = IF kept = <<>> THEN StoppedTimer
                                 ELSE Timer_start(s.retransmission_timeout)]

\* The while loop of ack_received: pop the longest prefix of the queue that is
\* wholly acknowledged; each pop resets the backoff and restarts or stops the
\* timer.
PopAcknowledged(s) ==
    LET n == Len(s.outstanding)
        Acknowledged(k) == \A i \in 1 .. k : EndOf(s.outstanding[i]) <= s.abs_ackno
        kept == SubSeq(s.outstanding, Max({k \in 0 .. n : Acknowledged(k)}) + 1, n)
    IN  IF kept = s.outstanding THEN s
        ELSE [s EXCEPT !.outstanding = kept, !.consecutive_retransmissions = 0,
                       !.retransmission_timeout = s.initial_retransmission_timeout,
                       !.timer = IF kept = <<>> THEN StoppedTimer
                                 ELSE Timer_start(s.initial_retransmission_timeout)]

\* The window is taken over before the ackno is found to be invalid; a valid
\* ackno may be older than the last one.
ack_received(s0, ackno_, window_size_) ==
    LET abs_ackno == unwrap(ackno_, s0.isn, s0.abs_ackno + 1)
        s == [s0 EXCEPT !.window_size = window_size_]
    IN  IF abs_ackno > s.next_seqno THEN s
        ELSE fill_window(PopAcknowledged([s EXCEPT !.abs_ackno = abs_ackno]))

\* Wrong variant: it is sent with the number of the next segment.
Retransmit_at_next(s) ==
    [s EXCEPT !.segments_out =
                 Append(@, [Head(s.outstanding).seg EXCEPT !.seqno = wrap(s.next_seqno, s.isn)]),
              !.consecutive_retransmissions = @ + 1, !.retransmission_timeout = 2 * @]

\* The oldest outstanding segment again, with twice the timeout unless the
\* window is closed.
Retransmit(s) ==
    LET oldest == Head(s.outstanding)
        seg == [oldest.seg EXCEPT !.seqno = wrap(oldest.seqno, s.isn)]
        t == [s EXCEPT !.segments_out = Append(@, seg)]
    IN  IF s.window_size > 0
        THEN [t EXCEPT !.consecutive_retransmissions = @ + 1, !.retransmission_timeout = 2 * @]
        ELSE t

TCPSender_tick(s, ms) ==
    LET t == [s EXCEPT !.timer = Timer_update(@, ms)]
        resent == Retransmit(t)
    IN  IF t.timer.active /\ t.timer.expired /\ t.outstanding # <<>>
        THEN [resent EXCEPT !.timer = Timer_start(resent.retransmission_timeout)]
        ELSE t

\* send_empty_segment(): an ACK, which is not kept.
send_empty_segment(s) ==
    [s EXCEPT !.segments_out = Append(@, [EmptySegment EXCEPT !.seqno = wrap(s.next_seqno, s.isn)])]

\* send_empty_segment(syn, fin, rst): kept, though no timer is started for it.
send_empty_segment_flags(s, syn, fin, rst) ==
    LET seg == [EmptySegment EXCEPT !.seqno = wrap(s.next_seqno, s.isn),
                                    !.syn = syn, !.fin = fin, !.rst = rst]
    IN  [s EXCEPT !.segments_out = Append(@, seg),
                  !.outstanding = Append(@, Outstanding(s.next_seqno, seg)),
                  !.next_seqno = @ + length_in_sequence_space(seg)]
=============================================================================
