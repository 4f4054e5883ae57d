------------------------------ MODULE TCPState ------------------------------
(***************************************************************************)
(* libsponge/tcp_helpers/tcp_state.{hh,cc}: the official TCP states, as    *)
(* combinations of what the sender, the receiver and the two flags of a    *)
(* connection show.  The socket waits for such states, and the tests       *)
(* compare with them.                                                      *)
(***************************************************************************)
EXTENDS TCPConnection

ReceiverSummary(v) ==
    CASE stream_out(v).error -> "ERROR"
      [] ~stream_out(v).error /\ ~v.syn -> "LISTEN"
      [] ~stream_out(v).error /\ v.syn ->
            IF stream_out(v).input_ended THEN "FIN_RECV" ELSE "SYN_RECV"

\* Everything sent and still in flight: not even the SYN is acknowledged.
SenderSummary(s) ==
    IF s.stream.error THEN "ERROR"
    ELSE IF s.next_seqno = 0 THEN "CLOSED"
    ELSE IF s.next_seqno = bytes_in_flight(s) THEN "SYN_SENT"
    ELSE IF ~eof(s.stream) \/ s.next_seqno < s.stream.bytes_written + 2 THEN "SYN_ACKED"
    ELSE IF bytes_in_flight(s) > 0 THEN "FIN_SENT" ELSE "FIN_ACKED"

Summary(receiver, sender, active, linger) ==
    [receiver |-> receiver, sender |-> sender, active |-> active, linger |-> linger]

\* TCPConnection::state(); a connection that is over does not linger.
state(c) ==
    Summary(ReceiverSummary(c.receiver), SenderSummary(c.sender), c.active,
            c.active /\ c.linger_after_streams_finish)

Official ==
    [LISTEN      |-> Summary("LISTEN", "CLOSED", TRUE, TRUE),
     SYN_RCVD    |-> Summary("SYN_RECV", "SYN_SENT", TRUE, TRUE),
     SYN_SENT    |-> Summary("LISTEN", "SYN_SENT", TRUE, TRUE),
     ESTABLISHED |-> Summary("SYN_RECV", "SYN_ACKED", TRUE, TRUE),
     CLOSE_WAIT  |-> Summary("FIN_RECV", "SYN_ACKED", TRUE, FALSE),
     LAST_ACK    |-> Summary("FIN_RECV", "FIN_SENT", TRUE, FALSE),
     CLOSING     |-> Summary("FIN_RECV", "FIN_SENT", TRUE, TRUE),
     FIN_WAIT_1  |-> Summary("SYN_RECV", "FIN_SENT", TRUE, TRUE),
     FIN_WAIT_2  |-> Summary("SYN_RECV", "FIN_ACKED", TRUE, TRUE),
     TIME_WAIT   |-> Summary("FIN_RECV", "FIN_ACKED", TRUE, TRUE),
     RESET       |-> Summary("ERROR", "ERROR", FALSE, FALSE),
     CLOSED      |-> Summary("FIN_RECV", "FIN_ACKED", FALSE, FALSE)]

In(c, names) == \E n \in names : state(c) = Official[n]
=============================================================================
