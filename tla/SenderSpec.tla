----------------------------- MODULE SenderSpec -----------------------------
(***************************************************************************)
(* A TCPSender with the application that fills its stream, a clock, and a  *)
(* peer.  The peer takes in order some of what was sent and opens its      *)
(* window as its own reader reads; its right edge never moves left         *)
(* (NeverShrinks of ReceiverSpec).  Segments and acknowledgements may be   *)
(* lost.  The byte at index i of the stream is i itself.                   *)
(***************************************************************************)
EXTENDS TCPSender

CONSTANTS N,             \* bytes the application writes
          SendCapacity,  \* capacity of the outgoing stream
          PeerCapacity,  \* largest window the peer advertises
          ISN, RTO,
          MaxRetx        \* bound: consecutive retransmissions

ASSUME SenderAssumption ==
    /\ N \in Nat /\ SendCapacity \in Nat \ {0} /\ PeerCapacity \in Nat
    /\ ISN \in WrappingInt32 /\ RTO \in Nat \ {0} /\ MaxRetx \in Nat
    /\ N + PeerCapacity + 4 < UINT64_MOD
\* A window is 16 bits wide and a sequence number 32.
ASSUME SenderWindow == 2 < WRAP_MOD /\ 2 * PeerCapacity < WRAP_MOD

VARIABLES s,
          wire,         \* the segments that the last call put in segments_out
          peer_next,    \* absolute number the peer expects next
          peer_edge,    \* first absolute number after the peer's window
          acks,         \* the acknowledgements the peer has sent
          late          \* history: an acknowledgement has been overtaken

vars == <<s, wire, peer_next, peer_edge, acks, late>>

MaxOf(a, b) == IF a >= b THEN a ELSE b
Bytes(index, len) == [k \in 1 .. len |-> index + k - 1]

Init ==
    /\ s = NewSender(SendCapacity, RTO, ISN)
    /\ wire = <<>>
    /\ peer_next = 0
    /\ peer_edge = 1
    /\ acks = {}
    /\ late = FALSE

\* The connection moves segments_out to the network after each call.
Emit(t) ==
    /\ s' = [t EXCEPT !.segments_out = <<>>]
    /\ wire' = t.segments_out

Connect ==
    /\ s.next_seqno = 0
    /\ Emit(fill_window(s))
    /\ UNCHANGED <<peer_next, peer_edge, acks, late>>

Write(len) ==
    /\ ~s.stream.input_ended
    /\ s.stream.bytes_written + len <= N
    /\ Emit(fill_window([s EXCEPT !.stream = write(@, Bytes(s.stream.bytes_written, len))]))
    /\ UNCHANGED <<peer_next, peer_edge, acks, late>>

EndInput ==
    /\ ~s.stream.input_ended
    /\ Emit(fill_window([s EXCEPT !.stream = end_input(@)]))
    /\ UNCHANGED <<peer_next, peer_edge, acks, late>>

Tick ==
    /\ s.consecutive_retransmissions < MaxRetx
    /\ Emit(TCPSender_tick(s, 1))
    /\ UNCHANGED <<peer_next, peer_edge, acks, late>>

\* The FIN has been sent, and n is the number after it.
AfterFin(n) == s.stream.input_ended /\ n = s.stream.bytes_written + 2 /\ n = s.next_seqno

\* The peer takes what it can of what has been sent, up to the number n.  The
\* SYN and the FIN take no room: the window opens behind the SYN, and the right
\* edge moves by one with the FIN.
PeerTakes(n) ==
    /\ n > peer_next
    /\ n <= s.next_seqno
    /\ n - OneIf(AfterFin(n)) <= peer_edge
    /\ peer_next' = n
    /\ peer_edge' = (IF peer_next = 0 THEN 1 + PeerCapacity ELSE peer_edge) + OneIf(AfterFin(n))
    /\ UNCHANGED <<s, wire, acks, late>>

\* The peer's reader frees room.
PeerReads ==
    /\ peer_next > 0
    /\ peer_edge < peer_next + PeerCapacity
    /\ peer_edge' = peer_edge + 1
    /\ UNCHANGED <<s, wire, peer_next, acks, late>>

\* The peer acknowledges, and the acknowledgement arrives.
Ack ==
    /\ peer_next > 0
    /\ Emit(ack_received(s, wrap(peer_next, ISN), peer_edge - peer_next))
    /\ acks' = acks \cup {<<peer_next, peer_edge>>}
    /\ UNCHANGED <<peer_next, peer_edge, late>>

\* An earlier acknowledgement arrives after a later one.
LateAck(a) ==
    /\ Emit(ack_received(s, wrap(a[1], ISN), a[2] - a[1]))
    /\ late' = TRUE
    /\ UNCHANGED <<peer_next, peer_edge, acks>>

Next ==
    \/ Connect
    \/ \E len \in 1 .. N : Write(len)
    \/ EndInput
    \/ Tick
    \/ \E n \in 1 .. N + 2 : PeerTakes(n)
    \/ PeerReads
    \/ Ack
    \/ \E a \in acks : LateAck(a)

Spec == Init /\ [][Next]_vars

-----------------------------------------------------------------------------
(***************************************************************************)
(* The outstanding queue is exactly the part of the sequence space between *)
(* the oldest unacknowledged segment and next_seqno, without gap or        *)
(* overlap, and each segment holds the bytes of its place: whatever was    *)
(* sent and not acknowledged can be retransmitted, whatever order writes,  *)
(* acknowledgements and timeouts come in (tcp_sender.cc:116-119, 145-150). *)
(* While acknowledgements come in order, the last one falls inside the     *)
(* oldest outstanding segment, and nothing is outstanding exactly when it  *)
(* covers all that was sent.  The connection's test that its FIN is        *)
(* acknowledged, bytes_in_flight() == 0, rests on this (tcp_sender.cc:     *)
(* 57-65, 137-150, tcp_connection.cc:74).                                  *)
(***************************************************************************)
OutstandingTiles ==
    LET q == s.outstanding
        SynLen == OneIf(s.next_seqno > 0)
    IN  /\ \A i \in 1 .. Len(q) :
              /\ EndOf(q[i]) = IF i = Len(q) THEN s.next_seqno ELSE q[i + 1].seqno
              /\ q[i].seg.syn <=> q[i].seqno = 0
              /\ q[i].seg.fin => EndOf(q[i]) = s.stream.bytes_written + 2
              /\ q[i].seg.payload = Bytes(MaxOf(q[i].seqno, 1) - 1, Len(q[i].seg.payload))
        /\ s.next_seqno - SynLen - s.stream.bytes_read \in 0 .. OneIf(s.stream.input_ended)
        /\ ~late => IF q = <<>> THEN s.abs_ackno = s.next_seqno
                    ELSE q[1].seqno <= s.abs_ackno /\ s.abs_ackno < EndOf(q[1])

\* The initial timeout doubled k times.
Backoff(k) ==
    LET doubled[i \in 0 .. k] == IF i = 0 THEN RTO ELSE 2 * doubled[i - 1]
    IN  doubled[k]

(***************************************************************************)
(* The timer runs exactly while something is outstanding, and is never     *)
(* left expired; its period is the initial timeout doubled once for each   *)
(* consecutive retransmission (tcp_sender.cc:121-123, 152-161, 170-179).   *)
(***************************************************************************)
TimerCoversOutstanding ==
    /\ s.timer.active <=> s.outstanding # <<>>
    /\ s.retransmission_timeout = Backoff(s.consecutive_retransmissions)
    /\ s.timer.active => /\ ~s.timer.expired
                         /\ s.timer.timeout = s.retransmission_timeout
                         /\ s.timer.current_time < s.timer.timeout

(***************************************************************************)
(* Nothing is sent beyond the right edge of the peer's window, but for the *)
(* one number that probes a closed window.  tcp_sender.hh:98: "create and  *)
(* send segments to fill as much of the window as possible"; the unsigned  *)
(* subtraction of tcp_sender.cc:72-74 must never wrap around.  This is so  *)
(* as long as no acknowledgement has been overtaken: one that is late sets *)
(* _abs_ackno and the window back (tcp_sender.cc:134, 142), and the        *)
(* subtraction does wrap around.                                           *)
(***************************************************************************)
WithinWindowInOrder == ~late => s.next_seqno <= MaxOf(peer_edge, peer_next + 1)
=============================================================================
