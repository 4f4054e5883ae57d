----------------------------- MODULE ReceiverSpec -----------------------------
(***************************************************************************)
(* A TCPReceiver and a peer that sends it the SYN, the N bytes and the FIN *)
(* of one stream, cut anywhere, in any order and repeatedly, within the    *)
(* window the receiver advertised.  The byte at index i is i itself.       *)
(***************************************************************************)
EXTENDS TCPReceiver

CONSTANTS N,            \* length of the peer's stream
          Capacity,     \* the receiver's capacity
          ISNs,         \* the peer's possible initial sequence numbers
          MaxLen        \* bound: longest payload

ASSUME ReceiverAssumption ==
    /\ N \in Nat /\ Capacity \in Nat \ {0} /\ MaxLen \in Nat
    /\ ISNs \subseteq WrappingInt32
    /\ N + Capacity + 2 < SIZE_MAX

VARIABLES v,
          peer_isn,
          fin_seen,     \* history: a segment with FIN has been processed
          overtaken     \* history: a FIN has come, and the byte before it was not kept

vars == <<v, peer_isn, fin_seen, overtaken>>

Bytes(index, len) == [k \in 1 .. len |-> index + k - 1]

SynSegment(len, fin) ==
    [EmptySegment EXCEPT !.seqno = peer_isn, !.syn = TRUE, !.fin = fin,
                         !.payload = Bytes(0, len)]
DataSegment(index, len, fin) ==
    [EmptySegment EXCEPT !.seqno = wrap(index + 1, peer_isn), !.fin = fin,
                         !.payload = Bytes(index, len)]

\* The first index after the window, which only moves forward.
Edge == stream_out(v).bytes_read + Capacity

Init ==
    /\ v = NewReceiver(Capacity)
    /\ peer_isn \in ISNs
    /\ fin_seen = FALSE
    /\ overtaken = FALSE

\* The receiver w has assembled the whole stream, or stored its last byte.
HasLast(w) ==
    \/ first_unassembled(w) = N
    \/ \E i \in DOMAIN w.reassembler.segments : i + Len(w.reassembler.segments[i]) = N

Receive(seg) ==
    /\ v' = TCPReceiver_segment_received(v, seg)
    /\ fin_seen' = (fin_seen \/ (seg.fin /\ v'.syn))
    /\ overtaken' = (overtaken \/ (seg.fin /\ v'.syn /\ ~HasLast(v')))
    /\ UNCHANGED peer_isn

\* Segments are repeated, though not from half the sequence space ago.
Recent(index) == 2 * Distance(index, first_unassembled(v)) < WRAP_MOD

\* The SYN, alone or with the first bytes.
ReceiveSyn(len, fin) ==
    /\ len + OneIf(fin) <= Capacity /\ len <= N
    /\ Recent(0)
    /\ fin => len = N
    /\ Receive(SynSegment(len, fin))

\* A segment that lies before the right edge of the window, or is the one
\* number that a peer sends to probe a closed window.
ReceiveData(index, len, fin) ==
    /\ index + len <= N /\ Recent(index)
    /\ index + len + OneIf(fin) <= Edge \/ (index = Edge /\ len + OneIf(fin) = 1)
    /\ fin => index + len = N
    /\ Receive(DataSegment(index, len, fin))

Read(len) ==
    /\ ~buffer_empty(stream_out(v))
    /\ v' = [v EXCEPT !.reassembler.output = read(@, len)]
    /\ UNCHANGED <<peer_isn, fin_seen, overtaken>>

Next ==
    \/ \E len \in 0 .. MaxLen, fin \in BOOLEAN : ReceiveSyn(len, fin)
    \/ \E index \in 0 .. N, len \in 0 .. MaxLen, fin \in BOOLEAN : ReceiveData(index, len, fin)
    \/ \E len \in 1 .. Capacity : Read(len)

Spec == Init /\ [][Next]_vars

-----------------------------------------------------------------------------
(***************************************************************************)
(* Every sequence number is read as the stream index it was sent for,      *)
(* before and after the space wraps around: the reader gets the peer's     *)
(* bytes in order, and a stored byte is at its own index                   *)
(* (tcp_receiver.cc:26-28).                                                *)
(***************************************************************************)
OutputInOrder ==
    /\ stream_out(v).buffer = Bytes(stream_out(v).bytes_read, buffer_size(stream_out(v)))
    /\ \A i \in DOMAIN v.reassembler.segments :
          v.reassembler.segments[i] = Bytes(i, Len(v.reassembler.segments[i]))

(***************************************************************************)
(* tcp_receiver.hh:43-44: the ackno is "the sequence number of the first   *)
(* byte in the stream that the receiver hasn't received".  It steps over   *)
(* the FIN exactly when that has come and every byte before it, in         *)
(* whatever order (tcp_receiver.cc:33-38, 41-50).  The one exception is a  *)
(* FIN that comes while the byte before it is neither assembled nor kept:  *)
(* when nothing is stored, line 35 ends the stream though bytes are        *)
(* missing.  That is a FIN without payload that overtakes missing bytes,   *)
(* or one whose payload is cut short by truncate_data, which counts stored *)
(* bytes against the memory even where the payload repeats them.           *)
(***************************************************************************)
AckIsFirstMissing ==
    ~overtaken => (stream_out(v).input_ended <=> fin_seen /\ first_unassembled(v) = N)

(***************************************************************************)
(* A byte that is missing and inside an open window is accepted when it    *)
(* arrives, wherever the sequence number space has wrapped: the peer's     *)
(* retransmission of the oldest segment always helps (tcp_receiver.cc:     *)
(* 25-30).  The one exception is a payload that starts a whole turn of the *)
(* sequence space after the SYN: line 26 takes its number for the SYN's.   *)
(***************************************************************************)
NextByteAccepted ==
    LET f == first_unassembled(v)
    IN  v.syn /\ f < N /\ window_size(v) > 0 /\ wrap(f + 1, v.isn) # v.isn
            => first_unassembled(TCPReceiver_segment_received(v, DataSegment(f, 1, FALSE))) > f

(***************************************************************************)
(* What has been advertised is never taken back: neither the ackno nor the *)
(* right edge of the window (ackno + window_size) ever moves left, though  *)
(* segments arrive late, twice and out of order (tcp_receiver.cc:41-54).   *)
(***************************************************************************)
NeverShrinks ==
    [][/\ AbsAckno(v') >= AbsAckno(v)
       /\ AbsAckno(v') + window_size(v') >= AbsAckno(v) + window_size(v)]_vars
=============================================================================
