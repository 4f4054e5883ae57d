---------------------------- MODULE SenderProofs ----------------------------
(***************************************************************************)
(* The three invariants of SenderSpec, for every stream length, capacity,  *)
(* ISN, timeout and payload size, and for every modulus that is more than  *)
(* twice the largest window.                                               *)
(*                                                                         *)
(* Good(t) is what every method of the sender keeps whatever it is called  *)
(* with; InOrder is what holds as long as no acknowledgement is overtaken: *)
(* the last one is inside the oldest outstanding segment, nothing sent is  *)
(* past the window it gave, and it is never ahead of the peer.  So the     *)
(* next one is at most a window away from the checkpoint of ack_received,  *)
(* and unwrap reads it exactly.  fill_window is a loop: Good is its        *)
(* invariant, and LoopExists of Lemmas gives the function of its turns.    *)
(***************************************************************************)
EXTENDS SenderSpec, Lemmas

Segment == [seqno : WrappingInt32, syn : BOOLEAN, fin : BOOLEAN, rst : BOOLEAN,
            ack : BOOLEAN, ackno : Nat, win : Nat, payload : Seq(Nat)]
Kept == [seqno : Nat, seg : Segment]
TimerType == [active : BOOLEAN, expired : BOOLEAN, current_time : Nat, timeout : Nat]
SenderType ==
    [isn : {ISN}, segments_out : Seq(Segment), initial_retransmission_timeout : {RTO},
     stream : StreamType(Nat, Nat), timer : TimerType, next_seqno : Nat,
     abs_ackno : Nat, window_size : Nat, outstanding : Seq(Kept),
     retransmission_timeout : Nat, consecutive_retransmissions : Nat]

\* next_seqno follows the SYN, the bytes read and, if it has been sent, the FIN.
InStep(n, b) ==
    \/ n = 0 /\ b.bytes_read = 0
    \/ n = b.bytes_read + 1
    \/ n = b.bytes_read + 2 /\ eof(b)

\* An outstanding segment that holds what belongs in its place.
Piece(o, b) ==
    /\ o.seg.syn <=> o.seqno = 0
    /\ o.seg.fin => b.input_ended /\ EndOf(o) = b.bytes_written + 2
    /\ \A k \in 1 .. Len(o.seg.payload) : o.seg.payload[k] = MaxOf(o.seqno, 1) + k - 2

\* The queue tiles the sequence space up to n.
Tiled(q, n, b) ==
    \A i \in 1 .. Len(q) :
        /\ EndOf(q[i]) = IF i = Len(q) THEN n ELSE q[i + 1].seqno
        /\ Piece(q[i], b)

Timed(t) ==
    /\ t.timer.active <=> t.outstanding # <<>>
    /\ t.retransmission_timeout = Backoff(t.consecutive_retransmissions)
    /\ t.timer.active => /\ ~t.timer.expired
                         /\ t.timer.timeout = t.retransmission_timeout
                         /\ t.timer.current_time < t.timer.timeout

Good(t) ==
    /\ t \in SenderType
    /\ Holds(t.stream)
    /\ InStep(t.next_seqno, t.stream)
    /\ Tiled(t.outstanding, t.next_seqno, t.stream)
    /\ Timed(t)

\* The last acknowledgement is inside the oldest outstanding segment.
AckInFirst(q, a, n) == IF q = <<>> THEN a = n ELSE q[1].seqno <= a /\ a < EndOf(q[1])

\* Nothing has been sent past the window of the last acknowledgement.
Fits(t) ==
    /\ AckInFirst(t.outstanding, t.abs_ackno, t.next_seqno)
    /\ t.next_seqno <= t.abs_ackno + EffectiveWindow(t)
    /\ EffectiveWindow(t) < UINT64_MOD

PeerType ==
    /\ peer_next \in Nat /\ peer_edge \in Nat /\ late \in BOOLEAN
    /\ peer_next = 0 => peer_edge = 1
    /\ peer_next > 0 => peer_next <= peer_edge /\ peer_edge <= peer_next + PeerCapacity
    /\ peer_next <= s.next_seqno
    /\ acks \subseteq {a \in Nat \X Nat : a[1] <= a[2]}

InOrder ==
    /\ Fits(s)
    /\ s.abs_ackno <= peer_next
    /\ s.abs_ackno + s.window_size <= peer_edge
    /\ s.window_size <= 1 \/ s.window_size <= PeerCapacity

IInv == Good(s) /\ PeerType /\ (~late => InOrder)

USE SenderConstants, SenderAssumption, WrapModAssumption

-----------------------------------------------------------------------------
(* The backoff                                                             *)

\* The recursive function of Backoff obeys its equation.
LEMMA BackoffLoop ==
    ASSUME NEW n \in Nat
    PROVE  \E d : /\ d[0] = RTO
                  /\ \A k \in 1 .. n : d[k] = 2 * d[k - 1]
                  /\ \A k \in 0 .. n : d[k] \in Nat \ {0}
                  /\ Backoff(n) = d[n]
<1> DEFINE D == Nat \ {0}
           F == [p \in Nat \X D |-> 2 * p[2]]
           B(g) == [k \in 0 .. n |-> IF k = 0 THEN RTO ELSE 2 * g[k - 1]]
           d == CHOOSE g : g = B(g)
<1>1. F \in [Nat \X D -> D]
  OBVIOUS
<1>2. RTO \in D
  OBVIOUS
<1>3. PICK g : IsLoop(g, D, F, RTO, n)
  <2> HIDE DEF F, D
  <2> QED
    BY Zenon, <1>1, <1>2, LoopExists
<1>4. g \in [0 .. n -> D] /\ g[0] = RTO /\ \A k \in 1 .. n : g[k] = F[<<k, g[k - 1]>>]
  BY Zenon, <1>3 DEF IsLoop
<1>5. ASSUME NEW k \in 1 .. n PROVE g[k] = 2 * g[k - 1]
  <2>1. k - 1 \in 0 .. n /\ k \in Nat
    OBVIOUS
  <2>2. g[k - 1] \in D
    BY <1>4, <2>1
  <2> DEFINE x == <<k, g[k - 1]>>
  <2>3. x \in Nat \X D /\ x[2] = g[k - 1]
    BY <2>1, <2>2
  <2> HIDE DEF x, D
  <2>4. F[x] = 2 * g[k - 1]
    BY <2>3
  <2> QED
    BY Zenon, <1>4, <2>4 DEF x
<1>6. ASSUME NEW h
      PROVE  /\ DOMAIN B(h) = 0 .. n /\ B(h) = [k \in 0 .. n |-> B(h)[k]]
             /\ B(h)[0] = RTO /\ \A k \in 1 .. n : B(h)[k] = 2 * h[k - 1]
  OBVIOUS
<1>7. Backoff(n) = d[n]
  BY DEF Backoff
<1> HIDE DEF D, F, B
<1>8. d = B(d)
  <2>1. g = [k \in 0 .. n |-> g[k]]
    BY <1>4
  <2>2. ASSUME NEW k \in 0 .. n PROVE g[k] = B(g)[k]
    <3>1. CASE k = 0
      BY <1>4, <1>6, <3>1
    <3>2. CASE k \in 1 .. n
      <4>1. g[k] = 2 * g[k - 1] /\ B(g)[k] = 2 * g[k - 1]
        BY <1>5, <1>6, <3>2
      <4> QED
        BY <4>1
    <3> QED
      BY <3>1, <3>2
  <2>3. g = B(g)
    BY Zenon, <1>6, <2>1, <2>2
  <2> QED
    BY <2>3
<1> HIDE DEF d
<1>9. d[0] = RTO /\ \A k \in 1 .. n : d[k] = 2 * d[k - 1]
  BY <1>6, <1>8
<1>10. \A k \in 0 .. n : d[k] \in D
  <2> DEFINE I == {k \in 0 .. n : d[k] \in D}
  <2>1. 0 \in I
    BY <1>2, <1>9
  <2>2. ASSUME NEW k \in 1 .. n, k - 1 \in I PROVE k \in I
    BY <1>9, <2>2 DEF D
  <2> HIDE DEF I
  <2>3. \A k \in 0 .. n : k \in I
    BY <2>1, <2>2, RangeInd
  <2> QED
    BY <2>3 DEF I
<1> QED
  BY <1>7, <1>9, <1>10 DEF D

\* The timeout starts at the initial one and doubles (tcp_sender.cc:177).
LEMMA BackoffDoubles ==
    ASSUME NEW n \in Nat
    PROVE  /\ Backoff(0) = RTO
           /\ Backoff(n) \in Nat /\ Backoff(n) > 0
           /\ Backoff(n + 1) = 2 * Backoff(n)
<1>1. PICK z : z[0] = RTO /\ Backoff(0) = z[0]
  BY BackoffLoop
<1>2. PICK f : /\ f[0] = RTO
               /\ \A k \in 1 .. n : f[k] = 2 * f[k - 1]
               /\ \A k \in 0 .. n : f[k] \in Nat \ {0}
               /\ Backoff(n) = f[n]
  BY Zenon, BackoffLoop
<1> DEFINE m == n + 1
<1>0. m \in Nat
  OBVIOUS
<1> HIDE DEF m
<1>3. PICK g : /\ g[0] = RTO
               /\ \A k \in 1 .. m : g[k] = 2 * g[k - 1]
               /\ Backoff(m) = g[m]
  BY <1>0, BackoffLoop
<1>4. \A k \in 0 .. n : f[k] = g[k]
  <2> DEFINE I == {k \in 0 .. n : f[k] = g[k]}
  <2>1. 0 \in I
    BY <1>2, <1>3
  <2>2. ASSUME NEW k \in 1 .. n, k - 1 \in I PROVE k \in I
    BY <1>2, <1>3, <2>2 DEF m
  <2> HIDE DEF I
  <2>3. \A k \in 0 .. n : k \in I
    BY <2>1, <2>2, RangeInd
  <2> QED
    BY <2>3 DEF I
<1>5. g[n + 1] = 2 * g[n]
  BY <1>3 DEF m
<1> QED
  BY <1>1, <1>2, <1>3, <1>4, <1>5 DEF m

-----------------------------------------------------------------------------
(* One turn of fill_window                                                 *)

\* A segment that can be sent next: it takes the SYN if that has not been sent,
\* the first bytes of the buffer, and the FIN only after the last byte.
Cut(t, seg) ==
    /\ seg \in Segment
    /\ seg.syn <=> t.next_seqno = 0
    /\ Len(seg.payload) <= Len(t.stream.buffer)
    /\ seg.payload = SubSeq(t.stream.buffer, 1, Len(seg.payload))
    /\ seg.fin => t.stream.input_ended /\ Len(seg.payload) = Len(t.stream.buffer)
    /\ t.next_seqno # t.stream.bytes_read + 2

\* The segment of a turn can be sent, is not empty and fits in the space, so
\* the break of tcp_sender.cc:113-114, after the payload has been read out of
\* the stream, is never taken.
LEMMA NextSegmentFits ==
    ASSUME NEW t, Good(t), MoreToSend(t)
    PROVE  /\ Cut(t, NextSegment(t))
           /\ length_in_sequence_space(NextSegment(t)) \in 1 .. AvailableSpace(t)
<1> DEFINE b == t.stream
           space == AvailableSpace(t)
           room == space - OneIf(SynNeeded(t))
           len == MinOf(MAX_PAYLOAD_SIZE, room)
           p == peek_output(b, len)
           c == read(b, len)
           seg == NextSegment(t)
<1>1. /\ b \in StreamType(Nat, Nat) /\ b.buffer \in Seq(Nat) /\ b.bytes_read \in Nat
      /\ b.bytes_written = b.bytes_read + Len(b.buffer) /\ b.input_ended \in BOOLEAN
      /\ t.next_seqno \in Nat /\ t.abs_ackno \in Nat /\ t.window_size \in Nat /\ t.isn = ISN
  BY DEF Good, SenderType, StreamType, Holds
<1>2. space \in Nat /\ space > 0
  <2>1. t.abs_ackno + EffectiveWindow(t) - t.next_seqno \in Int
    BY <1>1 DEF EffectiveWindow
  <2>2. space \in 0 .. (UINT64_MOD - 1)
    BY Zenon, <2>1, DivMod DEF AvailableSpace
  <2> QED
    BY <2>2 DEF MoreToSend
<1>3. room \in Nat /\ room = space - (IF t.next_seqno = 0 THEN 1 ELSE 0)
  BY <1>1, <1>2 DEF OneIf, SynNeeded
<1>4. len \in Nat /\ len <= room /\ (len = 0 => room = 0)
  BY <1>3 DEF MinOf
<1> HIDE DEF space, room, len
<1>5. /\ p \in Seq(Nat) /\ p = SubSeq(b.buffer, 1, Len(p))
      /\ Len(p) = MinOf(len, Len(b.buffer)) /\ ReadBy(b, c, Len(p))
  BY Zenon, <1>1, <1>4, ReadStream
<1>6. wrap(t.next_seqno, t.isn) \in WrappingInt32
  BY <1>1, OffsetOfWrap
<1>7. seg = [seqno |-> wrap(t.next_seqno, t.isn), syn |-> SynNeeded(t),
             fin |-> eof(c) /\ room > Len(p), rst |-> FALSE, ack |-> FALSE,
             ackno |-> 0, win |-> 0, payload |-> p]
  <2> DEFINE w == wrap(t.next_seqno, t.isn)
             y == SynNeeded(t)
             f == eof(c) /\ room > Len(p)
  <2>1. seg = [EmptySegment EXCEPT !.seqno = w, !.syn = y, !.payload = p, !.fin = f]
    BY DEF NextSegment, room, space, len
  <2> HIDE DEF w, y, f, p, c, seg
  <2>2. seg = [seqno |-> w, syn |-> y, fin |-> f, rst |-> FALSE, ack |-> FALSE,
               ackno |-> 0, win |-> 0, payload |-> p]
    BY Zenon, <2>1 DEF EmptySegment
  <2> QED
    BY <2>2 DEF w, y, f
<1> HIDE DEF p, c, seg, b
<1>8. Len(p) \in Nat /\ Len(b.buffer) \in Nat
  BY <1>1, <1>5
<1>9. eof(c) <=> b.input_ended /\ Len(p) = Len(b.buffer)
  <2>1. c.input_ended = b.input_ended /\ c.buffer = SubSeq(b.buffer, Len(p) + 1, Len(b.buffer))
    BY <1>5 DEF ReadBy
  <2>2. Len(p) <= Len(b.buffer)
    BY <1>5 DEF ReadBy
  <2>3. c.buffer \in Seq(Nat) /\ Len(c.buffer) = Len(b.buffer) - Len(p)
    <3>1. Holds(b) /\ c.buffer \in Seq(Nat)
      BY Zenon, <1>5 DEF Good, b, ReadBy, StreamType
    <3> QED
      BY <1>1, <1>5, <1>8, <3>1, ReadHolds
  <2>4. c.buffer = <<>> <=> Len(c.buffer) = 0
    BY <2>3
  <2> QED
    BY <1>8, <2>1, <2>3, <2>4 DEF eof, buffer_empty
<1>10. /\ seg.payload = p /\ (seg.syn <=> t.next_seqno = 0)
       /\ (seg.fin <=> (b.input_ended /\ Len(p) = Len(b.buffer) /\ room > Len(p)))
       /\ seg \in Segment
  <2>1. SynNeeded(t) \in BOOLEAN /\ (eof(c) /\ room > Len(p)) \in BOOLEAN
    BY DEF SynNeeded
  <2>2. seg \in Segment
    BY <1>5, <1>6, <1>7, <2>1 DEF Segment
  <2>3. seg.payload = p /\ seg.syn = SynNeeded(t) /\ seg.fin = (eof(c) /\ room > Len(p))
    BY <1>7
  <2> QED
    BY Zenon, <1>9, <2>2, <2>3 DEF SynNeeded
<1>11. /\ b.buffer = <<>> => Len(b.buffer) = 0
       /\ Len(b.buffer) = 0 => b.buffer = <<>>
  BY <1>1
<1>12. /\ t.next_seqno # b.bytes_read + 2
       /\ \/ t.next_seqno = 0
          \/ Len(b.buffer) > 0
          \/ b.input_ended /\ Len(b.buffer) = 0
  <2>1. SynNeeded(t) \/ b.buffer # <<>> \/ FinNeeded(t)
    BY DEF MoreToSend, buffer_empty, b
  <2>2. CASE SynNeeded(t)
    BY <1>1, <2>2 DEF SynNeeded
  <2>3. CASE b.buffer # <<>>
    <3>1. ~eof(b)
      BY <2>3 DEF eof, buffer_empty
    <3>2. InStep(t.next_seqno, b)
      BY DEF Good, b
    <3> QED
      BY <1>1, <1>8, <1>11, <2>3, <3>1, <3>2 DEF InStep
  <2>4. CASE FinNeeded(t)
    <3>1. eof(b) /\ t.next_seqno < b.bytes_written + 2
      BY <2>4 DEF FinNeeded, b
    <3> QED
      BY <1>1, <1>11, <3>1 DEF eof, buffer_empty
  <2> QED
    BY <2>1, <2>2, <2>3, <2>4
<1>13. Cut(t, seg)
  <2>1. Len(p) <= Len(b.buffer)
    BY <1>5 DEF ReadBy
  <2> QED
    BY <1>5, <1>10, <1>12, <2>1 DEF Cut, b
<1>14. length_in_sequence_space(seg) = Len(p) + (IF t.next_seqno = 0 THEN 1 ELSE 0)
            + (IF b.input_ended /\ Len(p) = Len(b.buffer) /\ room > Len(p) THEN 1 ELSE 0)
  BY Zenon, <1>10 DEF length_in_sequence_space, OneIf
<1>15. Len(p) <= room /\ (Len(p) = 0 => Len(b.buffer) = 0 \/ room = 0)
  BY <1>3, <1>4, <1>5, <1>8 DEF MinOf
<1>16. length_in_sequence_space(seg) \in 1 .. space
  <2>1. Len(p) <= Len(b.buffer)
    BY <1>5 DEF ReadBy
  <2> DEFINE y == IF t.next_seqno = 0 THEN 1 ELSE 0
             f == IF b.input_ended /\ Len(p) = Len(b.buffer) /\ room > Len(p) THEN 1 ELSE 0
             size == length_in_sequence_space(seg)
  <2>2. y \in {0, 1} /\ (t.next_seqno = 0 => y = 1)
    OBVIOUS
  <2>3. f \in {0, 1} /\ (f = 1 => room > Len(p))
    OBVIOUS
  <2>4. b.input_ended /\ Len(p) = Len(b.buffer) /\ room > Len(p) => f = 1
    OBVIOUS
  <2>5. size = Len(p) + y + f /\ room = space - y
    BY <1>3, <1>14
  <2> HIDE DEF y, f, size
  <2>6. size <= space /\ size \in Nat
    BY <1>2, <1>3, <1>8, <1>15, <2>2, <2>3, <2>5
  <2>7. size >= 1
    <3>1. CASE t.next_seqno = 0
      BY <1>8, <2>2, <2>3, <2>5, <3>1
    <3>2. CASE Len(p) > 0
      BY <1>8, <2>2, <2>3, <2>5, <3>2
    <3>3. CASE t.next_seqno # 0 /\ Len(p) = 0
      <4>1. room = space
        BY <1>3, <1>2, <3>3
      <4>2. Len(b.buffer) = 0 /\ b.input_ended
        BY <1>2, <1>8, <1>12, <1>15, <3>3, <4>1
      <4> QED
        BY <1>2, <2>2, <2>4, <2>5, <3>3, <4>1, <4>2
    <3> QED
      BY <1>8, <3>1, <3>2, <3>3
  <2> QED
    BY <1>2, <2>6, <2>7 DEF size
<1> QED
  BY <1>13, <1>16 DEF seg, space

\* What fill_window leaves alone.
Same(t, u) ==
    /\ u.abs_ackno = t.abs_ackno /\ u.window_size = t.window_size
    /\ u.next_seqno >= t.next_seqno
    /\ u.stream.bytes_written = t.stream.bytes_written
    /\ u.stream.input_ended = t.stream.input_ended

\* The types of a sender's fields.
LEMMA SenderFields ==
    ASSUME NEW t \in SenderType
    PROVE  /\ t.isn = ISN /\ t.initial_retransmission_timeout = RTO
           /\ t.segments_out \in Seq(Segment) /\ t.outstanding \in Seq(Kept)
           /\ t.stream \in StreamType(Nat, Nat) /\ t.timer \in TimerType
           /\ t.next_seqno \in Nat /\ t.abs_ackno \in Nat /\ t.window_size \in Nat
           /\ t.retransmission_timeout \in Nat /\ t.consecutive_retransmissions \in Nat
           /\ t.stream.buffer \in Seq(Nat) /\ Len(t.stream.buffer) \in Nat
           /\ t.stream.bytes_read \in Nat /\ t.stream.bytes_written \in Nat
           /\ t.stream.input_ended \in BOOLEAN
<1>1. /\ t.isn = ISN /\ t.initial_retransmission_timeout = RTO
      /\ t.segments_out \in Seq(Segment) /\ t.outstanding \in Seq(Kept)
      /\ t.stream \in StreamType(Nat, Nat) /\ t.timer \in TimerType
      /\ t.next_seqno \in Nat /\ t.abs_ackno \in Nat /\ t.window_size \in Nat
      /\ t.retransmission_timeout \in Nat /\ t.consecutive_retransmissions \in Nat
  BY DEF SenderType
<1>2. /\ t.stream.buffer \in Seq(Nat) /\ t.stream.bytes_read \in Nat
      /\ t.stream.bytes_written \in Nat /\ t.stream.input_ended \in BOOLEAN
  BY <1>1 DEF StreamType
<1> QED
  BY <1>1, <1>2

\* The fields of a sender that has sent seg and kept it at the end of the queue.
LEMMA SendNewFields ==
    ASSUME NEW t \in SenderType, NEW seg \in Segment
    PROVE  LET u == SendNew(t, seg)
           IN  /\ u.stream = read(t.stream, Len(seg.payload))
               /\ u.outstanding = Append(t.outstanding, Outstanding(t.next_seqno, seg))
               /\ u.next_seqno = t.next_seqno + length_in_sequence_space(seg)
               /\ u.timer = IF t.timer.active THEN t.timer
                            ELSE Timer_start(t.retransmission_timeout)
               /\ u.abs_ackno = t.abs_ackno /\ u.window_size = t.window_size
               /\ u.retransmission_timeout = t.retransmission_timeout
               /\ u.consecutive_retransmissions = t.consecutive_retransmissions
               /\ u.isn = t.isn
               /\ u.initial_retransmission_timeout = t.initial_retransmission_timeout
               /\ u.segments_out = Append(t.segments_out, seg)
               /\ DOMAIN u = DOMAIN t
               /\ u = [f \in DOMAIN t |-> u[f]]
  BY Zenon DEF SendNew, SenderType

\* A record with the right fields is a sender.
LEMMA IsSender ==
    ASSUME NEW t \in SenderType, NEW u, DOMAIN u = DOMAIN t, u = [f \in DOMAIN t |-> u[f]],
           u.isn = ISN, u.segments_out \in Seq(Segment), u.initial_retransmission_timeout = RTO,
           u.stream \in StreamType(Nat, Nat), u.timer \in TimerType, u.next_seqno \in Nat,
           u.abs_ackno \in Nat, u.window_size \in Nat, u.outstanding \in Seq(Kept),
           u.retransmission_timeout \in Nat, u.consecutive_retransmissions \in Nat
    PROVE  u \in SenderType
  BY DEF SenderType

\* The queue stays tiled when a piece is appended.
LEMMA TiledAppend ==
    ASSUME NEW q \in Seq(Kept), NEW n \in Nat, NEW b, NEW c, NEW o \in Kept,
           Tiled(q, n, b), o.seqno = n, Piece(o, c),
           c.bytes_written = b.bytes_written, c.input_ended = b.input_ended
    PROVE  Tiled(Append(q, o), EndOf(o), c)
<1> DEFINE r == Append(q, o)
<1>1. /\ Len(r) = Len(q) + 1 /\ Len(q) \in Nat /\ r[Len(q) + 1] = o
      /\ \A i \in 1 .. Len(q) : r[i] = q[i]
  OBVIOUS
<1> HIDE DEF r
<1> SUFFICES ASSUME NEW i \in 1 .. Len(r)
             PROVE  /\ EndOf(r[i]) = IF i = Len(r) THEN EndOf(o) ELSE r[i + 1].seqno
                    /\ Piece(r[i], c)
  BY DEF Tiled, r
<1>2. CASE i = Len(q) + 1
  BY <1>1, <1>2
<1>3. CASE i \in 1 .. Len(q)
  <2>1. /\ EndOf(q[i]) = IF i = Len(q) THEN n ELSE q[i + 1].seqno
        /\ Piece(q[i], b)
    BY <1>3 DEF Tiled
  <2>2. Piece(r[i], c)
    BY <1>1, <1>3, <2>1 DEF Piece
  <2>3. r[i] = q[i] /\ i # Len(r)
    BY <1>1, <1>3
  <2>4. CASE i = Len(q)
    <3>1. r[i + 1] = o
      BY <1>1, <2>4
    <3> QED
      BY <2>1, <2>2, <2>3, <2>4, <3>1
  <2>5. CASE i # Len(q)
    <3>1. r[i + 1] = q[i + 1]
      BY <1>1, <1>3, <2>5
    <3> QED
      BY <2>1, <2>2, <2>3, <2>5, <3>1
  <2> QED
    BY <2>4, <2>5
<1> QED
  BY <1>1, <1>2, <1>3

\* Sending a segment that can be sent next keeps the sender good.
LEMMA SendNewGood ==
    ASSUME NEW t, NEW seg, Good(t), Cut(t, seg), length_in_sequence_space(seg) \in Nat \ {0}
    PROVE  Good(SendNew(t, seg)) /\ Same(t, SendNew(t, seg))
<1> DEFINE u == SendNew(t, seg)
           b == t.stream
           c == u.stream
           k == Len(seg.payload)
           n == t.next_seqno
           o == Outstanding(n, seg)
           size == length_in_sequence_space(seg)
<1>0. t \in SenderType /\ seg \in Segment
  BY DEF Good, Cut
<1>1. /\ t \in SenderType /\ seg \in Segment /\ seg.payload \in Seq(Nat) /\ k \in Nat
      /\ b \in StreamType(Nat, Nat) /\ b.buffer \in Seq(Nat) /\ b.bytes_read \in Nat
      /\ n \in Nat /\ size \in Nat /\ size > 0 /\ Len(b.buffer) \in Nat
      /\ b.bytes_written = b.bytes_read + Len(b.buffer)
  <2>1. seg.payload \in Seq(Nat)
    BY <1>0 DEF Segment
  <2>2. b.bytes_written = b.bytes_read + Len(b.buffer)
    BY DEF Good, Holds
  <2> QED
    BY <1>0, <2>1, <2>2, SenderFields
<1>2. ReadBy(b, c, k)
  <2>1. MinOf(k, Len(b.buffer)) = k
    BY <1>1 DEF Cut, MinOf
  <2>2. Len(peek_output(b, k)) = k /\ ReadBy(b, read(b, k), Len(peek_output(b, k)))
    BY <1>1, <2>1, ReadStream
  <2>3. c = read(b, k)
    BY <1>1, SendNewFields
  <2> QED
    BY <2>2, <2>3
<1>3. Holds(c) /\ Len(c.buffer) = Len(b.buffer) - k
  BY Zenon, <1>1, <1>2, ReadHolds DEF Good
<1>4. /\ c.bytes_read = b.bytes_read + k /\ c.bytes_written = b.bytes_written
      /\ c.input_ended = b.input_ended /\ c \in StreamType(Nat, Nat) /\ c.buffer \in Seq(Nat)
  BY Zenon, <1>2 DEF ReadBy, StreamType
<1>5. /\ u.outstanding = Append(t.outstanding, o) /\ u.next_seqno = n + size
      /\ u.abs_ackno = t.abs_ackno /\ u.window_size = t.window_size
      /\ u.retransmission_timeout = t.retransmission_timeout
      /\ u.consecutive_retransmissions = t.consecutive_retransmissions
      /\ u.timer = IF t.timer.active THEN t.timer ELSE Timer_start(t.retransmission_timeout)
  BY <1>1, SendNewFields
<1>6. o \in Kept /\ o.seqno = n /\ o.seg = seg /\ EndOf(o) = n + size
  BY <1>1 DEF Outstanding, Kept, EndOf
<1>7. u.timer \in TimerType
  BY <1>1, <1>5 DEF SenderType, TimerType, Timer_start
<1>8. u \in SenderType
  <2>1. DOMAIN u = DOMAIN t /\ u = [f \in DOMAIN t |-> u[f]]
    BY <1>1, SendNewFields
  <2>2. /\ u.isn = ISN /\ u.initial_retransmission_timeout = RTO
        /\ u.segments_out \in Seq(Segment)
    <3>1. /\ u.isn = t.isn /\ u.segments_out = Append(t.segments_out, seg)
          /\ u.initial_retransmission_timeout = t.initial_retransmission_timeout
      BY <1>1, SendNewFields
    <3> HIDE DEF u
    <3> QED
      BY <1>1, <3>1, SenderFields
  <2>3. u.outstanding \in Seq(Kept) /\ u.next_seqno \in Nat
    BY <1>1, <1>5, <1>6 DEF SenderType
  <2>4. /\ u.abs_ackno \in Nat /\ u.window_size \in Nat
        /\ u.retransmission_timeout \in Nat /\ u.consecutive_retransmissions \in Nat
    BY <1>1, <1>5 DEF SenderType
  <2> HIDE DEF u
  <2> QED
    BY Zenon, <1>1, <1>4, <1>7, <2>1, <2>2, <2>3, <2>4, IsSender
<1> HIDE DEF u, c, o
<1> DEFINE y == IF n = 0 THEN 1 ELSE 0
           f == IF seg.fin THEN 1 ELSE 0
<1>9. /\ size = k + y + f
      /\ seg.fin => b.input_ended /\ k = Len(b.buffer)
      /\ (n = 0 /\ b.bytes_read = 0) \/ n = b.bytes_read + 1
  <2>1. size = k + y + f
    <3>1. seg.syn <=> n = 0
      BY DEF Cut
    <3> QED
      BY Zenon, <3>1 DEF length_in_sequence_space, OneIf
  <2>2. n # b.bytes_read + 2 /\ InStep(n, b)
    BY DEF Cut, Good
  <2> QED
    BY <2>1, <2>2 DEF Cut, InStep
<1>16. /\ seg.fin => f = 1
       /\ ~seg.fin => f = 0
       /\ n + y = b.bytes_read + 1
  BY <1>1, <1>9
<1>17. u.next_seqno = c.bytes_read + 1 + f
  <2> HIDE DEF y, f, n, k, size, b
  <2>1. y \in Nat /\ f \in Nat
    BY DEF y, f
  <2>2. /\ u.next_seqno = n + size /\ size = k + y + f
        /\ c.bytes_read = b.bytes_read + k /\ n + y = b.bytes_read + 1
    BY <1>4, <1>5, <1>9, <1>16
  <2>3. n \in Nat /\ k \in Nat /\ b.bytes_read \in Nat
    BY <1>1
  <2> QED
    BY <2>1, <2>2, <2>3
<1> HIDE DEF f
<1>10. InStep(u.next_seqno, c)
  <2>1. CASE seg.fin
    <3>0. Len(c.buffer) = 0 /\ c.input_ended
      BY <1>1, <1>3, <1>4, <1>9, <2>1
    <3>1. c.buffer = <<>> /\ c.input_ended
      BY <1>4, <3>0
    <3>2. u.next_seqno = c.bytes_read + 2
      BY <1>1, <1>4, <1>16, <1>17, <2>1
    <3> QED
      BY <3>1, <3>2 DEF InStep, eof, buffer_empty
  <2>2. CASE ~seg.fin
    <3>1. u.next_seqno = c.bytes_read + 1
      BY <1>1, <1>4, <1>16, <1>17, <2>2
    <3> QED
      BY <3>1 DEF InStep
  <2> QED
    BY <2>1, <2>2
<1>11. Piece(o, c)
  <2>1. o.seg.syn <=> o.seqno = 0
    BY <1>6 DEF Cut
  <2>2. o.seg.fin => c.input_ended /\ EndOf(o) = c.bytes_written + 2
    <3> SUFFICES ASSUME seg.fin PROVE c.input_ended /\ EndOf(o) = c.bytes_written + 2
      BY <1>6
    <3>1. b.input_ended /\ k = Len(b.buffer) /\ f = 1
      BY <1>9, <1>16
    <3>2. EndOf(o) = c.bytes_read + 2
      BY <1>1, <1>4, <1>5, <1>6, <1>17, <3>1
    <3> QED
      BY <1>1, <1>4, <3>1, <3>2
  <2>3. ASSUME NEW i \in 1 .. Len(o.seg.payload)
        PROVE  o.seg.payload[i] = MaxOf(o.seqno, 1) + i - 2
    <3>1. i \in 1 .. k /\ k <= Len(b.buffer)
      BY <1>6, <2>3 DEF Cut
    <3>2. seg.payload[i] = b.buffer[i]
      <4>1. seg.payload = SubSeq(b.buffer, 1, k)
        BY DEF Cut
      <4> HIDE DEF k, b
      <4> QED
        BY <1>1, <3>1, <4>1
    <3>3. b.buffer[i] = b.bytes_read + i - 1
      BY <1>1, <3>1 DEF Good, Holds
    <3>4. MaxOf(n, 1) = b.bytes_read + 1
      BY <1>1, <1>9 DEF MaxOf
    <3>5. o.seg.payload[i] = b.bytes_read + i - 1 /\ MaxOf(o.seqno, 1) = b.bytes_read + 1
      BY <1>6, <3>2, <3>3, <3>4
    <3>6. i \in Int /\ b.bytes_read \in Int
      BY <1>1, <3>1
    <3>7. (b.bytes_read + 1) + i - 2 = b.bytes_read + i - 1
      BY <3>6
    <3> QED
      BY <3>5, <3>7, Zenon
  <2> QED
    BY <2>1, <2>2, <2>3 DEF Piece
<1>12. Tiled(u.outstanding, u.next_seqno, c)
  <2>1. t.outstanding \in Seq(Kept) /\ Tiled(t.outstanding, n, b)
    BY DEF Good, SenderType
  <2>2. Tiled(Append(t.outstanding, o), EndOf(o), c)
    BY Zenon, <1>1, <1>4, <1>6, <1>11, <2>1, TiledAppend
  <2> QED
    BY <1>5, <1>6, <2>2
<1>13. Timed(u)
  <2>1. Timed(t) /\ t.outstanding \in Seq(Kept) /\ t.consecutive_retransmissions \in Nat
    BY DEF Good, SenderType
  <2>2. u.outstanding # <<>>
    BY <1>5, <2>1
  <2>3. CASE t.timer.active
    BY <1>5, <2>1, <2>2, <2>3 DEF Timed
  <2>4. CASE ~t.timer.active
    <3>1. u.timer = Timer_start(t.retransmission_timeout)
      BY <1>5, <2>4
    <3>2. t.retransmission_timeout > 0 /\ t.retransmission_timeout \in Nat
      BY Zenon, <2>1, BackoffDoubles DEF Timed
    <3>3. /\ u.timer.active /\ ~u.timer.expired /\ u.timer.current_time = 0
          /\ u.timer.timeout = t.retransmission_timeout
      BY <3>1 DEF Timer_start
    <3> QED
      BY <1>5, <2>1, <2>2, <3>2, <3>3 DEF Timed
  <2> QED
    BY <2>3, <2>4
<1>14. Good(u)
  BY <1>3, <1>8, <1>10, <1>12, <1>13 DEF Good, c
<1>15. Same(t, u)
  BY <1>1, <1>4, <1>5 DEF Same, c
<1> QED
  BY <1>14, <1>15 DEF u

\* A kept segment ends where it starts or later.
LEMMA KeptEnd ==
    ASSUME NEW o \in Kept
    PROVE  o.seqno \in Nat /\ EndOf(o) \in Nat /\ o.seqno <= EndOf(o)
<1>1. o.seqno \in Nat /\ o.seg \in Segment
  BY DEF Kept
<1>2. o.seg.payload \in Seq(Nat)
  BY <1>1 DEF Segment
<1>3. Len(o.seg.payload) \in Nat
  BY <1>2
<1>4. OneIf(o.seg.syn) \in Nat /\ OneIf(o.seg.fin) \in Nat
  BY DEF OneIf
<1>5. length_in_sequence_space(o.seg) \in Nat
  BY <1>3, <1>4 DEF length_in_sequence_space
<1> QED
  BY <1>1, <1>5 DEF EndOf

\* The space of a sender that has not overrun the window does not wrap around.
LEMMA SpaceExact ==
    ASSUME NEW t, Good(t), Fits(t)
    PROVE  AvailableSpace(t) = t.abs_ackno + EffectiveWindow(t) - t.next_seqno
<1> DEFINE e == EffectiveWindow(t)
           x == t.abs_ackno + e - t.next_seqno
<1>1. t.abs_ackno \in Nat /\ t.next_seqno \in Nat /\ t.window_size \in Nat
      /\ t.outstanding \in Seq(Kept)
  BY SenderFields DEF Good
<1>2. e \in Nat /\ e < UINT64_MOD /\ t.next_seqno <= t.abs_ackno + e
  BY <1>1 DEF EffectiveWindow, Fits
<1>3. t.abs_ackno <= t.next_seqno
  <2> DEFINE q == t.outstanding
  <2>1. CASE q = <<>>
    BY <1>1, <2>1 DEF Fits, AckInFirst
  <2>2. CASE q # <<>>
    <3>1. t.abs_ackno < EndOf(q[1]) /\ Tiled(q, t.next_seqno, t.stream)
      BY <2>2 DEF Fits, AckInFirst, Good
    <3>2. Len(q) \in Nat /\ Len(q) >= 1
      BY <1>1, <2>2
    <3>3. \A i \in 1 .. Len(q) : EndOf(q[i]) \in Nat /\ q[i].seqno <= EndOf(q[i])
      <4> TAKE i \in 1 .. Len(q)
      <4>1. q[i] \in Kept
        BY <1>1
      <4> QED
        BY <4>1, KeptEnd
    <3>4. \A i \in 0 .. Len(q) - 1 : EndOf(q[1]) <= EndOf(q[i + 1])
      <4> DEFINE I == {i \in 0 .. Len(q) - 1 : EndOf(q[1]) <= EndOf(q[i + 1])}
                 K == Len(q) - 1
      <4>1. 0 \in I
        BY <3>2, <3>3
      <4>2. ASSUME NEW i \in 1 .. K, i - 1 \in I PROVE i \in I
        <5>1. i \in 1 .. Len(q) /\ i + 1 \in 1 .. Len(q) /\ i # Len(q)
              /\ 1 \in 1 .. Len(q) /\ (i - 1) + 1 = i
          BY <3>2
        <5>2. EndOf(q[i]) = q[i + 1].seqno
          BY <3>1, <5>1 DEF Tiled
        <5>3. EndOf(q[1]) <= EndOf(q[i])
          BY <4>2, <5>1
        <5>4. EndOf(q[i]) <= EndOf(q[i + 1])
          BY <3>3, <5>1, <5>2
        <5>5. EndOf(q[1]) <= EndOf(q[i + 1])
          BY <3>3, <5>1, <5>3, <5>4
        <5> QED
          BY <5>5
      <4>3. K \in Nat
        BY <3>2
      <4> HIDE DEF I, K
      <4>4. \A i \in 0 .. K : i \in I
        BY <4>1, <4>2, <4>3, RangeInd
      <4> QED
        BY <4>4 DEF I, K
    <3>5. EndOf(q[Len(q)]) = t.next_seqno
      BY <3>1, <3>2 DEF Tiled
    <3>6. Len(q) - 1 \in 0 .. Len(q) - 1 /\ (Len(q) - 1) + 1 = Len(q)
          /\ 1 \in 1 .. Len(q) /\ Len(q) \in 1 .. Len(q)
      BY <3>2
    <3>7. EndOf(q[1]) <= t.next_seqno
      BY Zenon, <3>4, <3>5, <3>6
    <3> QED
      BY <1>1, <3>1, <3>3, <3>6, <3>7
  <2> QED
    BY <2>1, <2>2
<1>4. x \in 0 .. (UINT64_MOD - 1)
  BY <1>1, <1>2, <1>3
<1> HIDE DEF x
<1>5. (0 * UINT64_MOD + x) % UINT64_MOD = x
  BY <1>4, ModUnique
<1>6. 0 * UINT64_MOD + x = x
  BY <1>4
<1> QED
  BY <1>5, <1>6 DEF AvailableSpace, x

\* Sending what fits in the space does not overrun the window.
LEMMA SendNewFits ==
    ASSUME NEW t, NEW seg, Good(t), Fits(t), Cut(t, seg),
           length_in_sequence_space(seg) \in 1 .. AvailableSpace(t)
    PROVE  Fits(SendNew(t, seg))
<1> DEFINE u == SendNew(t, seg)
           q == t.outstanding
           o == Outstanding(t.next_seqno, seg)
           size == length_in_sequence_space(seg)
<1>1. t \in SenderType /\ seg \in Segment
  BY DEF Good, Cut
<1>2. /\ t.abs_ackno \in Nat /\ t.next_seqno \in Nat /\ t.window_size \in Nat
      /\ q \in Seq(Kept)
  BY <1>1, SenderFields
<1>3. /\ u.outstanding = Append(q, o) /\ u.next_seqno = t.next_seqno + size
      /\ u.abs_ackno = t.abs_ackno /\ u.window_size = t.window_size
  BY <1>1, SendNewFields
<1>4. EffectiveWindow(u) = EffectiveWindow(t) /\ EffectiveWindow(t) \in Nat
  BY <1>2, <1>3 DEF EffectiveWindow
<1>5. size \in Nat /\ size >= 1 /\ size <= t.abs_ackno + EffectiveWindow(t) - t.next_seqno
  BY <1>2, <1>4, SpaceExact
<1>6. u.next_seqno <= u.abs_ackno + EffectiveWindow(u) /\ EffectiveWindow(u) < UINT64_MOD
  <2>1. EffectiveWindow(t) < UINT64_MOD
    BY DEF Fits
  <2> HIDE DEF u, size
  <2> QED
    BY <1>2, <1>3, <1>4, <1>5, <2>1
<1>7. o.seqno = t.next_seqno /\ EndOf(o) = t.next_seqno + size
  BY DEF Outstanding, EndOf
<1> HIDE DEF u, o, size
<1>8. AckInFirst(u.outstanding, u.abs_ackno, u.next_seqno)
  <2>1. u.outstanding # <<>>
    BY <1>2, <1>3
  <2>2. CASE q = <<>>
    <3>1. u.outstanding[1] = o
      BY <1>3, <2>2
    <3>2. t.abs_ackno = t.next_seqno
      BY <2>2 DEF Fits, AckInFirst
    <3>3. o.seqno <= t.abs_ackno /\ t.abs_ackno < EndOf(o)
      BY <1>2, <1>5, <1>7, <3>2
    <3> QED
      BY <1>3, <2>1, <3>1, <3>3 DEF AckInFirst
  <2>3. CASE q # <<>>
    <3>1. u.outstanding[1] = q[1]
      BY <1>2, <1>3, <2>3
    <3>2. q[1].seqno <= t.abs_ackno /\ t.abs_ackno < EndOf(q[1])
      BY <2>3 DEF Fits, AckInFirst
    <3> QED
      BY <1>3, <2>1, <3>1, <3>2 DEF AckInFirst
  <2> QED
    BY <2>2, <2>3
<1> QED
  BY <1>6, <1>8 DEF Fits, u

-----------------------------------------------------------------------------
(* The loop of fill_window                                                 *)

\* The states of the loop that starts with the sender t.
Turns(t) ==
    {acc \in [sender : SenderType, stop : BOOLEAN] :
        /\ Good(acc.sender) /\ Same(t, acc.sender)
        /\ Fits(t) => Fits(acc.sender)
        /\ acc.stop => ~MoreToSend(acc.sender)}

\* What is left to send: the SYN, the bytes of the buffer and the FIN.
Left(t) ==
    Len(t.stream.buffer) + OneIf(t.next_seqno = 0)
        + OneIf(t.next_seqno # t.stream.bytes_read + 2)

LEMMA LeftBounds ==
    ASSUME NEW t \in SenderType
    PROVE  /\ Left(t) \in Nat /\ Left(t) <= Len(t.stream.buffer) + 2
           /\ Left(t) = 0 => /\ Len(t.stream.buffer) = 0 /\ t.next_seqno # 0
                             /\ t.next_seqno = t.stream.bytes_read + 2
<1> DEFINE y == OneIf(t.next_seqno = 0)
           f == OneIf(t.next_seqno # t.stream.bytes_read + 2)
           L == Len(t.stream.buffer)
<1>1. L \in Nat
  BY SenderFields
<1>2. y \in {0, 1} /\ (y = 0 => t.next_seqno # 0)
  BY DEF OneIf
<1>3. f \in {0, 1} /\ (f = 0 => t.next_seqno = t.stream.bytes_read + 2)
  BY DEF OneIf
<1>4. Left(t) = L + y + f
  BY DEF Left
<1> HIDE DEF y, f, L
<1> QED
  BY <1>1, <1>2, <1>3, <1>4 DEF L

LEMMA SameTrans ==
    ASSUME NEW t \in SenderType, NEW u \in SenderType, NEW v \in SenderType,
           Same(t, u), Same(u, v)
    PROVE  Same(t, v)
  BY SenderFields DEF Same

\* Sending takes something of what is left.
LEMMA SendNewLeft ==
    ASSUME NEW t, NEW seg, Good(t), Cut(t, seg), length_in_sequence_space(seg) \in Nat \ {0}
    PROVE  Left(SendNew(t, seg)) < Left(t) /\ Left(t) \in Nat /\ Left(SendNew(t, seg)) \in Nat
<1> DEFINE u == SendNew(t, seg)
           b == t.stream
           c == u.stream
           k == Len(seg.payload)
           n == t.next_seqno
           size == length_in_sequence_space(seg)
           y == IF n = 0 THEN 1 ELSE 0
           f == IF seg.fin THEN 1 ELSE 0
<1>1. t \in SenderType /\ seg \in Segment /\ seg.payload \in Seq(Nat) /\ k \in Nat
  <2>1. t \in SenderType /\ seg \in Segment
    BY DEF Good, Cut
  <2> QED
    BY <2>1 DEF Segment
<1>2. /\ b \in StreamType(Nat, Nat) /\ b.bytes_read \in Nat /\ n \in Nat
      /\ Len(b.buffer) \in Nat /\ Holds(b)
  BY <1>1, SenderFields DEF Good
<1>3. c = read(b, k) /\ u.next_seqno = n + size
  BY <1>1, SendNewFields
<1>4. ReadBy(b, c, k)
  <2>1. MinOf(k, Len(b.buffer)) = k
    BY <1>1, <1>2 DEF Cut, MinOf
  <2>2. Len(peek_output(b, k)) = k /\ ReadBy(b, read(b, k), Len(peek_output(b, k)))
    BY Zenon, <1>1, <1>2, <2>1, ReadStream
  <2> QED
    BY <1>3, <2>2
<1>5. Len(c.buffer) = Len(b.buffer) - k /\ k <= Len(b.buffer) /\ c.bytes_read = b.bytes_read + k
  BY Zenon, <1>1, <1>2, <1>4, ReadHolds DEF ReadBy
<1>6. size = k + y + f
  <2>1. seg.syn <=> n = 0
    BY DEF Cut
  <2> QED
    BY Zenon, <2>1 DEF length_in_sequence_space, OneIf
<1>7. y \in {0, 1} /\ f \in {0, 1} /\ n + y = b.bytes_read + 1
  <2>1. n # b.bytes_read + 2 /\ InStep(n, b)
    BY DEF Cut, Good
  <2> QED
    BY <1>2, <2>1 DEF InStep
<1>8. Left(t) = Len(b.buffer) + y + 1
  <2>1. n # b.bytes_read + 2
    BY DEF Cut
  <2> QED
    BY <2>1 DEF Left, OneIf
<1> HIDE DEF u, c, y, f, k, size, b, n
<1>9. u.next_seqno = c.bytes_read + 1 + f /\ u.next_seqno # 0
  <2>1. /\ u.next_seqno = n + size /\ size = k + y + f
        /\ c.bytes_read = b.bytes_read + k /\ n + y = b.bytes_read + 1
    BY <1>3, <1>5, <1>6, <1>7
  <2>2. n \in Nat /\ k \in Nat /\ b.bytes_read \in Nat /\ y \in Nat /\ f \in Nat
    BY <1>1, <1>2, <1>7
  <2> QED
    BY <2>1, <2>2
<1>10. c.bytes_read \in Nat
  BY <1>1, <1>2, <1>5
<1>11. OneIf(u.next_seqno = 0) = 0
  BY <1>9 DEF OneIf
<1>12. OneIf(u.next_seqno # u.stream.bytes_read + 2) = 1 - f
  BY <1>7, <1>9, <1>10 DEF OneIf, c
<1>13. Left(u) = Len(c.buffer) + 0 + (1 - f)
  BY <1>11, <1>12 DEF Left, c
<1>14. size > 0
  BY DEF size
<1> QED
  BY <1>1, <1>2, <1>5, <1>6, <1>7, <1>8, <1>13, <1>14 DEF u

\* One turn: a segment is sent, or the loop is left with nothing more to send.
LEMMA TurnStep ==
    ASSUME NEW t \in SenderType, NEW acc \in Turns(t)
    PROVE  /\ FillTurn(acc) \in Turns(t)
           /\ Left(acc.sender) \in Nat
           /\ ~FillTurn(acc).stop => Left(FillTurn(acc).sender) < Left(acc.sender)
<1> DEFINE u == acc.sender
           seg == NextSegment(u)
           size == length_in_sequence_space(seg)
           v == SendNew(u, seg)
           next == FillTurn(acc)
<1>1. /\ acc \in [sender : SenderType, stop : BOOLEAN]
      /\ Good(u) /\ Same(t, u) /\ (Fits(t) => Fits(u)) /\ (acc.stop => ~MoreToSend(u))
  BY DEF Turns
<1>2. Left(u) \in Nat
  BY <1>1, LeftBounds
<1>3. CASE acc.stop \/ ~MoreToSend(u)
  <2>1. next = [acc EXCEPT !.stop = TRUE]
    BY <1>3 DEF FillTurn
  <2>2. next.sender = u /\ next.stop = TRUE /\ next \in [sender : SenderType, stop : BOOLEAN]
    BY Zenon, <1>1, <2>1
  <2> HIDE DEF next, u
  <2>3. next \in Turns(t)
    BY <1>1, <1>3, <2>2 DEF Turns
  <2> QED
    BY <1>2, <2>2, <2>3 DEF next, u
<1>4. CASE ~acc.stop /\ MoreToSend(u)
  <2>1. Cut(u, seg) /\ size \in 1 .. AvailableSpace(u)
    BY <1>1, <1>4, NextSegmentFits
  <2>2. AvailableSpace(u) \in Int
    <3>1. u.abs_ackno \in Nat /\ u.window_size \in Nat /\ u.next_seqno \in Nat
      BY <1>1, SenderFields
    <3>2. u.abs_ackno + EffectiveWindow(u) - u.next_seqno \in Int
      BY <3>1 DEF EffectiveWindow
    <3> QED
      BY <3>2, DivMod DEF AvailableSpace
  <2>3. size \in Nat \ {0} /\ ~(size = 0 \/ size > AvailableSpace(u))
    BY <2>1, <2>2
  <2>4. next = [sender |-> v, stop |-> FALSE]
    BY <1>4, <2>3 DEF FillTurn, SendOrStop
  <2>5. Good(v) /\ Same(u, v)
    BY <1>1, <2>1, <2>3, SendNewGood
  <2>6. Fits(u) => Fits(v)
    BY <1>1, <2>1, SendNewFits
  <2>7. Left(v) < Left(u)
    BY <1>1, <2>1, <2>3, SendNewLeft
  <2>8. v \in SenderType /\ u \in SenderType
    BY <1>1, <2>5 DEF Good
  <2> HIDE DEF u, v, next
  <2>9. Same(t, v)
    BY <1>1, <2>5, <2>8, SameTrans
  <2>10. next.sender = v /\ next.stop = FALSE /\ next \in [sender : SenderType, stop : BOOLEAN]
    BY <2>4, <2>8
  <2>11. next \in Turns(t)
    BY <1>1, <2>5, <2>6, <2>9, <2>10 DEF Turns
  <2> QED
    BY <1>2, <2>7, <2>10, <2>11 DEF next, u
<1> QED
  BY <1>3, <1>4

\* The recursive function of fill_window obeys its equation.
LEMMA FillLoop ==
    ASSUME NEW t, Good(t), NEW K, K = Len(t.stream.buffer) + 2
    PROVE  \E after : /\ after[0] = [sender |-> t, stop |-> FALSE]
                      /\ \A k \in 1 .. K : after[k] = FillTurn(after[k - 1])
                      /\ \A k \in 0 .. K : after[k] \in Turns(t)
                      /\ fill_window(t) = after[K].sender
<1> DEFINE D == Turns(t)
           first == [sender |-> t, stop |-> FALSE]
           F == [p \in Nat \X D |-> FillTurn(p[2])]
           B(g) == [k \in 0 .. K |-> IF k = 0 THEN first ELSE FillTurn(g[k - 1])]
           after == CHOOSE g : g = B(g)
<1>0. t \in SenderType /\ K \in Nat
  <2>1. t \in SenderType
    BY DEF Good
  <2> QED
    BY <2>1, SenderFields
<1>1. F \in [Nat \X D -> D]
  <2>1. ASSUME NEW p \in Nat \X D PROVE FillTurn(p[2]) \in D
    <3>1. p[2] \in D
      OBVIOUS
    <3> QED
      BY <1>0, <3>1, TurnStep
  <2> QED
    BY <2>1
<1>2. first \in D
  <2>1. Same(t, t)
    BY <1>0, SenderFields DEF Same
  <2>2. first.sender = t /\ first.stop = FALSE /\ first \in [sender : SenderType, stop : BOOLEAN]
    BY <1>0
  <2> HIDE DEF first
  <2> QED
    BY <2>1, <2>2 DEF Turns
<1>3. PICK g : IsLoop(g, D, F, first, K)
  <2> HIDE DEF F, D, first
  <2> QED
    BY Zenon, <1>0, <1>1, <1>2, LoopExists
<1>4. g \in [0 .. K -> D] /\ g[0] = first /\ \A k \in 1 .. K : g[k] = F[<<k, g[k - 1]>>]
  BY Zenon, <1>3 DEF IsLoop
<1> HIDE DEF D, first
<1>5. ASSUME NEW k \in 1 .. K PROVE g[k] = FillTurn(g[k - 1])
  <2>1. k - 1 \in 0 .. K /\ k \in Nat
    BY <1>0
  <2>2. g[k - 1] \in D
    BY <1>4, <2>1
  <2> DEFINE x == <<k, g[k - 1]>>
  <2>3. x \in Nat \X D /\ x[2] = g[k - 1]
    BY <2>1, <2>2
  <2> HIDE DEF x
  <2>4. F[x] = FillTurn(g[k - 1])
    BY <2>3
  <2> QED
    BY Zenon, <1>4, <2>4 DEF x
<1>6. ASSUME NEW h
      PROVE  /\ DOMAIN B(h) = 0 .. K /\ B(h) = [k \in 0 .. K |-> B(h)[k]]
             /\ B(h)[0] = first /\ \A k \in 1 .. K : B(h)[k] = FillTurn(h[k - 1])
  BY <1>0
<1>7. fill_window(t) = after[K].sender
  BY DEF fill_window, buffer_size, first
<1> HIDE DEF F, B
<1>8. after = B(after)
  <2>1. g = [k \in 0 .. K |-> g[k]]
    BY <1>4
  <2>2. ASSUME NEW k \in 0 .. K PROVE g[k] = B(g)[k]
    <3>1. CASE k = 0
      BY <1>4, <1>6, <3>1
    <3>2. CASE k \in 1 .. K
      <4>1. g[k] = FillTurn(g[k - 1]) /\ B(g)[k] = FillTurn(g[k - 1])
        BY <1>5, <1>6, <3>2
      <4> QED
        BY <4>1
    <3> QED
      BY <1>0, <3>1, <3>2
  <2>3. g = B(g)
    BY Zenon, <1>6, <2>1, <2>2
  <2> QED
    BY <2>3
<1> HIDE DEF after
<1>9. after[0] = first /\ \A k \in 1 .. K : after[k] = FillTurn(after[k - 1])
  BY Zenon, <1>6, <1>8
<1>10. \A k \in 0 .. K : after[k] \in D
  <2> DEFINE I == {k \in 0 .. K : after[k] \in D}
  <2>1. 0 \in I
    BY <1>0, <1>2, <1>9
  <2>2. ASSUME NEW k \in 1 .. K, k - 1 \in I PROVE k \in I
    <3>1. after[k - 1] \in D
      BY <2>2
    <3>2. FillTurn(after[k - 1]) \in D
      BY <1>0, <3>1, TurnStep DEF D
    <3> QED
      BY <1>9, <3>2
  <2> HIDE DEF I
  <2>3. \A k \in 0 .. K : k \in I
    BY Zenon, <1>0, <2>1, <2>2, RangeInd
  <2> QED
    BY <2>3 DEF I
<1> QED
  BY <1>7, <1>9, <1>10 DEF D, first

(***************************************************************************)
(* fill_window keeps the sender good and does not overrun the window; and  *)
(* it leaves nothing it could still send, so the loop of tcp_sender.cc:68  *)
(* always ends, and within the turns that the model gives it.              *)
(***************************************************************************)
LEMMA FillGood ==
    ASSUME NEW t, Good(t)
    PROVE  /\ Good(fill_window(t)) /\ Same(t, fill_window(t))
           /\ Fits(t) => Fits(fill_window(t))
           /\ ~MoreToSend(fill_window(t))
<1> DEFINE K == Len(t.stream.buffer) + 2
<1>1. t \in SenderType /\ K \in Nat
  <2>1. t \in SenderType
    BY DEF Good
  <2> QED
    BY <2>1, SenderFields
<1>2. PICK after : /\ after[0] = [sender |-> t, stop |-> FALSE]
                   /\ \A k \in 1 .. K : after[k] = FillTurn(after[k - 1])
                   /\ \A k \in 0 .. K : after[k] \in Turns(t)
                   /\ fill_window(t) = after[K].sender
  <2> HIDE DEF K
  <2> QED
    BY FillLoop DEF K
<1> DEFINE u == after[K].sender
<1>3. after[K] \in Turns(t) /\ after[0].sender = t
  <2> HIDE DEF K
  <2> QED
    BY <1>1, <1>2
<1>4. after[K].stop \/ Left(u) <= 0
  <2> DEFINE I == {k \in 0 .. K : after[k].stop \/ Left(after[k].sender) <= K - k}
  <2>1. 0 \in I
    <3>1. Left(t) <= K
      BY <1>1, LeftBounds
    <3> HIDE DEF K
    <3> QED
      BY <1>1, <1>3, <3>1
  <2>2. ASSUME NEW k \in 1 .. K, k - 1 \in I PROVE k \in I
    <3> HIDE DEF K
    <3> DEFINE old == after[k - 1]
               new == after[k]
    <3>1. k - 1 \in 0 .. K /\ k \in 0 .. K
      BY <1>1
    <3>2. old \in Turns(t) /\ new \in Turns(t) /\ new = FillTurn(old)
      BY <1>2, <3>1
    <3>3. Left(old.sender) \in Nat /\ (~new.stop => Left(new.sender) < Left(old.sender))
      BY <1>1, <3>2, TurnStep
    <3>4. Left(new.sender) \in Nat
      BY <1>1, <3>2, TurnStep
    <3>5. old.stop \/ Left(old.sender) <= K - (k - 1)
      BY <2>2
    <3>6. old.stop => new.stop
      BY <3>2 DEF FillTurn, Turns
    <3> HIDE DEF old, new
    <3>7. new.stop \/ Left(new.sender) <= K - k
      BY <1>1, <3>1, <3>3, <3>4, <3>5, <3>6
    <3> QED
      BY <3>1, <3>7 DEF new
  <2> HIDE DEF I, K
  <2>3. \A k \in 0 .. K : k \in I
    BY <1>1, <2>1, <2>2, RangeInd
  <2>4. K \in I /\ K - K = 0
    BY <1>1, <2>3
  <2> QED
    BY <2>4 DEF I
<1> HIDE DEF K
<1>5. Good(u) /\ Same(t, u) /\ (Fits(t) => Fits(u)) /\ (after[K].stop => ~MoreToSend(u))
  BY <1>3 DEF Turns
<1>6. Left(u) <= 0 => ~MoreToSend(u)
  <2> SUFFICES ASSUME Left(u) <= 0 PROVE ~MoreToSend(u)
    OBVIOUS
  <2>1. u \in SenderType
    BY <1>5 DEF Good
  <2> HIDE DEF u
  <2>2. /\ Len(u.stream.buffer) \in Nat /\ u.stream.buffer \in Seq(Nat)
        /\ u.next_seqno \in Nat /\ u.stream.bytes_read \in Nat
        /\ u.stream.bytes_written = u.stream.bytes_read + Len(u.stream.buffer)
    BY <1>5, <2>1, SenderFields DEF Good, Holds
  <2>3. /\ Len(u.stream.buffer) = 0 /\ u.next_seqno # 0
        /\ u.next_seqno = u.stream.bytes_read + 2
    <3>1. Left(u) = 0
      BY <2>1, LeftBounds
    <3> QED
      BY <2>1, <3>1, LeftBounds
  <2>4. u.stream.buffer = <<>> /\ ~(u.next_seqno < u.stream.bytes_written + 2)
    BY <2>2, <2>3
  <2> QED
    BY <2>3, <2>4 DEF MoreToSend, SynNeeded, FinNeeded, buffer_empty
<1> QED
  BY <1>2, <1>4, <1>5, <1>6

-----------------------------------------------------------------------------
(* Acknowledgements                                                        *)

\* What is left of the queue after pops at its front is tiled.
LEMMA TiledSuffix ==
    ASSUME NEW q \in Seq(Kept), NEW n, NEW b, Tiled(q, n, b), NEW m \in 0 .. Len(q)
    PROVE  LET r == SubSeq(q, m + 1, Len(q))
           IN  /\ r \in Seq(Kept) /\ Len(r) = Len(q) - m
               /\ \A i \in 1 .. Len(r) : r[i] = q[m + i]
               /\ Tiled(r, n, b)
<1> DEFINE r == SubSeq(q, m + 1, Len(q))
           L == Len(q)
<1>0. L \in Nat /\ m \in Nat /\ m <= L
  OBVIOUS
<1>1. r \in Seq(Kept) /\ Len(r) = L - m /\ \A i \in 1 .. Len(r) : r[i] = q[m + i]
  BY <1>0
<1> HIDE DEF r
<1>2. ASSUME NEW i \in 1 .. Len(r)
      PROVE  /\ EndOf(r[i]) = IF i = Len(r) THEN n ELSE r[i + 1].seqno
             /\ Piece(r[i], b)
  <2>1. m + i \in 1 .. L /\ (i = Len(r) <=> m + i = L)
    BY <1>0, <1>1
  <2>2. /\ EndOf(q[m + i]) = IF m + i = L THEN n ELSE q[m + i + 1].seqno
        /\ Piece(q[m + i], b)
    BY <2>1 DEF Tiled
  <2>3. r[i] = q[m + i]
    BY <1>1
  <2>4. CASE i = Len(r)
    BY <2>1, <2>2, <2>3, <2>4
  <2>5. CASE i # Len(r)
    <3>0. Len(r) \in Nat /\ i \in 1 .. Len(r)
      BY <1>0, <1>1
    <3>1. i + 1 \in 1 .. Len(r) /\ m + (i + 1) = m + i + 1
      BY <1>0, <2>5, <3>0
    <3>2. r[i + 1] = q[m + i + 1]
      BY <1>1, <3>1
    <3> QED
      BY <2>1, <2>2, <2>3, <2>5, <3>2
  <2> QED
    BY <2>4, <2>5
<1> QED
  BY <1>1, <1>2 DEF Tiled, r

\* What the pops of ack_received leave of the queue: a suffix that starts with
\* the first segment that is not wholly acknowledged.
Popped(q, a) ==
    LET Acknowledged(k) == \A i \in 1 .. k : EndOf(q[i]) <= a
    IN  SubSeq(q, Max({k \in 0 .. Len(q) : Acknowledged(k)}) + 1, Len(q))

IsPop(q, a, m) ==
    /\ m \in 0 .. Len(q)
    /\ \A i \in 1 .. m : EndOf(q[i]) <= a
    /\ m < Len(q) => EndOf(q[m + 1]) > a
    /\ Popped(q, a) = SubSeq(q, m + 1, Len(q))

LEMMA PoppedSuffix ==
    ASSUME NEW q \in Seq(Kept), NEW a \in Nat
    PROVE  \E m \in 0 .. Len(q) : IsPop(q, a, m)
<1> DEFINE L == Len(q)
           A == {k \in 0 .. L : \A i \in 1 .. k : EndOf(q[i]) <= a}
           m == Max(A)
<1>1. L \in Nat /\ A \subseteq 0 .. L /\ 0 \in A
  OBVIOUS
<1> HIDE DEF A
<1>2. \E n \in A : \A k \in A : n >= k
  <2>1. A # {}
    BY <1>1
  <2> HIDE DEF L
  <2> QED
    BY Zenon, <1>1, <2>1, GreatestNat
<1>3. m \in A /\ \A k \in A : m >= k
  BY <1>2 DEF Max
<1>4. Popped(q, a) = SubSeq(q, m + 1, L)
  BY DEF Popped, A
<1> HIDE DEF m
<1>5. m \in 0 .. L /\ \A i \in 1 .. m : EndOf(q[i]) <= a
  BY <1>3 DEF A
<1>6. ASSUME m < L PROVE EndOf(q[m + 1]) > a
  <2>1. m + 1 \in 0 .. L /\ m + 1 \in 1 .. L /\ ~(m >= m + 1)
    BY <1>1, <1>5, <1>6
  <2>2. ~(m + 1 \in A)
    BY <1>3, <2>1
  <2>3. q[m + 1] \in Kept
    BY <2>1
  <2>4. EndOf(q[m + 1]) \in Nat
    BY <2>3, KeptEnd
  <2>5. ~(EndOf(q[m + 1]) <= a)
    <3> SUFFICES ASSUME EndOf(q[m + 1]) <= a PROVE FALSE
      OBVIOUS
    <3>1. ASSUME NEW i \in 1 .. m + 1 PROVE EndOf(q[i]) <= a
      <4>1. i \in 1 .. m \/ i = m + 1
        BY <1>5
      <4> QED
        BY <1>5, <4>1
    <3> QED
      BY <2>1, <2>2, <3>1 DEF A
  <2> QED
    BY <2>4, <2>5
<1> QED
  BY <1>4, <1>5, <1>6 DEF IsPop

\* The sender with some of its queue popped.
PopTo(t, kept) ==
    [t EXCEPT !.outstanding = kept, !.consecutive_retransmissions = 0,
              !.retransmission_timeout = t.initial_retransmission_timeout,
              !.timer = IF kept = <<>> THEN StoppedTimer
                        ELSE Timer_start(t.initial_retransmission_timeout)]

\* Popping keeps the sender good, and leaves an acknowledgement that is not
\* behind the oldest segment inside the oldest of the rest.
LEMMA PopGood ==
    ASSUME NEW t, Good(t)
    PROVE  /\ Good(PopAcknowledged(t)) /\ Same(t, PopAcknowledged(t))
           /\ PopAcknowledged(t).next_seqno = t.next_seqno
           /\ (/\ t.abs_ackno <= t.next_seqno
               /\ t.outstanding = <<>> => t.abs_ackno = t.next_seqno
               /\ t.outstanding # <<>> => t.outstanding[1].seqno <= t.abs_ackno)
              => AckInFirst(PopAcknowledged(t).outstanding, t.abs_ackno, t.next_seqno)
<1> DEFINE q == t.outstanding
           a == t.abs_ackno
           n == t.next_seqno
           L == Len(q)
           kept == Popped(q, a)
           u == PopAcknowledged(t)
<1>1. /\ t \in SenderType /\ q \in Seq(Kept) /\ a \in Nat /\ n \in Nat /\ L \in Nat
      /\ Tiled(q, n, t.stream) /\ Timed(t)
  <2>1. t \in SenderType /\ Tiled(q, n, t.stream) /\ Timed(t)
    BY DEF Good
  <2> QED
    BY <2>1, SenderFields
<1>2. u = IF kept = q THEN t ELSE PopTo(t, kept)
  BY DEF PopAcknowledged, Popped, PopTo
<1>3. PICK m \in 0 .. L : IsPop(q, a, m)
  BY Zenon, <1>1, PoppedSuffix
<1>4. /\ m \in Nat /\ m <= L /\ kept = SubSeq(q, m + 1, L)
      /\ \A i \in 1 .. m : EndOf(q[i]) <= a
      /\ m < L => EndOf(q[m + 1]) > a
  BY <1>1, <1>3 DEF IsPop
<1>5. /\ kept \in Seq(Kept) /\ Len(kept) = L - m
      /\ \A i \in 1 .. Len(kept) : kept[i] = q[m + i]
      /\ Tiled(kept, n, t.stream)
  BY <1>1, <1>4, TiledSuffix
<1> HIDE DEF kept, u
<1>6. ASSUME kept = q PROVE Good(u) /\ Same(t, u) /\ u.next_seqno = n
  <2>1. u = t /\ n \in Nat
    BY <1>1, <1>2, <1>6
  <2>2. Same(t, t)
    BY <2>1 DEF Same
  <2> QED
    BY <2>1, <2>2
<1>7. ASSUME kept # q PROVE Good(u) /\ Same(t, u) /\ u.next_seqno = n
  <2>1. u = PopTo(t, kept)
    BY <1>2, <1>7
  <2>2. /\ u.outstanding = kept /\ u.consecutive_retransmissions = 0
        /\ u.retransmission_timeout = RTO
        /\ u.timer = IF kept = <<>> THEN StoppedTimer ELSE Timer_start(RTO)
        /\ u.stream = t.stream /\ u.next_seqno = n /\ u.abs_ackno = a
        /\ u.window_size = t.window_size /\ u.isn = ISN /\ u.segments_out = t.segments_out
        /\ u.initial_retransmission_timeout = RTO
        /\ DOMAIN u = DOMAIN t /\ u = [f \in DOMAIN t |-> u[f]]
    BY Zenon, <1>1, <2>1, SenderFields DEF PopTo, SenderType
  <2>3. u.timer \in TimerType
    BY <2>2 DEF TimerType, StoppedTimer, Timer_start
  <2>4. u \in SenderType
    <3>1. /\ u.stream \in StreamType(Nat, Nat) /\ u.next_seqno \in Nat
          /\ u.abs_ackno \in Nat /\ u.window_size \in Nat /\ u.segments_out \in Seq(Segment)
          /\ u.retransmission_timeout \in Nat /\ u.consecutive_retransmissions \in Nat
      BY <1>1, <2>2, SenderFields
    <3> QED
      BY Zenon, <1>1, <1>5, <2>2, <2>3, <3>1, IsSender
  <2>5. Timed(u)
    <3>1. RTO = Backoff(0)
      BY BackoffDoubles
    <3>2. CASE kept = <<>>
      <4>1. u.timer.active = FALSE
        BY <2>2, <3>2 DEF StoppedTimer
      <4> QED
        BY <2>2, <3>1, <3>2, <4>1 DEF Timed
    <3>3. CASE kept # <<>>
      <4>1. /\ u.timer.active = TRUE /\ u.timer.expired = FALSE
            /\ u.timer.current_time = 0 /\ u.timer.timeout = RTO
        BY <2>2, <3>3 DEF Timer_start
      <4> QED
        BY <2>2, <3>1, <3>3, <4>1 DEF Timed
    <3> QED
      BY <3>2, <3>3
  <2>6. Good(u)
    BY <1>5, <2>2, <2>4, <2>5 DEF Good
  <2>7. Same(t, u)
    BY <1>1, <2>2 DEF Same
  <2> QED
    BY <2>2, <2>6, <2>7
<1>8. ASSUME a <= n, q = <<>> => a = n, q # <<>> => q[1].seqno <= a
      PROVE  AckInFirst(kept, a, n)
  <2>1. CASE kept = <<>>
    <3>0. Len(kept) = 0
      BY <2>1
    <3>1. m = L
      BY <1>1, <1>4, <1>5, <3>0
    <3>2. CASE L = 0
      <4>1. q = <<>>
        BY <1>1, <3>2
      <4> QED
        BY <1>8, <2>1, <4>1 DEF AckInFirst
    <3>3. CASE L > 0
      <4>1. L \in 1 .. L /\ L \in 1 .. m
        BY <1>1, <3>1, <3>3
      <4>2. EndOf(q[L]) = n /\ EndOf(q[L]) <= a
        BY <1>1, <1>4, <4>1 DEF Tiled
      <4>3. a = n
        BY <1>1, <1>8, <4>2
      <4> QED
        BY <2>1, <4>3 DEF AckInFirst
    <3> QED
      BY <1>1, <3>2, <3>3
  <2>2. CASE kept # <<>>
    <3>1. m < L /\ 1 \in 1 .. Len(kept)
      BY <1>1, <1>4, <1>5, <2>2
    <3>2. kept[1] = q[m + 1] /\ EndOf(q[m + 1]) > a
      BY <1>4, <1>5, <3>1
    <3>3. q[m + 1] \in Kept /\ q # <<>>
      BY <1>1, <1>4, <3>1
    <3>4. EndOf(q[m + 1]) \in Nat /\ q[m + 1].seqno \in Nat
      BY <3>3, KeptEnd
    <3>5. q[m + 1].seqno <= a
      <4>1. CASE m = 0
        BY <1>8, <3>3, <4>1
      <4>2. CASE m > 0
        <5>1. m \in 1 .. L /\ m # L /\ m \in 1 .. m
          BY <1>1, <1>4, <3>1, <4>2
        <5>2. EndOf(q[m]) = q[m + 1].seqno
          BY <1>1, <5>1 DEF Tiled
        <5> QED
          BY <1>4, <5>1, <5>2
      <4> QED
        BY <1>4, <4>1, <4>2
    <3> QED
      BY <1>1, <2>2, <3>2, <3>4, <3>5 DEF AckInFirst
  <2> QED
    BY <2>1, <2>2
<1>9. u.outstanding = kept
  <2>1. CASE kept = q
    BY <1>2, <2>1
  <2>2. CASE kept # q
    <3>1. u = PopTo(t, kept)
      BY <1>2, <2>2
    <3> QED
      BY <1>1, <3>1 DEF PopTo, SenderType
  <2> QED
    BY <2>1, <2>2
<1>10. Good(u) /\ Same(t, u) /\ u.next_seqno = t.next_seqno
  BY <1>6, <1>7
<1> QED
  BY <1>8, <1>9, <1>10 DEF u

\* A sender that differs from a good one only in its window, its last ackno and
\* what it has put out is good.
LEMMA GoodAs ==
    ASSUME NEW t, NEW u \in SenderType, Good(t),
           u.stream = t.stream, u.timer = t.timer, u.next_seqno = t.next_seqno,
           u.outstanding = t.outstanding,
           u.retransmission_timeout = t.retransmission_timeout,
           u.consecutive_retransmissions = t.consecutive_retransmissions
    PROVE  Good(u)
  BY DEF Good, Timed

\* The sender as ack_received sets it before the queue is popped.
Acked(t, a, w) == [t EXCEPT !.window_size = w, !.abs_ackno = a]

IsAcked(t, u, a, w) ==
    /\ Good(u) /\ u.abs_ackno = a /\ u.window_size = w
    /\ u.next_seqno = t.next_seqno /\ u.outstanding = t.outstanding
    /\ u.stream = t.stream

LEMMA AckedFields ==
    ASSUME NEW t, Good(t), NEW a \in Nat, NEW w \in Nat
    PROVE  IsAcked(t, Acked(t, a, w), a, w)
<1> DEFINE u == Acked(t, a, w)
<1>1. t \in SenderType
  BY DEF Good
<1>2. /\ u \in SenderType /\ u.stream = t.stream /\ u.timer = t.timer
      /\ u.next_seqno = t.next_seqno /\ u.outstanding = t.outstanding
      /\ u.retransmission_timeout = t.retransmission_timeout
      /\ u.consecutive_retransmissions = t.consecutive_retransmissions
      /\ u.abs_ackno = a /\ u.window_size = w
  BY Zenon, <1>1 DEF Acked, SenderType
<1> HIDE DEF u
<1>3. Good(u)
  BY <1>2, GoodAs
<1> QED
  BY <1>2, <1>3 DEF u, IsAcked

LEMMA WindowFields ==
    ASSUME NEW t, Good(t), NEW w \in Nat
    PROVE  LET u == [t EXCEPT !.window_size = w]
           IN  /\ Good(u) /\ u.abs_ackno = t.abs_ackno /\ u.window_size = w
               /\ u.next_seqno = t.next_seqno /\ u.stream = t.stream
               /\ \A a : [u EXCEPT !.abs_ackno = a] = Acked(t, a, w)
<1> DEFINE u == [t EXCEPT !.window_size = w]
<1>1. t \in SenderType
  BY DEF Good
<1>2. /\ u \in SenderType /\ u.stream = t.stream /\ u.timer = t.timer
      /\ u.next_seqno = t.next_seqno /\ u.outstanding = t.outstanding
      /\ u.retransmission_timeout = t.retransmission_timeout
      /\ u.consecutive_retransmissions = t.consecutive_retransmissions
      /\ u.abs_ackno = t.abs_ackno /\ u.window_size = w
  BY Zenon, <1>1 DEF SenderType
<1>3. \A a : [u EXCEPT !.abs_ackno = a] = Acked(t, a, w)
  BY DEF Acked
<1> HIDE DEF u
<1>4. Good(u)
  BY <1>2, GoodAs
<1> QED
  BY Zenon, <1>2, <1>3, <1>4 DEF u

\* ack_received in terms of the number that unwrap makes of the ackno.
LEMMA AckReceived ==
    ASSUME NEW t, Good(t), NEW x \in Nat, NEW w \in Nat,
           NEW a, a = unwrap(wrap(x, ISN), ISN, t.abs_ackno + 1)
    PROVE  ack_received(t, wrap(x, ISN), w) =
              IF a > t.next_seqno THEN [t EXCEPT !.window_size = w]
              ELSE fill_window(PopAcknowledged(Acked(t, a, w)))
<1> DEFINE u == [t EXCEPT !.window_size = w]
<1>1. t.isn = ISN
  BY SenderFields DEF Good
<1>2. u.next_seqno = t.next_seqno /\ \A n : [u EXCEPT !.abs_ackno = n] = Acked(t, n, w)
  BY Zenon, WindowFields
<1>3. ack_received(t, wrap(x, ISN), w) =
         IF a > u.next_seqno THEN u ELSE fill_window(PopAcknowledged([u EXCEPT !.abs_ackno = a]))
  BY <1>1 DEF ack_received
<1> HIDE DEF u
<1> QED
  BY <1>2, <1>3 DEF u

\* What no acknowledgement changes.
KeptByAck(t, u) ==
    /\ u.next_seqno >= t.next_seqno
    /\ u.stream.bytes_written = t.stream.bytes_written
    /\ u.stream.input_ended = t.stream.input_ended

\* Any acknowledgement keeps the sender good.
LEMMA AckGood ==
    ASSUME NEW t, Good(t), NEW x \in Nat, NEW w \in Nat
    PROVE  /\ Good(ack_received(t, wrap(x, ISN), w))
           /\ KeptByAck(t, ack_received(t, wrap(x, ISN), w))
<1> DEFINE c == t.abs_ackno + 1
           a == unwrap(wrap(x, ISN), ISN, c)
           v == [t EXCEPT !.window_size = w]
           y == Acked(t, a, w)
           p == PopAcknowledged(y)
           r == ack_received(t, wrap(x, ISN), w)
<1>1. t \in SenderType /\ c \in Nat /\ t.next_seqno \in Nat
  <2>1. t \in SenderType
    BY DEF Good
  <2> QED
    BY <2>1, SenderFields
<1>2. a \in Nat
  <2> HIDE DEF c
  <2> QED
    BY <1>1, UnwrapNat
<1>3. r = IF a > t.next_seqno THEN v ELSE fill_window(p)
  BY AckReceived
<1>4. Good(v) /\ v.next_seqno = t.next_seqno /\ v.stream = t.stream
  BY Zenon, WindowFields
<1> HIDE DEF a
<1>5. Good(y) /\ y.next_seqno = t.next_seqno /\ y.stream = t.stream
  BY <1>2, AckedFields DEF IsAcked
<1> HIDE DEF y, v
<1>6. Good(p) /\ Same(y, p)
  BY <1>5, PopGood
<1> HIDE DEF p
<1>7. Good(fill_window(p)) /\ Same(p, fill_window(p))
  BY <1>6, FillGood
<1> DEFINE z == fill_window(p)
<1> HIDE DEF z, r
<1>8. KeptByAck(t, z)
  <2>1. y \in SenderType /\ p \in SenderType /\ z \in SenderType
    BY <1>5, <1>6, <1>7 DEF Good, z
  <2>2. y.next_seqno \in Nat /\ p.next_seqno \in Nat /\ z.next_seqno \in Nat
    BY <2>1, SenderFields
  <2> QED
    BY <1>5, <1>6, <1>7, <2>2 DEF Same, KeptByAck, z
<1>9. KeptByAck(t, v)
  BY <1>1, <1>4 DEF KeptByAck
<1>10. r = v \/ r = z
  BY <1>3 DEF z
<1>11. Good(r) /\ KeptByAck(t, r)
  BY <1>4, <1>7, <1>8, <1>9, <1>10 DEF z
<1> QED
  BY <1>11 DEF r

\* An acknowledgement that is not older than the last one, nor ahead of what
\* was sent, and whose window does not end before the last one's, is read
\* exactly, and the sender fits the new window.
LEMMA AckFits ==
    ASSUME NEW t, Good(t), Fits(t), NEW x \in Nat, NEW w \in Nat,
           t.abs_ackno <= x, x <= t.next_seqno,
           t.next_seqno <= x + (IF w = 0 THEN 1 ELSE w), w + 1 < UINT64_MOD,
           2 < WRAP_MOD, 2 * (EffectiveWindow(t) - 1) < WRAP_MOD
    PROVE  LET r == ack_received(t, wrap(x, ISN), w)
           IN  Fits(r) /\ r.abs_ackno = x /\ r.window_size = w
<1> DEFINE c == t.abs_ackno + 1
           y == Acked(t, x, w)
           p == PopAcknowledged(y)
           z == fill_window(p)
           e == EffectiveWindow(t)
<1>1. /\ t \in SenderType /\ t.abs_ackno \in Nat /\ c \in Nat /\ t.next_seqno \in Nat
      /\ e \in Nat /\ t.outstanding \in Seq(Kept)
  <2>1. t \in SenderType
    BY DEF Good
  <2> QED
    BY <2>1, SenderFields DEF EffectiveWindow
<1>2. unwrap(wrap(x, ISN), ISN, c) = x
  <2>1. t.next_seqno <= t.abs_ackno + e
    BY DEF Fits
  <2>2. 2 * Distance(x, c) < WRAP_MOD
    <3> HIDE DEF e
    <3>1. CASE x > c
      <4>1. x - c <= e - 1
        BY <1>1, <2>1, <3>1
      <4> QED
        BY <1>1, <3>1, <4>1 DEF Distance, e
    <3>2. CASE x <= c
      <4>1. c - x <= 1 /\ ~(x > c)
        BY <1>1, <3>2
      <4> QED
        BY <1>1, <3>2, <4>1 DEF Distance
    <3> QED
      BY <1>1, <3>1, <3>2
  <2> HIDE DEF c
  <2> QED
    BY <1>1, <2>2, UnwrapExact
<1>3. ack_received(t, wrap(x, ISN), w) = z
  <2>1. ~(x > t.next_seqno)
    BY <1>1
  <2> QED
    BY <1>2, <2>1, AckReceived
<1>4. /\ Good(y) /\ y.abs_ackno = x /\ y.window_size = w
      /\ y.next_seqno = t.next_seqno /\ y.outstanding = t.outstanding
  <2>1. IsAcked(t, y, x, w)
    BY AckedFields
  <2> HIDE DEF y
  <2> QED
    BY <2>1 DEF IsAcked
<1> HIDE DEF y
<1>5. /\ y.abs_ackno <= y.next_seqno
      /\ y.outstanding = <<>> => y.abs_ackno = y.next_seqno
      /\ y.outstanding # <<>> => y.outstanding[1].seqno <= y.abs_ackno
  <2>1. CASE t.outstanding = <<>>
    <3>1. t.abs_ackno = t.next_seqno
      BY <2>1 DEF Fits, AckInFirst
    <3> QED
      BY <1>1, <1>4, <2>1, <3>1
  <2>2. CASE t.outstanding # <<>>
    <3>1. t.outstanding[1].seqno <= t.abs_ackno
      BY <2>2 DEF Fits, AckInFirst
    <3>2. t.outstanding[1] \in Kept
      BY <1>1, <2>2
    <3>3. t.outstanding[1].seqno \in Nat
      BY <3>2, KeptEnd
    <3>4. t.abs_ackno \in Nat /\ x \in Nat /\ t.abs_ackno <= x
      BY <1>1
    <3>5. t.outstanding[1].seqno <= x
      BY <3>1, <3>3, <3>4
    <3> QED
      BY <1>4, <2>2, <3>5
  <2> QED
    BY <2>1, <2>2
<1>6. /\ Good(p) /\ Same(y, p) /\ p.next_seqno = y.next_seqno
      /\ AckInFirst(p.outstanding, y.abs_ackno, y.next_seqno)
  BY <1>4, <1>5, PopGood
<1> HIDE DEF p
<1>7. Fits(p)
  <2>1. p.abs_ackno = x /\ p.window_size = w /\ p.next_seqno = t.next_seqno
    BY <1>4, <1>6 DEF Same
  <2>2. EffectiveWindow(p) = IF w = 0 THEN 1 ELSE w
    BY <2>1 DEF EffectiveWindow
  <2>3. AckInFirst(p.outstanding, p.abs_ackno, p.next_seqno)
    BY <1>4, <1>6, <2>1
  <2>4. p.next_seqno <= p.abs_ackno + EffectiveWindow(p)
    BY <2>1, <2>2
  <2>5. EffectiveWindow(p) < UINT64_MOD
    BY <2>2
  <2> QED
    BY <2>3, <2>4, <2>5 DEF Fits
<1>8. Fits(z) /\ Same(p, z)
  BY <1>6, <1>7, FillGood
<1>9. z.abs_ackno = x /\ z.window_size = w
  BY <1>4, <1>6, <1>8 DEF Same
<1> QED
  BY <1>3, <1>8, <1>9

-----------------------------------------------------------------------------
(* The clock, the writer and the network                                   *)

\* What tick and the network leave alone.
KeptByTick(t, u) ==
    /\ u.abs_ackno = t.abs_ackno /\ u.window_size = t.window_size
    /\ u.next_seqno = t.next_seqno /\ u.outstanding = t.outstanding /\ u.stream = t.stream

LEMMA FitsAs ==
    ASSUME NEW t, NEW u, KeptByTick(t, u), Fits(t)
    PROVE  Fits(u)
  BY DEF KeptByTick, Fits, EffectiveWindow

\* A sender with another timer, and backoff, for the same queue.
LEMMA RetimedGood ==
    ASSUME NEW t, Good(t), NEW u, NEW out \in Seq(Segment), NEW timer \in TimerType,
           NEW k \in Nat, NEW rto \in Nat,
           u = [t EXCEPT !.segments_out = out, !.timer = timer,
                         !.consecutive_retransmissions = k, !.retransmission_timeout = rto],
           timer.active <=> t.outstanding # <<>>, rto = Backoff(k),
           timer.active => /\ ~timer.expired /\ timer.timeout = rto
                           /\ timer.current_time < timer.timeout
    PROVE  Good(u) /\ KeptByTick(t, u)
<1>1. t \in SenderType
  BY DEF Good
<1>2. /\ u \in SenderType /\ u.timer = timer /\ u.consecutive_retransmissions = k
      /\ u.retransmission_timeout = rto /\ u.abs_ackno = t.abs_ackno
      /\ u.window_size = t.window_size /\ u.next_seqno = t.next_seqno
      /\ u.outstanding = t.outstanding /\ u.stream = t.stream
  BY Zenon, <1>1 DEF SenderType
<1>3. Timed(u)
  BY <1>2 DEF Timed
<1> QED
  BY <1>2, <1>3 DEF Good, KeptByTick

\* A tick restarts the timer whenever it expires.
LEMMA TickGood ==
    ASSUME NEW t, Good(t)
    PROVE  Good(TCPSender_tick(t, 1)) /\ KeptByTick(t, TCPSender_tick(t, 1))
<1> DEFINE timer == t.timer
           k == t.consecutive_retransmissions
           rto == t.retransmission_timeout
           tm == Timer_update(timer, 1)
           v == [t EXCEPT !.timer = tm]
           o == Head(t.outstanding)
           seg == [o.seg EXCEPT !.seqno = wrap(o.seqno, t.isn)]
           out == Append(t.segments_out, seg)
           u == TCPSender_tick(t, 1)
<1>1. t \in SenderType /\ Timed(t)
  BY DEF Good
<1>2. /\ timer \in TimerType /\ k \in Nat /\ rto \in Nat /\ t.outstanding \in Seq(Kept)
      /\ t.segments_out \in Seq(Segment) /\ t.isn = ISN /\ t.window_size \in Nat
  BY <1>1, SenderFields
<1>3. rto = Backoff(k) /\ rto > 0 /\ Backoff(k + 1) = 2 * rto
  BY Zenon, <1>1, <1>2, BackoffDoubles DEF Timed
<1>4. timer.current_time \in Nat /\ timer.timeout \in Nat /\ timer.active \in BOOLEAN
  BY <1>2 DEF TimerType
<1>5. CASE ~timer.active
  <2>1. tm = timer
    BY <1>5 DEF Timer_update
  <2>2. v = [t EXCEPT !.segments_out = t.segments_out, !.timer = timer,
                      !.consecutive_retransmissions = k, !.retransmission_timeout = rto]
    BY Zenon, <1>1, <2>1 DEF SenderType
  <2>3. v.timer = timer
    BY <1>1, <2>1 DEF SenderType
  <2>4. u = v
    BY <1>5, <2>3 DEF TCPSender_tick
  <2>5. timer.active <=> t.outstanding # <<>>
    BY <1>1 DEF Timed
  <2> HIDE DEF u, v, timer, k, rto
  <2> QED
    BY Zenon, <1>2, <1>3, <1>5, <2>2, <2>4, <2>5, RetimedGood DEF u
<1>6. CASE timer.active
  <2>1. /\ ~timer.expired /\ timer.timeout = rto /\ timer.current_time < rto
        /\ t.outstanding # <<>>
    BY <1>1, <1>6 DEF Timed
  <2>2. tm = [timer EXCEPT !.current_time = timer.current_time + 1,
                           !.expired = timer.expired \/ timer.current_time + 1 >= timer.timeout]
    BY <1>6 DEF Timer_update
  <2>3. /\ tm \in TimerType /\ tm.active /\ (tm.expired <=> timer.current_time + 1 >= rto)
        /\ tm.timeout = rto /\ tm.current_time = timer.current_time + 1
    <3> DEFINE x == timer.expired \/ timer.current_time + 1 >= timer.timeout
               d == timer.current_time + 1
    <3>1. x \in BOOLEAN /\ d \in Nat /\ (x <=> d >= rto)
      BY <1>4, <2>1
    <3>2. tm = [timer EXCEPT !.current_time = d, !.expired = x]
      BY <2>2
    <3> HIDE DEF x, d, tm
    <3>3. /\ tm \in TimerType /\ tm.active = timer.active /\ tm.expired = x
          /\ tm.timeout = timer.timeout /\ tm.current_time = d
      BY Zenon, <1>2, <3>1, <3>2 DEF TimerType
    <3> QED
      BY <1>6, <2>1, <3>1, <3>3 DEF d
  <2>4. /\ v.timer = tm /\ v.outstanding = t.outstanding /\ v.window_size = t.window_size
        /\ v.retransmission_timeout = rto /\ v.isn = t.isn
        /\ v.consecutive_retransmissions = k /\ v.segments_out = t.segments_out
    BY <1>1 DEF SenderType
  <2>5. CASE ~tm.expired
    <3>1. u = v
      BY <2>4, <2>5 DEF TCPSender_tick
    <3>2. v = [t EXCEPT !.segments_out = t.segments_out, !.timer = tm,
                        !.consecutive_retransmissions = k, !.retransmission_timeout = rto]
      <4> HIDE DEF tm
      <4> QED
        BY Zenon, <1>1 DEF SenderType
    <3>3. tm.current_time < tm.timeout
      BY <1>2, <1>4, <2>1, <2>3, <2>5
    <3>4. u = [t EXCEPT !.segments_out = t.segments_out, !.timer = tm,
                        !.consecutive_retransmissions = k, !.retransmission_timeout = rto]
      BY <3>1, <3>2
    <3>5. (tm.active <=> t.outstanding # <<>>) /\ tm \in TimerType /\ ~tm.expired /\ tm.timeout = rto
      BY <2>1, <2>3, <2>5
    <3> HIDE DEF u, v, timer, k, rto, tm
    <3> QED
      BY Zenon, <1>2, <1>3, <3>3, <3>4, <3>5, RetimedGood DEF u
  <2>6. CASE tm.expired
    <3>1. o \in Kept /\ out \in Seq(Segment)
      <4>1. o \in Kept
        BY <1>2, <2>1
      <4>2. o.seqno \in Nat /\ o.seg \in Segment
        BY <4>1 DEF Kept
      <4>3. wrap(o.seqno, t.isn) \in WrappingInt32
        BY <1>2, <4>2, OffsetOfWrap
      <4>4. seg \in Segment
        BY Zenon, <4>2, <4>3 DEF Segment
      <4> QED
        BY <1>2, <4>1, <4>4
    <3> DEFINE w == t.window_size > 0
               k2 == IF w THEN k + 1 ELSE k
               rto2 == IF w THEN 2 * rto ELSE rto
               tm2 == Timer_start(rto2)
               re == Retransmit(v)
    <3>2. /\ k2 \in Nat /\ rto2 \in Nat /\ rto2 > 0 /\ rto2 = Backoff(k2)
      BY <1>2, <1>3
    <3>3. /\ tm2 \in TimerType /\ tm2.active /\ ~tm2.expired /\ tm2.timeout = rto2
          /\ tm2.current_time < tm2.timeout
      BY <3>2 DEF Timer_start, TimerType
    <3>4. re = [v EXCEPT !.segments_out = out, !.consecutive_retransmissions = k2,
                         !.retransmission_timeout = rto2]
      <4> DEFINE x == [v EXCEPT !.segments_out = out]
      <4>1. x = [v EXCEPT !.segments_out = Append(@, [Head(v.outstanding).seg EXCEPT
                              !.seqno = wrap(Head(v.outstanding).seqno, v.isn)])]
        BY <2>4
      <4>2. re = IF v.window_size > 0
                 THEN [x EXCEPT !.consecutive_retransmissions = @ + 1,
                                !.retransmission_timeout = 2 * @]
                 ELSE x
        BY <4>1 DEF Retransmit
      <4>3. v = [t EXCEPT !.timer = tm]
        OBVIOUS
      <4> HIDE DEF out, tm, re, v
      <4>4. v \in SenderType
        BY Zenon, <1>1, <2>3, <4>3 DEF SenderType
      <4>5. CASE w
        <5>1. re = [x EXCEPT !.consecutive_retransmissions = @ + 1,
                             !.retransmission_timeout = 2 * @]
          BY <2>4, <4>2, <4>5
        <5>2. k2 = k + 1 /\ rto2 = 2 * rto
          BY <4>5
        <5> HIDE DEF k2, rto2, k, rto
        <5> QED
          BY Zenon, <2>4, <4>4, <5>1, <5>2 DEF SenderType
      <4>6. CASE ~w
        <5>1. re = x
          BY <2>4, <4>2, <4>6
        <5>2. k2 = k /\ rto2 = rto
          BY <4>6
        <5> HIDE DEF k2, rto2, k, rto
        <5> QED
          BY Zenon, <2>4, <4>4, <5>1, <5>2 DEF SenderType
      <4> QED
        BY <4>5, <4>6
    <3>5. u = [re EXCEPT !.timer = Timer_start(re.retransmission_timeout)]
      BY <2>1, <2>3, <2>4, <2>6 DEF TCPSender_tick
    <3> HIDE DEF re, out, k2, rto2, tm2
    <3>6. u = [t EXCEPT !.segments_out = out, !.timer = tm2,
                        !.consecutive_retransmissions = k2, !.retransmission_timeout = rto2]
      <4>1. re.retransmission_timeout = rto2
        BY <1>1, <3>4 DEF SenderType
      <4>2. u = [re EXCEPT !.timer = tm2]
        BY <3>5, <4>1 DEF tm2
      <4> HIDE DEF u, tm
      <4> QED
        BY Zenon, <1>1, <3>4, <4>2 DEF SenderType
    <3> HIDE DEF u
    <3> QED
      BY Zenon, <2>1, <3>1, <3>2, <3>3, <3>6, RetimedGood DEF u
  <2> QED
    BY <2>5, <2>6
<1> QED
  BY <1>4, <1>5, <1>6

LEMMA BytesSeq ==
    ASSUME NEW w \in Nat, NEW len \in Nat
    PROVE  /\ Bytes(w, len) \in Seq(Nat) /\ Len(Bytes(w, len)) = len
           /\ \A i \in 1 .. len : Bytes(w, len)[i] = w + i - 1
<1> DEFINE f == Bytes(w, len)
<1>1. f \in [1 .. len -> Nat] /\ \A i \in 1 .. len : f[i] = w + i - 1
  BY DEF Bytes
<1> HIDE DEF f
<1>2. f \in Seq(Nat) /\ Len(f) = len
  BY <1>1
<1> QED
  BY <1>1, <1>2 DEF f

\* A write adds bytes at the end of the buffer, and only before the FIN.
LEMMA WriteGood ==
    ASSUME NEW t, Good(t), ~t.stream.input_ended, NEW len \in Nat,
           NEW c, c = write(t.stream, Bytes(t.stream.bytes_written, len)),
           NEW u, u = [t EXCEPT !.stream = c]
    PROVE  /\ Good(u) /\ u.abs_ackno = t.abs_ackno /\ u.window_size = t.window_size
           /\ u.next_seqno = t.next_seqno /\ u.outstanding = t.outstanding
<1> DEFINE b == t.stream
           data == Bytes(b.bytes_written, len)
<1>1. t \in SenderType /\ Holds(b) /\ InStep(t.next_seqno, b) /\ Timed(t)
      /\ Tiled(t.outstanding, t.next_seqno, b)
  BY DEF Good
<1>2. b \in StreamType(Nat, Nat) /\ b.bytes_written \in Nat
  BY <1>1, SenderFields
<1>3. /\ data \in Seq(Nat) /\ Len(data) = len
      /\ \A i \in 1 .. len : data[i] = b.bytes_written + i - 1
  BY Zenon, <1>2, BytesSeq
<1>4. c = write(b, data) /\ ~b.input_ended
  OBVIOUS
<1> HIDE DEF b, data
<1>5. Wrote(b, c, Accepted(b, len)) /\ Holds(c)
  BY Zenon, <1>1, <1>2, <1>3, <1>4, WriteHolds
<1>6. ~eof(b)
  BY <1>4 DEF eof
<1>7. InStep(t.next_seqno, c)
  BY <1>1, <1>5, <1>6 DEF InStep, Wrote
<1>8. Tiled(t.outstanding, t.next_seqno, c)
  <2>1. ASSUME NEW o, Piece(o, b) PROVE Piece(o, c)
    BY <1>4, <2>1 DEF Piece
  <2> QED
    BY <1>1, <2>1 DEF Tiled
<1>9. /\ u \in SenderType /\ u.stream = c /\ u.timer = t.timer
      /\ u.next_seqno = t.next_seqno /\ u.outstanding = t.outstanding
      /\ u.retransmission_timeout = t.retransmission_timeout
      /\ u.consecutive_retransmissions = t.consecutive_retransmissions
      /\ u.abs_ackno = t.abs_ackno /\ u.window_size = t.window_size
  <2>1. c \in StreamType(Nat, Nat)
    BY <1>5 DEF Wrote
  <2> QED
    BY Zenon, <1>1, <2>1 DEF SenderType
<1>10. Timed(u)
  BY <1>1, <1>9 DEF Timed
<1> QED
  BY <1>5, <1>7, <1>8, <1>9, <1>10 DEF Good

LEMMA EndGood ==
    ASSUME NEW t, Good(t), NEW u, u = [t EXCEPT !.stream = end_input(@)]
    PROVE  /\ Good(u) /\ u.abs_ackno = t.abs_ackno /\ u.window_size = t.window_size
           /\ u.next_seqno = t.next_seqno /\ u.outstanding = t.outstanding
<1> DEFINE b == t.stream
           c == end_input(b)
<1>1. t \in SenderType /\ Holds(b) /\ InStep(t.next_seqno, b) /\ Timed(t)
      /\ Tiled(t.outstanding, t.next_seqno, b)
  BY DEF Good
<1>2. b \in StreamType(Nat, Nat)
  BY <1>1, SenderFields
<1>3. /\ c \in StreamType(Nat, Nat) /\ c.buffer = b.buffer /\ c.input_ended = TRUE
      /\ c.bytes_written = b.bytes_written /\ c.bytes_read = b.bytes_read
  BY Zenon, <1>2 DEF end_input, StreamType
<1>4. u = [t EXCEPT !.stream = c]
  OBVIOUS
<1> HIDE DEF b, c
<1>5. Holds(c)
  BY <1>1, <1>3 DEF Holds
<1>6. InStep(t.next_seqno, c)
  BY <1>1, <1>3 DEF InStep, eof, buffer_empty
<1>7. Tiled(t.outstanding, t.next_seqno, c)
  <2>1. ASSUME NEW o, Piece(o, b) PROVE Piece(o, c)
    BY <1>3, <2>1 DEF Piece
  <2> QED
    BY <1>1, <2>1 DEF Tiled
<1>8. /\ u \in SenderType /\ u.stream = c /\ u.timer = t.timer
      /\ u.next_seqno = t.next_seqno /\ u.outstanding = t.outstanding
      /\ u.retransmission_timeout = t.retransmission_timeout
      /\ u.consecutive_retransmissions = t.consecutive_retransmissions
      /\ u.abs_ackno = t.abs_ackno /\ u.window_size = t.window_size
  BY Zenon, <1>1, <1>3, <1>4 DEF SenderType
<1>9. Timed(u)
  BY <1>1, <1>8 DEF Timed
<1> QED
  BY <1>5, <1>6, <1>7, <1>8, <1>9 DEF Good

\* The network takes what the sender has put out.
LEMMA EmitGood ==
    ASSUME NEW t, Good(t), NEW u, u = [t EXCEPT !.segments_out = <<>>]
    PROVE  Good(u) /\ KeptByTick(t, u)
<1>1. t \in SenderType
  BY DEF Good
<1>2. /\ u \in SenderType /\ u.stream = t.stream /\ u.timer = t.timer
      /\ u.next_seqno = t.next_seqno /\ u.outstanding = t.outstanding
      /\ u.retransmission_timeout = t.retransmission_timeout
      /\ u.consecutive_retransmissions = t.consecutive_retransmissions
      /\ u.abs_ackno = t.abs_ackno /\ u.window_size = t.window_size
  <2> DEFINE e == <<>>
  <2>1. e \in Seq(Segment) /\ u = [t EXCEPT !.segments_out = e]
    OBVIOUS
  <2> HIDE DEF e
  <2> QED
    BY Zenon, <1>1, <2>1 DEF SenderType
<1> QED
  BY Zenon, <1>2, GoodAs DEF KeptByTick

-----------------------------------------------------------------------------
(* The inductive invariant                                                 *)

LEMMA InitIInv == Init => IInv
<1> SUFFICES ASSUME Init PROVE IInv
  OBVIOUS
<1> DEFINE e == <<>>
<1>1. /\ s = [isn |-> ISN, segments_out |-> e, initial_retransmission_timeout |-> RTO,
              stream |-> NewStream(SendCapacity), timer |-> StoppedTimer, next_seqno |-> 0,
              abs_ackno |-> 0, window_size |-> 1, outstanding |-> e,
              retransmission_timeout |-> RTO, consecutive_retransmissions |-> 0]
      /\ e \in Seq(Segment) /\ e \in Seq(Kept) /\ e \in Seq(Nat) /\ Len(e) = 0
  BY DEF Init, NewSender
<1> HIDE DEF e
<1>2. /\ NewStream(SendCapacity) \in StreamType(Nat, Nat) /\ Holds(NewStream(SendCapacity))
      /\ NewStream(SendCapacity).bytes_read = 0
  BY <1>1 DEF NewStream, StreamType, Holds, e
<1>3. StoppedTimer \in TimerType /\ StoppedTimer.active = FALSE
  BY DEF StoppedTimer, TimerType
<1>4. /\ s \in SenderType /\ s.next_seqno = 0 /\ s.abs_ackno = 0 /\ s.window_size = 1
      /\ s.outstanding = e /\ s.retransmission_timeout = RTO
      /\ s.consecutive_retransmissions = 0 /\ s.timer = StoppedTimer
      /\ s.stream = NewStream(SendCapacity)
  BY Zenon, <1>1, <1>2, <1>3 DEF SenderType
<1>5. Timed(s)
  BY Zenon, <1>3, <1>4, BackoffDoubles DEF Timed, e
<1>6. InStep(s.next_seqno, s.stream)
  BY <1>2, <1>4 DEF InStep
<1>7. Tiled(s.outstanding, s.next_seqno, s.stream)
  BY <1>1, <1>4 DEF Tiled
<1>8. Good(s)
  BY <1>2, <1>4, <1>5, <1>6, <1>7 DEF Good
<1>9. EffectiveWindow(s) = 1
  BY <1>4 DEF EffectiveWindow
<1>10. Fits(s)
  BY <1>4, <1>9 DEF Fits, AckInFirst, e
<1>11. peer_next = 0 /\ peer_edge = 1 /\ acks = {} /\ late = FALSE
  BY DEF Init
<1>12. PeerType
  <2>1. acks \subseteq {a \in Nat \X Nat : a[1] <= a[2]}
    BY <1>11
  <2>2. peer_next <= s.next_seqno /\ ~(peer_next > 0)
    BY <1>4, <1>11
  <2> QED
    BY Zenon, <1>11, <2>1, <2>2 DEF PeerType
<1>13. InOrder
  BY <1>4, <1>10, <1>11 DEF InOrder
<1> QED
  BY <1>8, <1>12, <1>13 DEF IInv

\* A step of the application or the clock, which lets the peer and the last
\* acknowledgement be.
LEMMA OwnStep ==
    ASSUME IInv, Good(s'), Fits(s) => Fits(s'), s'.abs_ackno = s.abs_ackno,
           s'.window_size = s.window_size, s'.next_seqno >= s.next_seqno,
           UNCHANGED <<peer_next, peer_edge, acks, late>>
    PROVE  IInv'
<1>1. s \in SenderType /\ s' \in SenderType
  BY DEF IInv, Good
<1>2. s.next_seqno \in Nat /\ s'.next_seqno \in Nat
  BY <1>1, SenderFields
<1>3. PeerType'
  BY <1>2 DEF IInv, PeerType
<1>4. (~late => InOrder)'
  BY DEF IInv, InOrder
<1> QED
  BY <1>3, <1>4 DEF IInv

\* The window and the filling of the space behind a change that keeps Good.
LEMMA FilledStep ==
    ASSUME NEW t, Good(t), t.abs_ackno = s.abs_ackno, t.window_size = s.window_size,
           t.next_seqno = s.next_seqno, t.outstanding = s.outstanding,
           IInv, Emit(fill_window(t)), UNCHANGED <<peer_next, peer_edge, acks, late>>
    PROVE  IInv'
<1> DEFINE f == fill_window(t)
<1>1. Good(f) /\ Same(t, f) /\ (Fits(t) => Fits(f))
  BY FillGood
<1>2. s' = [f EXCEPT !.segments_out = <<>>]
  BY DEF Emit
<1> HIDE DEF f
<1>3. Good(s') /\ KeptByTick(f, s')
  BY <1>1, <1>2, EmitGood
<1>4. Fits(s) => Fits(t)
  BY DEF Fits, EffectiveWindow
<1>5. Fits(f) => Fits(s')
  BY <1>3, FitsAs
<1>6. /\ s'.abs_ackno = s.abs_ackno /\ s'.window_size = s.window_size
      /\ s'.next_seqno >= s.next_seqno
  BY <1>1, <1>3 DEF Same, KeptByTick
<1> QED
  BY <1>1, <1>3, <1>4, <1>5, <1>6, OwnStep

\* An acknowledgement of the number x with window w that keeps InOrder, or that
\* is late.
LEMMA AckStep ==
    ASSUME IInv, NEW x \in Nat, NEW w \in Nat, Emit(ack_received(s, wrap(x, ISN), w)),
           peer_next' = peer_next, peer_edge' = peer_edge
    PROVE  /\ Good(s') /\ s'.next_seqno >= s.next_seqno
           /\ (Fits(ack_received(s, wrap(x, ISN), w)) => Fits(s'))
           /\ s'.abs_ackno = ack_received(s, wrap(x, ISN), w).abs_ackno
           /\ s'.window_size = ack_received(s, wrap(x, ISN), w).window_size
<1> DEFINE r == ack_received(s, wrap(x, ISN), w)
<1>1. Good(s)
  BY DEF IInv
<1>2. Good(r) /\ KeptByAck(s, r)
  BY <1>1, AckGood
<1>3. s' = [r EXCEPT !.segments_out = <<>>]
  BY DEF Emit
<1> HIDE DEF r
<1>4. Good(s') /\ KeptByTick(r, s')
  BY <1>2, <1>3, EmitGood
<1>5. Fits(r) => Fits(s')
  BY <1>4, FitsAs
<1> QED
  BY Zenon, <1>2, <1>4, <1>5 DEF KeptByAck, KeptByTick, r

\* The peer's acknowledgement arrives in order.
LEMMA AckIInv ==
    ASSUME IInv, Ack, SenderWindow
    PROVE  IInv'
<1> DEFINE x == peer_next
           w == peer_edge - peer_next
           r == ack_received(s, wrap(x, ISN), w)
<1>0. Good(s) /\ s \in SenderType
  BY DEF IInv, Good
<1>1. /\ x \in Nat /\ x > 0 /\ peer_edge \in Nat /\ x <= peer_edge
      /\ peer_edge <= x + PeerCapacity /\ w \in Nat /\ w <= PeerCapacity
      /\ x <= s.next_seqno
  BY DEF IInv, PeerType, Ack
<1>2. /\ s.next_seqno \in Nat /\ s.abs_ackno \in Nat /\ s.window_size \in Nat
  BY <1>0, SenderFields
<1>3. /\ Emit(r) /\ acks' = acks \cup {<<peer_next, peer_edge>>}
      /\ peer_next' = peer_next /\ peer_edge' = peer_edge /\ late' = late
  BY DEF Ack
<1> DEFINE e == EffectiveWindow(s)
<1>4. ASSUME ~late
      PROVE  Fits(r) /\ r.abs_ackno = x /\ r.window_size = w
  <2>1. /\ Fits(s) /\ s.abs_ackno <= x /\ s.abs_ackno + s.window_size <= peer_edge
        /\ (s.window_size <= 1 \/ s.window_size <= PeerCapacity)
    BY <1>4 DEF IInv, InOrder
  <2>2. s.next_seqno <= s.abs_ackno + e
    BY <2>1 DEF Fits
  <2>3. e = IF s.window_size = 0 THEN 1 ELSE s.window_size
    BY DEF EffectiveWindow
  <2> HIDE DEF e
  <2>4. s.next_seqno <= x + (IF w = 0 THEN 1 ELSE w)
    <3>1. x + w = peer_edge
      BY <1>1
    <3>2. CASE s.window_size = 0
      BY <1>1, <1>2, <2>1, <2>2, <2>3, <3>2
    <3>3. CASE s.window_size > 0
      BY <1>1, <1>2, <2>1, <2>2, <2>3, <3>1, <3>3
    <3> QED
      BY <1>2, <3>2, <3>3
  <2>5. 2 < WRAP_MOD /\ 2 * (e - 1) < WRAP_MOD
    BY <1>2, <2>1, <2>3 DEF SenderWindow
  <2>6. w + 1 < UINT64_MOD
    BY <1>1
  <2> HIDE DEF w, x
  <2> QED
    BY <1>0, <1>1, <2>1, <2>4, <2>5, <2>6, AckFits DEF e
<1>5. /\ Good(s') /\ s'.next_seqno >= s.next_seqno /\ (Fits(r) => Fits(s'))
      /\ s'.abs_ackno = r.abs_ackno /\ s'.window_size = r.window_size
  <2> HIDE DEF w
  <2> QED
    BY <1>1, <1>3, AckStep
<1>6. s'.next_seqno \in Nat
  <2>1. s' \in SenderType
    BY <1>5 DEF Good
  <2> QED
    BY <2>1, SenderFields
<1> HIDE DEF r, w
<1>7. acks' \subseteq {a \in Nat \X Nat : a[1] <= a[2]}
  <2>1. acks \subseteq {a \in Nat \X Nat : a[1] <= a[2]}
    BY DEF IInv, PeerType
  <2> QED
    BY <1>1, <1>3, <2>1
<1>8. PeerType'
  <2>1. PeerType /\ x <= s'.next_seqno
    BY <1>1, <1>2, <1>5, <1>6 DEF IInv
  <2> QED
    BY <1>3, <1>7, <2>1 DEF PeerType
<1>9. (~late => InOrder)'
  <2> SUFFICES ASSUME ~late PROVE InOrder'
    BY <1>3
  <2>1. Fits(s') /\ s'.abs_ackno = x /\ s'.window_size = w
    BY <1>4, <1>5
  <2>2. x + w = peer_edge /\ x <= x
    BY <1>1 DEF w
  <2> QED
    BY <1>1, <1>3, <2>1, <2>2 DEF InOrder
<1> QED
  BY <1>5, <1>8, <1>9 DEF IInv

LEMMA LateIInv ==
    ASSUME IInv, NEW a \in acks, LateAck(a)
    PROVE  IInv'
<1> DEFINE x == a[1]
           w == a[2] - a[1]
<1>1. x \in Nat /\ w \in Nat
  <2>1. a \in Nat \X Nat /\ a[1] <= a[2]
    BY DEF IInv, PeerType
  <2> QED
    BY <2>1
<1>2. /\ Emit(ack_received(s, wrap(x, ISN), w)) /\ late' = TRUE
      /\ peer_next' = peer_next /\ peer_edge' = peer_edge /\ acks' = acks
  BY DEF LateAck
<1> HIDE DEF x, w
<1>3. Good(s') /\ s'.next_seqno >= s.next_seqno
  BY <1>1, <1>2, AckStep
<1>4. s \in SenderType /\ s' \in SenderType
  BY <1>3 DEF Good, IInv
<1>5. s.next_seqno \in Nat /\ s'.next_seqno \in Nat
  BY <1>4, SenderFields
<1>6. PeerType'
  BY <1>2, <1>3, <1>5 DEF IInv, PeerType
<1> QED
  BY <1>2, <1>3, <1>6 DEF IInv

LEMMA PeerIInv ==
    ASSUME IInv, (\E n \in 1 .. N + 2 : PeerTakes(n)) \/ PeerReads
    PROVE  IInv'
<1>1. s \in SenderType /\ s' = s /\ acks' = acks /\ late' = late
  BY DEF IInv, Good, PeerTakes, PeerReads
<1>2. /\ s.next_seqno \in Nat /\ s.abs_ackno \in Nat /\ s.window_size \in Nat
      /\ s.stream.bytes_written \in Nat
  BY <1>1, SenderFields
<1>3. PeerType
  BY DEF IInv
<1> DEFINE Moved == /\ peer_next' \in Nat /\ peer_edge' \in Nat
                    /\ peer_next' > 0 /\ peer_next' >= peer_next /\ peer_edge' >= peer_edge
                    /\ peer_next' <= peer_edge' /\ peer_edge' <= peer_next' + PeerCapacity
                    /\ peer_next' <= s.next_seqno
<1>4. ASSUME NEW n \in 1 .. N + 2, PeerTakes(n) PROVE Moved
  <2> DEFINE f == OneIf(AfterFin(n))
  <2>1. f \in {0, 1} /\ (f = 1 => n >= 2)
    BY <1>2 DEF OneIf, AfterFin
  <2>2. /\ n > peer_next /\ n <= s.next_seqno /\ n - f <= peer_edge /\ peer_next' = n
        /\ peer_edge' = (IF peer_next = 0 THEN 1 + PeerCapacity ELSE peer_edge) + f
    BY <1>4 DEF PeerTakes
  <2> HIDE DEF f
  <2>3. n \in Nat /\ peer_next \in Nat /\ peer_edge \in Nat
    BY <1>3 DEF PeerType
  <2>4. CASE peer_next = 0
    <3>1. peer_edge = 1 /\ peer_edge' = 1 + PeerCapacity + f
      BY <1>3, <2>2, <2>4 DEF PeerType
    <3> QED
      BY <2>1, <2>2, <2>3, <2>4, <3>1
  <2>5. CASE peer_next > 0
    <3>1. peer_edge <= peer_next + PeerCapacity /\ peer_edge' = peer_edge + f
      BY <1>3, <2>2, <2>3, <2>5 DEF PeerType
    <3> QED
      BY <2>1, <2>2, <2>3, <2>5, <3>1
  <2> QED
    BY <2>3, <2>4, <2>5
<1>5. ASSUME PeerReads PROVE Moved
  BY <1>2, <1>3, <1>5 DEF PeerReads, PeerType
<1>6. Moved
  BY <1>4, <1>5
<1>7. PeerType'
  BY <1>1, <1>2, <1>3, <1>6 DEF PeerType
<1>8. (~late => InOrder)'
  <2> SUFFICES ASSUME ~late PROVE InOrder'
    BY <1>1
  <2>1. InOrder
    BY DEF IInv
  <2>2. peer_next \in Nat /\ peer_edge \in Nat
    BY <1>3 DEF PeerType
  <2> QED
    BY <1>1, <1>2, <1>6, <2>1, <2>2 DEF InOrder
<1> QED
  BY <1>1, <1>7, <1>8 DEF IInv

USE SenderWindow

LEMMA SenderInvariant == Spec => []IInv
<1>1. IInv /\ [Next]_vars => IInv'
  <2> SUFFICES ASSUME IInv, [Next]_vars PROVE IInv'
    OBVIOUS
  <2>0. Good(s)
    BY DEF IInv
  <2>1. CASE Connect
    BY <2>0, <2>1, FilledStep DEF Connect
  <2>2. ASSUME NEW len \in 1 .. N, Write(len) PROVE IInv'
    <3> DEFINE u == [s EXCEPT !.stream = write(@, Bytes(s.stream.bytes_written, len))]
    <3>1. /\ ~s.stream.input_ended /\ len \in Nat /\ Emit(fill_window(u))
          /\ UNCHANGED <<peer_next, peer_edge, acks, late>>
      BY <2>2 DEF Write
    <3>2. /\ Good(u) /\ u.abs_ackno = s.abs_ackno /\ u.window_size = s.window_size
          /\ u.next_seqno = s.next_seqno /\ u.outstanding = s.outstanding
      BY <2>0, <3>1, WriteGood
    <3> HIDE DEF u
    <3> QED
      BY <3>1, <3>2, FilledStep
  <2>3. CASE EndInput
    <3> DEFINE u == [s EXCEPT !.stream = end_input(@)]
    <3>1. Emit(fill_window(u)) /\ UNCHANGED <<peer_next, peer_edge, acks, late>>
      BY <2>3 DEF EndInput
    <3>2. /\ Good(u) /\ u.abs_ackno = s.abs_ackno /\ u.window_size = s.window_size
          /\ u.next_seqno = s.next_seqno /\ u.outstanding = s.outstanding
      BY <2>0, EndGood
    <3> HIDE DEF u
    <3> QED
      BY <3>1, <3>2, FilledStep
  <2>4. CASE Tick
    <3> DEFINE u == TCPSender_tick(s, 1)
    <3>1. s' = [u EXCEPT !.segments_out = <<>>] /\ UNCHANGED <<peer_next, peer_edge, acks, late>>
      BY <2>4 DEF Tick, Emit
    <3>2. Good(u) /\ KeptByTick(s, u)
      BY <2>0, TickGood
    <3> HIDE DEF u
    <3>3. Good(s') /\ KeptByTick(u, s')
      BY <3>1, <3>2, EmitGood
    <3>4. Fits(s) => Fits(s')
      BY <3>2, <3>3, FitsAs
    <3>5. s.next_seqno \in Nat
      BY <2>0, SenderFields DEF Good
    <3>6. /\ s'.abs_ackno = s.abs_ackno /\ s'.window_size = s.window_size
          /\ s'.next_seqno >= s.next_seqno
      BY <3>2, <3>3, <3>5 DEF KeptByTick
    <3> QED
      BY <3>1, <3>3, <3>4, <3>6, OwnStep
  <2>5. CASE (\E n \in 1 .. N + 2 : PeerTakes(n)) \/ PeerReads
    BY <2>5, PeerIInv
  <2>6. CASE Ack
    BY <2>6, AckIInv
  <2>7. ASSUME NEW a \in acks, LateAck(a) PROVE IInv'
    BY <2>7, LateIInv
  <2>8. CASE UNCHANGED vars
    <3>1. /\ s' = s /\ peer_next' = peer_next /\ peer_edge' = peer_edge
          /\ acks' = acks /\ late' = late
      BY <2>8 DEF vars
    <3> QED
      BY <3>1 DEF IInv, PeerType, InOrder
  <2> QED
    BY <2>1, <2>2, <2>3, <2>4, <2>5, <2>6, <2>7, <2>8 DEF Next
<1> QED
  BY <1>1, InitIInv, PTL DEF Spec

(***************************************************************************)
(* Whatever writes, acknowledgements (in order or late) and timeouts come  *)
(* in, the outstanding queue tiles the sequence space that was sent and    *)
(* not acknowledged, with the right bytes, SYN and FIN in each segment     *)
(* (tcp_sender.cc:116-119, 145-150); and as long as no acknowledgement is  *)
(* overtaken, the last one is inside the oldest segment.                   *)
(***************************************************************************)
THEOREM SenderTiles == Spec => []OutstandingTiles
<1>1. IInv => OutstandingTiles
  <2> SUFFICES ASSUME IInv PROVE OutstandingTiles
    OBVIOUS
  <2> DEFINE q == s.outstanding
             b == s.stream
             n == s.next_seqno
             SynLen == OneIf(n > 0)
  <2>1. /\ s \in SenderType /\ Holds(b) /\ InStep(n, b) /\ Tiled(q, n, b)
    BY DEF IInv, Good
  <2>2. q \in Seq(Kept) /\ n \in Nat /\ b.bytes_read \in Nat /\ b.input_ended \in BOOLEAN
    BY <2>1, SenderFields
  <2>3. ASSUME NEW i \in 1 .. Len(q)
        PROVE  /\ EndOf(q[i]) = IF i = Len(q) THEN n ELSE q[i + 1].seqno
               /\ q[i].seg.syn <=> q[i].seqno = 0
               /\ q[i].seg.fin => EndOf(q[i]) = b.bytes_written + 2
               /\ q[i].seg.payload = Bytes(MaxOf(q[i].seqno, 1) - 1, Len(q[i].seg.payload))
    <3> DEFINE o == q[i]
               p == o.seg.payload
               m == MaxOf(o.seqno, 1)
    <3>1. EndOf(o) = (IF i = Len(q) THEN n ELSE q[i + 1].seqno) /\ Piece(o, b)
      BY <2>1 DEF Tiled
    <3>2. o \in Kept
      BY <2>2
    <3>3. o.seqno \in Nat /\ p \in Seq(Nat)
      <4>1. o.seqno \in Nat /\ o.seg \in Segment
        BY <3>2 DEF Kept
      <4> QED
        BY <4>1 DEF Segment
    <3>4. m \in Nat /\ m >= 1
      BY <3>3 DEF MaxOf
    <3>5. p = Bytes(m - 1, Len(p))
      <4>1. \A k \in 1 .. Len(p) : p[k] = m + k - 2
        BY <3>1 DEF Piece
      <4> HIDE DEF p, m
      <4> DEFINE f == Bytes(m - 1, Len(p))
      <4>2. m - 1 \in Nat /\ Len(p) \in Nat
        BY <3>3, <3>4
      <4>3. /\ f \in Seq(Nat) /\ Len(f) = Len(p)
            /\ \A k \in 1 .. Len(p) : f[k] = (m - 1) + k - 1
        <5> DEFINE w == m - 1
                   len == Len(p)
        <5>1. w \in Nat /\ len \in Nat
          BY <4>2
        <5> HIDE DEF w, len
        <5>2. /\ Bytes(w, len) \in Seq(Nat) /\ Len(Bytes(w, len)) = len
              /\ \A k \in 1 .. len : Bytes(w, len)[k] = w + k - 1
          BY Zenon, <5>1, BytesSeq
        <5> QED
          BY <5>2 DEF w, len
      <4>4. \A k \in 1 .. Len(p) : (m - 1) + k - 1 = m + k - 2
        BY <3>4, <4>2
      <4> HIDE DEF f
      <4>5. \A k \in 1 .. Len(p) : f[k] = p[k]
        BY <4>1, <4>3, <4>4
      <4>6. p = f
        <5>1. p = [k \in 1 .. Len(p) |-> p[k]]
          BY <3>3
        <5>2. f = [k \in 1 .. Len(p) |-> f[k]]
          BY <4>3
        <5> QED
          BY <4>5, <5>1, <5>2
      <4> QED
        BY <4>6 DEF f
    <3> QED
      BY <3>1, <3>5 DEF Piece
  <2>4. n - SynLen - b.bytes_read \in 0 .. OneIf(b.input_ended)
    <3>1. CASE n = 0 /\ b.bytes_read = 0
      <4>1. SynLen = 0
        BY <3>1 DEF OneIf
      <4>2. OneIf(b.input_ended) \in Nat
        BY DEF OneIf
      <4> QED
        BY <3>1, <4>1, <4>2
    <3>2. CASE n = b.bytes_read + 1
      <4>1. SynLen = 1
        BY <2>2, <3>2 DEF OneIf
      <4>2. OneIf(b.input_ended) \in Nat
        BY DEF OneIf
      <4> HIDE DEF SynLen
      <4> QED
        BY <2>2, <3>2, <4>1, <4>2
    <3>3. CASE n = b.bytes_read + 2 /\ eof(b)
      <4>1. SynLen = 1
        BY <2>2, <3>3 DEF OneIf
      <4>2. OneIf(b.input_ended) = 1
        BY <3>3 DEF OneIf, eof
      <4> HIDE DEF SynLen
      <4> QED
        BY <2>2, <3>3, <4>1, <4>2
    <3> QED
      BY <2>1, <3>1, <3>2, <3>3 DEF InStep
  <2>5. ~late => IF q = <<>> THEN s.abs_ackno = n
                 ELSE q[1].seqno <= s.abs_ackno /\ s.abs_ackno < EndOf(q[1])
    BY DEF IInv, InOrder, Fits, AckInFirst
  <2> QED
    BY Zenon, <2>3, <2>4, <2>5 DEF OutstandingTiles
<1> QED
  BY <1>1, SenderInvariant, PTL

(***************************************************************************)
(* The retransmission timer runs exactly while something is outstanding,   *)
(* with the initial timeout doubled once for each consecutive              *)
(* retransmission, and is never left expired (tcp_sender.cc:121-123,       *)
(* 152-161, 170-179).                                                      *)
(***************************************************************************)
THEOREM SenderTimer == Spec => []TimerCoversOutstanding
<1>1. IInv => TimerCoversOutstanding
  BY DEF IInv, Good, Timed, TimerCoversOutstanding
<1> QED
  BY <1>1, SenderInvariant, PTL

(***************************************************************************)
(* As long as no acknowledgement is overtaken, nothing is sent beyond the  *)
(* right edge of the peer's window but the one number that probes a closed *)
(* window, and the unsigned subtraction of tcp_sender.cc:72-74 does not    *)
(* wrap around.                                                            *)
(***************************************************************************)
THEOREM SenderWindowKept == Spec => []WithinWindowInOrder
<1>1. IInv => WithinWindowInOrder
  <2> SUFFICES ASSUME IInv, ~late PROVE s.next_seqno <= MaxOf(peer_edge, peer_next + 1)
    BY DEF WithinWindowInOrder
  <2>1. InOrder /\ PeerType /\ s \in SenderType
    BY DEF IInv, Good
  <2>2. s.next_seqno \in Nat /\ s.abs_ackno \in Nat /\ s.window_size \in Nat
    BY <2>1, SenderFields
  <2>3. peer_next \in Nat /\ peer_edge \in Nat
    BY <2>1 DEF PeerType
  <2>4. s.next_seqno <= s.abs_ackno + (IF s.window_size = 0 THEN 1 ELSE s.window_size)
    BY <2>1 DEF InOrder, Fits, EffectiveWindow
  <2>5. s.abs_ackno <= peer_next /\ s.abs_ackno + s.window_size <= peer_edge
    BY <2>1 DEF InOrder
  <2> QED
    BY <2>2, <2>3, <2>4, <2>5 DEF MaxOf
<1> QED
  BY <1>1, SenderInvariant, PTL
=============================================================================
