---------------------------- MODULE ReceiverProofs ----------------------------
(***************************************************************************)
(* The receiver reads every sequence number as the stream index it was     *)
(* sent for, hands over the peer's bytes in order, acknowledges the first  *)
(* missing byte, accepts it whenever the window is open, and never takes   *)
(* back what it advertised: for every size of the sequence number space,   *)
(* every initial sequence number, capacity and length of the stream.       *)
(*                                                                         *)
(* What the reassembler does with a payload is PushGood, and what the      *)
(* sequence numbers become is UnwrapExact.  IInv adds to the properties    *)
(* what a segment relies on: the reassembler's own invariant (Good), that  *)
(* the receiver knows the peer's initial sequence number, and that an end  *)
(* is noted, by the receiver or by the reassembler, only once a FIN came.  *)
(***************************************************************************)
EXTENDS ReceiverSpec, ReassemblerLemmas

LEMMA Sizes == /\ N \in Nat /\ Capacity \in Nat /\ Capacity # 0 /\ MaxLen \in Nat
               /\ SIZE_MAX \in Nat /\ N + Capacity < SIZE_MOD /\ N < SIZE_MAX
  BY ReceiverAssumption, SizeModAssumption DEF SIZE_MAX

-----------------------------------------------------------------------------
(* Sequence numbers                                                        *)

LEMMA WrapIs ==
    ASSUME NEW x \in Nat, NEW i \in WrappingInt32
    PROVE  LET a == x % WRAP_MOD
           IN  /\ a \in 0 .. (WRAP_MOD - 1)
               /\ wrap(x, i) = IF i + a < WRAP_MOD THEN i + a ELSE i + a - WRAP_MOD
<1> DEFINE a == x % WRAP_MOD
<1>1. a \in 0 .. (WRAP_MOD - 1) /\ WRAP_MOD \in Nat \ {0} /\ i \in 0 .. (WRAP_MOD - 1)
  BY WrapModAssumption, DivMod DEF WrappingInt32
<1>2. wrap(x, i) = (i + a) % WRAP_MOD
  BY DEF wrap, Plus
<1> HIDE DEF a
<1>3. CASE i + a < WRAP_MOD
  <2>1. i + a \in 0 .. (WRAP_MOD - 1)
    BY <1>1, <1>3
  <2>2. (0 * WRAP_MOD + (i + a)) % WRAP_MOD = i + a
    BY <1>1, <2>1, ModUnique
  <2> QED
    BY <1>1, <1>2, <1>3, <2>2 DEF a
<1>4. CASE ~(i + a < WRAP_MOD)
  <2>1. i + a - WRAP_MOD \in 0 .. (WRAP_MOD - 1)
    BY <1>1, <1>4
  <2>2. (1 * WRAP_MOD + (i + a - WRAP_MOD)) % WRAP_MOD = i + a - WRAP_MOD
    BY <1>1, <2>1, ModUnique
  <2> QED
    BY <1>1, <1>2, <1>4, <2>2 DEF a
<1> QED
  BY <1>3, <1>4

\* The number before the one that stands for x + 1 stands for x.
LEMMA OneBefore ==
    ASSUME NEW x \in Nat, NEW i \in WrappingInt32
    PROVE  Minus(wrap(x + 1, i), 1) = wrap(x, i)
<1> DEFINE a == x % WRAP_MOD
           b == (x + 1) % WRAP_MOD
           k == x \div WRAP_MOD
           p == wrap(x, i)
           q == wrap(x + 1, i)
<1>1. /\ WRAP_MOD \in Nat \ {0} /\ i \in 0 .. (WRAP_MOD - 1)
      /\ a \in 0 .. (WRAP_MOD - 1) /\ k \in Int /\ x = k * WRAP_MOD + a
  BY WrapModAssumption, DivMod DEF WrappingInt32
<1>2. p = (IF i + a < WRAP_MOD THEN i + a ELSE i + a - WRAP_MOD)
  BY WrapIs
<1>3. q = (IF i + b < WRAP_MOD THEN i + b ELSE i + b - WRAP_MOD)
  BY WrapIs
<1>4. b = IF a + 1 < WRAP_MOD THEN a + 1 ELSE 0
  <2> HIDE DEF a, k
  <2>1. CASE a + 1 < WRAP_MOD
    <3>1. (k * WRAP_MOD + (a + 1)) % WRAP_MOD = a + 1
      BY <1>1, <2>1, ModUnique
    <3>2. k * WRAP_MOD \in Int
      BY <1>1
    <3>3. x + 1 = k * WRAP_MOD + (a + 1)
      BY <1>1, <3>2
    <3> QED
      BY <2>1, <3>1, <3>3
  <2>2. CASE ~(a + 1 < WRAP_MOD)
    <3>1. ((k + 1) * WRAP_MOD + 0) % WRAP_MOD = 0
      BY <1>1, ModUnique
    <3>2. k * WRAP_MOD \in Int /\ (k + 1) * WRAP_MOD = k * WRAP_MOD + WRAP_MOD
      BY <1>1
    <3>3. x + 1 = (k + 1) * WRAP_MOD + 0
      BY <1>1, <2>2, <3>2
    <3> QED
      BY <2>2, <3>1, <3>3
  <2> QED
    BY <2>1, <2>2
<1>5. Minus(q, 1) = (q - 1) % WRAP_MOD
  BY DEF Minus
<1> HIDE DEF a, b, k, p, q
<1>6. p \in 0 .. (WRAP_MOD - 1) /\ (q - 1 = p \/ q - 1 = p - WRAP_MOD)
  BY <1>1, <1>2, <1>3, <1>4
<1>7. (0 * WRAP_MOD + p) % WRAP_MOD = p /\ ((-1) * WRAP_MOD + p) % WRAP_MOD = p
  BY <1>1, <1>6, ModUnique
<1>8. 0 * WRAP_MOD + p = p /\ (-1) * WRAP_MOD + p = p - WRAP_MOD
  BY <1>1, <1>6
<1> QED
  BY <1>5, <1>6, <1>7, <1>8 DEF p, q

LEMMA ZeroBefore ==
    ASSUME NEW i \in WrappingInt32
    PROVE  Minus(i, 0) = wrap(0, i) /\ wrap(0, i) = i
<1>1. WRAP_MOD \in Nat \ {0} /\ i \in 0 .. (WRAP_MOD - 1)
  BY WrapModAssumption DEF WrappingInt32
<1>2. (0 * WRAP_MOD + i) % WRAP_MOD = i /\ (0 * WRAP_MOD + 0) % WRAP_MOD = 0
  BY <1>1, ModUnique
<1>3. i % WRAP_MOD = i /\ 0 % WRAP_MOD = 0
  BY <1>1, <1>2
<1> QED
  BY <1>1, <1>3 DEF Minus, wrap, Plus

-----------------------------------------------------------------------------
(* One segment                                                             *)

VType == [reassembler : RType, capacity : Nat, syn : BOOLEAN, fin : BOOLEAN, isn : Nat]

LEMMA VFields ==
    ASSUME NEW w \in VType
    PROVE  /\ w.reassembler \in RType /\ w.capacity \in Nat /\ w.syn \in BOOLEAN
           /\ w.fin \in BOOLEAN /\ w.isn \in Nat
  BY Zenon DEF VType

\* What a segment leaves as it finds it.
Good(w) ==
    /\ w \in VType /\ w.capacity = Capacity /\ w.reassembler.capacity = Capacity
    /\ Shape(w.reassembler, N) /\ Settled(w.reassembler)
    /\ Within(w.reassembler.segments, RightEdge(w.reassembler))
    /\ w.reassembler.eof_index = N \/ w.reassembler.eof_index = SIZE_MAX

\* The receiver w with another reassembler.
LEMMA Replaced ==
    ASSUME NEW w \in VType, NEW q \in RType
    PROVE  LET u == [w EXCEPT !.reassembler = q]
           IN  /\ u \in VType /\ u.reassembler = q /\ u.capacity = w.capacity
               /\ u.syn = w.syn /\ u.fin = w.fin /\ u.isn = w.isn
  BY Zenon DEF VType

\* u is w when the payload of a segment, marked fin or not, has been pushed.
Pushes(u, w, fin) ==
    /\ Good(u) /\ u.syn = w.syn /\ u.isn = w.isn /\ u.fin = w.fin
    /\ stream_out(u).bytes_read = stream_out(w).bytes_read
    /\ first_unassembled(w) <= first_unassembled(u)
    /\ NoLossFrom(w.reassembler.segments, u.reassembler.segments, first_unassembled(u))
    /\ u.reassembler.eof_index = N => w.reassembler.eof_index = N \/ fin
    /\ stream_out(w).input_ended => stream_out(u).input_ended
    /\ stream_out(u).input_ended =>
          stream_out(w).input_ended \/ first_unassembled(u) = u.reassembler.eof_index

LEMMA PushPayloadGood ==
    ASSUME NEW w, Good(w), NEW seg, NEW index \in Nat, InPlace(seg.payload, index),
           index + Len(seg.payload) <= N, seg.fin \in BOOLEAN,
           seg.fin => index + Len(seg.payload) = N,
           index <= RightEdge(w.reassembler), PayloadIndex(w, seg) = index
    PROVE  Pushes(PushPayload(w, seg), w, seg.fin)
<1> DEFINE q == w.reassembler
           p == push_substring(q, seg.payload, index, seg.fin)
           u == [w EXCEPT !.reassembler = p]
<1>1. PushPayload(w, seg) = w \/ PushPayload(w, seg) = u
  BY DEF PushPayload
<1>2. w \in VType /\ Shape(q, N) /\ Settled(q) /\ q.capacity = Capacity /\ w.capacity = Capacity
      /\ Within(q.segments, RightEdge(q)) /\ N \in Nat
  BY Sizes DEF Good
<1>3. q.eof_index >= N
  BY Sizes DEF Good
<1> HIDE DEF q, p, u
<1>4. Pushed(p, q, seg.payload, index, seg.fin, N)
  BY <1>2, <1>3, PushGood, Zenon DEF p
<1>5. /\ Shape(p, N) /\ Settled(p) /\ p.capacity = Capacity
      /\ p.output.bytes_read = q.output.bytes_read /\ q.first_unassembled <= p.first_unassembled
      /\ Within(p.segments, RightEdge(q)) /\ NoLossFrom(q.segments, p.segments, p.first_unassembled)
  BY <1>2, <1>4 DEF Pushed, Taken, q
<1>6. RightEdge(p) = RightEdge(q)
  BY <1>2, <1>5 DEF RightEdge
<1>7. /\ p.eof_index = IF seg.fin THEN N ELSE q.eof_index
      /\ p.output.input_ended <=> \/ q.output.input_ended
                                  \/ DOMAIN p.segments = {} /\ p.first_unassembled = p.eof_index
  BY <1>4 DEF Pushed
<1>8. p \in RType
  BY <1>5 DEF Shape
<1>9. /\ u \in VType /\ u.reassembler = p /\ u.capacity = w.capacity
      /\ u.syn = w.syn /\ u.fin = w.fin /\ u.isn = w.isn
  BY <1>2, <1>8, Replaced DEF u
<1>10. Good(u)
  BY Zenon, <1>2, <1>5, <1>6, <1>7, <1>9 DEF Good, q
<1>11. Pushes(u, w, seg.fin)
  BY Zenon, <1>5, <1>7, <1>9, <1>10 DEF Pushes, stream_out, first_unassembled, q
<1>12. Pushes(w, w, seg.fin)
  <2>1. q.first_unassembled <= q.first_unassembled
    BY <1>2, ShapeFacts
  <2> QED
    BY Zenon, <2>1 DEF Pushes, stream_out, first_unassembled, q, NoLossFrom
<1> QED
  BY <1>1, <1>11, <1>12

\* u is w when the FIN of a segment, if it has one, has been noted.
Noted(u, w, fin) ==
    /\ Good(u) /\ u.syn = w.syn /\ u.isn = w.isn /\ (u.fin <=> w.fin \/ fin)
    /\ stream_out(u).bytes_read = stream_out(w).bytes_read
    /\ first_unassembled(u) = first_unassembled(w)
    /\ u.reassembler.segments = w.reassembler.segments
    /\ u.reassembler.eof_index = w.reassembler.eof_index
    /\ stream_out(u).input_ended <=>
          stream_out(w).input_ended \/ (u.fin /\ DOMAIN u.reassembler.segments = {})

LEMMA NoteFinGood ==
    ASSUME NEW w, Good(w), NEW seg, seg.fin \in BOOLEAN
    PROVE  Noted(NoteFin(w, seg), w, seg.fin)
<1> DEFINE q == w.reassembler
           c == (seg.fin \/ w.fin) /\ TotalSize(q.segments) = 0
           p == EndIf(q, c)
           m == [w EXCEPT !.fin = TRUE]
           u == NoteFin(w, seg)
<1>1. w \in VType /\ Shape(q, N) /\ N \in Nat /\ w.fin \in BOOLEAN /\ q \in RType
      /\ Placed(q.segments, N)
  BY Sizes, VFields DEF Good, Shape
<1>2. c \in BOOLEAN
  OBVIOUS
<1> HIDE DEF c
<1>3. EndedIf(p, q, c, N)
  BY <1>1, <1>2, EndShape
<1>4. p \in RType
  BY <1>3 DEF EndedIf, Shape
<1>5. /\ m \in VType /\ m.fin = TRUE /\ m.reassembler = q /\ m.capacity = w.capacity
      /\ m.syn = w.syn /\ m.isn = w.isn
  BY Zenon, <1>1 DEF VType
<1>6. TotalSize(q.segments) = 0 <=> DOMAIN q.segments = {}
  BY <1>1, TotalZero, Zenon
<1>7. /\ u \in VType /\ u.reassembler = p /\ u.capacity = w.capacity
      /\ u.syn = w.syn /\ u.isn = w.isn /\ (u.fin <=> w.fin \/ seg.fin)
  <2>1. CASE ~(seg.fin \/ w.fin)
    <3>1. u = w /\ p = q
      BY <2>1 DEF NoteFin, EndIf, c
    <3> QED
      BY <1>1, <2>1, <3>1
  <2>2. CASE (seg.fin \/ w.fin) /\ TotalSize(q.segments) # 0
    <3>1. u = m /\ p = q
      <4> HIDE DEF m
      <4> QED
        BY <1>5, <2>2 DEF NoteFin, EndIf, c, unassembled_bytes, m
    <3> QED
      BY Zenon, <1>5, <2>2, <3>1
  <2>3. CASE (seg.fin \/ w.fin) /\ TotalSize(q.segments) = 0
    <3>1. p = [q EXCEPT !.output = end_input(q.output)]
      BY <2>3 DEF EndIf, c
    <3>2. u = [m EXCEPT !.reassembler = [m.reassembler EXCEPT !.output = end_input(m.reassembler.output)]]
      BY <1>5, <2>3 DEF NoteFin, unassembled_bytes
    <3>3. u = [m EXCEPT !.reassembler = p]
      BY <1>5, <3>1, <3>2
    <3> HIDE DEF m, p, u
    <3>4. /\ u \in VType /\ u.reassembler = p /\ u.capacity = m.capacity
          /\ u.syn = m.syn /\ u.fin = m.fin /\ u.isn = m.isn
      BY <1>4, <1>5, <3>3, Replaced
    <3> QED
      BY Zenon, <1>5, <2>3, <3>4
  <2> QED
    BY <2>1, <2>2, <2>3
<1> HIDE DEF p, u
<1>8. /\ Shape(p, N) /\ p.segments = q.segments /\ p.capacity = q.capacity
      /\ p.first_unassembled = q.first_unassembled /\ p.eof_index = q.eof_index
      /\ p.output.bytes_read = q.output.bytes_read
      /\ p.output.input_ended <=> (q.output.input_ended \/ c)
  BY <1>3 DEF EndedIf
<1>9. RightEdge(p) = RightEdge(q)
  BY <1>8 DEF RightEdge
<1>10. Good(u)
  BY Zenon, <1>7, <1>8, <1>9 DEF Good, Settled
<1>11. c <=> u.fin /\ DOMAIN q.segments = {}
  BY Zenon, <1>6, <1>7 DEF c
<1>12. Noted(u, w, seg.fin)
  BY Zenon, <1>7, <1>8, <1>10, <1>11 DEF Noted, stream_out, first_unassembled
<1> QED
  BY <1>12 DEF u

\* u is w after a segment of the connection, marked fin or not.
Received(u, w, fin) ==
    /\ Good(u) /\ u.syn = w.syn /\ u.isn = w.isn /\ (u.fin <=> w.fin \/ fin)
    /\ stream_out(u).bytes_read = stream_out(w).bytes_read
    /\ first_unassembled(w) <= first_unassembled(u)
    /\ NoLossFrom(w.reassembler.segments, u.reassembler.segments, first_unassembled(u))
    /\ u.reassembler.eof_index = N => w.reassembler.eof_index = N \/ fin
    /\ stream_out(w).input_ended => stream_out(u).input_ended
    /\ u.fin /\ DOMAIN u.reassembler.segments = {} => stream_out(u).input_ended
    /\ stream_out(u).input_ended =>
          \/ stream_out(w).input_ended
          \/ first_unassembled(u) = u.reassembler.eof_index
          \/ u.fin /\ DOMAIN u.reassembler.segments = {}

\* seg holds the bytes of the stream from index on, and does not lie beyond the
\* window of w, which reads its number as that index.
Fits(seg, index, w) ==
    /\ index \in Nat /\ InPlace(seg.payload, index)
    /\ index + Len(seg.payload) <= N /\ seg.fin \in BOOLEAN
    /\ seg.fin => index + Len(seg.payload) = N
    /\ index <= RightEdge(w.reassembler) /\ PayloadIndex(w, seg) = index

LEMMA SegmentGood ==
    ASSUME NEW w, Good(w), NEW seg, NEW index, Fits(seg, index, w)
    PROVE  Received(NoteFin(PushPayload(w, seg), seg), w, seg.fin)
<1> DEFINE m == PushPayload(w, seg)
           u == NoteFin(m, seg)
<1>1. Pushes(m, w, seg.fin)
  BY PushPayloadGood DEF Fits
<1> HIDE DEF m
<1>2. Good(m) /\ seg.fin \in BOOLEAN
  BY <1>1 DEF Pushes, Fits
<1>3. Noted(u, m, seg.fin)
  BY <1>2, NoteFinGood
<1> HIDE DEF u
<1>4. Received(u, w, seg.fin)
  BY Zenon, <1>1, <1>3 DEF Received, Pushes, Noted
<1> QED
  BY <1>4 DEF u, m

\* The receiver once it knows the peer's initial sequence number.
Synced == IF v.syn THEN v ELSE [v EXCEPT !.isn = peer_isn, !.syn = TRUE]

IInv ==
    /\ Good(v) /\ peer_isn \in WrappingInt32
    /\ fin_seen \in BOOLEAN /\ overtaken \in BOOLEAN
    /\ v.syn => v.isn = peer_isn
    /\ v.fin <=> fin_seen
    /\ v.reassembler.eof_index = N => fin_seen
    /\ fin_seen /\ ~overtaken => HasLast(v)
    /\ AckIsFirstMissing

LEMMA SyncedGood ==
    ASSUME Good(v), peer_isn \in WrappingInt32, v.syn => v.isn = peer_isn
    PROVE  /\ Good(Synced) /\ Synced.syn = TRUE /\ Synced.isn = peer_isn /\ Synced.fin = v.fin
           /\ Synced.reassembler = v.reassembler
<1> DEFINE w == [v EXCEPT !.isn = peer_isn, !.syn = TRUE]
<1>1. v \in VType /\ v.syn \in BOOLEAN /\ peer_isn \in Nat
  BY VFields, WrapModAssumption DEF Good, WrappingInt32
<1>2. /\ w \in VType /\ w.syn = TRUE /\ w.isn = peer_isn /\ w.fin = v.fin
      /\ w.reassembler = v.reassembler /\ w.capacity = v.capacity
  BY Zenon, <1>1 DEF VType
<1> HIDE DEF w
<1>3. Good(w)
  BY Zenon, <1>2 DEF Good
<1>4. CASE v.syn
  BY Zenon, <1>1, <1>4 DEF Synced
<1>5. CASE ~v.syn
  <2>1. Synced = w
    BY <1>5 DEF Synced, w
  <2> QED
    BY <1>2, <1>3, <2>1
<1> QED
  BY <1>4, <1>5, Zenon

LEMMA SynFits ==
    ASSUME IInv, NEW len \in Nat, NEW fin \in BOOLEAN, len <= N, Recent(0), fin => len = N
    PROVE  Fits(SynSegment(len, fin), 0, Synced)
<1> DEFINE s == SynSegment(len, fin)
           w == Synced
<1>1. s.seqno = peer_isn /\ s.syn = TRUE /\ s.fin = fin /\ s.payload = Bytes(0, len)
  BY DEF SynSegment, EmptySegment
<1>2. Good(w) /\ w.isn = peer_isn /\ w.reassembler = v.reassembler /\ peer_isn \in WrappingInt32
  BY SyncedGood, Zenon DEF IInv
<1> HIDE DEF s, w
<1>3. InPlace(s.payload, 0) /\ Len(s.payload) = len
  BY <1>1, BytesPlaced DEF Bytes
<1>4. first_unassembled(w) \in Nat /\ RightEdge(w.reassembler) \in Nat
  BY <1>2, Sizes, ShapeFacts DEF Good, first_unassembled
<1>5. PayloadIndex(w, s) = 0
  <2>1. Minus(s.seqno, OneIf(~s.syn)) = wrap(0, peer_isn)
    BY <1>1, <1>2, ZeroBefore DEF OneIf
  <2>2. 2 * Distance(0, first_unassembled(w)) < WRAP_MOD
    BY <1>2 DEF Recent, first_unassembled
  <2>3. unwrap(wrap(0, peer_isn), peer_isn, first_unassembled(w)) = 0
    BY <1>2, <1>4, <2>2, UnwrapExact
  <2> QED
    BY <1>2, <2>1, <2>3 DEF PayloadIndex
<1>6. Fits(s, 0, w)
  BY <1>1, <1>3, <1>4, <1>5, Sizes DEF Fits
<1> QED
  BY <1>6 DEF s, w

LEMMA DataIndex ==
    ASSUME IInv, NEW index \in Nat, NEW len, NEW fin, Recent(index), NEW w,
           w.isn = peer_isn, w.reassembler = v.reassembler
    PROVE  PayloadIndex(w, DataSegment(index, len, fin)) = index
<1> DEFINE s == DataSegment(index, len, fin)
<1>1. s.seqno = wrap(index + 1, peer_isn) /\ s.syn = FALSE
  BY DEF DataSegment, EmptySegment
<1> HIDE DEF s
<1>2. first_unassembled(w) \in Nat /\ peer_isn \in WrappingInt32
  BY Sizes, ShapeFacts DEF IInv, Good, first_unassembled
<1>3. Minus(s.seqno, OneIf(~s.syn)) = wrap(index, peer_isn)
  BY <1>1, <1>2, OneBefore DEF OneIf
<1>4. 2 * Distance(index, first_unassembled(w)) < WRAP_MOD
  BY DEF Recent, first_unassembled
<1>5. unwrap(wrap(index, peer_isn), peer_isn, first_unassembled(w)) = index
  BY <1>2, <1>4, UnwrapExact
<1> QED
  BY <1>3, <1>5 DEF PayloadIndex, s

LEMMA DataFits ==
    ASSUME IInv, NEW index \in Nat, NEW len \in Nat, NEW fin \in BOOLEAN,
           index + len <= N, Recent(index), fin => index + len = N, index <= Edge, v.syn
    PROVE  Fits(DataSegment(index, len, fin), index, v)
<1> DEFINE s == DataSegment(index, len, fin)
<1>1. s.fin = fin /\ s.payload = Bytes(index, len)
  BY DEF DataSegment, EmptySegment
<1>2. PayloadIndex(v, s) = index
  BY DataIndex DEF IInv
<1> HIDE DEF s
<1>3. InPlace(s.payload, index) /\ Len(s.payload) = len
  BY <1>1, BytesPlaced DEF Bytes
<1>4. RightEdge(v.reassembler) = Edge
  BY DEF IInv, Good, RightEdge, Edge, stream_out
<1>5. Fits(s, index, v)
  BY <1>1, <1>2, <1>3, <1>4 DEF Fits
<1> QED
  BY <1>5 DEF s

-----------------------------------------------------------------------------
(* The invariant                                                           *)

LEMMA InitInv == Init => IInv
<1> SUFFICES ASSUME Init PROVE IInv
  OBVIOUS
<1> DEFINE q == NewReassembler(Capacity)
<1>1. v = NewReceiver(Capacity) /\ peer_isn \in WrappingInt32 /\ fin_seen = FALSE /\ overtaken = FALSE
  BY ReceiverAssumption DEF Init
<1>2. /\ Shape(q, N) /\ DOMAIN q.segments = {} /\ q.capacity = Capacity
      /\ q.eof_index = SIZE_MAX /\ q.output.input_ended = FALSE
  BY Sizes, NewShape, Zenon
<1>3. q \in RType
  BY <1>2 DEF Shape
<1> HIDE DEF q
<1>4. v = [reassembler |-> q, capacity |-> Capacity, syn |-> FALSE, fin |-> FALSE, isn |-> 0]
  BY <1>1 DEF NewReceiver, q
<1>5. /\ v \in VType /\ v.reassembler = q /\ v.capacity = Capacity
      /\ v.syn = FALSE /\ v.fin = FALSE
  BY <1>3, <1>4, Sizes DEF VType
<1>6. Good(v)
  BY Zenon, <1>2, <1>5 DEF Good, Settled, Within
<1>7. N # SIZE_MAX
  BY Sizes
<1> QED
  BY Zenon, <1>1, <1>2, <1>5, <1>6, <1>7 DEF IInv, AckIsFirstMissing, stream_out

\* When every byte is assembled nothing is stored; when nothing is stored, the last
\* byte is kept only if every byte is assembled.
LEMMA LastEmpty ==
    ASSUME NEW w, Good(w)
    PROVE  /\ first_unassembled(w) = N => DOMAIN w.reassembler.segments = {}
           /\ HasLast(w) /\ DOMAIN w.reassembler.segments = {} => first_unassembled(w) = N
<1>1. ASSUME first_unassembled(w) = N, NEW i \in DOMAIN w.reassembler.segments
      PROVE  FALSE
  <2>1. /\ i \in Nat /\ Len(w.reassembler.segments[i]) \in Nat
        /\ Len(w.reassembler.segments[i]) > 0 /\ i + Len(w.reassembler.segments[i]) <= N
    BY PlacedFacts DEF Good, Shape
  <2>2. N < i
    BY <1>1 DEF Good, Settled, first_unassembled
  <2> QED
    BY <2>1, <2>2, Sizes
<1> QED
  BY <1>1 DEF HasLast

\* The last byte of the stream is not lost.
LEMMA LastKept ==
    ASSUME NEW w, Good(w), NEW u, Good(u), first_unassembled(w) <= first_unassembled(u),
           NoLossFrom(w.reassembler.segments, u.reassembler.segments, first_unassembled(u)),
           HasLast(w)
    PROVE  HasLast(u)
<1> DEFINE S == w.reassembler.segments
           U == u.reassembler.segments
           f == first_unassembled(w)
           g == first_unassembled(u)
<1>1. f \in Nat /\ g \in Nat /\ f <= g /\ g <= N /\ N \in Nat
  BY Sizes, ShapeFacts DEF Good, first_unassembled
<1>2. CASE f = N
  BY <1>1, <1>2 DEF HasLast
<1>3. CASE \E i \in DOMAIN S : i + Len(S[i]) = N
  <2>1. PICK i \in DOMAIN S : i + Len(S[i]) = N
    BY <1>3
  <2>2. i \in Nat /\ Len(S[i]) \in Nat /\ Len(S[i]) > 0
    BY PlacedFacts DEF Good, Shape
  <2>3. CASE g = N
    BY <2>3 DEF HasLast
  <2>4. CASE g # N
    <3>1. N - 1 \in Nat /\ g <= N - 1 /\ Covers(S, N - 1)
      <4> DEFINE l == Len(S[i])
      <4>1. l \in Nat /\ l > 0 /\ i + l = N
        BY <2>1, <2>2
      <4>2. N - 1 \in Nat /\ g <= N - 1 /\ i <= N - 1 /\ N - 1 < i + l
        <5> HIDE DEF l, f, g
        <5> QED
          BY <1>1, <2>2, <2>4, <4>1
      <4> QED
        BY <4>2 DEF Covers
    <3>2. Covers(U, N - 1)
      BY <3>1 DEF NoLossFrom
    <3>3. PICK j \in DOMAIN U : j <= N - 1 /\ N - 1 < j + Len(U[j])
      BY <3>2 DEF Covers
    <3>4. j \in Nat /\ Len(U[j]) \in Nat /\ j + Len(U[j]) <= N
      BY PlacedFacts DEF Good, Shape
    <3>5. j + Len(U[j]) = N
      BY <1>1, <3>3, <3>4
    <3> QED
      BY <3>5 DEF HasLast
  <2> QED
    BY <2>3, <2>4
<1> QED
  BY <1>2, <1>3 DEF HasLast

\* A segment that is received keeps the invariant.
LEMMA ReceiveInv ==
    ASSUME IInv, NEW seg, NEW index, Fits(seg, index, Synced),
           v' = NoteFin(PushPayload(Synced, seg), seg), peer_isn' = peer_isn,
           fin_seen' = (fin_seen \/ (seg.fin /\ v'.syn)),
           overtaken' = (overtaken \/ (seg.fin /\ v'.syn /\ ~HasLast(v')))
    PROVE  IInv'
<1> DEFINE w == Synced
<1>1. Good(w) /\ w.syn = TRUE /\ w.isn = peer_isn /\ w.fin = v.fin /\ w.reassembler = v.reassembler
  BY SyncedGood, Zenon DEF IInv
<1> HIDE DEF w
<1>2. Received(v', w, seg.fin) /\ seg.fin \in BOOLEAN
  BY <1>1, SegmentGood DEF w, Fits
<1>3. /\ Good(v') /\ v'.syn = TRUE /\ v'.isn = peer_isn /\ (v'.fin <=> v.fin \/ seg.fin)
      /\ first_unassembled(v) <= first_unassembled(v')
      /\ NoLossFrom(v.reassembler.segments, v'.reassembler.segments, first_unassembled(v'))
      /\ v'.reassembler.eof_index = N => v.reassembler.eof_index = N \/ seg.fin
      /\ stream_out(v).input_ended => stream_out(v').input_ended
      /\ v'.fin /\ DOMAIN v'.reassembler.segments = {} => stream_out(v').input_ended
      /\ stream_out(v').input_ended =>
            \/ stream_out(v).input_ended
            \/ first_unassembled(v') = v'.reassembler.eof_index
            \/ v'.fin /\ DOMAIN v'.reassembler.segments = {}
  BY Zenon, <1>1, <1>2 DEF Received, stream_out, first_unassembled
<1>4. /\ fin_seen \in BOOLEAN /\ overtaken \in BOOLEAN /\ (v.fin <=> fin_seen)
      /\ v.reassembler.eof_index = N => fin_seen
      /\ peer_isn \in WrappingInt32
  BY Zenon DEF IInv
<1>5. /\ fin_seen' \in BOOLEAN /\ overtaken' \in BOOLEAN /\ (v'.fin <=> fin_seen')
      /\ fin_seen' <=> fin_seen \/ seg.fin
      /\ overtaken' <=> overtaken \/ (seg.fin /\ ~HasLast(v'))
      /\ v'.reassembler.eof_index = N => fin_seen'
  BY Zenon, <1>2, <1>3, <1>4
<1>6. fin_seen' /\ ~overtaken' => HasLast(v')
  <2>1. CASE seg.fin
    BY Zenon, <1>5, <2>1
  <2>2. CASE ~seg.fin
    <3>1. fin_seen' /\ ~overtaken' => HasLast(v)
      BY Zenon, <1>5, <2>2 DEF IInv
    <3>2. Good(v)
      BY DEF IInv
    <3>3. HasLast(v) => HasLast(v')
      BY <1>3, <3>2, LastKept
    <3> QED
      BY Zenon, <3>1, <3>3
  <2> QED
    BY <1>2, <2>1, <2>2
<1>7. ASSUME ~overtaken'
      PROVE  stream_out(v').input_ended <=> fin_seen' /\ first_unassembled(v') = N
  <2>1. /\ first_unassembled(v') = N => DOMAIN v'.reassembler.segments = {}
        /\ HasLast(v') /\ DOMAIN v'.reassembler.segments = {} => first_unassembled(v') = N
    BY <1>3, LastEmpty
  <2>2. fin_seen' /\ first_unassembled(v') = N => stream_out(v').input_ended
    BY Zenon, <1>3, <1>5, <2>1
  <2>3. stream_out(v).input_ended => fin_seen' /\ first_unassembled(v') = N
    <3>1. stream_out(v).input_ended => fin_seen /\ first_unassembled(v) = N
      BY Zenon, <1>5, <1>7 DEF IInv, AckIsFirstMissing
    <3>2. first_unassembled(v) = N => first_unassembled(v') = N
      <4>1. first_unassembled(v') \in Nat /\ first_unassembled(v') <= N /\ N \in Nat
        BY <1>3, Sizes, ShapeFacts DEF Good, first_unassembled
      <4> QED
        BY <1>3, <4>1
    <3> QED
      BY Zenon, <1>5, <3>1, <3>2
  <2>4. first_unassembled(v') = v'.reassembler.eof_index => fin_seen' /\ first_unassembled(v') = N
    <3>1. /\ first_unassembled(v') \in Nat /\ first_unassembled(v') <= N /\ N \in Nat
          /\ SIZE_MAX \in Nat /\ N < SIZE_MAX
      BY <1>3, Sizes, ShapeFacts DEF Good, first_unassembled
    <3>2. v'.reassembler.eof_index = N \/ v'.reassembler.eof_index = SIZE_MAX
      BY <1>3 DEF Good
    <3>3. first_unassembled(v') = v'.reassembler.eof_index => v'.reassembler.eof_index = N
      BY <3>1, <3>2
    <3> QED
      BY Zenon, <1>5, <3>3
  <2>5. v'.fin /\ DOMAIN v'.reassembler.segments = {} => fin_seen' /\ first_unassembled(v') = N
    BY Zenon, <1>5, <1>6, <1>7, <2>1
  <2> QED
    BY Zenon, <1>3, <2>2, <2>3, <2>4, <2>5
<1>8. AckIsFirstMissing'
  BY Zenon, <1>7 DEF AckIsFirstMissing
<1>9. HasLast(v') = HasLast(v)'
  BY DEF HasLast, first_unassembled
<1> QED
  BY Zenon, <1>3, <1>4, <1>5, <1>6, <1>8, <1>9 DEF IInv, Good

\* What a segment with the SYN, and one without, is to the receiver.
LEMMA SynStep ==
    ASSUME IInv, NEW len \in 0 .. MaxLen, NEW fin \in BOOLEAN, ReceiveSyn(len, fin)
    PROVE  LET s == SynSegment(len, fin)
           IN  Fits(s, 0, Synced) /\ v' = NoteFin(PushPayload(Synced, s), s)
<1> DEFINE s == SynSegment(len, fin)
<1>1. len \in Nat /\ len <= N /\ Recent(0) /\ (fin => len = N)
  BY Sizes DEF ReceiveSyn
<1>2. Fits(s, 0, Synced)
  BY <1>1, SynFits
<1>3. s.syn = TRUE /\ s.seqno = peer_isn
  BY DEF SynSegment, EmptySegment
<1>4. v' = TCPReceiver_segment_received(v, s)
  BY DEF ReceiveSyn, Receive
<1> HIDE DEF s
<1>5. v' = NoteFin(PushPayload(Synced, s), s)
  BY <1>3, <1>4 DEF TCPReceiver_segment_received, Synced
<1> QED
  BY <1>2, <1>5 DEF s

LEMMA DataStep ==
    ASSUME IInv, NEW index \in 0 .. N, NEW len \in 0 .. MaxLen, NEW fin \in BOOLEAN,
           ReceiveData(index, len, fin)
    PROVE  LET s == DataSegment(index, len, fin)
           IN  IF v.syn
               THEN Fits(s, index, Synced) /\ v' = NoteFin(PushPayload(Synced, s), s)
               ELSE v' = v
<1> DEFINE s == DataSegment(index, len, fin)
<1>1. /\ index \in Nat /\ len \in Nat /\ index + len <= N /\ Recent(index)
      /\ fin => index + len = N
  BY Sizes DEF ReceiveData
<1>2. index <= Edge
  <2>1. OneIf(fin) \in Nat /\ Edge \in Nat
    <3>1. stream_out(v).bytes_read \in Nat
      BY Sizes, ShapeFacts DEF IInv, Good, stream_out
    <3> QED
      BY <3>1, Sizes DEF OneIf, Edge
  <2>2. index + len + OneIf(fin) <= Edge \/ index = Edge
    BY DEF ReceiveData
  <2> QED
    BY <1>1, <2>1, <2>2
<1>3. s.syn = FALSE
  BY DEF DataSegment, EmptySegment
<1>4. v.syn => Fits(s, index, v)
  BY <1>1, <1>2, DataFits
<1>5. v' = TCPReceiver_segment_received(v, s)
  BY DEF ReceiveData, Receive
<1> HIDE DEF s
<1>6. CASE v.syn
  <2>1. Synced = v
    BY <1>6 DEF Synced
  <2>2. v' = NoteFin(PushPayload(Synced, s), s)
    BY <1>5, <1>6, <2>1 DEF TCPReceiver_segment_received
  <2> QED
    BY <1>4, <1>6, <2>1, <2>2 DEF s
<1>7. CASE ~v.syn
  BY <1>3, <1>5, <1>7 DEF TCPReceiver_segment_received
<1> QED
  BY <1>6, <1>7

LEMMA SynInv ==
    ASSUME IInv, NEW len \in 0 .. MaxLen, NEW fin \in BOOLEAN, ReceiveSyn(len, fin)
    PROVE  IInv'
<1> DEFINE s == SynSegment(len, fin)
<1>1. Fits(s, 0, Synced) /\ v' = NoteFin(PushPayload(Synced, s), s)
  BY SynStep
<1>2. /\ peer_isn' = peer_isn /\ fin_seen' = (fin_seen \/ (s.fin /\ v'.syn))
      /\ overtaken' = (overtaken \/ (s.fin /\ v'.syn /\ ~HasLast(v')))
  BY DEF ReceiveSyn, Receive
<1> HIDE DEF s
<1> QED
  BY <1>1, <1>2, ReceiveInv

LEMMA DataInv ==
    ASSUME IInv, NEW index \in 0 .. N, NEW len \in 0 .. MaxLen, NEW fin \in BOOLEAN,
           ReceiveData(index, len, fin)
    PROVE  IInv'
<1> DEFINE s == DataSegment(index, len, fin)
<1>1. /\ peer_isn' = peer_isn /\ fin_seen' = (fin_seen \/ (s.fin /\ v'.syn))
      /\ overtaken' = (overtaken \/ (s.fin /\ v'.syn /\ ~HasLast(v')))
  BY DEF ReceiveData, Receive
<1>2. IF v.syn THEN Fits(s, index, Synced) /\ v' = NoteFin(PushPayload(Synced, s), s) ELSE v' = v
  BY DataStep
<1> HIDE DEF s
<1>3. CASE v.syn
  BY <1>1, <1>2, <1>3, ReceiveInv
<1>4. CASE ~v.syn
  <2>1. fin_seen \in BOOLEAN /\ overtaken \in BOOLEAN /\ v' = v
    BY <1>2, <1>4 DEF IInv
  <2>2. fin_seen' = fin_seen /\ overtaken' = overtaken
    BY Zenon, <1>1, <1>4, <2>1
  <2> QED
    BY <1>1, <2>1, <2>2 DEF IInv, Good, HasLast, AckIsFirstMissing
<1> QED
  BY <1>3, <1>4

\* The reader takes bytes from the output.
LEMMA ReadStep ==
    ASSUME IInv, NEW len \in 1 .. Capacity, Read(len)
    PROVE  /\ HasRead(v'.reassembler, v.reassembler, len, N)
           /\ v' \in VType /\ v'.capacity = v.capacity /\ v'.syn = v.syn /\ v'.fin = v.fin
           /\ v'.isn = v.isn
<1> DEFINE q == v.reassembler
           p == [q EXCEPT !.output = read(q.output, len)]
<1>1. N \in Nat /\ len \in Nat /\ Shape(q, N) /\ v \in VType
  BY Sizes DEF IInv, Good
<1>2. HasRead(p, q, len, N)
  BY <1>1, ReadShape
<1>3. v' = [v EXCEPT !.reassembler = p]
  BY DEF Read
<1> HIDE DEF p
<1>4. p \in RType
  BY <1>2 DEF HasRead, Shape
<1> QED
  BY <1>1, <1>2, <1>3, <1>4, Replaced

LEMMA ReadForward ==
    ASSUME NEW q, Shape(q, N), NEW len \in Nat, NEW p, HasRead(p, q, len, N)
    PROVE  /\ q.output.bytes_read \in Nat /\ p.output.bytes_read \in Nat /\ q.capacity \in Nat
           /\ q.output.bytes_read <= p.output.bytes_read
<1> DEFINE k == MinOf(len, Len(q.output.buffer))
<1>1. Len(q.output.buffer) \in Nat /\ q.output.bytes_read \in Nat /\ q.capacity \in Nat
  BY Sizes, ShapeFacts
<1>2. k \in Nat
  BY <1>1 DEF MinOf
<1>3. p.output.bytes_read = q.output.bytes_read + k
  BY DEF HasRead
<1> HIDE DEF k
<1> QED
  BY <1>1, <1>2, <1>3

LEMMA ReadInv ==
    ASSUME IInv, NEW len \in 1 .. Capacity, Read(len)
    PROVE  IInv'
<1> DEFINE q == v.reassembler
           p == v'.reassembler
<1>1. /\ HasRead(p, q, len, N) /\ v' \in VType /\ v'.capacity = v.capacity
      /\ v'.syn = v.syn /\ v'.fin = v.fin /\ v'.isn = v.isn
  BY ReadStep
<1>2. /\ Shape(p, N) /\ p.segments = q.segments /\ p.capacity = q.capacity
      /\ p.eof_index = q.eof_index /\ p.first_unassembled = q.first_unassembled
      /\ p.output.input_ended = q.output.input_ended
  BY <1>1 DEF HasRead
<1>3. Good(v) /\ Shape(q, N) /\ Within(q.segments, RightEdge(q))
  BY DEF IInv, Good
<1>4. Within(p.segments, RightEdge(p))
  <2>1. RightEdge(q) \in Nat /\ RightEdge(p) \in Nat /\ RightEdge(q) <= RightEdge(p)
    BY <1>1, <1>2, <1>3, Sizes, ReadForward DEF RightEdge
  <2>2. ASSUME NEW i \in DOMAIN q.segments PROVE i \in Nat /\ Len(q.segments[i]) \in Nat
    BY <1>3, PlacedFacts DEF Shape
  <2> QED
    BY <1>2, <1>3, <2>1, <2>2 DEF Within
<1> HIDE DEF p, q
<1>5. Good(v')
  BY Zenon, <1>1, <1>2, <1>3, <1>4 DEF Good, Settled, p, q
<1>6. peer_isn' = peer_isn /\ fin_seen' = fin_seen /\ overtaken' = overtaken
  BY DEF Read
<1>7. HasLast(v)' <=> HasLast(v)
  BY Zenon, <1>2 DEF HasLast, first_unassembled, p, q
<1>8. first_unassembled(v)' = first_unassembled(v)
      /\ stream_out(v)'.input_ended = stream_out(v).input_ended
  BY <1>2 DEF first_unassembled, stream_out, p, q
<1>9. AckIsFirstMissing'
  BY Zenon, <1>6, <1>8 DEF AckIsFirstMissing, IInv
<1> QED
  BY Zenon, <1>1, <1>2, <1>5, <1>6, <1>7, <1>9 DEF IInv, Good, p, q

LEMMA NextInv == IInv /\ [Next]_vars => IInv'
<1> SUFFICES ASSUME IInv, [Next]_vars PROVE IInv'
  OBVIOUS
<1>1. CASE \E len \in 0 .. MaxLen, fin \in BOOLEAN : ReceiveSyn(len, fin)
  BY <1>1, SynInv
<1>2. CASE \E index \in 0 .. N, len \in 0 .. MaxLen, fin \in BOOLEAN : ReceiveData(index, len, fin)
  BY <1>2, DataInv
<1>3. CASE \E len \in 1 .. Capacity : Read(len)
  BY <1>3, ReadInv
<1>4. CASE UNCHANGED vars
  BY <1>4 DEF vars, IInv, Good, HasLast, AckIsFirstMissing
<1> QED
  BY <1>1, <1>2, <1>3, <1>4 DEF Next

LEMMA InvHolds == Spec => []IInv
  BY InitInv, NextInv, PTL DEF Spec

-----------------------------------------------------------------------------
(* What the invariant says                                                 *)

LEMMA InOrderInv == IInv => OutputInOrder
<1> SUFFICES ASSUME IInv PROVE OutputInOrder
  OBVIOUS
<1> DEFINE q == v.reassembler
<1>1. Shape(q, N)
  BY DEF IInv, Good
<1>2. Placed(q.segments, N) /\ Holds(q.output)
  BY <1>1 DEF Shape
<1>3. q.output.buffer = Bytes(q.output.bytes_read, buffer_size(q.output))
  <2>1. q.output.buffer \in Seq(Nat) /\ q.output.bytes_read \in Nat
    BY <1>1, RFields, StreamFields DEF Shape
  <2>2. InPlace(q.output.buffer, q.output.bytes_read)
    BY <1>2, <2>1 DEF Holds, InPlace
  <2> QED
    BY <2>1, <2>2, InPlaceIs, Zenon DEF Bytes, buffer_size
<1>4. ASSUME NEW i \in DOMAIN q.segments
      PROVE  q.segments[i] = Bytes(i, Len(q.segments[i]))
  <2>1. i \in Nat /\ InPlace(q.segments[i], i)
    BY <1>2, PlacedFacts
  <2> QED
    BY <2>1, InPlaceIs DEF Bytes
<1> QED
  BY <1>3, <1>4 DEF OutputInOrder, stream_out

\* Stored bytes lie strictly inside the window, so an open one has memory left.
LEMMA OpenHasRoom ==
    ASSUME NEW w, Good(w), window_size(w) > 0
    PROVE  Room(w.reassembler) > 0
<1> DEFINE q == w.reassembler
           f == q.first_unassembled
           E == RightEdge(q)
           t == TotalSize(q.segments)
<1>1. Shape(q, N) /\ Settled(q) /\ Within(q.segments, E) /\ q.capacity = Capacity /\ w.capacity = Capacity
  BY DEF Good
<1>2. /\ f \in Nat /\ E \in Nat /\ t \in Nat /\ Room(q) \in Nat /\ Room(q) = E - f - t
      /\ q.output.bytes_read \in Nat /\ Len(q.output.buffer) \in Nat
      /\ f = q.output.bytes_read + Len(q.output.buffer)
  BY <1>1, Sizes, ShapeFacts, Zenon
<1>3. f + 1 <= E /\ f + 1 \in Nat
  <2> DEFINE b == q.output.bytes_read
             L == Len(q.output.buffer)
  <2>1. Capacity - L > 0 /\ E = b + Capacity
    BY <1>1 DEF window_size, buffer_size, stream_out, RightEdge
  <2>2. b \in Nat /\ L \in Nat /\ f = b + L /\ Capacity \in Nat
    BY <1>2, Sizes
  <2> HIDE DEF b, L, f, E
  <2> QED
    BY <2>1, <2>2
<1>4. \A i \in DOMAIN q.segments : f + 1 <= i /\ i + Len(q.segments[i]) <= E
  <2> SUFFICES ASSUME NEW i \in DOMAIN q.segments
               PROVE  f + 1 <= i /\ i + Len(q.segments[i]) <= E
    OBVIOUS
  <2>1. i \in Nat
    BY <1>1, PlacedFacts DEF Shape
  <2>2. f < i /\ i + Len(q.segments[i]) <= E
    BY <1>1 DEF Settled, Within
  <2> HIDE DEF f
  <2> QED
    BY <1>2, <2>1, <2>2
<1>5. t <= E - (f + 1)
  <2>1. Placed(q.segments, N) /\ N \in Nat
    BY <1>1, Sizes DEF Shape
  <2> HIDE DEF E, f
  <2> QED
    BY <1>2, <1>3, <1>4, <2>1, TotalWindow, Zenon
<1> HIDE DEF q, f, E, t
<1> QED
  BY <1>2, <1>3, <1>5 DEF q

LEMMA AcceptedInv == IInv => NextByteAccepted
<1> DEFINE f == first_unassembled(v)
           s == DataSegment(f, 1, FALSE)
<1> SUFFICES ASSUME IInv, v.syn, f < N, window_size(v) > 0, wrap(f + 1, v.isn) # v.isn
             PROVE  first_unassembled(TCPReceiver_segment_received(v, s)) > f
  BY Zenon DEF NextByteAccepted
<1> DEFINE q == v.reassembler
           m == PushPayload(v, s)
           p == push_substring(q, s.payload, f, FALSE)
<1>1. Good(v) /\ v.isn = peer_isn /\ peer_isn \in WrappingInt32 /\ Shape(q, N) /\ Settled(q)
      /\ v \in VType
  BY DEF IInv, Good
<1>2. f \in Nat /\ N \in Nat /\ f <= Edge /\ q.first_unassembled = f
  <2>1. RightEdge(q) = Edge
    BY <1>1 DEF Good, RightEdge, Edge, stream_out
  <2> QED
    BY <1>1, <2>1, Sizes, ShapeFacts DEF first_unassembled
<1>3. s.seqno = wrap(f + 1, peer_isn) /\ s.fin = FALSE /\ s.syn = FALSE /\ s.payload = Bytes(f, 1)
  BY DEF DataSegment, EmptySegment
<1>4. Fits(s, f, v)
  <2>1. Recent(f)
    BY <1>2, WrapModAssumption DEF Recent, Distance
  <2>2. f + 1 <= N
    BY <1>2
  <2> HIDE DEF f
  <2> QED
    BY <1>2, <2>1, <2>2, DataFits, Zenon
<1> HIDE DEF s, f
<1>5. InPlace(s.payload, f) /\ Len(s.payload) = 1
  <2>1. InPlace(Bytes(f, 1), f) /\ Len(Bytes(f, 1)) = 1
    BY <1>2, BytesPlaced, Zenon DEF Bytes
  <2> QED
    BY <1>3, <2>1
<1>6. s.payload # <<>>
  <2>1. Len(<<>>) = 0 /\ Len(s.payload) # 0
    BY <1>5
  <2> QED
    BY Zenon, <2>1
<1>7. PayloadIndex(v, s) = f
  BY <1>4 DEF Fits
<1>8. m = [v EXCEPT !.reassembler = p]
  BY <1>1, <1>3, <1>6, <1>7, Zenon DEF PushPayload
<1>9. Pushed(p, q, s.payload, f, FALSE, N)
  <2>1. q.eof_index >= N
    BY <1>1, Sizes DEF Good
  <2>2. f + Len(s.payload) <= N
    BY <1>2, <1>5
  <2> QED
    BY <1>1, <1>2, <1>5, <2>1, <2>2, PushGood, Zenon
<1>10. Room(q) > 0
  BY <1>1, OpenHasRoom
<1>11. p.first_unassembled > f
  BY <1>2, <1>6, <1>9, <1>10, Zenon DEF Pushed
<1> HIDE DEF p
<1>12. m.reassembler = p
  BY Zenon, <1>1, <1>8 DEF VType
<1>13. Good(m)
  <2>1. Pushes(m, v, s.fin)
    BY <1>1, <1>4, PushPayloadGood DEF Fits
  <2> QED
    BY <2>1 DEF Pushes
<1> HIDE DEF m
<1>14. Noted(NoteFin(m, s), m, s.fin)
  <2>1. s.fin \in BOOLEAN
    BY <1>3, Zenon
  <2> QED
    BY <1>13, <2>1, NoteFinGood
<1>15. TCPReceiver_segment_received(v, s) = NoteFin(m, s)
  BY DEF TCPReceiver_segment_received, m
<1> QED
  BY <1>11, <1>12, <1>14, <1>15 DEF Noted, first_unassembled

\* The window's right edge is where the reader is plus the capacity.
LEMMA EdgeIs ==
    ASSUME NEW w, Good(w)
    PROVE  /\ AbsAckno(w) \in Nat /\ window_size(w) \in Nat
           /\ first_unassembled(w) \in Nat /\ stream_out(w).bytes_read \in Nat
           /\ AbsAckno(w) = first_unassembled(w) + 1 + OneIf(stream_out(w).input_ended)
           /\ AbsAckno(w) + window_size(w) =
                stream_out(w).bytes_read + Capacity + 1 + OneIf(stream_out(w).input_ended)
<1> DEFINE q == w.reassembler
           L == Len(q.output.buffer)
           b == q.output.bytes_read
           f == q.first_unassembled
           o == OneIf(q.output.input_ended)
<1>1. Shape(q, N) /\ w.capacity = Capacity /\ q.capacity = Capacity
  BY DEF Good
<1>2. f \in Nat /\ b \in Nat /\ L \in Nat /\ f = b + L /\ L <= Capacity /\ Capacity \in Nat
  <2> DEFINE t == TotalSize(q.segments)
  <2>1. f \in Nat /\ b \in Nat /\ L \in Nat /\ f = b + L /\ t \in Nat /\ L + t <= Capacity
        /\ Capacity \in Nat
    BY <1>1, Sizes, ShapeFacts, Zenon
  <2> HIDE DEF t, L, b, f
  <2> QED
    BY <2>1
<1>3. o \in Nat
  BY DEF OneIf
<1>4. AbsAckno(w) = f + 1 + o /\ window_size(w) = Capacity - L
  BY <1>1 DEF AbsAckno, window_size, first_unassembled, stream_out, buffer_size
<1> HIDE DEF f, b, L, o
<1>5. /\ AbsAckno(w) \in Nat /\ window_size(w) \in Nat
      /\ AbsAckno(w) + window_size(w) = b + Capacity + 1 + o
  BY <1>2, <1>3, <1>4
<1> QED
  BY <1>2, <1>4, <1>5 DEF f, b, o, first_unassembled, stream_out

\* Neither number moves left if neither the reader nor the assembled bytes do.
LEMMA Forward ==
    ASSUME NEW w, Good(w), NEW u, Good(u), first_unassembled(w) <= first_unassembled(u),
           stream_out(w).bytes_read <= stream_out(u).bytes_read,
           stream_out(w).input_ended => stream_out(u).input_ended
    PROVE  /\ AbsAckno(u) >= AbsAckno(w)
           /\ AbsAckno(u) + window_size(u) >= AbsAckno(w) + window_size(w)
<1> DEFINE a == OneIf(stream_out(w).input_ended)
           b == OneIf(stream_out(u).input_ended)
<1>1. a \in Nat /\ b \in Nat /\ a <= b
  BY DEF OneIf
<1> HIDE DEF a, b
<1>2. /\ first_unassembled(w) \in Nat /\ first_unassembled(u) \in Nat
      /\ stream_out(w).bytes_read \in Nat /\ stream_out(u).bytes_read \in Nat
      /\ AbsAckno(w) = first_unassembled(w) + 1 + a /\ AbsAckno(u) = first_unassembled(u) + 1 + b
      /\ AbsAckno(w) + window_size(w) = stream_out(w).bytes_read + Capacity + 1 + a
      /\ AbsAckno(u) + window_size(u) = stream_out(u).bytes_read + Capacity + 1 + b
  BY EdgeIs DEF a, b
<1> QED
  BY <1>1, <1>2, Sizes

LEMMA ForwardStep == IInv /\ IInv' /\ [Next]_vars =>
    [/\ AbsAckno(v') >= AbsAckno(v)
     /\ AbsAckno(v') + window_size(v') >= AbsAckno(v) + window_size(v)]_vars
<1> SUFFICES ASSUME IInv, IInv', Next
             PROVE  /\ AbsAckno(v') >= AbsAckno(v)
                    /\ AbsAckno(v') + window_size(v') >= AbsAckno(v) + window_size(v)
  OBVIOUS
<1>1. Good(v) /\ Good(v')
  BY DEF IInv, Good
<1> SUFFICES /\ first_unassembled(v) <= first_unassembled(v')
             /\ stream_out(v).bytes_read <= stream_out(v').bytes_read
             /\ stream_out(v).input_ended => stream_out(v').input_ended
  BY <1>1, Forward
<1>2. /\ first_unassembled(v) \in Nat /\ stream_out(v).bytes_read \in Nat
  BY <1>1, EdgeIs
<1>3. ASSUME NEW seg, NEW index, Fits(seg, index, Synced),
             v' = NoteFin(PushPayload(Synced, seg), seg)
      PROVE  /\ first_unassembled(v) <= first_unassembled(v')
             /\ stream_out(v).bytes_read <= stream_out(v').bytes_read
             /\ stream_out(v).input_ended => stream_out(v').input_ended
  <2>1. Good(Synced) /\ Synced.reassembler = v.reassembler
    BY SyncedGood, Zenon DEF IInv
  <2>2. Received(v', Synced, seg.fin)
    BY <1>3, <2>1, SegmentGood
  <2> QED
    BY <1>2, <2>1, <2>2 DEF Received, first_unassembled, stream_out
<1>4. ASSUME NEW len \in 0 .. MaxLen, NEW fin \in BOOLEAN, ReceiveSyn(len, fin)
      PROVE  Fits(SynSegment(len, fin), 0, Synced)
             /\ v' = NoteFin(PushPayload(Synced, SynSegment(len, fin)), SynSegment(len, fin))
  BY <1>4, SynStep
<1>5. CASE \E len \in 0 .. MaxLen, fin \in BOOLEAN : ReceiveSyn(len, fin)
  BY <1>3, <1>4, <1>5
<1>6. ASSUME NEW index \in 0 .. N, NEW len \in 0 .. MaxLen, NEW fin \in BOOLEAN,
             ReceiveData(index, len, fin), v' # v
      PROVE  LET s == DataSegment(index, len, fin)
             IN  Fits(s, index, Synced) /\ v' = NoteFin(PushPayload(Synced, s), s)
  BY <1>6, DataStep
<1>7. CASE \E index \in 0 .. N, len \in 0 .. MaxLen, fin \in BOOLEAN : ReceiveData(index, len, fin)
  <2>1. CASE v' = v
    BY <1>2, <2>1
  <2>2. CASE v' # v
    BY <1>3, <1>6, <1>7, <2>2
  <2> QED
    BY <2>1, <2>2
<1>8. CASE \E len \in 1 .. Capacity : Read(len)
  <2>1. PICK len \in 1 .. Capacity : Read(len)
    BY <1>8
  <2>2. HasRead(v'.reassembler, v.reassembler, len, N) /\ len \in Nat
    BY <2>1, ReadStep, Sizes
  <2>3. v.reassembler.output.bytes_read <= v'.reassembler.output.bytes_read
    BY <1>1, <2>2, ReadForward DEF Good
  <2> QED
    BY <1>2, <2>2, <2>3 DEF HasRead, stream_out, first_unassembled
<1> QED
  BY <1>5, <1>7, <1>8 DEF Next

(***************************************************************************)
(* For every initial sequence number and however often the sequence space  *)
(* wraps around, the reader gets the peer's bytes in order and a stored    *)
(* byte is at its own index (tcp_receiver.cc:26-28).                       *)
(***************************************************************************)
THEOREM ReceiverInOrder == Spec => []OutputInOrder
  BY InvHolds, InOrderInv, PTL

(***************************************************************************)
(* The ackno steps over the FIN exactly when the FIN and every byte before *)
(* it have come, unless a FIN came whose last byte was not kept            *)
(* (tcp_receiver.cc:33-38, 41-50).                                         *)
(***************************************************************************)
THEOREM ReceiverAck == Spec => []AckIsFirstMissing
<1>1. IInv => AckIsFirstMissing
  BY DEF IInv
<1> QED
  BY <1>1, InvHolds, PTL

(***************************************************************************)
(* The first missing byte, sent alone into an open window, is accepted: a  *)
(* retransmission always helps (tcp_receiver.cc:25-30), because stored     *)
(* bytes never fill the memory that an open window promises.               *)
(***************************************************************************)
THEOREM ReceiverAccepts == Spec => []NextByteAccepted
  BY InvHolds, AcceptedInv, PTL

(***************************************************************************)
(* Neither the ackno nor the right edge of the advertised window ever      *)
(* moves left (tcp_receiver.cc:41-54).                                     *)
(***************************************************************************)
THEOREM ReceiverForward == Spec => NeverShrinks
  BY InvHolds, ForwardStep, PTL DEF Spec, NeverShrinks
=============================================================================
