-------------------------- MODULE ByteStreamProofs --------------------------
(***************************************************************************)
(* The byte stream is a bounded FIFO for every set of bytes, capacity and  *)
(* schedule of calls.  TypeOK /\ BoundedFifo is inductive as it stands:    *)
(* every method moves bytes between the two ends of one sequence.          *)
(***************************************************************************)
EXTENDS ByteStreamSpec, SequenceTheorems, TLAPS

-----------------------------------------------------------------------------
(* Sequences.                                                              *)

\* A sequence is its first k elements followed by the others.
LEMMA SplitSeq ==
    ASSUME NEW S, NEW s \in Seq(S), NEW k \in 0 .. Len(s)
    PROVE  /\ SubSeq(s, 1, k) \in Seq(S)
           /\ Len(SubSeq(s, 1, k)) = k
           /\ SubSeq(s, k + 1, Len(s)) \in Seq(S)
           /\ Len(SubSeq(s, k + 1, Len(s))) = Len(s) - k
           /\ SubSeq(s, 1, k) \o SubSeq(s, k + 1, Len(s)) = s
<1>0. Len(s) \in Nat
  OBVIOUS
<1>1. 1 \in 1 .. Len(s) + 1 /\ k \in (1 - 1) .. Len(s) /\ Len(s) \in k .. Len(s)
  BY <1>0
<1>2. SubSeq(s, 1, k) \o SubSeq(s, k + 1, Len(s)) = SubSeq(s, 1, Len(s))
  BY <1>1, ConcatAdjacentSubSeq, Zenon
<1>3. SubSeq(s, 1, Len(s)) = s
  BY SubSeqFull
<1>4. Len(SubSeq(s, 1, k)) = k /\ Len(SubSeq(s, k + 1, Len(s))) = Len(s) - k
  OBVIOUS
<1>5. SubSeq(s, 1, k) \in Seq(S) /\ SubSeq(s, k + 1, Len(s)) \in Seq(S)
  OBVIOUS
<1> QED
  BY <1>2, <1>3, <1>4, <1>5, Zenon

\* Appending to the buffer appends to everything that was ever accepted.
LEMMA AppendSide ==
    ASSUME NEW S, NEW del \in Seq(S), NEW buf \in Seq(S), NEW d \in Seq(S)
    PROVE  /\ (del \o buf) \o d = del \o (buf \o d)
           /\ buf \o d \in Seq(S) /\ Len(buf \o d) = Len(buf) + Len(d)
           /\ (del \o buf) \o d \in Seq(S)
           /\ Len((del \o buf) \o d) = Len(del \o buf) + Len(d)
  OBVIOUS

\* Moving a prefix of the buffer to what was delivered keeps the whole.
LEMMA TakeSide ==
    ASSUME NEW S, NEW del \in Seq(S), NEW buf \in Seq(S), NEW k \in 0 .. Len(buf)
    PROVE  /\ (del \o SubSeq(buf, 1, k)) \o SubSeq(buf, k + 1, Len(buf)) = del \o buf
           /\ del \o SubSeq(buf, 1, k) \in Seq(S)
           /\ Len(del \o SubSeq(buf, 1, k)) = Len(del) + k
<1>1. /\ SubSeq(buf, 1, k) \in Seq(S) /\ Len(SubSeq(buf, 1, k)) = k
      /\ SubSeq(buf, k + 1, Len(buf)) \in Seq(S)
      /\ SubSeq(buf, 1, k) \o SubSeq(buf, k + 1, Len(buf)) = buf
  BY SplitSeq, Zenon
<1>2. ASSUME NEW a \in Seq(S), NEW b \in Seq(S), Len(a) = k, a \o b = buf
      PROVE  /\ (del \o a) \o b = del \o buf
             /\ del \o a \in Seq(S) /\ Len(del \o a) = Len(del) + k
  <2>1. (del \o a) \o b = del \o (a \o b)
    OBVIOUS
  <2>2. del \o a \in Seq(S) /\ Len(del \o a) = Len(del) + Len(a)
    OBVIOUS
  <2> QED
    BY <1>2, <2>1, <2>2, Zenon
<1> QED
  BY <1>1, <1>2, Zenon

\* The strings the writer passes are sequences of bytes.
LEMMA StringsAreSeqs == \A data \in Strings : data \in Seq(Byte)
<1>1. \A n \in 0 .. MaxString : n \in Nat
  OBVIOUS
<1> QED
  BY <1>1, SeqDef, Zenon DEF Strings

-----------------------------------------------------------------------------
(* The record.                                                             *)

\* The fields of a stream have their types.
LEMMA Fields ==
    ASSUME NEW C, NEW s \in StreamType(Byte, C)
    PROVE  /\ s.capacity \in C /\ s.buffer \in Seq(Byte)
           /\ s.bytes_written \in Nat /\ s.bytes_read \in Nat
           /\ Len(s.buffer) \in Nat
<1>1. /\ s.capacity \in C /\ s.buffer \in Seq(Byte)
      /\ s.bytes_written \in Nat /\ s.bytes_read \in Nat
  BY Zenon DEF StreamType
<1>2. \A b \in Seq(Byte) : Len(b) \in Nat
  OBVIOUS
<1> QED
  BY <1>1, <1>2, Zenon

\* end_input and set_error change a flag and nothing else.
LEMMA AfterFlag ==
    ASSUME NEW C, NEW s \in StreamType(Byte, C),
           NEW t \in {end_input(s), set_error(s)}
    PROVE  /\ t \in StreamType(Byte, C) /\ t.buffer = s.buffer
           /\ t.bytes_read = s.bytes_read /\ t.bytes_written = s.bytes_written
<1>1. CASE t = end_input(s)
  BY <1>1, Zenon DEF StreamType, end_input
<1>2. CASE t = set_error(s)
  BY <1>2, Zenon DEF StreamType, set_error
<1> QED
  BY <1>1, <1>2, Zenon

-----------------------------------------------------------------------------
(* The methods.                                                            *)

\* write appends a prefix of the string it is given, no longer than what fits.
LEMMA WriteEffect ==
    ASSUME NEW s \in StreamType(Byte, {Capacity}), NEW data \in Seq(Byte),
           Len(s.buffer) <= Capacity
    PROVE  \E k \in 0 .. Len(data) :
              /\ k <= Capacity - Len(s.buffer)
              /\ write(s, data) = [s EXCEPT !.buffer = s.buffer \o SubSeq(data, 1, k),
                                            !.bytes_written = s.bytes_written + k]
<1> DEFINE k == Accepted(s, Len(data))
<1>0. s.capacity \in {Capacity} /\ Len(s.buffer) \in Nat
  BY Fields, Zenon
<1>1. s.capacity = Capacity /\ Len(s.buffer) \in Nat
  BY <1>0, Zenon
<1>2. ASSUME NEW b \in Nat, NEW n \in Nat, b <= Capacity
      PROVE  LET m == IF b >= Capacity THEN 0 ELSE MinOf(n, Capacity - b)
             IN  m \in 0 .. n /\ m <= Capacity - b
  BY <1>2, ByteStreamAssumption DEF MinOf
<1>3. Len(data) \in Nat
  OBVIOUS
<1>4. k = IF Len(s.buffer) >= Capacity THEN 0 ELSE MinOf(Len(data), Capacity - Len(s.buffer))
  BY <1>1, Zenon DEF Accepted, buffer_size, remaining_capacity
<1>5. k \in 0 .. Len(data) /\ k <= Capacity - Len(s.buffer)
  BY <1>1, <1>2, <1>3, <1>4, Zenon
<1>6. write(s, data) = [s EXCEPT !.buffer = s.buffer \o SubSeq(data, 1, k),
                                 !.bytes_written = s.bytes_written + k]
  BY Zenon DEF write
<1> QED
  BY <1>5, <1>6, Zenon

\* pop_output, and read, drop a prefix of the buffer: the one peek_output
\* returned.
LEMMA PopEffect ==
    ASSUME NEW s \in StreamType(Byte, {Capacity}), NEW len \in Nat
    PROVE  \E k \in 0 .. Len(s.buffer) :
              /\ peek_output(s, len) = SubSeq(s.buffer, 1, k)
              /\ pop_output(s, len) =
                    [s EXCEPT !.buffer = SubSeq(s.buffer, k + 1, Len(s.buffer)),
                              !.bytes_read = s.bytes_read + k]
              /\ read(s, len) = pop_output(s, len)
<1> DEFINE k == MinOf(len, Len(s.buffer))
<1>1. s.buffer \in Seq(Byte) /\ Len(s.buffer) \in Nat
  BY Fields, Zenon
<1>2. ASSUME NEW b \in Nat
      PROVE  MinOf(len, b) \in 0 .. b /\ MinOf(MinOf(len, b), b) = MinOf(len, b)
  BY DEF MinOf
<1>3. k \in 0 .. Len(s.buffer) /\ MinOf(k, Len(s.buffer)) = k
  BY <1>1, <1>2, Zenon
<1>4. peek_output(s, len) = SubSeq(s.buffer, 1, k)
  BY Zenon DEF peek_output, buffer_size
<1>5. Len(peek_output(s, len)) = k
  BY <1>1, <1>3, <1>4, SplitSeq, Zenon
<1>6. pop_output(s, len) =
         [s EXCEPT !.buffer = SubSeq(s.buffer, k + 1, Len(s.buffer)),
                   !.bytes_read = s.bytes_read + k]
  BY Zenon DEF pop_output, buffer_size
<1>7. pop_output(s, k) =
         [s EXCEPT !.buffer = SubSeq(s.buffer, k + 1, Len(s.buffer)),
                   !.bytes_read = s.bytes_read + k]
  BY <1>3, Zenon DEF pop_output, buffer_size
<1> QED
  BY <1>3, <1>4, <1>5, <1>6, <1>7, Zenon DEF read

-----------------------------------------------------------------------------
(* The invariant.                                                          *)

Inv == TypeOK /\ BoundedFifo

(* A new stream (byte_stream.hh:30) satisfies the invariant. *)
LEMMA InitInv == Init => Inv
<1> SUFFICES ASSUME Init PROVE Inv
  OBVIOUS
<1>1. stream \in StreamType(Byte, {Capacity}) /\ stream.buffer = <<>>
      /\ stream.bytes_written = 0 /\ stream.bytes_read = 0
  BY Zenon, EmptySeq, ByteStreamAssumption DEF Init, NewStream, StreamType
<1> QED
  BY <1>1, ByteStreamAssumption DEF Init, Inv, TypeOK, BoundedFifo

\* A step that leaves the buffer and the counters alone keeps the invariant.
LEMMA FlagInv ==
    ASSUME Inv, stream' \in {end_input(stream), set_error(stream)},
           accepted' = accepted, delivered' = delivered
    PROVE  Inv'
<1>1. /\ stream' \in StreamType(Byte, {Capacity}) /\ stream'.buffer = stream.buffer
      /\ stream'.bytes_read = stream.bytes_read
      /\ stream'.bytes_written = stream.bytes_written
  BY AfterFlag, Zenon DEF Inv, TypeOK
<1> QED
  BY <1>1, Zenon DEF Inv, TypeOK, BoundedFifo

\* write keeps it: what is appended to the buffer is appended to accepted.
LEMMA WriteInv ==
    ASSUME Inv, NEW data \in Strings, Write(data)
    PROVE  Inv'
<1> DEFINE b == stream.buffer
<1>1. data \in Seq(Byte)
  BY StringsAreSeqs, Zenon
<1>2. stream \in StreamType(Byte, {Capacity}) /\ Len(b) <= Capacity
  BY Zenon DEF Inv, TypeOK, BoundedFifo
<1>3. PICK k \in 0 .. Len(data) :
         /\ k <= Capacity - Len(b)
         /\ write(stream, data) = [stream EXCEPT !.buffer = b \o SubSeq(data, 1, k),
                                   !.bytes_written = stream.bytes_written + k]
  BY <1>1, <1>2, WriteEffect, Zenon
<1> DEFINE d == SubSeq(data, 1, k)
<1>4. d \in Seq(Byte) /\ Len(d) = k
  BY <1>1, SplitSeq, Zenon
<1>5. /\ b \in Seq(Byte) /\ Len(b) \in Nat /\ stream.bytes_written \in Nat
      /\ delivered \in Seq(Byte) /\ accepted = delivered \o b
      /\ stream.bytes_written = Len(accepted) /\ stream.bytes_read = Len(delivered)
  BY <1>2, Fields, Zenon DEF Inv, TypeOK, BoundedFifo
<1>6. /\ accepted \o d = delivered \o (b \o d)
      /\ b \o d \in Seq(Byte) /\ Len(b \o d) = Len(b) + k
      /\ accepted \o d \in Seq(Byte) /\ Len(accepted \o d) = Len(accepted) + k
  <2>1. /\ (delivered \o b) \o d = delivered \o (b \o d)
        /\ b \o d \in Seq(Byte) /\ Len(b \o d) = Len(b) + Len(d)
        /\ (delivered \o b) \o d \in Seq(Byte)
        /\ Len((delivered \o b) \o d) = Len(delivered \o b) + Len(d)
    <3>1. delivered \in Seq(Byte) /\ b \in Seq(Byte) /\ d \in Seq(Byte)
      BY <1>4, <1>5, Zenon
    <3> HIDE DEF b, d
    <3> QED
      BY <3>1
  <2> QED
    BY <1>4, <1>5, <2>1, Zenon
<1>7. ASSUME NEW n \in Nat, NEW w \in Nat
      PROVE  /\ w + k \in Nat /\ (w + k) - w = k
             /\ k <= Capacity - n => n + k <= Capacity
  BY <1>1, ByteStreamAssumption
<1>8. /\ stream' \in StreamType(Byte, {Capacity}) /\ stream'.buffer = b \o d
      /\ stream'.bytes_written = stream.bytes_written + k
      /\ stream'.bytes_read = stream.bytes_read
  <2>1. stream.bytes_written + k \in Nat
    BY <1>5, <1>7, Zenon
  <2>2. stream' = [stream EXCEPT !.buffer = b \o d,
                                 !.bytes_written = stream.bytes_written + k]
    BY <1>3, Zenon DEF Write
  <2>3. b \o d \in Seq(Byte)
    BY <1>6
  <2>4. stream \in StreamType(Byte, {Capacity})
    BY <1>2
  <2> HIDE DEF b, d
  <2> QED
    BY <2>1, <2>2, <2>3, <2>4, Zenon DEF StreamType
<1>9. accepted' = accepted \o d /\ delivered' = delivered
  BY <1>5, <1>7, <1>8, Zenon DEF Write
<1>10. Len(b \o d) <= Capacity
  BY <1>3, <1>5, <1>6, <1>7, Zenon
<1> QED
  BY <1>5, <1>6, <1>8, <1>9, <1>10, Zenon DEF Inv, TypeOK, BoundedFifo

\* read and pop_output keep it: what leaves the buffer enters delivered.
LEMMA TakeInv ==
    ASSUME Inv, NEW len \in Nat, stream' = pop_output(stream, len),
           delivered' = delivered \o peek_output(stream, len), accepted' = accepted
    PROVE  Inv'
<1> DEFINE b == stream.buffer
<1>1. stream \in StreamType(Byte, {Capacity}) /\ Len(b) <= Capacity
  BY Zenon DEF Inv, TypeOK, BoundedFifo
<1>2. PICK k \in 0 .. Len(b) :
         /\ peek_output(stream, len) = SubSeq(b, 1, k)
         /\ pop_output(stream, len) =
               [stream EXCEPT !.buffer = SubSeq(b, k + 1, Len(b)),
                              !.bytes_read = stream.bytes_read + k]
  BY <1>1, PopEffect, Zenon
<1> DEFINE r == SubSeq(b, k + 1, Len(b))
<1>3. /\ b \in Seq(Byte) /\ Len(b) \in Nat /\ stream.bytes_read \in Nat
      /\ delivered \in Seq(Byte) /\ accepted = delivered \o b
      /\ accepted \in Seq(Byte)
      /\ stream.bytes_written = Len(accepted) /\ stream.bytes_read = Len(delivered)
  BY <1>1, Fields, Zenon DEF Inv, TypeOK, BoundedFifo
<1>4. r \in Seq(Byte) /\ Len(r) = Len(b) - k
  BY <1>3, SplitSeq, Zenon
<1>5. /\ (delivered \o SubSeq(b, 1, k)) \o r = delivered \o b
      /\ delivered \o SubSeq(b, 1, k) \in Seq(Byte)
      /\ Len(delivered \o SubSeq(b, 1, k)) = Len(delivered) + k
  BY <1>3, TakeSide, Zenon
<1>6. ASSUME NEW n \in Nat, NEW w \in Nat, k \in 0 .. n
      PROVE  w + k \in Nat /\ (n <= Capacity => n - k <= Capacity)
  BY <1>6, ByteStreamAssumption
<1>7. /\ stream' \in StreamType(Byte, {Capacity}) /\ stream'.buffer = r
      /\ stream'.bytes_read = stream.bytes_read + k
      /\ stream'.bytes_written = stream.bytes_written
  <2>1. stream.bytes_read + k \in Nat
    BY <1>3, <1>6, Zenon
  <2>2. stream' = [stream EXCEPT !.buffer = r, !.bytes_read = stream.bytes_read + k]
    BY <1>2, Zenon
  <2>3. r \in Seq(Byte)
    BY <1>4
  <2>4. stream \in StreamType(Byte, {Capacity})
    BY <1>1
  <2> HIDE DEF b, r
  <2> QED
    BY <2>1, <2>2, <2>3, <2>4, Zenon DEF StreamType
<1>8. Len(r) <= Capacity
  BY <1>1, <1>3, <1>4, <1>6, Zenon
<1> QED
  BY <1>2, <1>3, <1>5, <1>7, <1>8, Zenon DEF Inv, TypeOK, BoundedFifo

(***************************************************************************)
(* The ByteStream of byte_stream.cc is type correct and a bounded FIFO,    *)
(* whatever its capacity and whatever its writer and its reader call.      *)
(***************************************************************************)
THEOREM BoundedFifoTheorem == Spec => [](TypeOK /\ BoundedFifo)
<1>1. Inv /\ [Next]_vars => Inv'
  <2> SUFFICES ASSUME Inv, [Next]_vars PROVE Inv'
    OBVIOUS
  <2>1. ASSUME NEW data \in Strings, Write(data) PROVE Inv'
    BY <2>1, WriteInv
  <2>2. ASSUME NEW len \in 0 .. MaxString, Read(len) PROVE Inv'
    <3>1. len \in Nat
      BY ByteStreamAssumption
    <3>2. read(stream, len) = pop_output(stream, len)
      BY <3>1, PopEffect, Zenon DEF Inv, TypeOK
    <3> QED
      BY <2>2, <3>1, <3>2, TakeInv, Zenon DEF Read
  <2>3. ASSUME NEW len \in 0 .. MaxString, Pop(len) PROVE Inv'
    <3>1. len \in Nat
      BY ByteStreamAssumption
    <3> QED
      BY <2>3, <3>1, TakeInv, Zenon DEF Pop
  <2>4. CASE EndInput
    BY <2>4, FlagInv, Zenon DEF EndInput
  <2>5. CASE SetError
    BY <2>5, FlagInv, Zenon DEF SetError
  <2>6. CASE UNCHANGED vars
    BY <2>6, Zenon DEF Inv, TypeOK, BoundedFifo, vars
  <2> QED
    BY <2>1, <2>2, <2>3, <2>4, <2>5, <2>6, Zenon DEF Next
<1> QED
  BY <1>1, InitInv, PTL DEF Spec, Inv
=============================================================================
