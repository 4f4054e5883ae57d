-------------------------- MODULE ReassemblerProofs --------------------------
(***************************************************************************)
(* The reassembler keeps every byte at its index, stays within its memory, *)
(* ends the output exactly at the end of the stream, and implements        *)
(* Reassembly: for streams, capacities and substrings of every length.     *)
(*                                                                         *)
(* What push_substring does is established in ReassemblerLemmas, one loop  *)
(* after the other.  Here remains the induction over the calls.  IInv adds *)
(* to the three properties what the next call relies on: the type and the  *)
(* counters (Shape), that every stored segment starts after the first      *)
(* missing byte (Settled), where the end of the stream is noted, and, for  *)
(* a peer that keeps to the window, that stored bytes lie before its right *)
(* edge, without which a later insertion could push them out of memory.    *)
(***************************************************************************)
EXTENDS ReassemblerSpec, ReassemblerLemmas, FiniteSetTheorems

IInv ==
    /\ Shape(r, N) /\ Settled(r) /\ r.capacity = Capacity
    /\ eof_seen \in BOOLEAN /\ keeps_window \in BOOLEAN
    /\ r.eof_index = IF eof_seen THEN N ELSE SIZE_MAX
    /\ keeps_window => Within(r.segments, RightEdge(r))
    /\ EofExact

LEMMA Sizes == /\ N \in Nat /\ Capacity \in Nat /\ Capacity # 0 /\ MaxLen \in Nat
               /\ SIZE_MAX \in Nat /\ N + Capacity < SIZE_MOD /\ N < SIZE_MAX
  BY ReassemblerAssumption, SizeModAssumption DEF SIZE_MAX

\* When every byte is assembled nothing is stored.
LEMMA WholeIsEmpty ==
    ASSUME NEW n \in Nat, NEW u, Shape(u, n), Settled(u), u.first_unassembled = n
    PROVE  DOMAIN u.segments = {}
<1> SUFFICES ASSUME NEW i \in DOMAIN u.segments PROVE FALSE
  OBVIOUS
<1>1. /\ i \in Nat /\ Len(u.segments[i]) \in Nat /\ Len(u.segments[i]) > 0
      /\ i + Len(u.segments[i]) <= n
  BY PlacedFacts DEF Shape
<1>2. n < i
  BY DEF Settled
<1> QED
  BY <1>1, <1>2

LEMMA InitInv == Init => IInv
<1> SUFFICES ASSUME Init PROVE IInv
  OBVIOUS
<1>1. r = NewReassembler(Capacity) /\ eof_seen = FALSE /\ keeps_window \in BOOLEAN
  BY DEF Init
<1>2. /\ Shape(r, N) /\ DOMAIN r.segments = {} /\ r.capacity = Capacity
      /\ r.first_unassembled = 0 /\ r.eof_index = SIZE_MAX
      /\ r.output.bytes_read = 0 /\ r.output.input_ended = FALSE
  BY <1>1, Sizes, NewShape, Zenon
<1> QED
  BY <1>1, <1>2, Zenon DEF IInv, Settled, Within, EofExact

\* What a call of push_substring gives.
LEMMA PushStep ==
    ASSUME IInv, NEW index \in 0 .. N, NEW len \in 0 .. MaxLen, NEW eof_flag \in BOOLEAN,
           Push(index, len, eof_flag)
    PROVE  Pushed(r', r, Bytes(index, len), index, eof_flag, N)
<1>1. N \in Nat /\ SIZE_MAX \in Nat /\ N < SIZE_MAX /\ index \in Nat /\ len \in Nat
  BY Sizes
<1>2. r' = push_substring(r, Bytes(index, len), index, eof_flag)
  BY DEF Push
<1>3. InPlace(Bytes(index, len), index) /\ Len(Bytes(index, len)) = len
  BY <1>1, BytesPlaced DEF Bytes
<1>4. Shape(r, N) /\ Settled(r) /\ r.eof_index >= N
  BY <1>1 DEF IInv
<1>5. index + len <= N /\ (eof_flag => index + len = N)
  BY DEF Push
<1> QED
  BY <1>1, <1>2, <1>3, <1>4, <1>5, PushGood

LEMMA PushInv ==
    ASSUME IInv, NEW index \in 0 .. N, NEW len \in 0 .. MaxLen, NEW eof_flag \in BOOLEAN,
           Push(index, len, eof_flag)
    PROVE  IInv'
<1>1. Pushed(r', r, Bytes(index, len), index, eof_flag, N)
  BY PushStep
<1>2. Taken(r', r, index, N)
  BY <1>1 DEF Pushed
<1>3. Shape(r', N) /\ Settled(r') /\ r'.capacity = Capacity
  BY <1>2 DEF Taken, IInv
<1>4. /\ eof_seen' = (eof_seen \/ eof_flag) /\ keeps_window' = keeps_window
      /\ keeps_window => index <= r.output.bytes_read + Capacity
      /\ eof_seen \in BOOLEAN /\ keeps_window \in BOOLEAN
  BY DEF Push, IInv
<1>5. r'.eof_index = IF eof_seen' THEN N ELSE SIZE_MAX
  BY <1>1, <1>4 DEF Pushed, IInv
<1>6. keeps_window' => Within(r'.segments, RightEdge(r'))
  <2>1. RightEdge(r') = RightEdge(r) /\ RightEdge(r) = r.output.bytes_read + Capacity
    BY <1>2 DEF Taken, RightEdge, IInv
  <2> QED
    BY <1>2, <1>4, <2>1 DEF Taken, IInv
<1>7. EofExact'
  <2>1. /\ N \in Nat /\ N < SIZE_MAX /\ SIZE_MAX \in Nat
        /\ r.first_unassembled \in Nat /\ r'.first_unassembled \in Nat
        /\ r.first_unassembled <= r'.first_unassembled /\ r'.first_unassembled <= N
    BY <1>2, <1>3, Sizes, ShapeFacts DEF Taken, IInv
  <2>2. r'.first_unassembled = N => DOMAIN r'.segments = {}
    BY <1>3, <2>1, WholeIsEmpty
  <2>3. r'.output.input_ended <=> \/ r.output.input_ended
                                  \/ DOMAIN r'.segments = {} /\ r'.first_unassembled = r'.eof_index
    BY <1>1 DEF Pushed
  <2>4. r'.first_unassembled = r'.eof_index <=> eof_seen' /\ r'.first_unassembled = N
    BY <1>5, <2>1
  <2>5. r.output.input_ended => eof_seen' /\ r'.first_unassembled = N
    <3>1. r.output.input_ended => eof_seen /\ r.first_unassembled = N
      BY DEF EofExact, IInv
    <3>2. eof_seen => eof_seen'
      BY Zenon, <1>4
    <3>3. r.first_unassembled = N => r'.first_unassembled = N
      BY <2>1
    <3> QED
      BY Zenon, <3>1, <3>2, <3>3
  <2> QED
    BY <2>2, <2>3, <2>4, <2>5 DEF EofExact
<1> QED
  BY <1>3, <1>4, <1>5, <1>6, <1>7 DEF IInv

LEMMA ReadStep ==
    ASSUME IInv, NEW len \in 1 .. Capacity, Read(len)
    PROVE  HasRead(r', r, len, N) /\ eof_seen' = eof_seen /\ keeps_window' = keeps_window
<1>1. N \in Nat /\ len \in Nat /\ Shape(r, N)
  BY Sizes DEF IInv
<1>2. r' = [r EXCEPT !.output = read(r.output, len)]
  BY DEF Read
<1> QED
  BY <1>1, <1>2, ReadShape DEF Read

LEMMA ReadInv ==
    ASSUME IInv, NEW len \in 1 .. Capacity, Read(len)
    PROVE  IInv'
<1>1. HasRead(r', r, len, N) /\ eof_seen' = eof_seen /\ keeps_window' = keeps_window
  BY ReadStep
<1>2. /\ Shape(r', N) /\ Settled(r') /\ r'.capacity = Capacity
      /\ r'.eof_index = IF eof_seen' THEN N ELSE SIZE_MAX
  BY <1>1 DEF HasRead, IInv, Settled
<1>3. EofExact'
  BY <1>1 DEF HasRead, IInv, EofExact
<1>4. ASSUME keeps_window' PROVE Within(r'.segments, RightEdge(r'))
  <2>1. RightEdge(r) \in Nat /\ RightEdge(r') \in Nat /\ RightEdge(r) <= RightEdge(r')
    <3> DEFINE k == MinOf(len, Len(r.output.buffer))
    <3>1. /\ Len(r.output.buffer) \in Nat /\ r.output.bytes_read \in Nat /\ r.capacity \in Nat
      BY Sizes, ShapeFacts DEF IInv
    <3>2. k \in Nat
      BY <3>1 DEF MinOf
    <3>3. r'.output.bytes_read = r.output.bytes_read + k /\ r'.capacity = r.capacity
      BY <1>1 DEF HasRead
    <3> HIDE DEF k
    <3> QED
      BY <3>1, <3>2, <3>3 DEF RightEdge
  <2>2. Within(r.segments, RightEdge(r)) /\ r'.segments = r.segments
    BY <1>1, <1>4 DEF IInv, HasRead
  <2>3. ASSUME NEW i \in DOMAIN r.segments PROVE i \in Nat /\ Len(r.segments[i]) \in Nat
    BY PlacedFacts DEF IInv, Shape
  <2> QED
    BY <2>1, <2>2, <2>3 DEF Within
<1> QED
  BY <1>1, <1>2, <1>3, <1>4 DEF IInv

LEMMA NextInv == IInv /\ [Next]_vars => IInv'
<1> SUFFICES ASSUME IInv, [Next]_vars PROVE IInv'
  OBVIOUS
<1>1. CASE \E index \in 0 .. N, len \in 0 .. MaxLen, eof_flag \in BOOLEAN :
              Push(index, len, eof_flag)
  BY <1>1, PushInv
<1>2. CASE \E len \in 1 .. Capacity : Read(len)
  BY <1>2, ReadInv
<1>3. CASE UNCHANGED vars
  BY <1>3 DEF vars, IInv, EofExact
<1> QED
  BY <1>1, <1>2, <1>3 DEF Next

LEMMA InvHolds == Spec => []IInv
  BY InitInv, NextInv, PTL DEF Spec

-----------------------------------------------------------------------------
(* What the invariant says                                                 *)

LEMMA InPlaceInv == IInv => BytesInPlace
<1> SUFFICES ASSUME IInv PROVE BytesInPlace
  OBVIOUS
<1>1. N \in Nat /\ Shape(r, N) /\ Settled(r)
  BY Sizes DEF IInv
<1>2. Placed(r.segments, N) /\ Holds(r.output) /\ r.first_unassembled = r.output.bytes_written
  BY <1>1 DEF Shape
<1>3. r.output.buffer = Bytes(r.output.bytes_read, buffer_size(r.output))
  <2>1. r.output.buffer \in Seq(Nat) /\ r.output.bytes_read \in Nat
    BY <1>1, RFields, StreamFields DEF Shape
  <2>2. InPlace(r.output.buffer, r.output.bytes_read)
    BY <1>2, <2>1 DEF Holds, InPlace
  <2> QED
    BY <2>1, <2>2, InPlaceIs DEF Bytes, buffer_size
<1>4. ASSUME NEW i \in DOMAIN r.segments
      PROVE  /\ r.segments[i] = Bytes(i, Len(r.segments[i]))
             /\ r.segments[i] # <<>> /\ i > r.first_unassembled
             /\ \A j \in DOMAIN r.segments : i # j => Span(i) \cap Span(j) = {}
  <2>1. /\ i \in Nat /\ Len(r.segments[i]) \in Nat /\ Len(r.segments[i]) > 0
        /\ InPlace(r.segments[i], i)
    BY <1>2, PlacedFacts
  <2>2. r.segments[i] = Bytes(i, Len(r.segments[i]))
    BY <2>1, InPlaceIs DEF Bytes
  <2>3. r.first_unassembled \in Nat /\ r.first_unassembled < i
    BY <1>1, ShapeFacts DEF Settled
  <2>4. ASSUME NEW j \in DOMAIN r.segments, i # j
        PROVE  Span(i) \cap Span(j) = {}
    <3> DEFINE a == Len(r.segments[i])
               b == Len(r.segments[j])
    <3>1. j \in Nat /\ b \in Nat /\ a \in Nat
      BY <1>2, <2>1, PlacedFacts
    <3>2. (i < j => i + a <= j) /\ (j < i => j + b <= i)
      BY <1>2, PlacedFacts
    <3>3. Span(i) = i .. (i + a - 1) /\ Span(j) = j .. (j + b - 1)
      BY DEF Span
    <3> HIDE DEF a, b
    <3> QED
      BY <2>1, <2>4, <3>1, <3>2, <3>3
  <2> QED
    BY <2>1, <2>2, <2>3, <2>4
<1> QED
  BY <1>2, <1>3, <1>4 DEF BytesInPlace

LEMMA MemoryInv == IInv => MemoryBound
  BY Sizes, ShapeFacts DEF IInv, MemoryBound, buffer_size, unassembled_bytes

(***************************************************************************)
(* Whatever the capacity and however the stream is cut into substrings,    *)
(* every byte in the output and in the map is the byte of the stream at    *)
(* its index, and stored segments are disjoint and lie after the first     *)
(* missing byte (insert_segment and try_assemble, stream_reassembler.cc:   *)
(* 52-132).                                                                *)
(***************************************************************************)
THEOREM ReassemblerInPlace == Spec => []BytesInPlace
  BY InvHolds, InPlaceInv, PTL

(***************************************************************************)
(* The unread and the stored bytes together never exceed the capacity      *)
(* (truncate_data, stream_reassembler.cc:134-140), even when segments      *)
(* overlap or start beyond the window.                                     *)
(***************************************************************************)
THEOREM ReassemblerMemory == Spec => []MemoryBound
  BY InvHolds, MemoryInv, PTL

(***************************************************************************)
(* The output ends exactly when an eof mark has been pushed and the last   *)
(* byte is assembled, in either order (stream_reassembler.cc:6-8, 14, 47). *)
(***************************************************************************)
THEOREM ReassemblerEof == Spec => []EofExact
<1>1. IInv => EofExact
  BY DEF IInv
<1> QED
  BY <1>1, InvHolds, PTL

-----------------------------------------------------------------------------
(* The refinement                                                          *)

LEMMA StoredIs ==
    ASSUME NEW n, NEW u, Shape(u, n)
    PROVE  UNION {i .. (i + Len(u.segments[i]) - 1) : i \in DOMAIN u.segments}
                = {x \in Nat : Covers(u.segments, x)}
<1> DEFINE S == u.segments
           span(i) == i .. (i + Len(S[i]) - 1)
           all == UNION {span(i) : i \in DOMAIN S}
<1>1. ASSUME NEW i \in DOMAIN S PROVE i \in Nat /\ Len(S[i]) \in Nat
  BY PlacedFacts DEF Shape
<1>2. ASSUME NEW i \in DOMAIN S, NEW x
      PROVE  x \in span(i) <=> x \in Nat /\ i <= x /\ x < i + Len(S[i])
  BY <1>1
<1>3. \A x : x \in all <=> \E i \in DOMAIN S : x \in span(i)
  OBVIOUS
<1> HIDE DEF all, span
<1>4. \A x : x \in all <=> x \in Nat /\ Covers(S, x)
  BY <1>2, <1>3 DEF Covers
<1>5. all = {x \in Nat : Covers(S, x)}
  BY <1>4
<1> QED
  BY <1>5 DEF all, span

\* A set of indices between a and b has at most as many elements as fit there.
LEMMA CountBetween ==
    ASSUME NEW a \in Nat, NEW b \in Nat, a <= b, NEW X, X \subseteq (a + 1) .. (b - 1)
    PROVE  Cardinality(X) \in Nat /\ Cardinality(X) <= b - a
<1>1. /\ IsFiniteSet((a + 1) .. (b - 1))
      /\ Cardinality((a + 1) .. (b - 1)) = IF a + 1 > b - 1 THEN 0 ELSE (b - 1) - (a + 1) + 1
  BY FS_Interval
<1>2. Cardinality(X) <= Cardinality((a + 1) .. (b - 1)) /\ IsFiniteSet(X)
  BY <1>1, FS_Subset, Zenon
<1>3. Cardinality(X) \in Nat
  BY <1>2, FS_CardinalityType
<1> QED
  BY <1>1, <1>2, <1>3

\* A call of push_substring, for a peer that keeps to the window, is a step of the
\* abstract reassembler that keeps what is then assembled or stored.
LEMMA PushRefines ==
    ASSUME IInv, IInv', NEW index \in 0 .. N, NEW len \in 0 .. MaxLen, NEW eof_flag \in BOOLEAN,
           Push(index, len, eof_flag), keeps_window
    PROVE  Abstract!Next
<1> DEFINE f == r.first_unassembled
           g == r'.first_unassembled
           E == RightEdge(r)
           c == r.output.bytes_read
           kept == (f .. (g - 1)) \cup Stored'
           known == Stored \cup kept
<1>1. keeps_window' /\ index <= c + Capacity
  BY DEF Push
<1>2. Taken(r', r, index, N)
  BY PushStep DEF Pushed
<1>3. Shape(r, N) /\ Shape(r', N) /\ Settled(r') /\ r.capacity = Capacity /\ r'.capacity = Capacity
      /\ Within(r.segments, E)
  BY <1>1 DEF IInv
<1>4. Within(r'.segments, E) /\ NoLossFrom(r.segments, r'.segments, g)
  BY <1>1, <1>2, <1>3 DEF Taken, RightEdge
<1>5. /\ f \in Nat /\ g \in Nat /\ f <= g /\ g <= N /\ N \in Nat /\ E \in Nat /\ c \in Nat
      /\ g <= E /\ E = c + Capacity /\ r'.output.bytes_read = c /\ Capacity \in Nat
  <2>1. RightEdge(r') = E
    BY <1>2 DEF Taken, RightEdge
  <2>2. r'.output.bytes_read = c /\ f <= g
    BY <1>2 DEF Taken
  <2>3. E = c + Capacity
    BY <1>3 DEF RightEdge
  <2> QED
    BY <1>3, <2>1, <2>2, <2>3, Sizes, ShapeFacts, Zenon
<1>6. Stored = {x \in Nat : Covers(r.segments, x)} /\ Stored' = {x \in Nat : Covers(r'.segments, x)}
  BY <1>3, StoredIs DEF Stored, Span
<1>7. ASSUME NEW x \in Stored' PROVE x \in Nat /\ g < x /\ x < E /\ x < N
  <2>1. PICK i \in DOMAIN r'.segments : i <= x /\ x < i + Len(r'.segments[i])
    BY <1>6 DEF Covers
  <2>2. i \in Nat /\ Len(r'.segments[i]) \in Nat /\ i + Len(r'.segments[i]) <= N
    BY <1>3, PlacedFacts DEF Shape
  <2>3. g < i /\ i + Len(r'.segments[i]) <= E
    BY <1>3, <1>4 DEF Settled, Within
  <2>4. x \in Nat
    BY <1>6
  <2> DEFINE L == Len(r'.segments[i])
  <2> HIDE DEF f, g, E, c, L
  <2> QED
    BY <1>5, <2>1, <2>2, <2>3, <2>4 DEF L
<1>8. ASSUME NEW x \in Stored, g <= x PROVE x \in Stored'
  BY <1>4, <1>6, <1>8 DEF NoLossFrom
<1>9. Stored \subseteq Nat
  BY <1>6
<1> HIDE DEF f, g, E, c
<1>10. kept \in SUBSET (f .. (N - 1))
  BY <1>5, <1>7
<1>11. g \in f .. N /\ \A i \in f .. (g - 1) : i \in known
  BY <1>5
<1>12. g \notin known
  BY <1>5, <1>7, <1>8
<1>13. Stored' = {i \in known : i > g}
  <2>1. ASSUME NEW x \in known, x > g PROVE x \in Stored'
    BY <1>5, <1>8, <1>9, <2>1
  <2>2. ASSUME NEW x \in Stored' PROVE x \in known /\ x > g
    BY <1>5, <1>7
  <2> QED
    BY <2>1, <2>2
<1>14. (g - c) + Cardinality(Stored') <= Capacity
  <2>1. Stored' \subseteq (g + 1) .. (E - 1)
    BY <1>5, <1>7
  <2>2. Cardinality(Stored') \in Nat /\ Cardinality(Stored') <= E - g
    BY <1>5, <2>1, CountBetween, Zenon
  <2> QED
    BY <1>5, <2>2
<1>15. r'.output.input_ended \in {r.output.input_ended, g = N}
  <2>1. (r.output.input_ended <=> eof_seen /\ f = N) /\ (r'.output.input_ended <=> eof_seen' /\ g = N)
    BY DEF IInv, EofExact, f, g
  <2>2. r.output.input_ended \in BOOLEAN /\ r'.output.input_ended \in BOOLEAN
    BY <1>3, RFields, StreamFields DEF Shape
  <2>3. eof_seen => eof_seen'
    BY Zenon DEF Push
  <2>4. f = N => g = N
    BY <1>5
  <2> HIDE DEF f, g
  <2> QED
    BY Zenon, <2>1, <2>2, <2>3, <2>4
<1> DEFINE assembled == IF keeps_window THEN r.first_unassembled ELSE 0
           stored == IF keeps_window THEN Stored ELSE {}
           consumed == IF keeps_window THEN r.output.bytes_read ELSE 0
           ended == keeps_window /\ r.output.input_ended
<1>16. /\ assembled = f /\ assembled' = g /\ stored = Stored /\ stored' = Stored'
       /\ consumed = c /\ consumed' = c
       /\ ended = r.output.input_ended /\ ended' = r'.output.input_ended
  <2>1. r.output.input_ended \in BOOLEAN /\ r'.output.input_ended \in BOOLEAN
    BY <1>3, RFields, StreamFields DEF Shape
  <2> QED
    BY Zenon, <1>1, <1>5, <2>1 DEF f, g, c
<1>17. /\ assembled' \in assembled .. N
       /\ \A i \in assembled .. (assembled' - 1) : i \in stored \cup kept
       /\ assembled' \notin stored \cup kept
       /\ stored' = {i \in stored \cup kept : i > assembled'}
       /\ (assembled' - consumed) + Cardinality(stored') <= Capacity
       /\ ended' \in {ended, assembled' = N}
       /\ UNCHANGED consumed
  BY Zenon, <1>11, <1>12, <1>13, <1>14, <1>15, <1>16
<1>18. Abstract!Receive(kept)
  <2>1. Abstract!Cardinality(stored') = Cardinality(stored')
    BY DEF Cardinality, Abstract!Cardinality
  <2> QED
    BY Zenon, <1>17, <2>1 DEF Abstract!Receive
<1> QED
  BY <1>10, <1>18 DEF Abstract!Next, f

\* A read is a step of the abstract reader.
LEMMA ReadRefines ==
    ASSUME IInv, NEW len \in 1 .. Capacity, Read(len), keeps_window
    PROVE  Abstract!Next
<1> DEFINE k == MinOf(len, Len(r.output.buffer))
           f == r.first_unassembled
           c == r.output.bytes_read
<1>1. HasRead(r', r, len, N) /\ keeps_window'
  BY ReadStep, Zenon
<1>2. /\ r'.segments = r.segments /\ r'.first_unassembled = f
      /\ r'.output.input_ended = r.output.input_ended /\ r'.output.bytes_read = c + k
  BY <1>1 DEF HasRead
<1>3. Stored' = Stored
  BY <1>2 DEF Stored, Span
<1>4. k \in 1 .. Capacity /\ c + k <= f
  <2>1. /\ f \in Nat /\ c \in Nat /\ Len(r.output.buffer) \in Nat /\ f = c + Len(r.output.buffer)
        /\ Capacity \in Nat
    BY Sizes, ShapeFacts DEF IInv
  <2>2. Len(r.output.buffer) > 0
    <3>1. r.output.buffer \in Seq(Nat) /\ r.output.buffer # <<>>
      BY RFields, StreamFields DEF IInv, Shape, Read, buffer_empty
    <3> QED
      BY <2>1, <3>1
  <2> QED
    BY <2>1, <2>2 DEF MinOf
<1> HIDE DEF k
<1>5. Abstract!Consume(k)
  BY Zenon, <1>1, <1>2, <1>3, <1>4 DEF Abstract!Consume
<1> QED
  BY <1>4, <1>5 DEF Abstract!Next

\* Nothing happens in the abstract specification when its view does not change.
LEMMA SameView ==
    ASSUME \/ ~keeps_window /\ ~keeps_window'
           \/ UNCHANGED vars
    PROVE  UNCHANGED Abstract!vars
<1>1. CASE UNCHANGED vars
  <2>1. Stored' = Stored /\ r' = r /\ keeps_window' = keeps_window
    BY <1>1 DEF vars, Stored, Span
  <2> QED
    BY Zenon, <2>1 DEF Abstract!vars
<1>2. CASE ~keeps_window /\ ~keeps_window'
  BY Zenon, <1>2 DEF Abstract!vars
<1> QED
  BY <1>1, <1>2

LEMMA InitRefines == Init => Abstract!Init
<1> SUFFICES ASSUME Init PROVE Abstract!Init
  OBVIOUS
<1>1. /\ DOMAIN r.segments = {} /\ r.first_unassembled = 0
      /\ r.output.bytes_read = 0 /\ r.output.input_ended = FALSE
  BY Sizes, NewShape, Zenon DEF Init
<1>2. Stored = {}
  BY <1>1 DEF Stored
<1> QED
  BY <1>1, <1>2 DEF Abstract!Init

LEMMA StepRefines == IInv /\ IInv' /\ [Next]_vars => [Abstract!Next]_(Abstract!vars)
<1> SUFFICES ASSUME IInv, IInv', [Next]_vars
             PROVE  Abstract!Next \/ UNCHANGED Abstract!vars
  OBVIOUS
<1>1. CASE UNCHANGED vars
  BY <1>1, SameView
<1>2. CASE Next
  <2>1. keeps_window' = keeps_window
    BY <1>2 DEF Next, Push, Read
  <2>2. CASE ~keeps_window
    BY <2>1, <2>2, SameView
  <2>3. CASE keeps_window
    BY <1>2, <2>3, PushRefines, ReadRefines DEF Next
  <2> QED
    BY <2>2, <2>3
<1> QED
  BY <1>1, <1>2

(***************************************************************************)
(* The reassembler implements Reassembly: to a peer that keeps to the      *)
(* window, each call of push_substring is one atomic step that forgets no  *)
(* stored byte, hands over the longest prefix it knows and stays within    *)
(* the capacity, whatever the map and its merges look like                 *)
(* (stream_reassembler.cc:5-50).                                           *)
(***************************************************************************)
THEOREM ReassemblerRefines == Spec => Refines
<1>1. Init => Abstract!Init
  BY InitRefines
<1>2. IInv /\ IInv' /\ [Next]_vars => [Abstract!Next]_(Abstract!vars)
  BY StepRefines
<1> QED
  BY <1>1, <1>2, InvHolds, PTL DEF Spec, Refines, Abstract!Spec
=============================================================================
