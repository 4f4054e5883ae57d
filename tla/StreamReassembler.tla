-------------------------- MODULE StreamReassembler --------------------------
(***************************************************************************)
(* libsponge/stream_reassembler.{hh,cc}: substrings of a byte stream, in   *)
(* any order and overlapping, put back in order into an output ByteStream. *)
(* A reassembler is a record; _unassembled_segments, the std::map from a   *)
(* start index to a string, is a function whose domain is the set of keys. *)
(*                                                                         *)
(* A loop over the map visits its keys in ascending order.  It is modelled *)
(* by a recursive function that passes the indices 0, 1, ... up to the     *)
(* last key and does something where there is a key: its value at k is the *)
(* state of the loop when every key below k has been visited.              *)
(***************************************************************************)
EXTENDS ByteStream, FiniteSetsExt, Functions

CONSTANT SIZE_MOD       \* number of values of a size_t

ASSUME SizeModAssumption == SIZE_MOD \in Nat \ {0}

SIZE_MAX == SIZE_MOD - 1

\* Unsigned subtraction.
SizeMinus(a, b) == (a - b) % SIZE_MOD

NewReassembler(capacity) ==
    [output |-> NewStream(capacity), capacity |-> capacity,
     first_unassembled |-> 0, segments |-> [i \in {} |-> <<>>], eof_index |-> SIZE_MAX]

\* The first index after the last key of the map, where a loop over it ends.
End(segments) == Max({0} \cup {i + 1 : i \in DOMAIN segments})

\* Bytes stored at the key i, none if i is not a key.
SizeAt(segments, i) == IF i \in DOMAIN segments THEN Len(segments[i]) ELSE 0

TotalSize(segments) ==
    LET total[k \in 0 .. End(segments)] ==
            IF k = 0 THEN 0 ELSE total[k - 1] + SizeAt(segments, k - 1)
    IN  total[End(segments)]

unassembled_bytes(r) == TotalSize(r.segments)

empty(r) == DOMAIN r.segments = {}

Erase(segments, i) == Restrict(segments, DOMAIN segments \ {i})
Insert(segments, i, data) ==
    [j \in DOMAIN segments \cup {i} |-> IF j \in DOMAIN segments THEN segments[j] ELSE data]

\* data.substr(pos) and data.substr(0, len), pos and len at most data.size().
Suffix(data, pos) == SubSeq(data, pos + 1, Len(data))
Prefix(data, len) == SubSeq(data, 1, len)

-----------------------------------------------------------------------------
\* Wrong variant: the stored segments do not count against the capacity.
truncate_data_ignores_stored(r, data, index) ==
    LET first_unacceptable == r.output.bytes_read + r.capacity
    IN  Prefix(data, MinOf(MinOf(Len(data), SizeMinus(first_unacceptable, index)),
                           r.capacity - buffer_size(r.output)))

\* What is kept of data: what lies before the first unacceptable index (the
\* subtraction wraps around when index is past it) and fits in memory.
truncate_data(r, data, index) ==
    LET first_unacceptable == r.output.bytes_read + r.capacity
        available_space == SizeMinus(r.capacity - buffer_size(r.output), unassembled_bytes(r))
        max_len == MinOf(Len(data), SizeMinus(first_unacceptable, index))
    IN  Prefix(data, MinOf(max_len, available_space))

\* Wrong variant: the bytes are taken from the wrong end.
Extra_from_front(seg_data, extra_len) == Prefix(seg_data, extra_len)

\* What the new data lacks of a stored segment that reaches extra_len further.
Extra(seg_data, extra_len) == Suffix(seg_data, Len(seg_data) - extra_len)

\* The loop of insert_segment keeps its variables in acc; stop stands for its
\* break.  When the data and the stored segment at seg_start overlap, the one
\* that covers the other is left, or the two are joined.
MergeOverlap(acc, seg_start) ==
    LET seg_data == acc.segments[seg_start]
        seg_end == seg_start + Len(seg_data) - 1
        Joined(data, index) ==
            [acc EXCEPT !.data = data, !.index = index, !.end = index + Len(data) - 1,
                        !.segments = Erase(@, seg_start)]
    IN  IF acc.index <= seg_start /\ acc.end >= seg_end
        THEN [acc EXCEPT !.segments = Erase(@, seg_start)]
        ELSE IF seg_start <= acc.index /\ seg_end >= acc.end
        THEN [acc EXCEPT !.data = <<>>]
        ELSE IF acc.index < seg_start
        THEN Joined(acc.data \o Extra(seg_data, seg_end - acc.end), acc.index)
        ELSE Joined(Prefix(seg_data, acc.index - seg_start) \o acc.data, seg_start)

\* One turn of the loop, at the key seg_start if it is one.
MergeStep(acc, seg_start) ==
    LET seg_end == seg_start + Len(acc.segments[seg_start]) - 1
    IN  IF acc.stop \/ seg_start \notin DOMAIN acc.segments \/ seg_end < acc.index THEN acc
        ELSE IF seg_start > acc.end THEN [acc EXCEPT !.stop = TRUE]
        ELSE MergeOverlap(acc, seg_start)

\* Wrong variant: new data is stored without looking for overlaps.
insert_segment_no_merge(r, data, index) ==
    [r EXCEPT !.segments = Insert(@, index, truncate_data(r, data, index))]

\* Store what truncate_data leaves of the merged data.
StoreTruncated(r, data, index) ==
    IF data = <<>> THEN r ELSE [r EXCEPT !.segments = Insert(@, index, data)]
StoreMerged(r, acc) == StoreTruncated(r, truncate_data(r, acc.data, acc.index), acc.index)
AfterMerge(r, acc) == StoreMerged([r EXCEPT !.segments = acc.segments], acc)

\* Merge data with every stored segment it overlaps, and store the result.
insert_segment(r, data, index) ==
    LET merged[k \in 0 .. End(r.segments)] ==
            IF k = 0
            THEN [data |-> data, index |-> index, end |-> index + Len(data) - 1,
                  segments |-> r.segments, stop |-> FALSE]
            ELSE MergeStep(merged[k - 1], k - 1)
    IN  AfterMerge(r, merged[End(r.segments)])

\* Drop or shorten the stored segment at i if it starts before first_unassembled.
\* (Stored segments never overlap, so inserting the remainder of one never
\* erases the one the iterator has moved on to.)
Trim(r, i) ==
    LET erased == [r EXCEPT !.segments = Erase(@, i)]
    IN  IF i \notin DOMAIN r.segments \/ i >= r.first_unassembled THEN r
        ELSE IF i + Len(r.segments[i]) <= r.first_unassembled THEN erased
        ELSE insert_segment(erased, Suffix(r.segments[i], r.first_unassembled - i),
                            r.first_unassembled)

try_assemble(r) ==
    LET trimmed[k \in 0 .. End(r.segments)] ==
            IF k = 0 THEN r ELSE Trim(trimmed[k - 1], k - 1)
    IN  trimmed[End(r.segments)]

\* _output.write(data); _first_unassembled += written
Written(r, output) ==
    [r EXCEPT !.output = output,
              !.first_unassembled = @ + (output.bytes_written - r.output.bytes_written)]
WriteOut(r, data) == Written(r, write(r.output, data))

\* Wrong variant: the stored segments are not looked at again.
AssembleStored_not(r) == r

\* Write out the stored segment that starts at first_unassembled.
WriteStored(r) ==
    IF r.first_unassembled \in DOMAIN r.segments
    THEN [WriteOut(r, r.segments[r.first_unassembled])
            EXCEPT !.segments = Erase(@, r.first_unassembled)]
    ELSE r

\* The while loop of push_substring: a turn that finds a segment writes it to
\* the output, which has room for it, so there are at most as many turns as
\* bytes fit in the output, and a last one that finds none.
AssembleStored(r) ==
    LET turns == remaining_capacity(r.output) + 1
        after[k \in 0 .. turns] ==
            IF k = 0 THEN r ELSE WriteStored(try_assemble(after[k - 1]))
    IN  after[turns]

EndIf(r, condition) == IF condition THEN [r EXCEPT !.output = end_input(@)] ELSE r
EndIfComplete(r) == EndIf(r, empty(r) /\ r.first_unassembled = r.eof_index)

\* Wrong variant: only a substring that comes in order can end the stream.
NoteEof_in_order(r, data, index, eof_flag) ==
    IF eof_flag /\ index <= r.first_unassembled
    THEN [r EXCEPT !.eof_index = index + Len(data)] ELSE r

NoteEof(r, data, index, eof_flag) ==
    IF eof_flag THEN [r EXCEPT !.eof_index = index + Len(data)] ELSE r

\* data holds bytes from first_unassembled on, or starts after it.
PushNew(r, data, index) ==
    IF index = r.first_unassembled
    THEN AssembleStored(WriteOut(r, truncate_data(r, data, index)))
    ELSE insert_segment(r, data, index)

\* The first start_data bytes of data are assembled already.
PushFrom(r, data, index, start_data) ==
    IF start_data >= Len(data)
    THEN EndIf(r, empty(r) /\ r.first_unassembled >= r.eof_index)
    ELSE EndIfComplete(PushNew(r, Suffix(data, start_data), index + start_data))

push_substring(r, data, index, eof_flag) ==
    PushFrom(NoteEof(r, data, index, eof_flag), data, index,
             IF index < r.first_unassembled THEN r.first_unassembled - index ELSE 0)
=============================================================================
