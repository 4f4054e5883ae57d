----------------------------- MODULE ByteStream -----------------------------
(***************************************************************************)
(* libsponge/byte_stream.{hh,cc}: the flow-controlled in-memory queue of   *)
(* bytes between a writer and a reader.  A stream is a record; each method *)
(* that changes it is an operator from the old record to the new one, so   *)
(* the reassembler, the receiver, the sender and the connection can embed  *)
(* streams in their own state.                                             *)
(***************************************************************************)
EXTENDS Integers, Sequences

MinOf(a, b) == IF a <= b THEN a ELSE b

\* The constructor: an empty, open stream with room for capacity bytes.
NewStream(capacity) ==
    [capacity |-> capacity, buffer |-> <<>>, bytes_written |-> 0,
     bytes_read |-> 0, input_ended |-> FALSE, error |-> FALSE]

StreamType(Byte, Capacity) ==
    [capacity : Capacity, buffer : Seq(Byte), bytes_written : Nat,
     bytes_read : Nat, input_ended : BOOLEAN, error : BOOLEAN]

buffer_size(s) == Len(s.buffer)
buffer_empty(s) == s.buffer = <<>>
eof(s) == s.input_ended /\ buffer_empty(s)
remaining_capacity(s) == s.capacity - buffer_size(s)

\* How many of len offered bytes write takes: as many as fit.
Accepted(s, len) ==
    IF buffer_size(s) >= s.capacity THEN 0 ELSE MinOf(len, remaining_capacity(s))

\* Wrong variant: one byte too many is taken.
write_off_by_one(s, data) ==
    LET k == MinOf(Len(data), remaining_capacity(s) + 1)
    IN  [s EXCEPT !.buffer = @ \o SubSeq(data, 1, k), !.bytes_written = @ + k]

\* write(data): there is no test of input_ended.
write(s, data) ==
    LET k == Accepted(s, Len(data))
    IN  [s EXCEPT !.buffer = @ \o SubSeq(data, 1, k), !.bytes_written = @ + k]

peek_output(s, len) == SubSeq(s.buffer, 1, MinOf(len, buffer_size(s)))

pop_output(s, len) ==
    LET k == MinOf(len, buffer_size(s))
    IN  [s EXCEPT !.buffer = SubSeq(@, k + 1, buffer_size(s)), !.bytes_read = @ + k]

\* read(len): copy, then pop what was copied.  The string returned is
\* peek_output(s, len).
read(s, len) == pop_output(s, Len(peek_output(s, len)))

end_input(s) == [s EXCEPT !.input_ended = TRUE]
set_error(s) == [s EXCEPT !.error = TRUE]
=============================================================================
