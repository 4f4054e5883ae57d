----------------------------- MODULE NetParser ------------------------------
(***************************************************************************)
(* libsponge/util/parser.{hh,cc}, buffer.{hh,cc} and the InternetChecksum  *)
(* of util.cc: how packets are taken apart and put together.               *)
(*                                                                         *)
(* A byte is a number below 256, a Buffer a sequence of bytes.  A 32-bit   *)
(* field stays the sequence of its four bytes: nothing here computes with  *)
(* one, and it would not fit TLC's integers.                               *)
(***************************************************************************)
EXTENDS Integers, Sequences, SequencesExt

Num(bytes) == FoldLeft(LAMBDA ret, b : ret * 256 + b, 0, bytes)

u8(val) == <<val % 256>>
u16(val) == <<(val \div 256) % 256, val % 256>>

Zeros(n) == [k \in 1 .. n |-> 0]

-----------------------------------------------------------------------------
\* A parser: what is left of the packet, the first error, the fields read.
Parser(buffer) == [buffer |-> buffer, error |-> "NoError", fields |-> <<>>]

_check_size(p, size) == IF size > Len(p.buffer) THEN [p EXCEPT !.error = "PacketTooShort"] ELSE p

Buffer_remove_prefix(buffer, n) == SubSeq(buffer, n + 1, Len(buffer))

TakeInt(p, len) ==
    IF p.error # "NoError" THEN [p EXCEPT !.fields = Append(@, Zeros(len))]
    ELSE [p EXCEPT !.fields = Append(@, SubSeq(p.buffer, 1, len)),
                   !.buffer = Buffer_remove_prefix(@, len)]
_parse_int(p, len) == TakeInt(_check_size(p, len), len)

\* A run of integers, of these sizes.
ParseInts(p, sizes) == FoldLeft(_parse_int, p, sizes)

RemoveChecked(p, n) ==
    IF p.error # "NoError" THEN p ELSE [p EXCEPT !.buffer = Buffer_remove_prefix(@, n)]
remove_prefix(p, n) == RemoveChecked(_check_size(p, n), n)

-----------------------------------------------------------------------------
\* InternetChecksum.  Its 32-bit sum does not overflow on packets this short.
InternetChecksum(initial_sum) == [sum |-> initial_sum, parity |-> FALSE]

\* Every other byte is the low one of its pair, across the pieces of data.
add(check, data) ==
    LET Low(k) == check.parity # (k % 2 = 0)
        sum[k \in 0 .. Len(data)] ==
          IF k = 0 THEN check.sum ELSE sum[k - 1] + (IF Low(k) THEN data[k] ELSE data[k] * 256)
    IN  [sum |-> sum[Len(data)], parity |-> check.parity # (Len(data) % 2 = 1)]

\* One round of the loop of value(); two are enough for a sum below 2^31.
FoldCarry(ret) == (ret \div 65536) + (ret % 65536)
value(check) == 65535 - FoldCarry(FoldCarry(check.sum))

-----------------------------------------------------------------------------
\* A BufferList is a sequence of Buffers.
concatenate(buffers) == FlattenSeq(buffers)
=============================================================================
