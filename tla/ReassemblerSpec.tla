--------------------------- MODULE ReassemblerSpec ---------------------------
(***************************************************************************)
(* A StreamReassembler fed with substrings of one stream of N bytes, in    *)
(* any order, cut anywhere, repeated and overlapping, while a reader takes *)
(* bytes from its output.  The byte at index i of the stream is i itself,  *)
(* so that a byte that ends up at the wrong place is seen.                 *)
(***************************************************************************)
EXTENDS StreamReassembler

CONSTANTS N,              \* length of the stream
          Capacity,       \* the constructor's argument
          MaxLen          \* bound: longest substring

ASSUME ReassemblerAssumption ==
    /\ N \in Nat /\ Capacity \in Nat \ {0} /\ MaxLen \in Nat
    /\ N + Capacity < SIZE_MAX

VARIABLES r,
          eof_seen,     \* history: a substring marked eof has been pushed
          keeps_window  \* no substring will start beyond the window

vars == <<r, eof_seen, keeps_window>>

\* The substring of the stream of length len that starts at index.
Bytes(index, len) == [k \in 1 .. len |-> index + k - 1]

Init ==
    /\ r = NewReassembler(Capacity)
    /\ eof_seen = FALSE
    /\ keeps_window \in BOOLEAN

Push(index, len, eof_flag) ==
    /\ index + len <= N
    /\ eof_flag => index + len = N
    /\ keeps_window => index <= r.output.bytes_read + Capacity
    /\ r' = push_substring(r, Bytes(index, len), index, eof_flag)
    /\ eof_seen' = (eof_seen \/ eof_flag)
    /\ UNCHANGED keeps_window

Read(len) ==
    /\ ~buffer_empty(r.output)
    /\ r' = [r EXCEPT !.output = read(@, len)]
    /\ UNCHANGED <<eof_seen, keeps_window>>

Next ==
    \/ \E index \in 0 .. N, len \in 0 .. MaxLen, eof_flag \in BOOLEAN : Push(index, len, eof_flag)
    \/ \E len \in 1 .. Capacity : Read(len)

Spec == Init /\ [][Next]_vars

\* The sender of the stream keeps sending the first byte that is missing while
\* the window has room, and the reader keeps reading: weak fairness of the two,
\* with the condition under which each can take a step written out.
Resend == \E len \in 1 .. MaxLen :
            Push(r.first_unassembled, len, r.first_unassembled + len = N)
CanResend == \E len \in 1 .. MaxLen :
               /\ r.first_unassembled + len <= N
               /\ push_substring(r, Bytes(r.first_unassembled, len), r.first_unassembled,
                                 r.first_unassembled + len = N) # r

ReadSome == \E len \in 1 .. Capacity : Read(len)

Fairness ==
    /\ []<>~CanResend \/ []<><<Resend>>_vars
    /\ []<>buffer_empty(r.output) \/ []<><<ReadSome>>_vars

LiveSpec == Spec /\ Fairness

-----------------------------------------------------------------------------
Span(i) == i .. (i + Len(r.segments[i]) - 1)
Stored == UNION {Span(i) : i \in DOMAIN r.segments}

(***************************************************************************)
(* However the substrings were cut and merged, every byte held is the byte *)
(* of the stream at its index, in the output and in the stored segments    *)
(* (insert_segment's prepend, append and substr, stream_reassembler.cc:    *)
(* 52-132).  Stored segments are non-empty, never overlap and all lie      *)
(* strictly after the first missing byte: bytes are counted once           *)
(* (stream_reassembler.hh:44-45), and try_assemble's insertion never       *)
(* erases the segment that its iterator points to (stream_reassembler.cc:  *)
(* 116-132).                                                               *)
(***************************************************************************)
BytesInPlace ==
    /\ r.output.buffer = Bytes(r.output.bytes_read, buffer_size(r.output))
    /\ r.output.bytes_written = r.first_unassembled
    /\ \A i \in DOMAIN r.segments :
          /\ r.segments[i] = Bytes(i, Len(r.segments[i]))
          /\ r.segments[i] # <<>> /\ i > r.first_unassembled
          /\ \A j \in DOMAIN r.segments : i # j => Span(i) \cap Span(j) = {}

(***************************************************************************)
(* Assembled but unread bytes and stored bytes together stay within the    *)
(* capacity, so available_space never wraps around (stream_reassembler.cc: *)
(* 136).                                                                   *)
(***************************************************************************)
MemoryBound == buffer_size(r.output) + unassembled_bytes(r) <= Capacity

(***************************************************************************)
(* The output ends exactly when the eof mark has been seen and every byte  *)
(* has been assembled, in whatever order the two happen, and then nothing  *)
(* is left in the map (stream_reassembler.cc:6-8, 14, 47).                 *)
(***************************************************************************)
EofExact ==
    r.output.input_ended <=> eof_seen /\ r.first_unassembled = N

\* The refinement mapping.  Nothing is promised to a peer that does not keep to
\* the window: its behaviours are mapped to the one in which nothing happens.
Abstract == INSTANCE Reassembly
    WITH assembled <- IF keeps_window THEN r.first_unassembled ELSE 0,
         stored <- IF keeps_window THEN Stored ELSE {},
         consumed <- IF keeps_window THEN r.output.bytes_read ELSE 0,
         ended <- keeps_window /\ r.output.input_ended

(***************************************************************************)
(* Every call of push_substring is one Receive step of the abstract        *)
(* reassembler: it never forgets a stored byte, and assembles the longest  *)
(* prefix it knows.                                                        *)
(***************************************************************************)
Refines == Abstract!Spec

(***************************************************************************)
(* If the first missing byte is sent again and again and the reader reads, *)
(* the whole stream is assembled, unless the peer sends beyond the window. *)
(***************************************************************************)
EventuallyAssembled == <>(r.first_unassembled = N \/ ~keeps_window)
=============================================================================
