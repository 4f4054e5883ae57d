----------------------------- MODULE Reassembly -----------------------------
(***************************************************************************)
(* What a reassembler promises, without strings, maps or overlaps: of a    *)
(* stream of N bytes it knows a set of indices, hands the longest known    *)
(* prefix to the reader, never forgets a byte it kept, never holds more    *)
(* than Capacity bytes, and ends the output only after the last byte.      *)
(***************************************************************************)
EXTENDS Integers, FiniteSets

CONSTANTS N,            \* length of the stream
          Capacity

VARIABLES assembled,    \* bytes handed to the output
          stored,       \* indices kept for later
          consumed,     \* bytes the reader has taken
          ended

vars == <<assembled, stored, consumed, ended>>

Init ==
    /\ assembled = 0
    /\ stored = {}
    /\ consumed = 0
    /\ ended = FALSE

\* Bytes arrive; some of them, kept, are kept: any of them may be dropped.
Receive(kept) ==
    LET known == stored \cup kept
    IN  /\ assembled' \in assembled .. N
        /\ \A i \in assembled .. (assembled' - 1) : i \in known
        /\ assembled' \notin known
        /\ stored' = {i \in known : i > assembled'}
        /\ (assembled' - consumed) + Cardinality(stored') <= Capacity
        /\ ended' \in {ended, assembled' = N}
        /\ UNCHANGED consumed

Consume(k) ==
    /\ consumed + k <= assembled
    /\ consumed' = consumed + k
    /\ UNCHANGED <<assembled, stored, ended>>

Next ==
    \/ \E kept \in SUBSET (assembled .. (N - 1)) : Receive(kept)
    \/ \E k \in 1 .. Capacity : Consume(k)

Spec == Init /\ [][Next]_vars
=============================================================================
