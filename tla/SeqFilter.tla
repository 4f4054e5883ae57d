------------------------------ MODULE SeqFilter ------------------------------
(***************************************************************************)
(* Part of a sequence: a loop that goes over a container and copies, or    *)
(* erases, some of its elements.                                           *)
(***************************************************************************)
EXTENDS Integers, Sequences

\* The elements of q that are in S, in their order.
Only(q, S) ==
    LET part[k \in 0 .. Len(q)] ==
            IF k = 0 THEN <<>>
            ELSE IF q[k] \in S THEN Append(part[k - 1], q[k]) ELSE part[k - 1]
    IN  part[Len(q)]
=============================================================================
