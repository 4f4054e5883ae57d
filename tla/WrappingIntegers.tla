-------------------------- MODULE WrappingIntegers --------------------------
(***************************************************************************)
(* libsponge/wrapping_integers.{hh,cc}: sequence numbers relative to an    *)
(* initial sequence number, in arithmetic modulo WRAP_MOD (2^32 in the     *)
(* code), and their conversion to and from absolute sequence numbers.      *)
(*                                                                         *)
(* A WrappingInt32 is its raw value, a member of 0 .. WRAP_MOD - 1.  An    *)
(* absolute sequence number is a uint64_t; a stream never reaches 2^64     *)
(* bytes, so absolute numbers are natural numbers here.                    *)
(***************************************************************************)
EXTENDS Integers

CONSTANT WRAP_MOD       \* number of distinct WrappingInt32 values

ASSUME WrapModAssumption == WRAP_MOD \in Nat \ {0}

WrappingInt32 == 0 .. (WRAP_MOD - 1)

\* operator+ (a, b) and operator- (a, b): the point b steps after/before a.
Plus(a, b) == (a + b) % WRAP_MOD
Minus(a, b) == (a - b) % WRAP_MOD

wrap(n, isn) == Plus(isn, n % WRAP_MOD)

\* |a - b|, as the three-way distances[] computation takes it.
Distance(a, b) == IF a > b THEN a - b ELSE b - a

\* The three candidates: same, previous and next cycle as the checkpoint.
Offset(n, isn) == Minus(n, isn)
BaseCandidate(n, isn, checkpoint) ==
    (checkpoint \div WRAP_MOD) * WRAP_MOD + Offset(n, isn)
PrevCandidate(n, isn, checkpoint) ==
    IF checkpoint \div WRAP_MOD > 0
    THEN ((checkpoint \div WRAP_MOD) - 1) * WRAP_MOD + Offset(n, isn)
    ELSE Offset(n, isn)
NextCandidate(n, isn, checkpoint) ==
    ((checkpoint \div WRAP_MOD) + 1) * WRAP_MOD + Offset(n, isn)

\* Wrong variants of unwrap, used to show that its properties can fail:
\* the next cycle is never considered; the previous cycle is never considered;
\* the candidate that is further away is chosen.
unwrap_no_next(n, isn, checkpoint) ==
    LET base == BaseCandidate(n, isn, checkpoint)
        prev == PrevCandidate(n, isn, checkpoint)
    IN  IF Distance(base, checkpoint) <= Distance(prev, checkpoint) THEN base ELSE prev
unwrap_no_prev(n, isn, checkpoint) ==
    LET base == BaseCandidate(n, isn, checkpoint)
        next == NextCandidate(n, isn, checkpoint)
    IN  IF Distance(base, checkpoint) <= Distance(next, checkpoint) THEN base ELSE next
unwrap_furthest(n, isn, checkpoint) ==
    LET base == BaseCandidate(n, isn, checkpoint)
        prev == PrevCandidate(n, isn, checkpoint)
    IN  IF Distance(base, checkpoint) > Distance(prev, checkpoint) THEN base ELSE prev

\* The candidate closest to the checkpoint; base wins ties, then prev.
unwrap(n, isn, checkpoint) ==
    LET base == BaseCandidate(n, isn, checkpoint)
        prev == PrevCandidate(n, isn, checkpoint)
        next == NextCandidate(n, isn, checkpoint)
        d0 == Distance(base, checkpoint)
        d1 == Distance(prev, checkpoint)
        d2 == Distance(next, checkpoint)
    IN  IF d0 <= d1 /\ d0 <= d2 THEN base
        ELSE IF d1 <= d2 THEN prev ELSE next
=============================================================================
