-------------------------- MODULE SeqnoWindowProofs --------------------------
(***************************************************************************)
(* unwrap reads a wrapped sequence number back correctly, for every        *)
(* modulus, ISN and checkpoint: the invariant that the wire carries the    *)
(* number that was sent, wrapped, and the lemmas of WrappingProofs.        *)
(***************************************************************************)
EXTENDS SeqnoWindow, Lemmas

\* The wire always carries the number that was sent, wrapped.
Wrapped == seqno = wrap(sent, isn)

\* Types, and that seqno is the wrapped image of sent, hold in every state.
LEMMA WrappedInvariant == Spec => [](TypeOK /\ Wrapped)
<1>1. Init => TypeOK /\ Wrapped
  BY OffsetOfWrap DEF Init, TypeOK, Wrapped
<1>2. TypeOK /\ Wrapped /\ [Next]_vars => (TypeOK /\ Wrapped)'
  <2> SUFFICES ASSUME TypeOK, Wrapped, [Next]_vars
               PROVE  (TypeOK /\ Wrapped)'
    OBVIOUS
  <2>1. CASE Advance
    BY <2>1 DEF Advance, TypeOK, Wrapped
  <2>2. ASSUME NEW x \in 0 .. MaxAbs, Send(x)
        PROVE  (TypeOK /\ Wrapped)'
    <3>1. x \in Nat
      BY MaxAbsAssumption
    <3> QED  BY <2>2, <3>1, OffsetOfWrap DEF Send, TypeOK, Wrapped
  <2>3. CASE UNCHANGED vars
    BY <2>3 DEF vars, TypeOK, Wrapped
  <2> QED  BY <2>1, <2>2, <2>3 DEF Next
<1> QED  BY <1>1, <1>2, PTL DEF Spec

(***************************************************************************)
(* unwrap keeps the promise of wrapping_integers.hh:30 for every modulus,  *)
(* ISN, number and checkpoint: what it returns wraps to the number it was  *)
(* given, and nothing that does is closer to the checkpoint.               *)
(***************************************************************************)
THEOREM UnwrapClosestTheorem == Spec => []UnwrapClosest
<1>1. TypeOK /\ Wrapped => UnwrapClosest
  <2> SUFFICES ASSUME TypeOK, Wrapped PROVE UnwrapClosest
    OBVIOUS
  <2>1. PICK o \in 0 .. (WRAP_MOD - 1), j \in Nat, k \in Nat :
              Reads(sent, isn, checkpoint, o, j, k)
    BY ReadsClosest, Zenon DEF TypeOK
  <2> QED  BY <2>1 DEF Reads, UnwrapClosest, Wrapped
<1> QED  BY <1>1, WrappedInvariant, PTL

(***************************************************************************)
(* A sequence number less than half the space from the reader's checkpoint *)
(* is read back as the number that was sent, whatever the modulus.         *)
(***************************************************************************)
THEOREM RoundTripTheorem == Spec => []RoundTrip
<1>1. TypeOK /\ Wrapped => RoundTrip
  <2> SUFFICES ASSUME TypeOK, Wrapped,
                      2 * Distance(sent, checkpoint) < WRAP_MOD
               PROVE  unwrap(seqno, isn, checkpoint) = sent
    BY DEF RoundTrip
  <2> QED  BY UnwrapExact DEF TypeOK, Wrapped
<1> QED  BY <1>1, WrappedInvariant, PTL

(***************************************************************************)
(* While a number is in flight, a checkpoint that moves forward never      *)
(* makes the number be read as an earlier one.                             *)
(***************************************************************************)
THEOREM UnwrapMonotoneTheorem == Spec => UnwrapMonotone
<1> DEFINE Mono == sent' = sent =>
         unwrap(seqno, isn, checkpoint') >= unwrap(seqno, isn, checkpoint)
<1>1. TypeOK /\ Wrapped /\ [Next]_vars => [Mono]_vars
  <2> SUFFICES ASSUME TypeOK, Wrapped, Next, sent' = sent
               PROVE  unwrap(seqno, isn, checkpoint') >= unwrap(seqno, isn, checkpoint)
    BY DEF vars
  <2>1. checkpoint' \in Nat /\ checkpoint \in Nat /\ checkpoint' >= checkpoint
    BY DEF Next, Advance, Send, TypeOK
  <2>2. PICK o \in 0 .. (WRAP_MOD - 1), j \in Nat, k \in Nat :
              Reads(sent, isn, checkpoint, o, j, k)
    BY ReadsClosest, Zenon DEF TypeOK
  <2>3. PICK o2 \in 0 .. (WRAP_MOD - 1), j2 \in Nat, k2 \in Nat :
              Reads(sent, isn, checkpoint', o2, j2, k2)
    BY <2>1, ReadsClosest, Zenon DEF TypeOK
  <2>4. o2 = o
    BY <2>2, <2>3 DEF Reads
  <2>5. Distance(At(j, o), checkpoint) <= Distance(At(j2, o), checkpoint)
    BY <2>2 DEF Reads
  <2>6. Distance(At(j2, o), checkpoint') <= Distance(At(j, o), checkpoint')
    BY <2>2, <2>3, <2>4 DEF Reads
  <2>7. At(j2, o) >= At(j, o)
    BY <2>1, <2>2, <2>3, <2>4, <2>5, <2>6 DEF Distance, Reads
  <2> QED  BY <2>2, <2>3, <2>4, <2>7 DEF Reads, Wrapped
<1>2. Spec => [][Mono]_vars
  BY <1>1, WrappedInvariant, PTL DEF Spec
<1> QED  BY <1>2 DEF UnwrapMonotone
=============================================================================
