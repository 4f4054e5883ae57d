----------------------------- MODULE SeqnoWindow -----------------------------
(***************************************************************************)
(* How the connection uses wrapping sequence numbers: one side wraps the   *)
(* absolute numbers it sends or acknowledges, the other unwraps what       *)
(* arrives against a checkpoint of its own that moves on as the stream     *)
(* does (tcp_receiver.cc:27 with first_unassembled, tcp_sender.cc:131 with *)
(* _abs_ackno + 1).  A number that is on its way while the checkpoint      *)
(* moves must still be read as the number that was sent.                   *)
(***************************************************************************)
EXTENDS WrappingIntegers

CONSTANT MaxAbs         \* bound on absolute sequence numbers, for TLC

ASSUME MaxAbsAssumption == MaxAbs \in Nat

VARIABLES isn,          \* initial sequence number of the stream
          sent,         \* absolute sequence number that was sent
          seqno,        \* the WrappingInt32 on the wire
          checkpoint    \* the reader's checkpoint

vars == <<isn, sent, seqno, checkpoint>>

TypeOK ==
    /\ isn \in WrappingInt32
    /\ sent \in Nat
    /\ seqno \in WrappingInt32
    /\ checkpoint \in Nat

Init ==
    /\ isn \in WrappingInt32
    /\ sent = 0
    /\ seqno = wrap(sent, isn)
    /\ checkpoint = 0

\* The writer of the number sends another one, ahead of or behind the last.
Send(x) ==
    /\ sent' = x
    /\ seqno' = wrap(x, isn)
    /\ UNCHANGED <<isn, checkpoint>>

\* The reader's stream moves on while the number is in flight.
Advance ==
    /\ checkpoint < MaxAbs
    /\ checkpoint' = checkpoint + 1
    /\ UNCHANGED <<isn, sent, seqno>>

Next == Advance \/ \E x \in 0 .. MaxAbs : Send(x)

Spec == Init /\ [][Next]_vars

(***************************************************************************)
(* What wrapping_integers.hh:30 promises: unwrap returns an absolute       *)
(* number that wraps to n, and no other such number is closer to the       *)
(* checkpoint (the number that was sent is one of them).                   *)
(***************************************************************************)
UnwrapClosest ==
    LET u == unwrap(seqno, isn, checkpoint)
    IN  /\ u \in Nat
        /\ wrap(u, isn) = seqno
        /\ Distance(u, checkpoint) <= Distance(sent, checkpoint)

(***************************************************************************)
(* What TCP needs of it: a number less than half the sequence space away   *)
(* from the checkpoint, ahead or behind, is read back exactly, however     *)
(* often the space has wrapped (tcp_receiver.cc:27, tcp_sender.cc:131).    *)
(***************************************************************************)
RoundTrip ==
    2 * Distance(sent, checkpoint) < WRAP_MOD
        => unwrap(seqno, isn, checkpoint) = sent

(***************************************************************************)
(* While a number is in flight and the checkpoint moves forward, the       *)
(* absolute number it is read as never moves backwards.                    *)
(***************************************************************************)
UnwrapMonotone ==
    [][sent' = sent =>
         unwrap(seqno, isn, checkpoint') >= unwrap(seqno, isn, checkpoint)]_vars
=============================================================================
