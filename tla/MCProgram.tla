----------------------------- MODULE MCProgram -----------------------------
(***************************************************************************)
(* Values for the constants of Program.                                    *)
(***************************************************************************)
EXTENDS Program

Session(role, typed, input_length, peer_length, waits, may_fail) ==
    [role |-> role, typed |-> typed, input |-> input_length, peer |-> peer_length,
     late |-> waits, faults |-> may_fail]

\* Either stream or both longer than the pair, with a peer that waits; one
\* longer than the window, too; and typed input.
MCSessions ==
    {Session("connect", FALSE, 2, 1, TRUE, FaultKinds),
     Session("connect", FALSE, 1, 2, TRUE, FaultKinds),
     Session("connect", FALSE, 2, 2, TRUE, {}),
     Session("listen", FALSE, 1, 4, FALSE, {}),
     Session("listen", TRUE, 1, 1, FALSE, {}),
     Session("connect", TRUE, 1, 1, TRUE, {"exception"})}
=============================================================================
