----------------------------- MODULE MCBenchmark -----------------------------
(* Benchmark with the constants of MCTCPPair.                              *)
EXTENDS MCTCPPair, Benchmark
=============================================================================
