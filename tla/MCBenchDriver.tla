--------------------------- MODULE MCBenchDriver ---------------------------
(* A registry of three cases: one without max_rounds, one capped at 2 and *)
(* one capped at 1, run with --rounds 1..3 and every --index 0..3.        *)
EXTENDS BenchDriver, TLC

MCNumBench == 3

MCMaxRounds == (0 :> 0) @@ (1 :> 2) @@ (2 :> 1)

MCMaxOptRounds == 3
=============================================================================
