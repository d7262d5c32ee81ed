----------------------------- MODULE MCBenchMain -----------------------------
(* main() with the worker over a registry of three cases whose           *)
(* max_rounds are 0, 2 and 1, and --rounds up to 2.                      *)
EXTENDS BenchMain, TLC

MCNumBench == 3
MCMaxRounds == (0 :> 0) @@ (1 :> 2) @@ (2 :> 1)
MCMaxOptRounds == 2
=============================================================================
