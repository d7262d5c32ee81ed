--------------------------- MODULE MCAllocRetry ---------------------------
(* Requests of 1..5 events with MAX_RETRY = 2: exhaustion (three empty    *)
(* returns in a row) and long runs of single-event returns both happen.   *)
EXTENDS AllocRetry

MCMaxNum == 5

MCMaxRetry == 2
=============================================================================
