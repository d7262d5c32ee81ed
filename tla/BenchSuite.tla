------------------------------ MODULE BenchSuite ------------------------------
(***************************************************************************)
(* What the benchmark driver promises (spec sections 4.2 and 6), without  *)
(* rounds, cases or the signal: the phases SETUP, WARM_UP, MEASURE,       *)
(* TEARDOWN and INDEFINITE of the per-execution state machine, and the    *)
(* measured report, one line per case in registry order, each divided by  *)
(* the case's effective ceiling min(R, max_rounds) and averaging over at  *)
(* least one and at most that many rounds.  Nothing is reported outside   *)
(* the measured pass or after the driver has stopped.                     *)
(***************************************************************************)
EXTENDS Integers, Sequences

CONSTANTS
    NumBench,     \* the number of registered cases
    MaxRounds,    \* the max_rounds of each case, 0 meaning none
    MaxOptRounds  \* the largest configured round count R

VARIABLES
    conf,   \* the configuration: rounds R and the single-case index
    phase,  \* where the execution is in its state machine
    out     \* the report lines emitted so far

avars == <<conf, phase, out>>

Configs == [rounds : 1..MaxOptRounds, bench_idx : 0..NumBench]

Phases == {"setup", "warmup", "measure", "indefinite", "teardown", "stopped"}

(* The effective round ceiling of the k-th case (0-based).                *)
Ceiling(k) ==
    IF MaxRounds[k] # 0 /\ conf.rounds > MaxRounds[k] THEN MaxRounds[k]
                                                      ELSE conf.rounds

AInit ==
    /\ conf \in Configs
    /\ phase = "setup"
    /\ out = <<>>

(* Environment setup succeeds and the warm-up pass starts, or it fails.   *)
SetupDone ==
    /\ phase = "setup"
    /\ phase' \in {"warmup", "stopped"}
    /\ UNCHANGED <<conf, out>>

(* The warm-up pass ends and the measured one begins.                     *)
StartMeasure ==
    /\ phase = "warmup"
    /\ phase' = "measure"
    /\ UNCHANGED <<conf, out>>

(* The next case's line: its index, its ceiling and a total of between 1 *)
(* and that many rounds, in normal mode and while cases remain.           *)
Emit ==
    /\ phase = "measure"
    /\ conf.bench_idx = 0
    /\ Len(out) < NumBench
    /\ \E t \in 1..Ceiling(Len(out)) :
          out' = Append(out, [idx |-> Len(out) + 1, total |-> t,
                              divisor |-> Ceiling(Len(out))])
    /\ UNCHANGED <<conf, phase>>

(* The selected case is reached and run indefinitely.                     *)
GoIndefinite ==
    /\ phase = "warmup"
    /\ conf.bench_idx # 0
    /\ phase' = "indefinite"
    /\ UNCHANGED <<conf, out>>

(* The passes end, by completion, failure or cancellation, and the        *)
(* teardown begins; indefinite mode is left by cancellation.              *)
Stop ==
    /\ phase \in {"warmup", "measure", "indefinite"}
    /\ phase' = "teardown"
    /\ UNCHANGED <<conf, out>>

(* ResourceExhaustion or AllocationError while a case provisions its     *)
(* resources (spec section 7) aborts the whole process, in either pass.   *)
ProvisionAbort ==
    /\ phase \in {"warmup", "measure"}
    /\ phase' = "stopped"
    /\ UNCHANGED <<conf, out>>

(* A failure in indefinite mode is fatal at once.                         *)
AbortIndefinite ==
    /\ phase = "indefinite"
    /\ phase' = "stopped"
    /\ UNCHANGED <<conf, out>>

Teardown ==
    /\ phase = "teardown"
    /\ phase' = "stopped"
    /\ UNCHANGED <<conf, out>>

ANext ==
    \/ SetupDone \/ StartMeasure \/ Emit \/ GoIndefinite \/ Stop
    \/ ProvisionAbort \/ AbortIndefinite \/ Teardown

ASpec == AInit /\ [][ANext]_avars

=============================================================================
