----------------------------- MODULE BenchDriver -----------------------------
(***************************************************************************)
(* The benchmark worker of programs/performance/bench_event.c:            *)
(* run_benchmarks() with its two passes, its per-case round loop and its  *)
(* fail-fast exit, run_indef() for a selected case, and the SIGINT        *)
(* handler that sets the exit_thread flag the worker polls.               *)
(*                                                                         *)
(* Data is abstracted: one round of a case contributes one unit to the    *)
(* running total, as for a case of constant per-call cost, so that the    *)
(* total of a reported case is the number of rounds it was measured over. *)
(* A run() call is a nondeterministic success or failure.                 *)
(***************************************************************************)
EXTENDS Integers, Sequences

CONSTANTS
    NumBench,     \* ARRAY_SIZE(test_suite): number of registered cases
    MaxRounds,    \* bench_info_t.max_rounds of case j (0 = unset)
    MaxOptRounds  \* largest --rounds value considered

ASSUME NumBenchAssumption == NumBench \in Nat \ {0}
ASSUME MaxRoundsAssumption == MaxRounds \in [0..(NumBench - 1) -> Nat]
ASSUME MaxOptRoundsAssumption == MaxOptRounds \in Nat \ {0}

Cases == 0..(NumBench - 1)

(* The option values parse_args() lets through: rounds >= 1 and           *)
(* 0 <= bench_idx <= num_bench.                                          *)
Options == [rounds : 1..MaxOptRounds, bench_idx : 0..NumBench]

VARIABLES
    opt,           \* gbl_args->opt, fixed once the worker starts
    wpc,           \* the worker's place in run_benchmarks()/run_indef()
    i,             \* pass: 0 is the warm-up, 1 is measured
    j,             \* index of the current case
    round,         \* round counter of the current case
    total,         \* accumulated elapsed time, in rounds
    reports,       \* lines printed in the measured pass
    benchFailed,   \* gbl_args->bench_failed
    exitThread,    \* gbl_args->exit_thread
    wret,          \* the value run_benchmarks() returns
    roundsAfterExit \* history: rounds begun while exit_thread was already 1

vars == <<opt, wpc, i, j, round, total, reports, benchFailed, exitThread,
          wret, roundsAfterExit>>

WorkerPcs == {"init_core", "create_pools", "loop", "body", "indef",
              "indef_body", "exit", "done", "aborted"}

Report == [idx : 1..NumBench, total : Nat, divisor : Nat]

(* The effective round ceiling of case jj: opt.rounds, lowered to the     *)
(* case's max_rounds when that is set and smaller.                       *)
EffMax(jj) ==
    IF MaxRounds[jj] # 0 /\ opt.rounds > MaxRounds[jj]
    THEN MaxRounds[jj]
    ELSE opt.rounds

(* A round begun now counts in the history variable when the flag is set. *)
CountLate ==
    roundsAfterExit' = IF exitThread = 1 THEN roundsAfterExit + 1
                                         ELSE roundsAfterExit

-----------------------------------------------------------------------------

Init ==
    /\ opt \in Options
    /\ wpc = "init_core"
    /\ i = 0
    /\ j = 0
    /\ round = 1
    /\ total = 0
    /\ reports = <<>>
    /\ benchFailed = 0
    /\ exitThread = 0
    /\ wret = 0
    /\ roundsAfterExit = 0

(* em_init_core(): on failure the worker returns -1 at once.             *)
InitCore ==
    /\ wpc = "init_core"
    /\ \/ wpc' = "create_pools" /\ UNCHANGED wret
       \/ wpc' = "done" /\ wret' = -1
    /\ UNCHANGED <<opt, i, j, round, total, reports, benchFailed, exitThread,
                   roundsAfterExit>>

(* create_pools(): on failure the worker returns -1 without em_term_core. *)
CreatePools ==
    /\ wpc = "create_pools"
    /\ \/ wpc' = "loop" /\ UNCHANGED wret
       \/ wpc' = "done" /\ wret' = -1
    /\ UNCHANGED <<opt, i, j, round, total, reports, benchFailed, exitThread,
                   roundsAfterExit>>

(* Mutant: the inner loop's test forgets exit_thread.                    *)
NextCaseNoExitTest ==
    /\ wpc = "loop"
    /\ j < NumBench
    /\ wpc' = "body"
    /\ UNCHANGED <<opt, i, j, round, total, reports, benchFailed, exitThread,
                   wret, roundsAfterExit>>

(* The inner loop's test: a case is left and exit_thread reads 0.        *)
NextCase ==
    /\ wpc = "loop"
    /\ j < NumBench /\ exitThread = 0
    /\ wpc' = "body"
    /\ UNCHANGED <<opt, i, j, round, total, reports, benchFailed, exitThread,
                   wret, roundsAfterExit>>

(* Mutant: the outer loop runs a single pass (i < 1).                    *)
NextPassOnce ==
    /\ wpc = "loop"
    /\ ~(j < NumBench /\ exitThread = 0)
    /\ i = 0
    /\ wpc' = "exit"
    /\ UNCHANGED <<opt, i, j, round, total, reports, benchFailed, exitThread,
                   wret, roundsAfterExit>>

(* Mutant: the outer loop's i++ is missing.                              *)
NextPassNoIncrement ==
    /\ wpc = "loop"
    /\ ~(j < NumBench /\ exitThread = 0)
    /\ i = 0
    /\ j' = 0 /\ round' = 1 /\ total' = 0
    /\ UNCHANGED <<opt, i, wpc, reports, benchFailed, exitThread, wret,
                   roundsAfterExit>>

(* The inner loop ends in the warm-up pass: i++, and the measured pass    *)
(* starts with total = 0, round = 1 and j = 0.                           *)
NextPass ==
    /\ wpc = "loop"
    /\ ~(j < NumBench /\ exitThread = 0)
    /\ i = 0
    /\ i' = 1 /\ j' = 0 /\ round' = 1 /\ total' = 0
    /\ UNCHANGED <<opt, wpc, reports, benchFailed, exitThread, wret,
                   roundsAfterExit>>

(* The inner loop ends in the measured pass: the outer loop is done.     *)
PassesDone ==
    /\ wpc = "loop"
    /\ ~(j < NumBench /\ exitThread = 0)
    /\ i = 1
    /\ wpc' = "exit"
    /\ UNCHANGED <<opt, i, j, round, total, reports, benchFailed, exitThread,
                   wret, roundsAfterExit>>

(* A case other than the selected one: j++ and continue, and the loop's  *)
(* increment expression still runs round++.                              *)
SkipCase ==
    /\ wpc = "body"
    /\ opt.bench_idx # 0 /\ j + 1 # opt.bench_idx
    /\ j' = j + 1 /\ round' = round + 1
    /\ wpc' = "loop"
    /\ UNCHANGED <<opt, i, total, reports, benchFailed, exitThread, wret,
                   roundsAfterExit>>

(* The selected case: run_indef(), then goto exit.                       *)
StartIndef ==
    /\ wpc = "body"
    /\ opt.bench_idx # 0 /\ j + 1 = opt.bench_idx
    /\ wpc' = "indef"
    /\ UNCHANGED <<opt, i, j, round, total, reports, benchFailed, exitThread,
                   wret, roundsAfterExit>>

(* Mutant: a failed case sets bench_failed = 1, which main() would turn  *)
(* into EXIT_SUCCESS.                                                     *)
RoundFailsPositive ==
    /\ wpc = "body"
    /\ opt.bench_idx = 0
    /\ benchFailed' = 1
    /\ wpc' = "exit"
    /\ CountLate
    /\ UNCHANGED <<opt, i, j, round, total, reports, exitThread, wret>>

(* init, timed run() returning 0, then bench_failed = -1 and goto exit,  *)
(* skipping term(); the -1 goes to the inner, shadowing ret.             *)
RoundFails ==
    /\ wpc = "body"
    /\ opt.bench_idx = 0
    /\ benchFailed' = -1
    /\ wpc' = "exit"
    /\ CountLate
    /\ UNCHANGED <<opt, i, j, round, total, reports, exitThread, wret>>

(* Mutant: the ceiling test is off by one (round > max_rounds).          *)
RoundDoneOffByOne ==
    /\ wpc = "body"
    /\ opt.bench_idx = 0
    /\ round <= EffMax(j)
    /\ total' = total + 1
    /\ round' = round + 1
    /\ wpc' = "loop"
    /\ CountLate
    /\ UNCHANGED <<opt, i, j, reports, benchFailed, exitThread, wret>>

(* A successful round below the ceiling: term(), total += elapsed, and   *)
(* the loop's round++.                                                   *)
RoundDone ==
    /\ wpc = "body"
    /\ opt.bench_idx = 0
    /\ round < EffMax(j)
    /\ total' = total + 1
    /\ round' = round + 1
    /\ wpc' = "loop"
    /\ CountLate
    /\ UNCHANGED <<opt, i, j, reports, benchFailed, exitThread, wret>>

(* A successful round at the ceiling: the average total / max_rounds is  *)
(* printed in the measured pass, then j++, total = 0, round = 1, and the *)
(* loop's increment expression makes round 2.                            *)
CaseDone ==
    /\ wpc = "body"
    /\ opt.bench_idx = 0
    /\ round >= EffMax(j)
    /\ reports' = IF i > 0
                  THEN Append(reports, [idx |-> j + 1, total |-> total + 1,
                                        divisor |-> EffMax(j)])
                  ELSE reports
    /\ j' = j + 1 /\ total' = 0 /\ round' = 1 + 1
    /\ wpc' = "loop"
    /\ CountLate
    /\ UNCHANGED <<opt, i, benchFailed, exitThread, wret>>

(* Mutant: run_indef() spins on a set flag instead of returning.         *)
IndefTestSpin ==
    /\ wpc = "indef"
    /\ exitThread = 0
    /\ wpc' = "indef_body"
    /\ UNCHANGED <<opt, i, j, round, total, reports, benchFailed, exitThread,
                   wret, roundsAfterExit>>

(* run_indef()'s loop test on exit_thread; on 1 it returns to goto exit. *)
IndefTest ==
    /\ wpc = "indef"
    /\ wpc' = IF exitThread = 0 THEN "indef_body" ELSE "exit"
    /\ UNCHANGED <<opt, i, j, round, total, reports, benchFailed, exitThread,
                   wret, roundsAfterExit>>

(* init(), run(), term(), then ODPH_ABORT if run() returned 0.           *)
IndefRound ==
    /\ wpc = "indef_body"
    /\ wpc' \in {"indef", "aborted"}
    /\ CountLate
    /\ UNCHANGED <<opt, i, j, round, total, reports, benchFailed, exitThread,
                   wret>>

(* exit: em_term_core(), whose failure is only logged, and return ret.   *)
TermCore ==
    /\ wpc = "exit"
    /\ wpc' = "done"
    /\ UNCHANGED <<opt, i, j, round, total, reports, benchFailed, exitThread,
                   wret, roundsAfterExit>>

(* sig_handler(): odp_atomic_store_u32(&exit_thread, 1), at any time.    *)
SigHandler ==
    /\ exitThread' = 1
    /\ UNCHANGED <<opt, wpc, i, j, round, total, reports, benchFailed, wret,
                   roundsAfterExit>>

Worker ==
    \/ InitCore \/ CreatePools
    \/ NextCase \/ NextPass \/ PassesDone
    \/ SkipCase \/ StartIndef
    \/ RoundFails \/ RoundDone \/ CaseDone
    \/ IndefTest \/ IndefRound
    \/ TermCore

Next == Worker \/ SigHandler

(* The worker is a dedicated thread on its own CPU whose steps do not    *)
(* block, so it is weakly fair; the signal is an external event and is   *)
(* not.                                                                  *)
Spec == Init /\ [][Next]_vars /\ WF_vars(Worker)

-----------------------------------------------------------------------------

TypeOK ==
    /\ opt \in Options
    /\ wpc \in WorkerPcs
    /\ i \in {0, 1}
    /\ j \in 0..NumBench
    /\ round \in Nat \ {0}
    /\ total \in Nat
    /\ reports \in Seq(Report)
    /\ benchFailed \in {0, -1}
    /\ exitThread \in {0, 1}
    /\ wret \in {0, -1}
    /\ roundsAfterExit \in Nat

(* Every line of the measured report is for the next case in registry    *)
(* order, its divisor is that case's effective ceiling, and its average  *)
(* was taken over at least one and at most that many measured rounds     *)
(* (the round loop and its reset in run_benchmarks()).                   *)
ReportsWellFormed ==
    \A k \in 1..Len(reports) :
        /\ reports[k].idx = k
        /\ reports[k].divisor = EffMax(k - 1)
        /\ 1 <= reports[k].total
        /\ reports[k].total <= reports[k].divisor

(* A worker that returns 0 in all-cases mode, with no case failed and no *)
(* SIGINT, has printed exactly one line per registered case: both passes *)
(* ran over the whole registry.                                          *)
CompleteRun ==
    (/\ wpc = "done" /\ wret = 0 /\ benchFailed = 0
     /\ exitThread = 0 /\ opt.bench_idx = 0)
        => Len(reports) = NumBench

(* Once SIGINT has set exit_thread, at most the one round (or indefinite *)
(* iteration) already past the flag test starts: the worker polls the    *)
(* flag before every round of every case and of run_indef().             *)
CancelPrompt == roundsAfterExit <= 1

(* In all-cases mode the worker always reaches its end: both passes over *)
(* a finite registry with a finite ceiling per case.                     *)
Termination == (opt.bench_idx = 0) => <>(wpc = "done")

(* Once exit_thread is set the worker ends, in run_indef() too.          *)
CancelLeadsToExit == (exitThread = 1) ~> (wpc \in {"done", "aborted"})

(* What the spec says of the average: total / (rounds_used * REPEAT),    *)
(* i.e. every reported case was measured over exactly its divisor.       *)
AverageOverAllRounds ==
    \A k \in 1..Len(reports) : reports[k].total = reports[k].divisor


-----------------------------------------------------------------------------
(* The worker's place as a phase of the driver's state machine (spec      *)
(* section 4.2): before the first pass, in the warm-up or measured pass,  *)
(* in run_indef(), at the exit label, or returned.                        *)
Phase ==
    CASE wpc \in {"init_core", "create_pools"} -> "setup"
      [] wpc \in {"loop", "body"} /\ i = 0    -> "warmup"
      [] wpc \in {"loop", "body"} /\ i = 1    -> "measure"
      [] wpc \in {"indef", "indef_body"}       -> "indefinite"
      [] wpc = "exit"                          -> "teardown"
      [] OTHER                                 -> "stopped"

Suite == INSTANCE BenchSuite WITH conf <- opt, phase <- Phase, out <- reports

(* run_benchmarks() and run_indef() implement the driver of spec section  *)
(* 4.2: the passes in order, indefinite mode only from the first pass,    *)
(* and a measured report of one line per case in registry order, each    *)
(* with the case's ceiling as divisor and 1..ceiling rounds measured.     *)
RefinesSuite == Suite!ASpec

=============================================================================
