------------------------- MODULE BenchDriverRefinement -------------------------
(***************************************************************************)
(* Proof that the worker of BenchDriver implements the driver of          *)
(* BenchSuite under the mapping Phase: the safety part of its             *)
(* specification implies Suite!ASpec for every registry size, max_rounds  *)
(* table and rounds bound.                                                *)
(***************************************************************************)
EXTENDS BenchDriverProofs

USE NumBenchAssumption, MaxRoundsAssumption, MaxOptRoundsAssumption

(***************************************************************************)
(* The selector invariant.  The abstract driver enters indefinite mode    *)
(* only from the warm-up pass; the worker does so because, with --index   *)
(* k, the first pass stops at case k - 1 (j < k) and so can only leave    *)
(* its loop through exit_thread, after which no case body runs.           *)
(***************************************************************************)
SelInv ==
    /\ wpc \in {"init_core", "create_pools"} => j = 0
    /\ (opt.bench_idx # 0 /\ wpc \in {"loop", "body"} /\ i = 0)
           => j < opt.bench_idx
    /\ (opt.bench_idx # 0 /\ i = 1) => (exitThread = 1 /\ wpc # "body")
    /\ wpc \in {"indef", "indef_body"} => i = 0

RInv == IInv /\ SelInv

LEMMA InitRInv == Init => RInv
<1>1. Init => SelInv
    BY DEF Init, SelInv
<1>. QED
    BY <1>1, InitIInv DEF RInv

LEMMA NextSelInv == RInv /\ [Next]_vars => SelInv'
<1> SUFFICES ASSUME RInv, [Next]_vars PROVE SelInv'
    OBVIOUS
<1>1. TypeOK /\ (wpc \in {"init_core", "create_pools"} => i = 0)
    BY DEF RInv, IInv, Core
<1> USE <1>1 DEF RInv, SelInv, TypeOK, Options, WorkerPcs
<1>2. CASE NextPass
    <2>1. opt.bench_idx # 0 => j < NumBench
        BY <1>2 DEF NextPass
    <2>. QED
        BY <1>2, <2>1 DEF NextPass
<1>3. CASE SkipCase
    BY <1>3 DEF SkipCase
<1>4. CASE StartIndef
    BY <1>4 DEF StartIndef
<1>5. CASE NextCase
    BY <1>5 DEF NextCase
<1>6. CASE InitCore
    BY <1>6 DEF InitCore
<1>7. CASE CreatePools
    BY <1>7 DEF CreatePools
<1>8. CASE PassesDone \/ TermCore \/ IndefTest \/ IndefRound
    BY <1>8 DEF PassesDone, TermCore, IndefTest, IndefRound
<1>9. CASE RoundFails \/ RoundDone \/ CaseDone
    BY <1>9 DEF RoundFails, RoundDone, CaseDone
<1>10. CASE SigHandler \/ UNCHANGED vars
    BY <1>10 DEF SigHandler, vars
<1>. QED
    BY <1>2, <1>3, <1>4, <1>5, <1>6, <1>7, <1>8, <1>9, <1>10
    DEF Next, Worker

LEMMA NextRInv == RInv /\ [Next]_vars => RInv'
BY NextIInv, NextSelInv DEF RInv

(* The initial states of the worker are initial states of the driver.    *)
LEMMA InitRefines == Init => Suite!AInit
BY DEF Init, Suite!AInit, Suite!Configs, Options, Phase

(* The phase of each place of the worker.                                 *)
LEMMA PhaseOf ==
    ASSUME TypeOK
    PROVE  /\ wpc \in {"init_core", "create_pools"} => Phase = "setup"
           /\ wpc \in {"loop", "body"} /\ i = 0 => Phase = "warmup"
           /\ wpc \in {"loop", "body"} /\ i = 1 => Phase = "measure"
           /\ wpc \in {"indef", "indef_body"} => Phase = "indefinite"
           /\ wpc = "exit" => Phase = "teardown"
           /\ wpc \in {"done", "aborted"} => Phase = "stopped"
BY DEF Phase, TypeOK, WorkerPcs

(* A step that keeps the pass and stays in the same kind of place keeps  *)
(* the phase.                                                             *)
LEMMA PhaseUnchanged ==
    ASSUME TypeOK, i' = i,
           \/ wpc' = wpc
           \/ wpc \in {"loop", "body"} /\ wpc' \in {"loop", "body"}
           \/ wpc \in {"indef", "indef_body"} /\ wpc' \in {"indef", "indef_body"}
           \/ wpc \in {"init_core", "create_pools"}
              /\ wpc' \in {"init_core", "create_pools"}
    PROVE  Phase' = Phase
BY DEF Phase, TypeOK, WorkerPcs

(* Every step of the worker is a step of the driver or leaves its phase,  *)
(* configuration and report unchanged.                                    *)
LEMMA NextRefines ==
    RInv /\ RInv' /\ [Next]_vars => [Suite!ANext]_Suite!avars
<1> SUFFICES ASSUME RInv, RInv', [Next]_vars
             PROVE  [Suite!ANext]_Suite!avars
    OBVIOUS
<1>1. TypeOK /\ TypeOK'
    BY DEF RInv, IInv, Core
<1>2. /\ wpc \in {"init_core", "create_pools"} => Phase = "setup"
      /\ (wpc \in {"loop", "body"} /\ i = 0) => Phase = "warmup"
      /\ (wpc \in {"loop", "body"} /\ i = 1) => Phase = "measure"
      /\ wpc \in {"indef", "indef_body"} => Phase = "indefinite"
      /\ wpc = "exit" => Phase = "teardown"
      /\ wpc \in {"done", "aborted"} => Phase = "stopped"
    BY <1>1, PhaseOf
<1>3. /\ wpc' \in {"init_core", "create_pools"} => Phase' = "setup"
      /\ (wpc' \in {"loop", "body"} /\ i' = 0) => Phase' = "warmup"
      /\ (wpc' \in {"loop", "body"} /\ i' = 1) => Phase' = "measure"
      /\ wpc' \in {"indef", "indef_body"} => Phase' = "indefinite"
      /\ wpc' = "exit" => Phase' = "teardown"
      /\ wpc' \in {"done", "aborted"} => Phase' = "stopped"
    BY <1>1 DEF Phase, TypeOK, WorkerPcs
<1> USE DEF Suite!avars
<1>4. CASE InitCore
    BY <1>4, <1>2, <1>3 DEF InitCore, Suite!ANext, Suite!SetupDone
<1>5. CASE CreatePools
    <2>1. i = 0
        BY <1>5 DEF CreatePools, RInv, IInv, Core
    <2>. QED
        BY <1>5, <2>1, <1>2, <1>3 DEF CreatePools, Suite!ANext, Suite!SetupDone
<1>6. CASE NextCase
    BY <1>6, <1>1, PhaseUnchanged DEF NextCase
<1>7. CASE NextPass
    BY <1>7, <1>2, <1>3 DEF NextPass, Suite!ANext, Suite!StartMeasure
<1>8. CASE PassesDone
    BY <1>8, <1>2, <1>3 DEF PassesDone, Suite!ANext, Suite!Stop
<1>9. CASE SkipCase
    BY <1>9, <1>1, PhaseUnchanged DEF SkipCase
<1>10. CASE StartIndef
    <2>1. i = 0
        BY <1>10 DEF StartIndef, RInv, SelInv
    <2>. QED
        BY <1>10, <2>1, <1>2, <1>3
        DEF StartIndef, Suite!ANext, Suite!GoIndefinite
<1>11. CASE RoundFails
    <2>1. i \in {0, 1}
        BY <1>1 DEF TypeOK
    <2>. QED
        BY <1>11, <2>1, <1>2, <1>3 DEF RoundFails, Suite!ANext, Suite!Stop
<1>12. CASE RoundDone
    BY <1>12, <1>1, PhaseUnchanged DEF RoundDone
<1>13. CASE CaseDone /\ i = 0
    BY <1>13, <1>1, PhaseUnchanged DEF CaseDone
<1>14. CASE CaseDone /\ i # 0
    <2>1. /\ i = 1 /\ opt.bench_idx = 0 /\ opt' = opt
          /\ Len(reports) = j /\ j < NumBench /\ reports \in Seq(Report)
          /\ total + 1 <= EffMax(j) /\ total \in Nat
          /\ reports' = Append(reports, [idx |-> j + 1, total |-> total + 1,
                                         divisor |-> EffMax(j)])
        <3>1. /\ total + 1 <= round /\ round >= EffMax(j)
              /\ (round <= EffMax(j) \/ total = 0)
              /\ total \in Nat /\ round \in Nat /\ j < NumBench
            BY <1>14, <1>1 DEF CaseDone, RInv, IInv, Core, TypeOK
        <3>2. EffMax(j) \in Nat \ {0}
            BY <3>1, <1>1, EffMaxPositive DEF TypeOK, Cases
        <3>3. total + 1 <= EffMax(j)
            BY <3>1, <3>2
        <3>. QED
            BY <1>14, <1>1, <3>1, <3>3 DEF CaseDone, RInv, IInv, Core, TypeOK
    <2>2. Phase = "measure" /\ Phase' = "measure"
        BY <1>14, <2>1, <1>2, <1>3 DEF CaseDone
    <2>3. Suite!Ceiling(Len(reports)) = EffMax(j)
        BY <2>1 DEF Suite!Ceiling, EffMax
    <2>4. total + 1 \in 1..Suite!Ceiling(Len(reports))
        BY <2>1, <2>3
    <2>5. Suite!Emit
        BY <2>1, <2>2, <2>3, <2>4 DEF Suite!Emit
    <2>. QED
        BY <2>5 DEF Suite!ANext
<1>15. CASE IndefTest
    BY <1>15, <1>2, <1>3 DEF IndefTest, Suite!ANext, Suite!Stop
<1>16. CASE IndefRound
    BY <1>16, <1>2, <1>3 DEF IndefRound, Suite!ANext, Suite!AbortIndefinite
<1>17. CASE TermCore
    BY <1>17, <1>2, <1>3 DEF TermCore, Suite!ANext, Suite!Teardown
<1>18. CASE SigHandler
    BY <1>18, <1>1, PhaseUnchanged DEF SigHandler
<1>19. CASE UNCHANGED vars
    BY <1>19, <1>1, PhaseUnchanged DEF vars
<1>. QED
    BY <1>4, <1>5, <1>6, <1>7, <1>8, <1>9, <1>10, <1>11, <1>12, <1>13,
       <1>14, <1>15, <1>16, <1>17, <1>18, <1>19 DEF Next, Worker

(* run_benchmarks() and run_indef() implement the driver of spec section  *)
(* 4.2: phases in the order of its state machine, indefinite mode only    *)
(* from the warm-up pass, and the measured report as it promises.         *)
THEOREM Refinement == Spec => RefinesSuite
<1>1. Spec => []RInv
    BY InitRInv, NextRInv, PTL DEF Spec
<1>. QED
    BY <1>1, InitRefines, NextRefines, PTL DEF Spec, RefinesSuite, Suite!ASpec

=============================================================================
