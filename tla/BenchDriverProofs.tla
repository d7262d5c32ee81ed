-------------------------- MODULE BenchDriverProofs --------------------------
(***************************************************************************)
(* Proofs that the benchmark worker of BenchDriver is type-correct and    *)
(* that its measured report is well formed and complete, for every       *)
(* registry size, every max_rounds table and every --rounds bound.        *)
(***************************************************************************)
EXTENDS BenchDriver, SequenceTheorems, TLAPS

USE NumBenchAssumption, MaxRoundsAssumption, MaxOptRoundsAssumption

(* The ceiling of a case is a positive round count.                      *)
LEMMA EffMaxPositive ==
    ASSUME opt \in Options, NEW jj \in Cases
    PROVE  EffMax(jj) \in Nat \ {0}
BY DEF EffMax, Options, Cases

(* CompleteRun already holds at the exit label, before em_term_core().   *)
CompleteAtExit ==
    (/\ wpc \in {"exit", "done"} /\ wret = 0 /\ benchFailed = 0
     /\ exitThread = 0 /\ opt.bench_idx = 0)
        => Len(reports) = NumBench

(***************************************************************************)
(* The inductive invariant.  TypeOK alone is not inductive: CaseDone      *)
(* appends index j + 1, which is in range only because the body is       *)
(* entered with j < NumBench.  ReportsWellFormed needs the relation       *)
(* between the running total and the round counter (total <= round - 1,  *)
(* with round at most the ceiling once a round has been accumulated),   *)
(* and that the report has one line per case already done in the        *)
(* measured pass.  CompleteRun needs the latter at the end of the pass.  *)
(***************************************************************************)
Core ==
    /\ TypeOK
    /\ wpc \in {"init_core", "create_pools"} => i = 0
    /\ wpc = "body" => j < NumBench
    /\ total + 1 <= round
    /\ j < NumBench => (round <= EffMax(j) \/ total = 0)
    /\ opt.bench_idx # 0 => (total = 0 /\ reports = <<>>)
    /\ i = 0 => reports = <<>>
    /\ (opt.bench_idx = 0 /\ i = 1 /\ wpc \in {"loop", "body"})
           => Len(reports) = j
    /\ CompleteAtExit

IInv == Core /\ ReportsWellFormed

LEMMA InitIInv == Init => IInv
BY DEF Init, IInv, Core, TypeOK, ReportsWellFormed, CompleteAtExit, Options,
       Report, WorkerPcs

(* The ceiling depends on the options only.                              *)
LEMMA EffMaxUnchanged ==
    opt' = opt => \A x : EffMax(x)' = EffMax(x)
BY DEF EffMax

(* Every step keeps the scalar part of the invariant.                    *)
LEMMA NextCore == IInv /\ [Next]_vars => Core'
<1> SUFFICES ASSUME Core, [Next]_vars PROVE Core'
    BY DEF IInv
<1> USE DEF Core, TypeOK, CompleteAtExit, Options, Report, WorkerPcs
<1> USE EffMaxUnchanged
<1>1. CASE InitCore
    <2>1. CASE wpc' = "create_pools" /\ UNCHANGED wret
        BY <1>1, <2>1 DEF InitCore
    <2>2. CASE wpc' = "done" /\ wret' = -1
        BY <1>1, <2>2 DEF InitCore
    <2>. QED
        BY <1>1, <2>1, <2>2 DEF InitCore
<1>2. CASE CreatePools
    <2>1. CASE wpc' = "loop" /\ UNCHANGED wret
        BY <1>2, <2>1 DEF CreatePools
    <2>2. CASE wpc' = "done" /\ wret' = -1
        BY <1>2, <2>2 DEF CreatePools
    <2>. QED
        BY <1>2, <2>1, <2>2 DEF CreatePools
<1>3. CASE NextCase
    BY <1>3 DEF NextCase
<1>4. CASE NextPass
    BY <1>4 DEF NextPass
<1>5. CASE PassesDone
    BY <1>5 DEF PassesDone
<1>6. CASE SkipCase
    BY <1>6 DEF SkipCase
<1>7. CASE StartIndef
    BY <1>7 DEF StartIndef
<1>8. CASE RoundFails
    BY <1>8 DEF RoundFails, CountLate
<1>9. CASE RoundDone
    <2>1. j \in Cases /\ EffMax(j) \in Nat \ {0}
        BY <1>9, EffMaxPositive DEF RoundDone, Cases
    <2>2. round + 1 <= EffMax(j)
        BY <1>9, <2>1 DEF RoundDone
    <2>. QED
        BY <1>9, <2>2 DEF RoundDone, CountLate
<1>10. CASE CaseDone
    <2>1. opt' = opt /\ i' = i /\ wpc' = "loop" /\ j' = j + 1 /\ total' = 0
          /\ round' = 2 /\ j < NumBench /\ opt.bench_idx = 0
        BY <1>10 DEF CaseDone
    <2>2. j \in Cases /\ EffMax(j) \in Nat \ {0}
        BY <2>1, EffMaxPositive DEF Cases
    <2>3. CASE i > 0
        <3> DEFINE new == [idx |-> j + 1, total |-> total + 1,
                           divisor |-> EffMax(j)]
        <3>1. reports' = Append(reports, new)
            BY <1>10, <2>3 DEF CaseDone
        <3>2. new \in Report
            BY <2>2 DEF Cases
        <3>3. reports' \in Seq(Report) /\ Len(reports') = Len(reports) + 1
            BY <3>1, <3>2, AppendProperties
        <3>4. Len(reports) = j
            BY <1>10, <2>1, <2>3 DEF CaseDone
        <3>5. TypeOK'
            BY <1>10, <2>1, <3>3 DEF CaseDone, CountLate
        <3>. QED
            BY <2>1, <2>3, <3>3, <3>4, <3>5
    <2>4. CASE ~(i > 0)
        BY <1>10, <2>1, <2>4 DEF CaseDone, CountLate
    <2>. QED
        BY <2>3, <2>4
<1>11. CASE IndefTest
    BY <1>11 DEF IndefTest
<1>12. CASE IndefRound
    BY <1>12 DEF IndefRound, CountLate
<1>13. CASE TermCore
    BY <1>13 DEF TermCore
<1>14. CASE SigHandler
    BY <1>14 DEF SigHandler
<1>15. CASE UNCHANGED vars
    BY <1>15 DEF vars
<1>. QED
    BY <1>1, <1>2, <1>3, <1>4, <1>5, <1>6, <1>7, <1>8, <1>9, <1>10,
       <1>11, <1>12, <1>13, <1>14, <1>15 DEF Next, Worker

(* Every step keeps the measured report well formed: only CaseDone in    *)
(* the measured pass changes it, by appending the line for case j + 1.   *)
LEMMA NextReports == IInv /\ [Next]_vars => ReportsWellFormed'
<1> SUFFICES ASSUME IInv, [Next]_vars PROVE ReportsWellFormed'
    OBVIOUS
<1>1. CASE CaseDone /\ i > 0
    <2> DEFINE new == [idx |-> j + 1, total |-> total + 1,
                       divisor |-> EffMax(j)]
    <2>1. /\ reports \in Seq(Report) /\ Len(reports) = j /\ j < NumBench
          /\ opt \in Options /\ opt' = opt /\ opt.bench_idx = 0
          /\ reports' = Append(reports, new)
          /\ ReportsWellFormed
        BY <1>1 DEF CaseDone, IInv, Core, TypeOK
    <2>2. j \in Cases /\ EffMax(j) \in Nat \ {0}
        BY <2>1, EffMaxPositive DEF Cases
    <2>3. total + 1 <= EffMax(j) /\ total \in Nat
        <3>1. /\ total + 1 <= round /\ round >= EffMax(j)
              /\ (round <= EffMax(j) \/ total = 0)
              /\ total \in Nat /\ round \in Nat
            BY <1>1, <2>1 DEF CaseDone, IInv, Core, TypeOK
        <3>. QED
            BY <3>1, <2>2
    <2>4. new \in Report
        BY <2>2, <2>3 DEF Report, Cases
    <2>5. /\ Len(reports') = j + 1
          /\ \A k \in 1..j : reports'[k] = reports[k]
          /\ reports'[j + 1] = new
        BY <2>1, <2>4, AppendProperties
    <2> SUFFICES ASSUME NEW k \in 1..Len(reports')
                 PROVE  /\ reports'[k].idx = k
                        /\ reports'[k].divisor = EffMax(k - 1)'
                        /\ 1 <= reports'[k].total
                        /\ reports'[k].total <= reports'[k].divisor
        BY DEF ReportsWellFormed
    <2>6. CASE k <= j
        <3>1. k \in 1..Len(reports) /\ reports'[k] = reports[k]
            BY <2>6, <2>1, <2>5
        <3>2. EffMax(k - 1)' = EffMax(k - 1)
            BY <2>1 DEF EffMax
        <3>. QED
            BY <3>1, <3>2, <2>1 DEF ReportsWellFormed
    <2>7. CASE k = j + 1
        <3>1. EffMax(k - 1)' = EffMax(j)
            BY <2>7, <2>1 DEF EffMax
        <3>2. reports'[k] = new
            BY <2>7, <2>5, Zenon
        <3>. QED
            BY <2>7, <2>3, <3>1, <3>2
    <2>. QED
        BY <2>1, <2>5, <2>6, <2>7
<1>2. CASE ~(CaseDone /\ i > 0)
    <2>1. opt' = opt /\ reports' = reports
        BY <1>2 DEF Next, Worker, vars, InitCore, CreatePools, NextCase,
                    NextPass, PassesDone, SkipCase, StartIndef, RoundFails,
                    RoundDone, CaseDone, IndefTest, IndefRound, TermCore,
                    SigHandler
    <2>2. \A x : EffMax(x)' = EffMax(x)
        BY <2>1, EffMaxUnchanged
    <2>. QED
        BY <2>1, <2>2 DEF IInv, ReportsWellFormed
<1>. QED
    BY <1>1, <1>2

LEMMA NextIInv == IInv /\ [Next]_vars => IInv'
BY NextCore, NextReports DEF IInv

THEOREM InvariantHolds == Spec => []IInv
BY InitIInv, NextIInv, PTL DEF Spec

(* The worker's state always has its type.                               *)
THEOREM TypeCorrect == Spec => []TypeOK
BY InvariantHolds, PTL DEF IInv, Core

(* Every measured report line is for the next case in registry order and *)
(* averages over between 1 and the case's ceiling rounds.                *)
THEOREM ReportsAreWellFormed == Spec => []ReportsWellFormed
BY InvariantHolds, PTL DEF IInv

(* A worker that returns 0 in all-cases mode without failure or SIGINT   *)
(* has reported every case.                                              *)
THEOREM RunIsComplete == Spec => []CompleteRun
<1>1. IInv => CompleteRun
    BY DEF IInv, Core, CompleteAtExit, CompleteRun
<1>. QED
    BY InvariantHolds, <1>1, PTL


(***************************************************************************)
(* CancelPrompt.  The history counter only moves at the end of a round    *)
(* (CountLate), and a round is only entered through a test of the flag   *)
(* that read 0: NextCase for the case loop, IndefTest for run_indef().   *)
(* So inside a round body the counter is still 0, and the one round that  *)
(* was past the test when SIGINT came brings it to 1 at most.            *)
(***************************************************************************)
LateInv ==
    /\ roundsAfterExit \in {0, 1}
    /\ exitThread = 0 => roundsAfterExit = 0
    /\ wpc \in {"body", "indef_body"} => roundsAfterExit = 0

LEMMA InitLateInv == Init => LateInv
BY DEF Init, LateInv

LEMMA NextLateInv == LateInv /\ [Next]_vars => LateInv'
<1> SUFFICES ASSUME LateInv, [Next]_vars PROVE LateInv'
    OBVIOUS
<1> USE DEF LateInv, CountLate
<1>1. CASE NextCase \/ IndefTest
    BY <1>1 DEF NextCase, IndefTest
<1>2. CASE RoundFails \/ RoundDone \/ CaseDone \/ IndefRound
    BY <1>2 DEF RoundFails, RoundDone, CaseDone, IndefRound
<1>3. CASE InitCore \/ CreatePools \/ NextPass \/ PassesDone
    BY <1>3 DEF InitCore, CreatePools, NextPass, PassesDone
<1>4. CASE SkipCase \/ StartIndef \/ TermCore
    BY <1>4 DEF SkipCase, StartIndef, TermCore
<1>5. CASE SigHandler \/ UNCHANGED vars
    BY <1>5 DEF SigHandler, vars
<1>. QED
    BY <1>1, <1>2, <1>3, <1>4, <1>5 DEF Next, Worker

(* Once SIGINT has set exit_thread, at most one more round of a case or  *)
(* of run_indef() begins, whatever the registry, the ceilings and R.     *)
THEOREM CancelIsPrompt == Spec => []CancelPrompt
<1>1. Spec => []LateInv
    BY InitLateInv, NextLateInv, PTL DEF Spec
<1>2. LateInv => CancelPrompt
    BY DEF LateInv, CancelPrompt
<1>. QED
    BY <1>1, <1>2, PTL

=============================================================================
