--------------------------- MODULE BenchMainProofs ---------------------------
(***************************************************************************)
(* Proofs about main() composed with the worker (BenchMain): the state    *)
(* keeps its type, and a failed benchmark case never ends the process     *)
(* with a success status, for every registry size, max_rounds table and   *)
(* rounds bound.                                                          *)
(***************************************************************************)
EXTENDS BenchMain, BenchDriverProofs

USE NumBenchAssumption, MaxRoundsAssumption, MaxOptRoundsAssumption

MainPart ==
    /\ mpc \in MainPcs
    /\ handler \in BOOLEAN
    /\ gblArgs \in BOOLEAN
    /\ pools \subseteq AllPools
    /\ queueMade \in BOOLEAN
    /\ mret \in {0, -1, 1}
    /\ parsed \in {"ok", "help", "bad"}
    /\ exitCode \in {"none", "success", "failure", "abort", "signal"}
    /\ (mpc = "exited") <=> (exitCode # "none")

(***************************************************************************)
(* The inductive invariant.  FailedCaseFailsProcess alone is not          *)
(* inductive: the teardown picks the status from main()'s ret, so ret     *)
(* must already be -1 when a failed worker has been joined, and a         *)
(* teardown reached before the worker started (a -h, a bad option, a      *)
(* failed create_queues()) must see bench_failed still 0.  The worker's   *)
(* own invariant IInv is kept too: main() only zeroes exit_thread before  *)
(* the worker has started.                                                *)
(***************************************************************************)
MInv ==
    /\ IInv
    /\ MainPart
    /\ mpc \in {"init", "sig", "shm", "zero", "parse", "queues"}
           => (wpc = "init_core" /\ benchFailed = 0)
    /\ (mpc = "teardown" /\ benchFailed = -1) => mret = -1
    /\ FailedCaseFailsProcess

LEMMA InitMInv == MainInit => MInv
BY InitIInv DEF MainInit, Init, MInv, MainPart, MainPcs, FailedCaseFailsProcess

(* main()'s own steps leave the worker's variables alone, but for         *)
(* ZeroArgs, which runs before the worker starts.                          *)
LEMMA MainStepIInv == MInv /\ MainStep => IInv'
<1> SUFFICES ASSUME MInv, MainStep PROVE IInv'
    OBVIOUS
<1>1. CASE ZeroArgs
    <2>1. wpc = "init_core" /\ IInv
        BY <1>1 DEF ZeroArgs, MInv
    <2>2. UNCHANGED <<opt, wpc, i, j, round, total, reports, benchFailed,
                      wret, roundsAfterExit>> /\ exitThread' = 0
        BY <1>1 DEF ZeroArgs
    <2>3. Core'
        BY <2>1, <2>2 DEF IInv, Core, TypeOK, CompleteAtExit, EffMax
    <2>4. ReportsWellFormed'
        BY <2>1, <2>2 DEF IInv, ReportsWellFormed, EffMax
    <2>. QED
        BY <2>3, <2>4 DEF IInv
<1>2. CASE ~ZeroArgs
    <2>1. UNCHANGED vars
        BY <1>2 DEF MainStep, ProcessInit, SetupSigHandler, ReserveArgs,
                    ParseArgs, CreateQueues, Join, WorkerAbort, Teardown
    <2>. QED
        BY <2>1, NextIInv DEF MInv
<1>. QED
    BY <1>1, <1>2

LEMMA MainNextIInv == MInv /\ [MainNext]_allVars => IInv'
<1> SUFFICES ASSUME MInv, [MainNext]_allVars PROVE IInv'
    OBVIOUS
<1>1. IInv
    BY DEF MInv
<1>2. CASE MainStep
    BY <1>2, MainStepIInv
<1>3. CASE WorkerStep \/ SigCaught
    BY <1>1, <1>3, NextIInv DEF WorkerStep, SigCaught, Next
<1>4. CASE SigKill \/ UNCHANGED allVars
    BY <1>1, <1>4, NextIInv DEF SigKill, allVars, vars
<1>. QED
    BY <1>2, <1>3, <1>4 DEF MainNext

(* Every step keeps the part of the invariant about main().               *)
LEMMA MainNextRest == MInv /\ [MainNext]_allVars => (MInv' <=> IInv')
<1> SUFFICES ASSUME MInv, [MainNext]_allVars
             PROVE  /\ MainPart'
                    /\ mpc' \in {"init", "sig", "shm", "zero", "parse", "queues"}
                           => (wpc' = "init_core" /\ benchFailed' = 0)
                    /\ (mpc' = "teardown" /\ benchFailed' = -1) => mret' = -1
                    /\ FailedCaseFailsProcess'
    BY DEF MInv
<1>1. TypeOK
    BY DEF MInv, IInv, Core
<1> USE <1>1 DEF MInv, MainPart, MainPcs, AllPools, FailedCaseFailsProcess,
                 TypeOK
<1>2. CASE ProcessInit \/ SetupSigHandler \/ ReserveArgs \/ ZeroArgs
    BY <1>2 DEF ProcessInit, SetupSigHandler, ReserveArgs, ZeroArgs
<1>3. CASE ParseArgs
    BY <1>3 DEF ParseArgs
<1>4. CASE CreateQueues
    BY <1>4 DEF CreateQueues
<1>5. CASE Join
    <2>1. /\ mpc = "run" /\ mret' = benchFailed /\ mpc' = "teardown"
          /\ UNCHANGED <<benchFailed, wpc, handler, gblArgs, pools, queueMade,
                         parsed, exitCode>>
        BY <1>5 DEF Join, vars
    <2>2. benchFailed \in {0, -1}
        BY DEF IInv, Core, TypeOK
    <2>3. MainPart'
        BY <2>1, <2>2
    <2>4. (mpc' = "teardown" /\ benchFailed' = -1) => mret' = -1
        BY <2>1
    <2>. QED
        BY <2>1, <2>3, <2>4
<1>6. CASE WorkerAbort
    BY <1>6 DEF WorkerAbort
<1>7. CASE Teardown
    BY <1>7 DEF Teardown
<1>8. CASE WorkerStep
    <2>1. pools' \subseteq AllPools
        BY <1>8 DEF WorkerStep, PoolsAfter, PoolsMadeBefore
    <2>. QED
        BY <1>8, <2>1 DEF WorkerStep
<1>9. CASE SigKill
    BY <1>9 DEF SigKill
<1>10. CASE SigCaught
    BY <1>10 DEF SigCaught, SigHandler, mvars
<1>11. CASE UNCHANGED allVars
    BY <1>11 DEF allVars, vars, mvars
<1>. QED
    BY <1>2, <1>3, <1>4, <1>5, <1>6, <1>7, <1>8, <1>9, <1>10, <1>11
    DEF MainNext, MainStep

LEMMA MainNextMInv == MInv /\ [MainNext]_allVars => MInv'
BY MainNextIInv, MainNextRest

THEOREM MainInvariant == MainSpec => []MInv
BY InitMInv, MainNextMInv, PTL DEF MainSpec

(* main() and the worker keep every variable within its type.            *)
THEOREM MainTypeCorrect == MainSpec => []MainTypeOK
<1>1. MInv => MainTypeOK
    BY DEF MInv, IInv, Core, MainPart, MainTypeOK
<1>. QED
    BY MainInvariant, <1>1, PTL

(* A benchmark case that failed in the worker (bench_failed = -1) never  *)
(* lets the process exit with a success status: main() takes             *)
(* bench_failed as its ret after the join, and the teardown fails on a   *)
(* negative ret.                                                          *)
THEOREM FailureReported == MainSpec => []FailedCaseFailsProcess
<1>1. MInv => FailedCaseFailsProcess
    BY DEF MInv
<1>. QED
    BY MainInvariant, <1>1, PTL


(***************************************************************************)
(* PoolsWhileCasesRun.  It is not inductive alone: a worker in its loops  *)
(* must also be known to run under main()'s join, with the handler       *)
(* installed, so that neither the teardown nor a default-action SIGINT  *)
(* can end the process around it.                                         *)
(***************************************************************************)
CaseArea == {"loop", "body", "indef", "indef_body", "exit"}

PInv ==
    /\ mpc \in {"shm", "zero", "parse", "queues", "run"} => handler
    /\ wpc \in CaseArea => (mpc = "run" /\ handler)
    /\ PoolsWhileCasesRun

LEMMA InitPInv == MainInit => PInv
BY DEF MainInit, Init, PInv, CaseArea, PoolsWhileCasesRun

LEMMA NextPInv == MInv /\ PInv /\ [MainNext]_allVars => PInv'
<1> SUFFICES ASSUME MInv, PInv, [MainNext]_allVars PROVE PInv'
    OBVIOUS
<1>1. /\ TypeOK
      /\ mpc \in {"init", "sig", "shm", "zero", "parse", "queues"}
             => wpc = "init_core"
    BY DEF MInv, IInv, Core
<1> USE <1>1 DEF PInv, CaseArea, PoolsWhileCasesRun, TypeOK, WorkerPcs
<1>2. CASE ProcessInit \/ SetupSigHandler \/ ReserveArgs \/ ZeroArgs
    BY <1>2 DEF ProcessInit, SetupSigHandler, ReserveArgs, ZeroArgs, vars
<1>3. CASE ParseArgs \/ CreateQueues
    BY <1>3 DEF ParseArgs, CreateQueues, vars
<1>4. CASE Join \/ WorkerAbort \/ Teardown
    BY <1>4 DEF Join, WorkerAbort, Teardown, vars
<1>5. CASE WorkerStep
    <2>1. mpc = "run" /\ handler /\ mpc' = "run" /\ handler' = handler
        BY <1>5 DEF WorkerStep
    <2>2. CASE wpc = "create_pools"
        <3>1. wpc' \in {"loop", "done"}
            BY <1>5, <2>2 DEF WorkerStep, Worker, InitCore, CreatePools,
                              NextCase, NextPass, PassesDone, SkipCase,
                              StartIndef, RoundFails, RoundDone, CaseDone,
                              IndefTest, IndefRound, TermCore
        <3>2. wpc' = "loop" => pools' = AllPools
            BY <1>5, <2>2 DEF WorkerStep, PoolsAfter
        <3>. QED
            BY <2>1, <3>1, <3>2
    <2>3. CASE wpc # "create_pools"
        <3>1. pools' = pools
            BY <1>5, <2>3 DEF WorkerStep, PoolsAfter
        <3>2. wpc' \in CaseArea => wpc \in CaseArea
            BY <1>5, <2>3 DEF WorkerStep, Worker, InitCore, CreatePools,
                              NextCase, NextPass, PassesDone, SkipCase,
                              StartIndef, RoundFails, RoundDone, CaseDone,
                              IndefTest, IndefRound, TermCore
        <3>. QED
            BY <2>1, <3>1, <3>2
    <2>. QED
        BY <2>2, <2>3
<1>6. CASE SigKill
    BY <1>6 DEF SigKill, vars
<1>7. CASE SigCaught
    BY <1>7 DEF SigCaught, SigHandler, mvars
<1>8. CASE UNCHANGED allVars
    BY <1>8 DEF allVars, vars, mvars
<1>. QED
    BY <1>2, <1>3, <1>4, <1>5, <1>6, <1>7, <1>8 DEF MainNext, MainStep

(* No case runs, and the worker does not reach its exit label, unless     *)
(* create_pools() made all three pools and they are still there: a       *)
(* create_pools() that fails part-way ends the worker at once, and main() *)
(* deletes pools only after the join.                                     *)
THEOREM PoolsPresent == MainSpec => []PoolsWhileCasesRun
<1>1. MainSpec => [](MInv /\ PInv)
    <2>1. MainInit => MInv /\ PInv
        BY InitMInv, InitPInv
    <2>2. MInv /\ PInv /\ [MainNext]_allVars => (MInv /\ PInv)'
        BY MainNextMInv, NextPInv
    <2>. QED
        BY <2>1, <2>2, PTL DEF MainSpec
<1>2. PInv => PoolsWhileCasesRun
    BY DEF PInv
<1>. QED
    BY <1>1, <1>2, PTL

=============================================================================
