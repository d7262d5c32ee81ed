-------------------------- MODULE BenchMainRefinement --------------------------
(***************************************************************************)
(* Proof that the whole process, main() with the worker thread and       *)
(* SIGINT, still implements the abstract driver of BenchSuite under the  *)
(* mapping Phase: main()'s own steps, its zeroing of exit_thread among    *)
(* them, are stutters of the driver, and a worker step while main() waits *)
(* in the join is a step of BenchDriver.                                  *)
(***************************************************************************)
EXTENDS BenchMainProofs, BenchDriverRefinement

USE NumBenchAssumption, MaxRoundsAssumption, MaxOptRoundsAssumption

(* The invariant of main() with the selector invariant of the worker.     *)
MRInv == MInv /\ SelInv

LEMMA InitMRInv == MainInit => MRInv
<1>1. MainInit => SelInv
    BY DEF MainInit, Init, SelInv
<1>. QED
    BY <1>1, InitMInv DEF MRInv

(* A step of main() or a SIGINT that kills the process changes no worker  *)
(* variable but exit_thread, and that only at ZeroArgs, before the worker *)
(* starts, where the selector invariant does not look at it.              *)
LEMMA MainSelInv == MRInv /\ (MainStep \/ SigKill) => SelInv'
<1> SUFFICES ASSUME MRInv, MainStep \/ SigKill PROVE SelInv'
    OBVIOUS
<1>1. CASE ZeroArgs
    <2>1. wpc = "init_core" /\ i = 0
        BY <1>1 DEF ZeroArgs, MRInv, MInv, IInv, Core
    <2>. QED
        BY <1>1, <2>1 DEF ZeroArgs, MRInv, SelInv
<1>2. CASE ~ZeroArgs
    <2>1. UNCHANGED vars
        BY <1>2 DEF MainStep, ProcessInit, SetupSigHandler, ReserveArgs,
                    ParseArgs, CreateQueues, Join, WorkerAbort, Teardown,
                    SigKill
    <2>. QED
        BY <2>1 DEF vars, MRInv, SelInv
<1>. QED
    BY <1>1, <1>2

LEMMA NextMRInv == MRInv /\ [MainNext]_allVars => MRInv'
<1> SUFFICES ASSUME MRInv, [MainNext]_allVars PROVE MRInv'
    OBVIOUS
<1>1. MInv'
    BY MainNextMInv DEF MRInv
<1>2. RInv
    BY DEF MRInv, MInv, RInv
<1>3. CASE WorkerStep \/ SigCaught
    <2>1. [Next]_vars
        BY <1>3 DEF WorkerStep, SigCaught, Next
    <2>. QED
        BY <1>1, <1>2, <2>1, NextSelInv DEF MRInv
<1>4. CASE MainStep \/ SigKill
    BY <1>1, <1>4, MainSelInv DEF MRInv
<1>5. CASE UNCHANGED allVars
    BY <1>1, <1>5 DEF allVars, vars, MRInv, SelInv
<1>. QED
    BY <1>3, <1>4, <1>5 DEF MainNext

(* Every step of the process maps to a step of the driver or a stutter.  *)
LEMMA MainNextRefines ==
    MRInv /\ MRInv' /\ [MainNext]_allVars => [Suite!ANext]_Suite!avars
<1> SUFFICES ASSUME MRInv, MRInv', [MainNext]_allVars
             PROVE  [Suite!ANext]_Suite!avars
    OBVIOUS
<1>1. RInv /\ RInv'
    BY DEF MRInv, MInv, RInv
<1>2. CASE WorkerStep \/ SigCaught
    <2>1. [Next]_vars
        BY <1>2 DEF WorkerStep, SigCaught, Next
    <2>. QED
        BY <1>1, <2>1, NextRefines
<1>3. CASE MainStep \/ SigKill \/ UNCHANGED allVars
    <2>1. UNCHANGED <<opt, wpc, i, reports>>
        BY <1>3 DEF MainStep, ProcessInit, SetupSigHandler, ReserveArgs,
                    ZeroArgs, ParseArgs, CreateQueues, Join, WorkerAbort,
                    Teardown, SigKill, allVars, vars
    <2>2. TypeOK
        BY DEF MRInv, MInv, IInv, Core
    <2>3. Phase' = Phase
        BY <2>1, <2>2, PhaseUnchanged
    <2>. QED
        BY <2>1, <2>3 DEF Suite!avars
<1>. QED
    BY <1>2, <1>3 DEF MainNext

(* main() starting, parsing, waiting in the join and tearing down does   *)
(* not disturb what the driver promises (spec section 4.2): the process  *)
(* as a whole implements the abstract driver.                             *)
THEOREM MainRefinement == MainSpec => RefinesSuite
<1>1. MainSpec => []MRInv
    BY InitMRInv, NextMRInv, PTL DEF MainSpec
<1>2. MainInit => Suite!AInit
    BY InitRefines DEF MainInit
<1>. QED
    BY <1>1, <1>2, MainNextRefines, PTL DEF MainSpec, RefinesSuite, Suite!ASpec

=============================================================================
