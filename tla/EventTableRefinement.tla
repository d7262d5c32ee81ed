------------------------- MODULE EventTableRefinement -------------------------
(***************************************************************************)
(* Proof that the worker running the real case bodies (EventTable)       *)
(* implements the abstract driver of BenchSuite under the mapping Phase, *)
(* and keeps the worker's invariants: every step of EventTable is a step *)
(* of BenchDriver, or the ODPH_ABORT() of allocate_test_events() inside  *)
(* a case body, which the abstract driver admits as ProvisionAbort.  The  *)
(* case bodies themselves are not opened: only the driver conjunct of    *)
(* each EventTable action is used.                                        *)
(***************************************************************************)
EXTENDS EventTable, BenchDriverRefinement

USE NumBenchAssumption, MaxRoundsAssumption, MaxOptRoundsAssumption

(* Each step of EventTable on the worker's variables.                    *)
LEMMA EvNextCases == [EvNext]_evAll => [Next]_vars \/ CaseAbort
<1> SUFFICES ASSUME [EvNext]_evAll PROVE [Next]_vars \/ CaseAbort
    OBVIOUS
<1>1. CASE DriverStep
    BY <1>1 DEF DriverStep, Next, Worker
<1>2. CASE CaseRoundFails \/ CaseRoundDone
    BY <1>2 DEF CaseRoundFails, CaseRoundDone, Next, Worker
<1>3. CASE IndefCase
    BY <1>3 DEF IndefCase, Next, Worker
<1>4. CASE SigHandler /\ UNCHANGED <<evVars, exitVars>>
    BY <1>4 DEF Next
<1>5. CASE PoolDelete \/ delete_queues \/ UNCHANGED evAll
    BY <1>5 DEF PoolDelete, delete_queues, evAll, vars
<1>6. CASE CaseAbort
    BY <1>6
<1>. QED
    BY <1>1, <1>2, <1>3, <1>4, <1>5, <1>6 DEF EvNext

(* The abort inside a case body keeps the invariants of the worker.       *)
LEMMA AbortRInv == RInv /\ CaseAbort => RInv'
<1> SUFFICES ASSUME RInv, CaseAbort PROVE RInv'
    OBVIOUS
<1>1. UNCHANGED <<opt, i, j, round, total, reports, benchFailed, exitThread,
                  wret>>
      /\ wpc' = "aborted" /\ roundsAfterExit' \in Nat
    BY DEF CaseAbort, CountLate, RInv, IInv, Core, TypeOK
<1>2. Core'
    BY <1>1 DEF RInv, IInv, Core, TypeOK, WorkerPcs, CompleteAtExit, EffMax
<1>3. ReportsWellFormed'
    BY <1>1 DEF RInv, IInv, ReportsWellFormed, EffMax
<1>4. SelInv'
    BY <1>1 DEF RInv, SelInv
<1>. QED
    BY <1>2, <1>3, <1>4 DEF RInv, IInv

(* The abort inside a case body is the abstract ProvisionAbort.           *)
LEMMA AbortRefines == RInv /\ CaseAbort => Suite!ProvisionAbort
<1> SUFFICES ASSUME RInv, CaseAbort PROVE Suite!ProvisionAbort
    OBVIOUS
<1>1. TypeOK /\ wpc = "body" /\ wpc' = "aborted" /\ i' = i
      /\ opt' = opt /\ reports' = reports
    BY DEF CaseAbort, RInv, IInv, Core
<1>2. Phase \in {"warmup", "measure"}
    BY <1>1 DEF Phase, TypeOK
<1>3. Phase' = "stopped"
    BY <1>1 DEF Phase
<1>. QED
    BY <1>1, <1>2, <1>3 DEF Suite!ProvisionAbort

LEMMA EvNextRInv == RInv /\ [EvNext]_evAll => RInv'
BY EvNextCases, NextRInv, AbortRInv

THEOREM EvInvariant == EvSpec => []RInv
BY InitRInv, EvNextRInv, PTL DEF EvSpec, EvInit

(* With the case bodies in place, the measured report keeps its shape:   *)
(* one line per case in registry order, each averaging over between 1   *)
(* and the case's ceiling rounds.                                         *)
THEOREM EvReportsWellFormed == EvSpec => []ReportsWellFormed
BY EvInvariant, PTL DEF RInv, IInv

(* The worker with the real case bodies implements the abstract driver    *)
(* of spec sections 4.2 and 7, an abort in provisioning included.        *)
THEOREM EvRefinement == EvSpec => RefinesSuite
<1>1. EvInit => Suite!AInit
    BY InitRefines DEF EvInit
<1>2. RInv /\ RInv' /\ [EvNext]_evAll => [Suite!ANext]_Suite!avars
    <2> SUFFICES ASSUME RInv, RInv', [EvNext]_evAll
                 PROVE  [Suite!ANext]_Suite!avars
        OBVIOUS
    <2>1. CASE [Next]_vars
        BY <2>1, NextRefines
    <2>2. CASE CaseAbort
        BY <2>2, AbortRefines DEF Suite!ANext
    <2>. QED
        BY <2>1, <2>2, EvNextCases
<1>. QED
    BY <1>1, <1>2, EvInvariant, PTL DEF EvSpec, RefinesSuite, Suite!ASpec

=============================================================================
