-------------------------- MODULE AllocRetryProofs --------------------------
(***************************************************************************)
(* Proofs that allocate_test_events() (module AllocRetry) keeps its       *)
(* counters in range and aborts on exhaustion only after more than        *)
(* MAX_RETRY consecutive empty returns, for every MAX_RETRY and num.      *)
(***************************************************************************)
EXTENDS AllocRetry, TLAPS

USE MaxNumAssumption, MaxRetryAssumption

(***************************************************************************)
(* The inductive invariant: while the loop runs, num_retries has not yet  *)
(* passed MAX_RETRY, and as long as no hard error was seen num_retries is *)
(* exactly the length of the current run of empty returns.               *)
(***************************************************************************)
IInv ==
    /\ TypeOK
    /\ apc = "loop" => numRetries <= MaxRetry
    /\ ~hardError => emptyStreak = numRetries
    /\ AbortOnlyOnExhaustion

LEMMA InitIInv == Init => IInv
<1> SUFFICES ASSUME Init PROVE IInv
    OBVIOUS
<1>1. TypeOK
    <2>1. num \in 1..MaxNum /\ numEvents \in 0..num
        BY DEF Init
    <2>2. /\ numRetries \in 0..(MaxRetry + 1)
          /\ emptyStreak \in 0..(MaxRetry + 1)
          /\ singleStreak \in 0..(MaxRetry + 1)
        BY DEF Init
    <2>3. apc \in {"loop", "done", "abort"} /\ hardError \in BOOLEAN
        BY DEF Init
    <2>. QED
        BY <2>1, <2>2, <2>3 DEF TypeOK
<1>2. apc = "loop" /\ ~hardError /\ numRetries = 0 /\ emptyStreak = 0
    BY DEF Init
<1>. QED
    BY <1>1, <1>2 DEF IInv, AbortOnlyOnExhaustion

LEMMA NextIInv == IInv /\ [Next]_vars => IInv'
<1> SUFFICES ASSUME IInv, [Next]_vars PROVE IInv'
    OBVIOUS
<1> USE DEF IInv, TypeOK, AbortOnlyOnExhaustion
<1>1. CASE Alloc
    <2> PICK ret \in -1..(num - numEvents) :
            IF ret < 1 THEN AllocFails(ret) ELSE AllocGot(ret)
        BY <1>1 DEF Alloc
    <2>1. apc = "loop" /\ numEvents < num
        BY <1>1 DEF Alloc
    <2>2. CASE ret < 0
        <3>1. AllocFails(ret)
            BY <2>2
        <3>2. hardError' = TRUE /\ apc' = "abort"
            BY <3>1, <2>2 DEF AllocFails
        <3>3. /\ numRetries' = numRetries + 1 /\ emptyStreak' = 0
              /\ singleStreak' = 0 /\ UNCHANGED <<num, numEvents>>
            BY <3>1, <2>2 DEF AllocFails
        <3>. QED
            BY <3>2, <3>3, <2>1
    <2>4. CASE ret = 0
        <3>1. AllocFails(0)
            BY <2>4
        <3>2. numRetries' = numRetries + 1 /\ hardError' = hardError
            BY <3>1 DEF AllocFails
        <3>3. ~hardError => emptyStreak' = numRetries'
            BY <3>1, <3>2, <2>1 DEF AllocFails, StreakUp
        <3>4. TypeOK'
            BY <3>1, <2>1 DEF AllocFails, StreakUp
        <3>. QED
            BY <3>1, <3>2, <3>3, <3>4, <2>1 DEF AllocFails
    <2>3. CASE ~(ret < 1)
        BY <2>1, <2>3 DEF AllocGot, StreakUp
    <2>. QED
        BY <2>2, <2>3, <2>4
<1>2. CASE Return
    BY <1>2 DEF Return
<1>3. CASE UNCHANGED vars
    BY <1>3 DEF vars
<1>. QED
    BY <1>1, <1>2, <1>3 DEF Next

(* The counters and the event count stay in range.                       *)
THEOREM TypeCorrect == Spec => []TypeOK
BY InitIInv, NextIInv, PTL DEF Spec, IInv

(* The process is aborted only on a hard allocator error or after more   *)
(* than MAX_RETRY consecutive empty returns.                             *)
THEOREM AbortsOnlyOnExhaustion == Spec => []AbortOnlyOnExhaustion
BY InitIInv, NextIInv, PTL DEF Spec, IInv

-----------------------------------------------------------------------------
(***************************************************************************)
(* Refinement of the provisioning contract (AllocContract).  The retry   *)
(* loop's steps map as: a non-empty return is an Acquire of ret more     *)
(* resources, an empty return that is retried is a stutter, an error or  *)
(* the retry ceiling is the Abort, and the failed loop test is Deliver.  *)
(***************************************************************************)
LEMMA OutcomeValues ==
    /\ Outcome["loop"] = "running"
    /\ Outcome["done"] = "returned"
    /\ Outcome["abort"] = "aborted"
BY DEF Outcome

LEMMA InitContract == Init => Contract!CInit
BY OutcomeValues DEF Init, Contract!CInit

LEMMA NextContract ==
    IInv /\ [Next]_vars => [Contract!CNext]_Contract!cvars
<1> SUFFICES ASSUME IInv, [Next]_vars
             PROVE  [Contract!CNext]_Contract!cvars
    OBVIOUS
<1>1. num \in 1..MaxNum /\ numEvents \in 0..num
    BY DEF IInv, TypeOK
<1>2. CASE Alloc
    <2> PICK ret \in -1..(num - numEvents) :
            IF ret < 1 THEN AllocFails(ret) ELSE AllocGot(ret)
        BY <1>2 DEF Alloc
    <2>1. apc = "loop" /\ numEvents < num
        BY <1>2 DEF Alloc
    <2>2. CASE ret < 1 /\ (ret < 0 \/ numRetries + 1 > MaxRetry)
        <3>1. apc' = "abort" /\ UNCHANGED <<num, numEvents>>
            BY <2>2 DEF AllocFails
        <3>. QED
            BY <2>1, <3>1, OutcomeValues DEF Contract!CNext, Contract!Abort
    <2>3. CASE ret < 1 /\ ~(ret < 0 \/ numRetries + 1 > MaxRetry)
        <3>1. apc' = "loop" /\ UNCHANGED <<num, numEvents>>
            BY <2>3 DEF AllocFails
        <3>. QED
            BY <2>1, <3>1 DEF Contract!cvars
    <2>4. CASE ~(ret < 1)
        <3>0. AllocGot(ret)
            BY <2>4
        <3>1. apc' = "loop" /\ num' = num /\ numEvents' = numEvents + ret
            BY <2>1, <3>0 DEF AllocGot
        <3>2. ret \in 1..(num - numEvents)
            BY <1>1, <2>4
        <3>3. numEvents' \in (numEvents + 1)..num
            BY <1>1, <3>1, <3>2
        <3>. QED
            BY <2>1, <3>1, <3>3, OutcomeValues
            DEF Contract!CNext, Contract!Acquire
    <2>. QED
        BY <2>2, <2>3, <2>4
<1>3. CASE Return
    <2>1. apc = "loop" /\ apc' = "done" /\ UNCHANGED <<num, numEvents>>
        BY <1>3 DEF Return
    <2>2. numEvents = num
        BY <1>1, <1>3 DEF Return
    <2>. QED
        BY <2>1, <2>2, OutcomeValues DEF Contract!CNext, Contract!Deliver
<1>4. CASE UNCHANGED vars
    BY <1>4 DEF vars, Contract!cvars
<1>. QED
    BY <1>2, <1>3, <1>4 DEF Next

(* allocate_test_events() implements the contract of spec section 4.1:   *)
(* it returns only once all num events are in event[], adds events in   *)
(* batches of at least one and never loses one, and otherwise aborts.   *)
THEOREM ContractRefinement == Spec => RefinesContract
BY InitIInv, NextIInv, InitContract, NextContract, PTL
DEF Spec, RefinesContract, Contract!CSpec

=============================================================================
