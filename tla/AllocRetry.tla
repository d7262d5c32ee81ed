----------------------------- MODULE AllocRetry -----------------------------
(***************************************************************************)
(* allocate_test_events() of programs/performance/bench_event.c: fill    *)
(* event[0..num-1] by repeated em_alloc_multi() calls for the missing    *)
(* events, retrying an empty return at most MAX_RETRY consecutive times *)
(* and aborting the process on an error return.  Which events are       *)
(* returned is abstracted to how many.                                   *)
(***************************************************************************)
EXTENDS Integers

CONSTANTS
    MaxNum,    \* largest num requested (REPEAT_COUNT * burst_size in the code)
    MaxRetry   \* MAX_RETRY

ASSUME MaxNumAssumption == MaxNum \in Nat \ {0}
ASSUME MaxRetryAssumption == MaxRetry \in Nat

VARIABLES
    num,          \* the num argument
    numEvents,    \* num_events: events obtained so far
    numRetries,   \* num_retries: empty returns since the last non-empty one
    apc,          \* "loop", "done" (returned) or "abort" (ODPH_ABORT)
    hardError,    \* history: an em_alloc_multi() call returned < 0
    emptyStreak,  \* history: consecutive calls that returned 0
    singleStreak  \* history: consecutive calls that returned exactly 1

vars == <<num, numEvents, numRetries, apc, hardError, emptyStreak,
          singleStreak>>

(* The history counters tell apart only what the properties compare:     *)
(* they saturate at MAX_RETRY + 1.                                       *)
StreakUp(n) == IF n > MaxRetry THEN n ELSE n + 1

Init ==
    /\ num \in 1..MaxNum
    /\ numEvents = 0
    /\ numRetries = 0
    /\ apc = "loop"
    /\ hardError = FALSE
    /\ emptyStreak = 0
    /\ singleStreak = 0

(* em_alloc_multi() returned ret < 1: num_retries++, abort on an error   *)
(* or once num_retries exceeds MAX_RETRY, else continue.                 *)
AllocFails(ret) ==
    /\ numRetries' = numRetries + 1
    /\ apc' = IF ret < 0 \/ numRetries + 1 > MaxRetry THEN "abort" ELSE "loop"
    /\ hardError' = (hardError \/ ret < 0)
    /\ emptyStreak' = IF ret = 0 THEN StreakUp(emptyStreak) ELSE 0
    /\ singleStreak' = 0
    /\ UNCHANGED <<num, numEvents>>

(* Mutant: the returned events are not added to num_events.             *)
AllocGotNoProgress(ret) ==
    /\ numRetries' = 0
    /\ numEvents' = numEvents
    /\ emptyStreak' = 0
    /\ singleStreak' = IF ret = 1 THEN StreakUp(singleStreak) ELSE 0
    /\ UNCHANGED <<num, apc, hardError>>

(* Mutant: a non-empty return does not reset num_retries.                *)
AllocGotNoReset(ret) ==
    /\ numRetries' = numRetries
    /\ numEvents' = numEvents + ret
    /\ emptyStreak' = 0
    /\ singleStreak' = IF ret = 1 THEN StreakUp(singleStreak) ELSE 0
    /\ UNCHANGED <<num, apc, hardError>>

(* em_alloc_multi() returned ret >= 1 events: num_retries = 0 and        *)
(* num_events += ret.                                                    *)
AllocGot(ret) ==
    /\ numRetries' = 0
    /\ numEvents' = numEvents + ret
    /\ emptyStreak' = 0
    /\ singleStreak' = IF ret = 1 THEN StreakUp(singleStreak) ELSE 0
    /\ UNCHANGED <<num, apc, hardError>>

(* Mutant: each call asks for num events at &event[num_events] instead  *)
(* of the num - num_events missing ones.                                 *)
AllocWholeNum ==
    /\ apc = "loop"
    /\ numEvents < num
    /\ \E ret \in -1..num :
           IF ret < 1 THEN AllocFails(ret) ELSE AllocGot(ret)

(* One turn of while (num_events < num): the allocator is asked for the  *)
(* num - num_events missing events and returns an error (-1), none, or   *)
(* some of them.                                                         *)
Alloc ==
    /\ apc = "loop"
    /\ numEvents < num
    /\ \E ret \in -1..(num - numEvents) :
           IF ret < 1 THEN AllocFails(ret) ELSE AllocGot(ret)

(* Mutant: the loop ends on the first non-empty return, with events       *)
(* still missing.                                                        *)
ReturnEarly ==
    /\ apc = "loop"
    /\ numEvents > 0
    /\ apc' = "done"
    /\ UNCHANGED <<num, numEvents, numRetries, hardError, emptyStreak,
                   singleStreak>>

(* The loop test fails: all num events are there and the function        *)
(* returns.                                                              *)
Return ==
    /\ apc = "loop"
    /\ ~(numEvents < num)
    /\ apc' = "done"
    /\ UNCHANGED <<num, numEvents, numRetries, hardError, emptyStreak,
                   singleStreak>>

Next == Alloc \/ Return

(* The caller is the benchmark worker, which does nothing else meanwhile. *)
Spec == Init /\ [][Next]_vars /\ WF_vars(Next)

-----------------------------------------------------------------------------

TypeOK ==
    /\ num \in 1..MaxNum
    /\ numEvents \in 0..num
    /\ numRetries \in 0..(MaxRetry + 1)
    /\ apc \in {"loop", "done", "abort"}
    /\ hardError \in BOOLEAN
    /\ emptyStreak \in 0..(MaxRetry + 1)
    /\ singleStreak \in 0..(MaxRetry + 1)

(* The process is aborted only for a hard allocator error or after more  *)
(* than MAX_RETRY consecutive empty returns: pool pressure that lets one *)
(* event through every MAX_RETRY + 1 calls is retried, never fatal.      *)
AbortOnlyOnExhaustion ==
    apc = "abort" => (hardError \/ emptyStreak > MaxRetry)

(* The retry loop never runs forever: it returns or aborts.              *)
Termination == <>(apc \in {"done", "abort"})

(* The contract of spec section 4.1, under the mapping: count is num,    *)
(* the resources acquired are num_events, and the call is running while   *)
(* the loop runs, has returned once the function returns, and has        *)
(* aborted at ODPH_ABORT().                                              *)
Outcome == [loop |-> "running", done |-> "returned", abort |-> "aborted"]

Contract == INSTANCE AllocContract
    WITH count <- num, acquired <- numEvents, outcome <- Outcome[apc]

(* allocate_test_events() keeps the contract: it returns only with all   *)
(* num events in event[], never gives one back, and otherwise aborts.    *)
RefinesContract == Contract!CSpec

(* What the spec says in its testable properties: batches that always    *)
(* return exactly 1 abort after MAX_RETRY consecutive single returns.    *)
SinglesAbort == singleStreak > MaxRetry => apc = "abort"

=============================================================================
