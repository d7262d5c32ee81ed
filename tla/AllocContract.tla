---------------------------- MODULE AllocContract ----------------------------
(***************************************************************************)
(* The contract of the ResourceProvisioner (spec section 4.1):            *)
(* acquire(pool, kind, size, count) returns count resources, or aborts    *)
(* the process.  Resources arrive in batches and none is given back while *)
(* the call runs; it returns only once all count are there, and it may    *)
(* abort at any point before that.  Nothing happens after it returned or *)
(* aborted.                                                               *)
(***************************************************************************)
EXTENDS Naturals

CONSTANT MaxNum    \* the largest count asked for

VARIABLES
    count,     \* the count argument
    acquired,  \* resources acquired so far
    outcome    \* "running", "returned" or "aborted"

cvars == <<count, acquired, outcome>>

CInit ==
    /\ count \in 1..MaxNum
    /\ acquired = 0
    /\ outcome = "running"

(* A batch of one or more of the missing resources arrives.               *)
Acquire ==
    /\ outcome = "running"
    /\ acquired' \in (acquired + 1)..count
    /\ UNCHANGED <<count, outcome>>

(* All count resources are there and the call returns them.               *)
Deliver ==
    /\ outcome = "running"
    /\ acquired = count
    /\ outcome' = "returned"
    /\ UNCHANGED <<count, acquired>>

(* Exhaustion or a hard allocator error ends the process.                 *)
Abort ==
    /\ outcome = "running"
    /\ outcome' = "aborted"
    /\ UNCHANGED <<count, acquired>>

CNext == Acquire \/ Deliver \/ Abort

CSpec == CInit /\ [][CNext]_cvars

=============================================================================
