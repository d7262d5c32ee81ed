------------------------------ MODULE BenchMain ------------------------------
(***************************************************************************)
(* main() of programs/performance/bench_event.c composed with the worker *)
(* of BenchDriver: process setup, installation of the SIGINT handler,    *)
(* the shared gbl_args block and its zeroing, parse_args(),              *)
(* create_queues(), the worker thread started and joined, and the        *)
(* teardown that picks the exit status.  SIGINT is delivered at any      *)
(* time: before the handler is installed it kills the process, before    *)
(* gbl_args is set the handler ignores it, and afterwards it sets        *)
(* exit_thread.  The pools the worker's create_pools() made are tracked  *)
(* so that the teardown can be checked.                                   *)
(***************************************************************************)
EXTENDS BenchDriver

VARIABLES
    mpc,        \* main()'s place
    handler,    \* sigaction(SIGINT) has installed sig_handler
    gblArgs,    \* the static gbl_args pointer is non-NULL
    pools,      \* pools created and not yet deleted
    queueMade,  \* gbl_args->unsched_queue is a created queue
    mret,       \* main()'s ret
    parsed,     \* what parse_args() returned: "ok", "help" or "bad"
    exitCode    \* how the process ended

mvars == <<mpc, handler, gblArgs, pools, queueMade, mret, parsed, exitCode>>

allVars == <<vars, mvars>>

MainPcs == {"init", "sig", "shm", "zero", "parse", "queues", "run",
            "teardown", "exited"}

AllPools == {"sw", "pkt", "vec"}

(* create_pools() makes the sw, packet and vector pools in that order    *)
(* and returns at the first failure, keeping those already made.         *)
PoolsMadeBefore == {{}, {"sw"}, {"sw", "pkt"}}

-----------------------------------------------------------------------------

MainInit ==
    /\ Init
    /\ mpc = "init"
    /\ handler = FALSE
    /\ gblArgs = FALSE
    /\ pools = {}
    /\ queueMade = FALSE
    /\ mret = 0
    /\ parsed = "ok"
    /\ exitCode = "none"

(* ODP global and local init, worker CPU, em_init() and em_init_core():  *)
(* each failure is exit(EXIT_FAILURE).                                    *)
ProcessInit ==
    /\ mpc = "init"
    /\ \/ mpc' = "sig" /\ UNCHANGED exitCode
       \/ mpc' = "exited" /\ exitCode' = "failure"
    /\ UNCHANGED <<vars, handler, gblArgs, pools, queueMade, mret, parsed>>

(* setup_sig_handler(): sigaction(SIGINT), or exit(EXIT_FAILURE).        *)
SetupSigHandler ==
    /\ mpc = "sig"
    /\ \/ mpc' = "shm" /\ handler' = TRUE /\ UNCHANGED exitCode
       \/ mpc' = "exited" /\ exitCode' = "failure" /\ UNCHANGED handler
    /\ UNCHANGED <<vars, gblArgs, pools, queueMade, mret, parsed>>

(* odp_shm_reserve() and gbl_args = odp_shm_addr(shm), or exit.         *)
ReserveArgs ==
    /\ mpc = "shm"
    /\ \/ mpc' = "zero" /\ gblArgs' = TRUE /\ UNCHANGED exitCode
       \/ mpc' = "exited" /\ exitCode' = "failure" /\ UNCHANGED gblArgs
    /\ UNCHANGED <<vars, handler, pools, queueMade, mret, parsed>>

(* Mutant: exit_thread is initialised before gbl_args is published.     *)
ZeroArgsKeepFlag ==
    /\ mpc = "zero"
    /\ mpc' = "parse"
    /\ UNCHANGED <<vars, handler, gblArgs, pools, queueMade, mret, parsed,
                   exitCode>>

(* memset(gbl_args, 0), odp_atomic_init_u32(&exit_thread, 0), pool and  *)
(* queue handles UNDEF, test_suite registered, the tables cleared.       *)
ZeroArgs ==
    /\ mpc = "zero"
    /\ exitThread' = 0
    /\ mpc' = "parse"
    /\ UNCHANGED <<opt, wpc, i, j, round, total, reports, benchFailed, wret,
                   roundsAfterExit, handler, gblArgs, pools, queueMade, mret,
                   parsed, exitCode>>

(* parse_args(): opt holds the values given; the call returns 0, 1 after *)
(* usage() for -h, or -1 for a bad option, rounds or index, and main()   *)
(* goes to exit on a non-zero ret; a bad burst size is exit(FAILURE).    *)
ParseArgs ==
    /\ mpc = "parse"
    /\ \/ mpc' = "queues" /\ UNCHANGED <<mret, parsed, exitCode>>
       \/ mpc' = "teardown" /\ mret' = 1 /\ parsed' = "help"
          /\ UNCHANGED exitCode
       \/ mpc' = "teardown" /\ mret' = -1 /\ parsed' = "bad"
          /\ UNCHANGED exitCode
       \/ mpc' = "exited" /\ parsed' = "bad" /\ exitCode' = "failure"
          /\ UNCHANGED mret
    /\ UNCHANGED <<vars, handler, gblArgs, pools, queueMade>>

(* create_queues(): the unscheduled queue, or goto exit with ret = 0.    *)
CreateQueues ==
    /\ mpc = "queues"
    /\ \/ mpc' = "run" /\ queueMade' = TRUE
       \/ mpc' = "teardown" /\ UNCHANGED queueMade
    /\ UNCHANGED <<vars, handler, gblArgs, pools, mret, parsed, exitCode>>

(* Mutant: create_pools() returns 0 before the vector pool is made.     *)
PoolsAfterNoVector ==
    IF wpc = "create_pools"
    THEN IF wpc' = "loop" THEN pools' = {"sw", "pkt"}
                          ELSE pools' \in PoolsMadeBefore
    ELSE UNCHANGED pools

(* Pools as create_pools() leaves them when the worker leaves it.        *)
PoolsAfter ==
    IF wpc = "create_pools"
    THEN IF wpc' = "loop" THEN pools' = AllPools
                          ELSE pools' \in PoolsMadeBefore
    ELSE UNCHANGED pools

(* A step of the worker thread, which runs between odph_thread_create()  *)
(* and odph_thread_join().                                                *)
WorkerStep ==
    /\ mpc = "run"
    /\ Worker
    /\ PoolsAfter
    /\ UNCHANGED <<mpc, handler, gblArgs, queueMade, mret, parsed, exitCode>>

(* Mutant: the join only catches a worker that has not yet returned.   *)
JoinMissesDone ==
    /\ mpc = "run"
    /\ wpc = "exit"
    /\ mret' = benchFailed
    /\ mpc' = "teardown"
    /\ UNCHANGED <<vars, handler, gblArgs, pools, queueMade, parsed,
                   exitCode>>

(* Mutant: the join takes the worker's return value instead.             *)
JoinWret ==
    /\ mpc = "run"
    /\ wpc = "done"
    /\ mret' = wret
    /\ mpc' = "teardown"
    /\ UNCHANGED <<vars, handler, gblArgs, pools, queueMade, parsed,
                   exitCode>>

(* odph_thread_join() returns once run_benchmarks() has returned, and    *)
(* ret = gbl_args->bench_failed; the thread's return value is dropped.   *)
Join ==
    /\ mpc = "run"
    /\ wpc = "done"
    /\ mret' = benchFailed
    /\ mpc' = "teardown"
    /\ UNCHANGED <<vars, handler, gblArgs, pools, queueMade, parsed,
                   exitCode>>

(* ODPH_ABORT() in run_indef() aborts the whole process.                 *)
WorkerAbort ==
    /\ mpc = "run"
    /\ wpc = "aborted"
    /\ mpc' = "exited"
    /\ exitCode' = "abort"
    /\ UNCHANGED <<vars, handler, gblArgs, pools, queueMade, mret, parsed>>

(* Mutant: the process status is not set when main() returns.          *)
TeardownNoStatus ==
    /\ mpc = "teardown"
    /\ pools' = {}
    /\ queueMade' = FALSE
    /\ mpc' = "exited"
    /\ UNCHANGED <<vars, handler, gblArgs, mret, parsed, exitCode>>

(* exit: em_pool_delete() of each pool that is not UNDEF, delete_queues() *)
(* (drain, delete; a failure is logged), em_term_core() and em_term()   *)
(* (logged), then odp_shm_free(), odp_term_local() and odp_term_global(), *)
(* each of which may exit(EXIT_FAILURE); else the status follows ret.    *)
Teardown ==
    /\ mpc = "teardown"
    /\ pools' = {}
    /\ queueMade' = FALSE
    /\ mpc' = "exited"
    /\ \/ exitCode' = IF mret < 0 THEN "failure" ELSE "success"
       \/ exitCode' = "failure"
    /\ UNCHANGED <<vars, handler, gblArgs, mret, parsed>>

(* SIGINT with the default action terminates the process.                *)
SigKill ==
    /\ mpc # "exited"
    /\ ~handler
    /\ mpc' = "exited"
    /\ exitCode' = "signal"
    /\ UNCHANGED <<vars, handler, gblArgs, pools, queueMade, mret, parsed>>

(* SIGINT caught by sig_handler() once gbl_args is set.  Before that the *)
(* handler returns at once, which changes nothing.                       *)
SigCaught ==
    /\ mpc # "exited"
    /\ handler /\ gblArgs
    /\ SigHandler
    /\ UNCHANGED mvars

MainStep ==
    \/ ProcessInit \/ SetupSigHandler \/ ReserveArgs \/ ZeroArgs
    \/ ParseArgs \/ CreateQueues \/ Join \/ WorkerAbort \/ Teardown

MainNext == MainStep \/ WorkerStep \/ SigKill \/ SigCaught

(* main() and the worker run on their own CPUs and do not block but on   *)
(* the join, so both are weakly fair; SIGINT is an external event.       *)
MainSpec == MainInit /\ [][MainNext]_allVars
            /\ WF_allVars(MainStep) /\ WF_allVars(WorkerStep)

-----------------------------------------------------------------------------

MainTypeOK ==
    /\ TypeOK
    /\ mpc \in MainPcs
    /\ handler \in BOOLEAN
    /\ gblArgs \in BOOLEAN
    /\ pools \subseteq AllPools
    /\ queueMade \in BOOLEAN
    /\ mret \in {0, -1, 1}
    /\ parsed \in {"ok", "help", "bad"}
    /\ exitCode \in {"none", "success", "failure", "abort", "signal"}
    /\ (mpc = "exited") <=> (exitCode # "none")

(* A failed benchmark case makes the process exit with a failure status, *)
(* although run_benchmarks() returns 0 for it (the shadowed ret): main() *)
(* must take bench_failed, not the thread's result.                      *)
FailedCaseFailsProcess ==
    (mpc = "exited" /\ benchFailed = -1) => exitCode # "success"

(* In all-cases mode the process always ends: no wait of main() on the   *)
(* worker, or of the worker on itself, is left hanging.                   *)
ProcessExits == (opt.bench_idx = 0) => <>(mpc = "exited")

(* Once the worker can see exit_thread = 1, the process ends, also in    *)
(* indefinite mode, where only the signal stops run_indef().             *)
CancelStopsProcess ==
    (exitThread = 1 /\ mpc = "run") ~> (mpc = "exited")

(* The cases allocate from all three pools: whenever the worker is in   *)
(* its case loops, in run_indef() or at its exit label, the sw, packet  *)
(* and vector pools all exist.  A create_pools() that fails part-way     *)
(* must send the worker to its return, and main() must not delete a pool *)
(* while the worker can still reach it.                                   *)
PoolsWhileCasesRun ==
    wpc \in {"loop", "body", "indef", "indef_body", "exit"} => pools = AllPools

(* What spec section 6 promises of the exit status: 0 only when every    *)
(* case ran (or -h was asked, or a SIGINT cancelled the run).            *)
SuccessMeansComplete ==
    (exitCode = "success")
        => (parsed = "help" \/ exitThread = 1 \/ Len(reports) = NumBench)

(* What spec section 4.3 promises of cancellation: once requested, it is *)
(* never reset.                                                           *)
CancelNeverReset == [][exitThread = 1 => exitThread' = 1]_allVars

=============================================================================
