# Verification of the em-odp event benchmark (`bench_event.c`)

This directory holds TLA+ models of `src/programs/performance/bench_event.c`,
the micro-benchmark of the EM event API. It contains:
* the modules;
* the TLC configurations that check them on small instances;
* the TLAPS proofs of the main safety properties, of three refinements of
  the abstract driver (by the worker, by the whole process and by the worker
  with the real case bodies) and of the refinement of the provisioning
  contract by the allocation retry loop, for every value of the constants.

`PROJECT.json` lists the components, runs, mutants, findings, hazards and
theorems. It also holds the map from every modelled definition to its source lines.

## 1. The system

One process, three actors:

* **main()** (1460-1642):
  * sets up ODP/EM and installs the SIGINT handler (1533);
  * publishes and zeroes `gbl_args` (1545-1552) and parses the options;
  * creates the unscheduled queue (`create_queues`);
  * starts one EM worker thread and joins it;
  * takes `ret = bench_failed`;
  * deletes the three pools and then the queue (`delete_queues`, which drains
    and frees what is still enqueued);
  * exits with `EXIT_FAILURE` when `ret < 0`.
* **the worker thread** runs `run_benchmarks()`:
  * calls `em_init_core()` and `create_pools()`;
  * makes two passes over `test_suite[]`, a warm-up pass and a measured one;
  * runs each case `min(--rounds, max_rounds)` times, where a ceiling of 0 means none;
  * calls `init`, `run` and `term` in every round;
  * prints each case's average in the measured pass.

  A `run()` returning 0 sets `bench_failed = -1` and jumps to `exit`
  without calling `term()`. With `--index k`, case k runs indefinitely in
  `run_indef()` until SIGINT. The loops poll `exit_thread` before every round.
* **sig_handler()** asynchronously stores `exit_thread = 1` once `gbl_args` is set.

The 73 cases of `test_suite[]` act on the event tables (`event_tbl`, `event2_tbl`,
`odp_event_tbl`), on the events of the three pools and on the unscheduled queue.

| Component | Code | Modules | Status |
|---|---|---|---|
| BenchmarkDriver | `run_benchmarks`, `run_indef` (272-406) | `BenchDriver`, `BenchDriverProofs`, `BenchSuite`, `BenchDriverRefinement` | modelled |
| CancellationController | `sig_handler`, its installation, the zeroing, the polls at 281 and 325 | `BenchDriver`, `BenchMain` | modelled |
| ResourceProvisioner | `allocate_test_events` (421-442) and the ext-packet variant | `AllocRetry`, `AllocRetryProofs`, `AllocContract`, `EventTable` | partly (see section 5) |
| BenchRegistry and case bodies | `test_suite[]`, every init/run/term function | `EventTable`, `EventTableRefinement`, `EventTableProofs` | modelled |
| Process lifecycle | `main` | `BenchMain`, `BenchMainProofs`, `BenchMainRefinement` | modelled |
| Environment setup and teardown | `create_pools`, `create_queues`, pool deletion, `delete_queues` | `BenchMain`, `EventTable` | modelled |
| CLI and reporting | `parse_args`, `usage`, `print_info`, printf | `BenchDriver` (`Options`) | partly: formatting is pure I/O |

## 2. Modules

### `BenchDriver`: the worker and the signal

**Constants:**
* `NumBench` stands for `num_bench`;
* `MaxRounds` for each case's `max_rounds`;
* `MaxOptRounds` for the largest `--rounds`.

**Variables:**

| Variable | Stands for |
|---|---|
| `opt` | the options `parse_args` accepts |
| `wpc` | the worker's place in the code |
| `i`, `j`, `round`, `total` | the loop variables; `total` counts rounds, one unit each, instead of nanoseconds |
| `reports` | the measured lines `[idx, total, divisor]` |
| `benchFailed`, `exitThread`, `wret` | the fields and the return value of the same names |
| `roundsAfterExit` | a history variable: the rounds begun after SIGINT |

**Actions.** There is one action per block of the code:
* `InitCore` and `CreatePools`, each of which may fail;
* `NextPass` and `PassesDone`;
* `NextCase`, the loop test with its poll;
* `SkipCase` and `StartIndef`, for `--index`;
* `RoundFails`, `RoundDone` and `CaseDone`;
* `IndefTest` and `IndefRound`;
* `TermCore`;
* `SigHandler`.

The inner `int ret` at 327 shadows the outer one, so `RoundFails` leaves
`wret` at 0.

`Phase` maps the worker's place to a phase of the abstract driver:
* setup;
* warm-up, when `i = 0`;
* measure, when `i = 1`;
* indefinite;
* teardown;
* stopped.

`RefinesSuite` is `Suite!ASpec`, where `Suite` is `INSTANCE BenchSuite WITH conf <- opt, phase <- Phase, out <- reports`.

### `BenchSuite`: what the driver promises

`BenchSuite` is the per-execution state machine of spec section 4.2 and the
measured report of section 6. It has no rounds, cases or signal. Its actions are:
* `SetupDone` and `StartMeasure`;
* `Emit`: the next case's line, with a total between 1 and the case's ceiling;
* `GoIndefinite`: only from the warm-up pass and only with `--index`;
* `Stop`, `AbortIndefinite` and `Teardown`;
* `ProvisionAbort`: the fatal ResourceExhaustion or AllocationError of spec
  section 7, which ends the process from either pass.

### `BenchMain`: main() composed with the worker

`BenchMain` EXTENDS `BenchDriver`. It adds main()'s place `mpc` and the
following variables:
* `handler` (sigaction done);
* `gblArgs` (pointer set);
* `pools`, the pools still to be deleted;
* `queueMade`;
* `mret`;
* `parsed`, the result of `parse_args`;
* `exitCode`.

**Actions:**
* `ProcessInit`, `SetupSigHandler`, `ReserveArgs` and `ZeroArgs`, which zeroes
  `exit_thread`;
* `ParseArgs`, `CreateQueues`, `Join` (`ret = bench_failed`), `WorkerAbort` and `Teardown`;
* `WorkerStep`, a worker step while main() waits in the join. Its pool
  bookkeeping is `PoolsAfter`.
* `SigKill`, the default action before sigaction;
* `SigCaught`.

### `EventTable`: the cases and the events

`EventTable` EXTENDS `BenchDriver` and replaces the abstract round actions by
rounds that run the code of the case `test_suite[j]`.

**State.**
* An event is a model value of its pool (`PoolHandles`).
* `owner[h]` is `pool`, `app` or `queue`.
* `tbl`, `tbl2` and `odpTbl` are the tables.
* `vsize` is the vector size set by `em_event_vector_size_set`.
* `uq` is the queue.
* `misuse` records that some EM call was made on an event the program does not hold.
* `poolDel` and `queueDel` track main()'s teardown.

**Semantics.** Every C function of the cases is an operator from a "world" `w`
(a record of that state plus `ret`, `ret2`, `last` and `abort`) to the set of
worlds it may return. The set has several elements where an EM call may return
short. `Loop`, `ForEach` and `AndThen` are the C loops and sequencing. The
driver's step for the round combines these:
* `CaseRoundFails` is run() returning 0, with term() skipped;
* `CaseRoundDone` runs term() after a successful run();
* `CaseAbort` is `ODPH_ABORT` in init;
* `IndefCase` is `run_indef`, which calls term() before testing run()'s result.

**Teardown.** `PoolDelete` is main()'s `em_pool_delete` of the pools after the
join. `delete_queues` drains the queue, frees what it dequeues and deletes the queue.

**The EM primitives.** `em_alloc`, `em_free`, `em_send_multi`,
`em_queue_dequeue_multi`, clone and ref are modelled from the EM API, not from
code under `src/`; the map marks them `spec_modelled`. The EM API allows some
calls to return short:
* allocation;
* `em_send`/`em_send_multi`;
* `em_queue_dequeue_multi`.

The constant `Faults` says which of these short returns a run admits.

**Allocation order.** A pool hands out its free events in a fixed order
(`Avail`, `FirstFree`): its lowest free handle first, so a freed event is
handed out again at once. This is an under-approximation of the allocator. The
order matters only for which stale slot aliases which live event, and
lowest-first is the order that makes aliasing after a free most likely.

### `AllocRetry`: the allocation retry loop

`AllocRetry` models `allocate_test_events`.

**Variables:**
* `num`, `numEvents` and `numRetries` are the function's own variables;
* `apc` is the place in the function;
* `hardError`, `emptyStreak` and `singleStreak` are history variables.

**Actions.** `Alloc` is one turn of the loop, with any return from -1 up to the
number of missing events. `AllocFails` and `AllocGot` are its branches, and
`Return` leaves the loop.

### `AllocContract`: what provisioning promises

`AllocContract` is the contract of spec section 4.1: `acquire` returns
`count` resources or aborts the process. `Acquire` adds a batch of at least
one missing resource and never takes one back. `Deliver` returns once all
`count` are there. `Abort` may come at any point before that. `AllocRetry`
maps onto it as `Contract`:
* `count` is `num` and `acquired` is `numEvents`;
* the outcome is running in the loop, returned at `done` and aborted at
  `abort`.

`RefinesContract` is `Contract!CSpec`.

### MC modules

`MCBenchDriver`, `MCBenchMain`, `MCEventTable` and `MCAllocRetry` give the
constants for TLC.

## 3. Runs

| Run | Properties | What it shows |
|---|---|---|
| `driver` (pass) | `TypeOK`, `ReportsWellFormed`, `CompleteRun`, `CancelPrompt`, `Termination`, `CancelLeadsToExit` | The report is ordered and complete. Rounds respect the ceiling. At most one round begins after SIGINT. Without `--index` the worker always ends; with a signal it always ends. |
| `driver_average` (violation) | `AverageOverAllRounds` | Finding: later cases are timed over one round fewer than the divisor (396). |
| `driver_refines` (pass) | `RefinesSuite` | The worker implements `BenchSuite` under `Phase`. |
| `alloc_retry` (pass) | `TypeOK`, `AbortOnlyOnExhaustion`, `Termination`, `RefinesContract` | No overrun of `event[]`. The loop aborts only on an error or on exhaustion, and always ends. It keeps the contract of spec section 4.1: it returns only with all `num` events. |
| `alloc_singles` (violation) | `SinglesAbort` | Finding: returns of exactly one event never abort (439), against spec section 8. |
| `main` (pass) | `MainTypeOK`, `FailedCaseFailsProcess`, `PoolsWhileCasesRun`, `ProcessExits`, `CancelStopsProcess` | The whole process, with main()'s setup, zeroing, join and teardown. A failed case gives a failure status despite the shadowed ret. No case runs unless all three pools exist. The process always ends in all-cases mode, and ends once the worker can see the flag. |
| `main_status` (violation) | `SuccessMeansComplete` | Finding: `EXIT_SUCCESS` after a `create_queues` failure (1582) or a worker setup failure (1602). |
| `main_cancel_reset` (violation) | `CancelNeverReset` | Finding: a SIGINT between 1533 and 1552 is wiped by the zeroing. |
| `events` (pass) | `NoBadUse`, `RoundReleasesAll` | Short allocations are admitted, over all 73 cases, both passes and every `--index`. No EM call is made on an event the program does not hold: no double free, no free of an enqueued event, no free of a vector with its size set. Every round gives back what it took. |
| `events_short_deq` (violation) | `NoBadUse` | Finding: `unsched_dequeue_free_multi` ignores a short dequeue and frees stale slots (1162). |
| `events_indef_send` (violation) | `NoBadUse` | Finding: `run_indef` runs term() after a failed send and frees an event twice before `ODPH_ABORT` (288). |
| `events_teardown` (violation) | `PoolsDeletedEmpty` | Finding: a failed run() skips term() (367). main() then deletes the pools while events are held or enqueued, and `delete_queues` frees into deleted pools. |

### Bounds

* **`driver`:**
  * three cases with ceilings 0, 2 and 1;
  * `--rounds` 1..3;
  * every `--index`.

  This covers a ceiling below, at and above R, a first case and later ones
  (the off-by-one needs a later case with a ceiling of at least 2), and the
  signal at every point.
* **`main`:** the same cases with R up to 2.
* **`events`:**
  * the whole `test_suite[]`;
  * `REPEAT_COUNT = 2` and a burst of 2, so every `*_multi` loop runs two bursts of two;
  * pools of 4 events and 2 reference handles;
  * R up to 2;
  * every `--index`.
* **`alloc_retry`:** requests of 1..5 events with `MAX_RETRY = 2`.

### Fairness

* **`Spec`:** `WF(Worker)`. The worker runs on its own CPU and none of its calls blocks.
* **`MainSpec`:** `WF` of main()'s steps and of the worker's steps. main() only
  waits in the join.
* **The signal** is never fair, since a user may never press Ctrl-C.
* **`EvSpec`:** checked for safety only.
* **`AllocRetry`:** `WF(Next)`.

### Mutants

Every property of a passing run is broken by TLC under a mutant of a mapped
definition. The mutants are listed in `PROJECT.json`:
* a dropped poll;
* a single pass;
* a missing `i++`;
* a positive failure code;
* an off-by-one ceiling test;
* a spinning indefinite loop;
* the whole `num` requested every time;
* a missing retry reset;
* a retry loop that returns on its first non-empty batch;
* no progress;
* a teardown that ignores ret;
* a join that takes the thread's ret;
* a join that does not wait for the worker;
* a `create_pools` that returns before making the vector pool;
* a vector freed with its size still set;
* clones left unfreed.

## 4. Proofs (TLAPS)

All theorems assume `NumBench >= 1`, `MaxRounds` a table of naturals and
`MaxOptRounds >= 1`. These are the `ASSUME`s of `BenchDriver`.

### `BenchDriverProofs`

**`TypeCorrect`, `ReportsAreWellFormed` and `RunIsComplete`** are proved from
the inductive invariant `IInv = Core /\ ReportsWellFormed`. `Core` adds the
following facts:
* `j < NumBench` in the body;
* `total + 1 <= round`;
* `round <= EffMax(j) \/ total = 0`;
* no report before the measured pass or under `--index`;
* exactly `j` lines in the measured pass;
* completeness at the `exit` label.

The step lemmas are `NextCore`, with one case per action, and `NextReports`.
`NextReports` splits CaseDone, which appends through `AppendProperties`, from
every other step. Both rest on `EffMaxPositive` and `EffMaxUnchanged`.

**`CancelIsPrompt`** proves `CancelPrompt` from `LateInv`:
* the counter is 0 while the flag is 0;
* the counter is 0 inside a round body, because a body is entered only through
  a flag test that read 0;
* so the counter is at most 1.

### `BenchDriverRefinement`

**`Refinement`** proves `Spec => RefinesSuite` in two steps:
* `InitRefines`: initial states map to `AInit`;
* `NextRefines`: each step maps to an abstract step or to a stutter.

It needs the invariant `RInv = IInv /\ SelInv`. `SelInv` says:
* `j` is 0 in setup;
* with `--index k` the warm-up pass is at `j < k`, so the measured pass is
  only reached through the flag and runs no case;
* the indefinite mode has `i = 0`.

Without `SelInv`, the worker could seem to enter indefinite mode from the
measured pass, or to report in `--index` mode. The measured step `CaseDone` is
matched with `Emit` through `Ceiling(Len(reports)) = EffMax(j)`.

### `BenchMainProofs`

**`MainTypeCorrect` and `FailureReported`** (the `FailedCaseFailsProcess` run
property) are proved from `MInv`, which is the driver's `IInv` plus these facts:
* before the worker starts, it is at `init_core` with `bench_failed = 0`. This
  carries `IInv` across `ZeroArgs`, the one main() step that writes a worker
  variable.
* at teardown, `bench_failed = -1` implies `ret = -1`;
* `exitCode` is set exactly when main() has exited.

**`PoolsPresent`** proves `PoolsWhileCasesRun` from `MInv` and `PInv`. It is
not inductive alone. `PInv` adds that a worker in its case loops, in
`run_indef` or at its exit label runs under main()'s join with the handler
installed. So neither the teardown nor a default-action SIGINT can end the
process around it, and `PoolsAfter` is the only step that changes the pools.

### `BenchMainRefinement`

**`MainRefinement`** proves `MainSpec => RefinesSuite` from `MRInv = MInv /\ SelInv`.
* main()'s steps and `SigKill` change no mapped variable, so they are
  stutters. `ZeroArgs` writes `exit_thread`, but only while the worker is at
  `init_core` with `i = 0`, where `SelInv` does not look at it.
* Worker steps and caught signals are `BenchDriver` steps, so
  `NextRefines` of `BenchDriverRefinement` applies.

### `EventTableRefinement`

**`EvRefinement`** proves `EvSpec => RefinesSuite`, and **`EvReportsWellFormed`**
proves `EvSpec => []ReportsWellFormed`. Both hold for every REPEAT_COUNT, burst,
pool contents and fault set.
TLC checks `RefinesSuite` and `ReportsWellFormed` on the worker alone (runs
`driver_refines` and `driver`); for the process of `BenchMain` and for
`EventTable` the theorems `MainRefinement`, `EvRefinement` and
`EvReportsWellFormed` are the check, since each step of theirs is
shown to be a `BenchDriver` step or a stutter.
* `EvNextCases` shows that every EventTable step is a `BenchDriver` step (its
  driver conjunct) or `CaseAbort`. The case bodies are never opened.
* `CaseAbort` keeps `RInv` (`AbortRInv`) and maps to `ProvisionAbort`
  (`AbortRefines`).

Proving this refinement showed that the abstract driver lacked the
provisioning abort of spec section 7. The abstract driver now has it.

### `AllocRetryProofs`

**`TypeCorrect` and `AbortsOnlyOnExhaustion`** hold for every `MaxNum >= 1` and
`MaxRetry >= 0`. The invariant states that `numRetries <= MaxRetry` in the loop
and that, without an error, `emptyStreak = numRetries`.

**`ContractRefinement`** proves `Spec => RefinesContract` from the same
invariant. Its steps map as follows:
* a non-empty return is an `Acquire`;
* an empty return that is retried is a stutter;
* an error, or passing the retry ceiling, is the `Abort`;
* the failed loop test is `Deliver`.

The invariant's `numEvents \in 0..num` is what makes `Deliver`'s
`acquired = count` hold at `Return`, and what keeps a batch within the missing
events.

### `EventTableProofs`

These are lemmas about the EM calls that every case body is built from. Each
is proved for any world that is `Sound`, and for every REPEAT_COUNT, burst and
pool contents:
* `WorldOK` says the tables, owners, vector sizes and queue have their types.
* `QueueAgrees` says the unscheduled queue holds each event at most once, and
  exactly the events whose owner is the queue.

`em_free`, `em_event_vector_free`, `em_event_vector_size_set`, `em_send`,
`em_queue_dequeue` and every outcome of `em_queue_dequeue_multi` keep a world
`Sound`. So do `Touch` and `Misuse`. The lemmas on the queue rest on two
lemmas about sequences without repetitions, `AppendFresh` and `SuffixFresh`.
`Sound(Cur)` was checked by TLC on the `events` instance, under each of the
three fault kinds.

### Only model-checked

* **Liveness.** `Termination`, `CancelLeadsToExit`, `ProcessExits` and
  `CancelStopsProcess` need fairness and ENABLED, which TLAPS does not handle.
* **EventTable's properties about events** (`NoBadUse`,
  `RoundReleasesAll`). The case bodies are built on `Loop`, a recursive function
  of the loop count. Its defining equation, and any fact about the world it
  returns for an arbitrary REPEAT_COUNT or burst, needs induction over data. The
  library's induction theorems take an operator parameter, which the installed
  provers cannot instantiate. The driver-level facts about EventTable
  (`EvRefinement`, `EvReportsWellFormed`) avoid the bodies and are proved.
  The single EM calls the bodies are built from are proved to keep a world
  well-formed and its queue consistent (`EventTableProofs`). What is left to
  TLC is the induction that carries this through each loop.

## 5. Not modelled, and why

* **Formatting.** Report formatting, `usage()`, `print_info()` and the timing
  values are pure output. Time is one unit per round.
* **Payloads.** Event payloads, user areas, sizes and types are left out,
  since no property tells them apart. `EventTable` keeps only ownership, the
  tables, the vector sizes and the queue.
* **The ext-packet allocator.** The two up-front abort checks of
  `allocate_test_ext_pktevents` pass for the packet pool, and `EventTable` takes
  them so. The retry loop is modelled once, in `AllocRetry`.
* **ODP/EM initialisation, shared memory and the thread API.** They are
  modelled only by their outcomes, success or `exit(EXIT_FAILURE)`.
* **Allocation order.** The allocator hands out free events in the fixed
  order above, so schedules where it picks another free event are not explored.

## 6. Plan

* Model `create_pools()`'s failure branches inside `EventTable`, so that
  `PoolDelete` sees partially created pools.
* Prove that the one-iteration bodies of the case loops (the frees of
  `free_event_tbl`, the sends of `unsched_send`) keep a world `Sound`, from
  the call lemmas of `EventTableProofs`. This would leave only the loop
  induction itself to TLC.
