# TLA+ models of HiGHS

HiGHS solves linear, quadratic and mixed-integer programs. Most of its 200,000 lines are numerical
code, right or wrong by floating-point arithmetic. What is hard to get right *and* hard to test
besides is in three places, and these are modelled here:

* the **parallel runtime** in `src/highs/parallel` that every parallel part of the solver stands
  on: a work-stealing scheduler written with atomics, in which a wrong order of two accesses loses a
  task, runs one twice, or puts a thread to sleep for ever, perhaps once in a month of running;
* the **state of an LP between calls**: the `Highs` object and its simplex engine `HEkk` each
  keep a basis, a factorisation, a solution, rays and a status to start the next run from, and
  every public method that changes the LP must withdraw exactly what it makes wrong;
* the **search of the MIP solver**: nodes go from a stack to a queue and back, are cut off by
  bounds that were true at different times, and a restart throws the tree away; no solution may be
  lost on the way, and the reported dual bound must stay true.

This directory holds models of them, TLC configurations that check them on small instances,
and TLAPS proofs for all instances. `PROJECT.json` is the index: components, runs, mutants (seeded
bugs that each property must catch), the map from definitions to source lines, hazards, theorems.

To check a module: `tlc -config X.cfg M` (the table of runs below); to check the proofs:
`tlapm XProofs.tla`.

## 1. Inventory of the system

### The parallel runtime (`src/highs/parallel`)

| Part | State | Operations | Talks to |
|---|---|---|---|
| **Binary semaphore** `HighsBinarySemaphore.h` | `count` (-1, 0, 1), a mutex, a condition variable | `release`, `try_acquire`, `acquire`, `lockMutexForAcquire` | one per deque; released by thieves, publishers, mutex owners and shutdown |
| **Split deque** `HighsSplitDeque.h` | owner's `head`, `splitCopy`, `allStolenCopy`; shared `ts` (tail and split in one word), `allStolen`, `splitRequest`; the task array | `push`, `pop`, `popStolen`, `growShared`, `shrinkShared`, `selfStealAndGetTail`, `publishWork`, `steal`, `stealWithRetryLoop`, `injectTaskAndNotify` | owner and thieves share words; counts itself in `haveJobs` |
| **Task word** `HighsTask.h` | `stealer`: the address of a deque and the flags *finished* and *cancelled* | `run`, `cancel`, `markAsFinished`, `requestNotifyWhenFinished`, `getStealerIfUnfinished`, `isFinished` | the owner in `sync()`, the thief in `runStolenTask()`, anyone who cancels |
| **Sleeper stack** `WorkerBunk` in `HighsSplitDeque.h` | `haveJobs`, `sleeperStack` (index and tag), each deque's `nextSleeper` | `pushSleeper`, `popSleeper`, `publishWork`, `waitForNewTask` | all workers |
| **Scheduler** `HighsParallel.h`, `HighsTaskExecutor.h` | the workers' call stacks, each deque's `rootTask` | `spawn`, `sync`, `TaskGroup` (`taskWait`, `cancel`, destructor), `sync_stolen_task`, `leapfrogStolenTask`, `yield`, `checkInterrupt`, `runStolenTask` | all of the above |
| **Executor** `HighsTaskExecutor.h/.cpp` | `hasStopped`, `referenceCount`, worker threads, thread-local handles | `initialize`, `run_worker`, `random_steal_loop`, `stopWorkerThreads`, `shutdown`, `dispose` | owns the deques and the sleeper stack |
| **Mutex** `HighsMutex.h` | the word `state`: lock bit and next worker | `lock`, `try_lock`, `unlock` | waits on the deque's semaphore, runs tasks in `yield()` |
| **Others** `HighsCombinable.h`, `HighsRaceTimer.h`, `HighsSpinMutex.h`, `HighsCacheAlign.h` | a copy per worker; a minimum; a flag | `local`, `combine`, `decreaseLimit`, `limitReached`, `lock`, `unlock` | clique table; no client in the solvers |

What makes each part correct:

* *Semaphore*: no token is lost, a release during `acquire()` ends it, at most one token is kept.
* *Deque*: each spawned task is run exactly once; the owner waits only for a task that was stolen; a
  slot is not reused while a thief is in it; `allStolen` and `haveJobs` say the truth, since workers
  look for work, and go to sleep, by them; the owner's operations end.
* *Task word*: `sync()` returns only when the task is done; whoever sleeps is told, and nobody who does
  not sleep is told (the semaphore has other users).
* *Sleeper stack*: no sleeper is lost, none is handed out twice (the ABA problem).
* *Scheduler*: a task does not outlive the frame whose variables it uses; waits by leapfrogging do
  not deadlock; a cancelled task unwinds cleanly.
* *Executor*: every worker ends after a shutdown; nothing is used after it is deleted.
* *Mutex*: mutual exclusion; every waiter is served.

Hard behaviours: interleavings of owner and thieves on one word; plain stores that
overwrite a word others change by compare-and-swap, right only because of what the owner knows at that
place; handshakes in which one side sleeps; frames that run on top of waiting frames; exceptions
thrown through destructors; shutdown racing with injection and with sleep. There are no messages and
nothing is persisted: crash recovery and lost messages do not exist here.

### Clients of the runtime

`Highs::initialize_scheduler` (`Highs.cpp:852, 1046`) and `resetGlobalScheduler` (`Highs.cpp:4947`)
start and stop it. Tasks are spawned by the dual simplex solver around its FTRANs
(`HEkkDual.cpp:1284-1302`, bare `spawn`/`sync`), by its multiple iteration variant (`for_each`), by the
MIP root node (a `TaskGroup` for the analytic centre and symmetry detection,
`HighsMipSolverData.cpp:1921`, cancelled at 2056 and 2424), by the clique table (`for_each` and
`HighsCombinable`), and by the interior point solver HiPO, which wraps the group in its own
`TaskGroupSpecial` (`ipm/hipo/auxiliary/Auxiliary.cpp:282-298`). `checkInterrupt()` is called from
symmetry detection (`HighsSymmetry.cpp:1824`) and HiPO (`Control.cpp:19`).

### The state of an LP between calls (`lp_data/`, `simplex/`)

| Part | State | Operations | Talks to |
|---|---|---|---|
| **Highs object** `Highs.cpp`, `HighsInterface.cpp`, `HighsSolve.cpp` | `model_status_`, `solution_`, `basis_` (valid, useful, alien), info | the methods that change costs, bounds, coefficients, rows, columns, integrality; that set, read, or ask for a basis or a solution; `run`, `presolve`, `postsolve`, `crossover`, `feasibilityRelaxation` | calls the engine's `updateStatus`, `invalidate`, `clear`, `moveLp`, `solve` |
| **Simplex engine** `HEkk.cpp`, `HEkkDual.cpp`, `HEkkPrimal.cpp` | `HighsSimplexStatus` (what it has), its own basis, factorisation, row-wise copy, ray records, backtracking basis, saved iterate | `initialiseForSolve`, `rebuild`, `getNonsingularInverse`, `updatePivots`, `putIterate`, `getIterate` | given an LP, gives back basis and solution |

What makes it correct: no factorisation, row-wise copy, ray, status or solution outlives what it was
computed from; the two bases agree whenever one is asked on behalf of the other; a run that meets a
singular basis goes back to one of the same LP, or fails. What is hard: any sequence of the calls is legal; the
withdrawal is spread over both classes; presolve gives the engine another LP in the middle of a run.

### The search of the MIP solver (`mip/`, `quantum/`)

| Part | State | Operations | Talks to |
|---|---|---|---|
| **Main loop** `HighsMipSolver.cpp` `run()` | `lower_bound`, `upper_bound`, `modelstatus_`, global domain, restarts | root node, plunges, installing nodes, separation, restarts, limits | drives the search and the queue |
| **Search** `HighsSearch.cpp` | `nodestack`: per node bound, other child's bound, open subtrees | `evaluateNode`, `branch`, `backtrack`, `backtrackPlunge`, `openNodesToQueue`, `currentNodeToQueue`, `installNode` | LP relaxation, local domain, queue |
| **Node queue** `HighsNodeQueue.cpp` | open nodes, the suboptimal ones apart, each with bound and domain changes | `emplaceNode`, `performBounding`, `pruneInfeasibleNodes`, `popBestNode`, `popBestBoundNode`, `getBestLowerBound` | told of each new incumbent |
| **Quantum heuristic** `quantum/HighsQuantumHeuristic.cpp` (in this fork only) | calls in flight, each with a thread, and answers | `dispatch`, `harvest`, destructor | a subprocess per call; `trySolution` |

What makes it correct: every assignment that could beat the incumbent is in the global domain and in
an open node, wherever that is; bounds hold for what they are said of; the search ends; no thread
outlives its data. What is hard: an incumbent may come in at any point and makes bounds, domains and
nodes stale at once; suboptimal nodes are kept for the bound but never installed; what ends the
plunge (limit, leaf, infeasible domain, suboptimal node) decides what is stored.

### The rest of the repository

| Part | State and operations | Hard behaviours | What makes it correct |
|---|---|---|---|
| MIP root node's tasks, sub-MIPs, symmetry reductions (`mip/`, `presolve/HighsSymmetry.cpp`) | a task group for the analytic centre and symmetry detection | cancellation | the tasks are joined before their captures die (checked for any group in module Scheduler) |
| Conflict pool, cut pool, domain | ages; propagation threads over rows | long sequences of legal calls | ages agree with the lists |
| Heuristics, separators, clique table, implications | candidate solutions, cuts, cliques | numerics; the parallel clique loop | valid cuts and solutions |
| IPX, HiPO, PDLP, QP, simplex pivoting | factorised matrices, iterates | numerics | optimality conditions |
| Presolve and postsolve | a stack of reductions, undone in reverse | order of reductions, numerics | the postsolved point solves the original |
| Utilities (`util/`): red-black tree, disjoint sets, hash tables, data stack, factorisation | data structures | long call sequences | agreement with the mathematical structure |
| Readers and writers, C, C#, Fortran interfaces, application | files, handles | - | agreement of formats |
| Python package `highspy` | solver thread, two class-level locks | `startSolve`/`wait` from several threads, `KeyboardInterrupt` | each wait gets its solve's status |
| Vendored (`extern`, `subprojects`), generated (`build_on`, `build_off`), tests, docs | - | - | - |

## 2. Plan

The order is that of dependence: each layer is modelled with the layers below it abstracted to what
they have been shown to promise.

```
AbstractSemaphore <--refines-- BinarySemaphore
TaskStack         <--refines-- SplitDeque          (uses the semaphore as one step)
                               TaskHandshake       INSTANCE AbstractSemaphore
SleeperPool       <--refines-- SleeperStack
                               Scheduler           (deque = TaskStack, handshake = finished flag)
                               Executor            (stack of sleepers = set, semaphore = token)
                               HighsMutex          (semaphore = token, tasks = nested locks)
SimplexStatus     <--extends-- LpEngine            (flags and their withdrawal; the calls)
MipNodeQueue      <--extends-- MipSolver           (queue, bounds; the search)
```

| # | Step | State |
|---|---|---|
| 1 | Semaphore and its refinement; proofs | done |
| 2 | Split deque, refinement to the task stack; proofs, the end of `publishWork()`'s loop included | done |
| 3 | Handshake on the task word; proofs | done |
| 4 | Sleeper stack, refinement to the pool; proofs | done |
| 5 | Scheduler: leapfrogging, groups, bare spawns, cancellation, unwinding; proofs, absence of deadlock included | done |
| 6 | Executor; proofs, for an executor that no task shuts down | done |
| 7 | Mutex; proofs | done |
| 8 | LP engine: the flags of `HighsSimplexStatus`, then the calls, then a run; proofs | done, but for the calls listed in section 7 |
| 9 | MIP search: node queue, plunges, bounds, restarts, limits, quantum calls; proofs | done, but for what section 7 lists |
| 10 | The index of `cancelTask` past a full array: a deque composed with cancellation | open |
| 11 | The locks of highspy; sub-MIPs with quantum calls of their own | open |
| 12 | Sequential structures against reference definitions: conflict and cut pool ages, red-black tree, disjoint sets, postsolve stack | open |

Every safety property that a run checks is proved (section 6). Theorems still worth proving belong to steps 10 to
12: they need the models first.

## 3. Models and code

Common conventions. One action is one access to a variable that several threads share, together with
the local work that goes with it; the exceptions are named below. Definitions have the names of the
functions they come from, `map` in `PROJECT.json` gives the lines. An operator whose name ends in
`Mut` is a seeded bug: no action uses it; the mutants of `PROJECT.json` put it in the place of the
correct definition to show that a property can fail. Variables called *history* in their comment
exist only for properties. Atomics are modelled as sequentially consistent: reorderings that the
code's `memory_order_relaxed` and `acquire`/`release` accesses permit are not explored.

**BinarySemaphore** is `HighsBinarySemaphore.h` access by access: the `exchange` of `release()`, then
lock and notify; the spinning `try_acquire`, the guarded path of `lockMutexForAcquire()` and
`acquire(lock)`, the condition variable with spurious wake-ups. `AbstractSemaphore` has one bit:
`acquire()` returns only by taking a token, and a released token is not dropped. The owner of the
deque is the only thread that acquires (`Acquirer`). Names that TaskHandshake uses too are prefixed (`SemInit`,
`SemNext`), so that one module of proofs can extend both.

**SplitDeque** is one deque: its owner executing `push()` and `pop()` in the order of any well nested
sequence of spawns and syncs, and thieves that steal (`steal`, `stealWithRetryLoop`), go to sleep and
are handed tasks by `publishWork()`. `tail` and `split` are the halves of `ts`. `head` keeps its
clamping at `kTaskArraySize` (`N`): a push past the end runs the task at once. Whether *other* deques
have jobs or need work is left open (`AddJob`, `GrowCheck`), as is which sleeper answers. The list of
sleepers is abstract here, see SleeperStack, but for what holds the owner up: `popSleeper()` and
`pushSleeper()` load the list (`LoadSleepers`, `LoadList`), exchange it (`TakeSleeper`, `PutBack`), and start again
(`PopFails`, `PushFails`) when another worker has changed it in between (`listChanged`). Where the code tests `head == splitCopy` after
`selfStealAndGetTail()` the test errs on the safe side with overflown tasks, and so does
`NoteIfAllStolen`. `TaskStack` is what the owner may believe: a stack whose oldest tasks are stolen and
whose stolen tasks leave when they are done.

**TaskHandshake** is the `stealer` word of one slot, round after round, with bits as elements of a
set so that `fetch_xor` and `fetch_or` are what they are. The owner's steps are those of
`sync_stolen_task`, `getStealerIfUnfinished`, `requestNotifyWhenFinished` and `waitForTaskToFinish`;
the thief's those of `runStolenTask`, `HighsTask::run` and `markAsFinished`. `cancel()` comes where the
code calls it: from the owner's task group, while the task is spawned and not yet synced, whether stolen, running or
finished by then, and when a wait of the owner is unwound. The addresses of the instance overlap, so that an exclusive-or with the wrong operand is seen.

**SleeperStack** is `WorkerBunk::pushSleeper`/`popSleeper`: load of the word, store or load of the
link, compare-and-exchange with a new tag, and the callers `waitForNewTask` and `publishWork`, which
keeps a popped sleeper, wakes it or pushes it back. `SleeperPool` is what it implements: each sleeper
is awake, in the pool, or in the hands of one publisher. The tag is bounded by `MaxTag`; the code's has
44 bits and is assumed not to wrap within one exchange.

**Scheduler** has whole call stacks. A frame is a running task: stolen or not, the size of the deque
when it was called, how many children it has spawned, whether it runs, throws, destroys its group,
or is in the handler of `runStolenTask`. A task's code spawns its `Children` in order and, in any
order, cancels them, syncs, returns early, or meets an Interrupt in `checkInterrupt()`. Sync follows
`HighsParallel.h:44-66` and `HighsTaskExecutor.h:180-214`: run the popped task; or leapfrog from its stealer; or yield; or sleep
until it is finished. The deque is a `TaskStack`, from which a thief takes the oldest task that is not stolen,
and the handshake a wait for the *finished* flag. Stacks and deques grow at their end. Steps of two workers
interleave at every call. `TreeAssumption` says that the tasks are a tree: each call of `spawn()` makes a new task.

**Executor** is the life of `HighsTaskExecutor`: start, the worker loop, one task of the main thread,
`shutdown()` blocking or not, injection of the null task by `stopWorkerThreads()`, join or detach, the reference count. The
deque's semaphore is a token, and the task's word is its state.

**HighsMutex** is the mutex word access by access, with `lock()` nested on the same worker by tasks
that run in `yield()`. A worker that holds the mutex and then syncs (and so may steal a task that
locks again) is not modelled: the mutex has no client in the solvers, so no code does it.

**SimplexStatus** and **LpEngine**. `SimplexStatus` is the table of `HEkk::updateStatus()` and the
`invalidate` functions below it, on a set of flags. `LpEngine` has the calls. Its variables are what
the two classes *say* (`status` of the engine, `highs` of the `Highs` object) and what *is so*
(`holds`): which of the data kept belong to the LP and to the engine's basis as they are now. The
actions follow the former, as the code does; the properties compare the two. One action is one call;
a run of the simplex solver takes one action per rebuild, refactorisation, basis change and return,
and may be run again on the unscaled or the postsolved LP. Of the update counter only 0, 1 and more
are told apart, since the code tests for `<= 1` (`MaxUpdates`). Two things a caller may do make the
code go wrong, and `Rules` says which of them the caller avoids: *iterate* (`getIterate()` for another
matrix than that of `putIterate()` or after the engine has dropped its basis; a call that sets
a model status after an unbounded or infeasible LP that was not modified since) and *crossover* (finding 3).

**MipNodeQueue** and **MipSolver**. An assignment of the integer variables is a *cell* with the
`Cost` of its best completion; a domain, local or global, is a set of cells; bounds count in units of the
feasibility tolerance, so that `UpperLimit` is one below the incumbent and `OptimalityLimit` is a
`Gap` below. An LP or propagation may find any bound that is true, may remove any cells that do
not improve on the incumbent, and a heuristic or an LP may find any solution at any place where the
code looks for one. The control is that of `run()`: `pc` names the place, one action is what
happens there up to the next place. `nodestack` and `nodequeue` are the code's; a node with one open subtree
has the region and the bound of its other child. In the queue the red-black trees and the list of
column nodes are one set. `Answer` is the thread of a quantum call, the only other process.
Restarts from the root node are taken for propagation (`RootLp`). Limits stay reached: in the code
a user interrupt is not remembered (below).

## 4. Runs

| Run | Module, cfg | Instance | Distinct states | Shows |
|---|---|---|---|---|
| semaphore | `BinarySemaphore` | 3 releasers | 306 | no lost wake-up, tokens are taken, refinement |
| deque | `MCSplitDeque` | array of 3, up to 4 open tasks, 2 thieves | 826,730 | each task is run once; the owner's knowledge of the shared word; thieves do not put off the end of the owner's operations; refinement of the task stack |
| handshake | `MCTaskHandshake` | owner and 2 thieves, addresses {1}, {2}, {1,2} | 1,265 | sync returns when the task is done, sleepers are told, nobody else is |
| sleepers | `MCSleeperStack` | 4 workers, tag up to 6 | 205,171 | the linked stack is a pool; no ABA |
| scheduler | `MCScheduler` | 3 workers, a chain of tasks in 4 levels; of its frames two have groups of the kind HiPO uses, one spawns without a group | 467,434 | no task outlives the code that spawned it, sync means done, waits close no cycle, all comes to rest |
| scheduler_interrupt | `MCScheduler`, `MCSchedulerInterrupt.cfg` | 3 workers, 4 tasks in 3 levels, plain `TaskGroup`s | - | **violated**, finding 1 |
| executor | `Executor` | 3 workers | 9,156 | nothing is used after deletion, the synced task is done, shutdowns return with all freed and end |
| executor_worker_stops | `Executor`, `ExecutorWorkerStops.cfg` | 2 workers, `shutdown()` from a task | - | **violated**, finding 2 |
| mutex | `HighsMutex` | 3 workers, 2 locks each, one nested task each | 73,094 | mutual exclusion, waiters are known and served |
| lp_engine | `LpEngine` | caller keeps both rules | 12,466 | factorisation, row-wise copy, backtracking basis, rays and status are current, and no solution is outdated; the two bases agree |
| lp_crossover | `LpEngine`, `LpEngineCrossover.cfg` | caller keeps *iterate* only | - | **violated**, finding 3 |
| mip | `MCMipSolver` | 3 cells with costs 2, 4 and infeasible | 489,649 | no better solution is lost, the dual bound is true and never falls, the search ends |

Bounds, and why they are enough to be of interest:

* *deque*: with `N = 3` one task can be stolen, one handed out and one popped at the same time, and the
  rare path of `shrinkShared()` in which its `fetch_add` passes a thief (`ShrinkAgain`) is taken;
  with two slots it is not. `MaxHead = 4` makes one push overflow the array. Two thieves are needed
  for a failing exchange of one and a sleeper for the other. The proofs do away with these bounds.
* *sleepers*: the ABA scenario needs a popper that sleeps between reading the link and its exchange while
  others pop two sleepers and push one back: three sleepers, and five changes of the word.
  `CHECK_DEADLOCK FALSE`: at the bound of the tag nobody can change the word.
* *scheduler*: levels make a worker wait for a task whose thief waits for a task that the
  first then leapfrogs, the shape in which a bad choice of victim would deadlock. Three workers let
  a third take what both could. One frame spawns without a group, as `HEkkDual.cpp` does, inside one that
  can cancel it and around one that can cancel its own tasks; `ParentIsAlive` says of it what the code
  relies on, that it is safe as long as nothing around it is cancelled (without that condition TLC
  finds a violation).
* *executor*: each worker goes through its loop any number of times, the main thread spawns any number
  of tasks before it stops.
* *mutex*: three workers, two of which wait in the list. `MaxLocks` bounds the calls of `lock()`, since
  with an endless supply of newcomers the LIFO list starves the first waiter (hazard, `HighsMutex.h:104`);
  `LockReturns` therefore says that lock() returns *once the others stop locking*.
* *lp_engine*: there is one LP, as data are either its own or not; no bound is left but `MaxUpdates`.
* *mip*: two feasible cells give an incumbent that is replaced and a node that is cut off; the third
  can make any region infeasible. With `Gap = 3` the second is within the gap of the first, so
  suboptimal nodes occur, and `Infinity = 6` is apart from all. One restart and one call in flight
  (the code does not bound calls) meet every place of the search; a call that is answered while another
  runs is left to the proofs, which are for any `MaxRestarts` and `MaxCalls`. Instances with a fourth
  cell or other costs, of more than a million states, were checked as well and show nothing else.

Symmetry is used among thieves or workers other than the main one, and only in runs without liveness
properties.

Fairness is weak and of threads only: the operating system runs every runnable thread
(`WF` of the disjunction of its steps), a task's code ends, and a mutex or exchange that keeps being
available is got. Nothing obliges a thread to steal, spawn, release or lock. In the mutex and
in the scheduler this includes that an exchange does not fail spuriously, and `yield()` does not go
on, for ever. In the MIP search it is that the solver's thread runs (`WF` of `Solve`: no single
action is promised, so heuristics that go on finding better solutions, or strong branching, must
run out by themselves), and that a quantum call answers: its subprocess is given a `--timeout`.

## 5. Findings

1. **An Interrupt may leave a noexcept destructor** (`scheduler_interrupt`). `~TaskGroup()` waits
   for its tasks by `taskWait()`, which may steal and run other tasks; `runStolenTask()` ends with
   `checkInterrupt()` for the task *around* it and throws if that has been cancelled. The destructor
   is implicitly `noexcept`, so the program terminates. HiPO works around this with
   `TaskGroupSpecial` and says so (`Auxiliary.cpp:283`); the run *scheduler* shows that its
   workaround, and the rest of the unwinding, is right.
2. **shutdown() on a worker** (`executor_worker_stops`). The comment says it "can be called on main
   or worker threads". A worker that calls it inside a task for which the main thread sleeps wakes
   the main thread with the null task meant for its deque, and `sync()` returns before the task is
   finished.
   (The same configuration also violates `NoUseAfterDelete`: the worker gives up its reference in the
   middle of the task and then goes on in a deque that another thread may have deleted.)

3. **Crossover leaves the simplex engine with the old basis** (`lp_crossover`). Before the interior point
   solver runs, only `basis_` of the `Highs` object is cleared (`Highs.cpp:1341-1346`); crossover then fills
   it, and nobody tells `ekk_instance_`, which keeps basis and factorisation of an earlier simplex run.
   `getBasicVariables()` (`HighsInterface.cpp:1448`) and the functions that solve with the basis
   matrix answer for the old one. `SimplexStruct.h:49` and `Highs.h:624-626` say that the
   factorisation is of the *current* basis. `Highs::crossover()` itself calls `clearSolver()` first.

Seen, and not listed as findings, because no code in the repository depends on them, because no
comment says otherwise, or because the model abstracts from them:

* *Runtime*: `HighsCombinable::combine()` stops after the first value it combines
  (`HighsCombinable.h:95-101`); a holder of `HighsMutex` that syncs may steal a task that waits for the
  mutex on top of the holder's frame.
* *LP*: `getIterate()` after `setBasis()` or `scaleCol()` sets `has_invert` where `has_basis` and `has_nla` are not
  set (`HEkk.cpp:3820-3832`); a run right after an infeasible one returns (`HEkk.cpp:1033`) before the ray records are
  cleared (1041); `getBasicVariables()` of an alien basis meets an assertion (`HighsSolution.cpp:1839`).
  These are excluded by the rule *iterate* and a guard.
  A reduced LP that ends by `kObjectiveTarget` is not in the list of `Highs.cpp:1527-1533`; a change of
  `simplex_scale_strategy` scales again with the factorisation kept (`HApp.h:188`); the comment at
  `HEkk.cpp:1845-1846` says "at least one update" where the code wants two; the one before it, that the
  backtracking basis "has previously been inverted successfully" (1842-1843), is not so when a hot start with
  updates pending has saved its basis (`HEkkDual.cpp:615, 874`) and that basis turns out to be singular too: then the run
  gives up after any number of updates (fact *inverted* of `LpEngine`, action `Fail`; the code handles it, so no run
  checks the comment);
  `changeObjectiveOffset()` adds the offset to the presolved model too (`Highs.cpp:2746-2752`);
  `returnFromLexicographicOptimization()` claims a solution when the first LP had none
  (`HighsInterface.cpp:3911-3920`); `changeIntegrality()` withdraws the model status only, so that solution,
  info and IIS survive (`HighsInterface.cpp:881-904`): the solution that `ReportIsCurrent` speaks of is one that no
  change of the LP's *data* has outdated, and need not be integral after this call, nor optimal after
  `setSolution()` or `feasibilityRelaxation()`; `getDualRay()` by a run with zero costs leaves the dual
  values of that run in the solution (`HighsInterface.cpp:1568-1697`).
* *MIP*: a user interrupt is asked for twice and not remembered, so that a dive it ends goes on after it
  (`HighsMipSolver.cpp:355`, `HighsSearch.cpp:1861`, assertion at 1615); a node whose LP no solver solves in
  three tries is taken for infeasible (`HighsSearch.cpp:1450-1465`); sub-MIPs copy the options, the
  quantum heuristic's too (`HighsPrimalHeuristics.cpp:86`), and their destructor joins the calls, where
  `HighsMipSolver.cpp:313-314` says "no blocking on the cloud round-trip"; the constructor of the thread in
  `dispatch` may throw (`HighsQuantumHeuristic.cpp:174`).

## 6. Proofs

All proofs are for arbitrary constants under the named assumptions of the modules (distinctness of the
model values, `N > 0`, distinct non-empty addresses, tasks that form a tree, costs and bounds that are numbers
and apart); about 12,000 obligations in all. Each module proves its type invariant (`TypeCorrect`) and its
properties. Each follows the
same argument: an inductive invariant `IInv`, which TLC has checked first, `Init => IInv`,
preservation action by action, the property from `IInv`, and the temporal conclusion.

* **SplitDequeProofs**: `NoDoubleTake`, `AwaitedIsStolen`, `RunningIsLive`, `AllStolenIsTrue`, `JobsCounted`,
  `GrowsForward`, `OwnerNearsEnd`, and the refinement of the task stack. The properties are not inductive, for
  they do not say what the owner knows in the middle of an operation. `OwnerInv` does, place by place;
  `WordInv` divides the slots at the tail (or, while `selfStealAndGetTail()` has overshot, at its
  local copy) into taken and not taken; `TaskInv` ties the stealer words to this. `OwnerNearsEnd` is
  termination stated as safety: `StepsLeft` bounds the owner's remaining accesses, falls with each of its steps but
  a failed exchange on the list of sleepers, and no thief raises it, so that no fairness is needed. It is not
  wait-freedom: how often those exchanges fail, nothing in the code bounds. `JobsCounted` speaks of tasks that nobody
  has taken; when thieves have taken all, the deque stays counted until its owner notices.
* **TaskHandshakeProofs**: `SyncMeansDone`, `FreeSlotIsLeft`, `NoStrayToken`, `SleeperIsTold`. The invariant
  gives the content of the word at every pair of places of owner and thief. The second half of the module is about
  the semaphore that this owner sleeps on: `NoLostWakeup`, `SleeperAnnounced`, and its refinement of the
  one-token semaphore. Its invariant `SemInv` says who holds the mutex at which place, and that 0 never appears in the
  counter between the exchange of -1 and the final store.
* **SleeperStackProofs**: `LinksAreStack`, `SleeperIsFindable`, and the refinement of the pool. The heart is
  `TagInv`: a copy of the word with the current tag *is* the word, and the link that was read or stored
  since the copy was made has not changed. `ItemInv` says that only a worker off the stack has its link
  stored to.
* **HighsMutexProofs**: `MutualExclusion`, `HandedToOne`, `WaiterIsKnown`. `BatonInv`: at most one worker holds,
  hands over or is handed the mutex; `ListInv`: the word and the waiters' copies of it name each
  waiter exactly once.

* **ExecutorProofs**: `NoUseAfterDelete`, `SyncMeansDone`, `BlockingFrees`, for any number of
  workers, under the assumption that no task calls `shutdown()` (`~WorkersStop`; with it the code fails,
  finding 2). `HandleInv`: the count is that of the handles, a thread has its handle until it ends, and
  only the main thread stops the executor. `TokenInv`: until then a worker's token means that it sleeps
  and was injected the task; afterwards that it was injected the termination signal. `TaskInv`: who
  has the task in hand.
* **SchedulerProofs**: `SyncMeansDone`, `ParentIsAlive`, `SyncsOwnTask`, `SomeoneGoesOn`, for any number of workers,
  any tree of tasks (`TreeAssumption`), and any choice of those that have a `TaskGroup` or HiPO's group. None of the
  four is inductive: each looks at innermost frames, or at one task, while a step may uncover a frame that has waited
  under many others. `IInv` therefore speaks of whole stacks, in three layers.
  *Where things are.* The frames of a worker divide its deque between them (`Bases`, `Covered`, `Stages`): from
  a frame's base to the next one's are the tasks that it must still sync (`Segments`: its children, or, once
  an exception has passed, cancelled tasks that its children's code has left). A task is in one
  place of one deque and in one frame (`Once`); a frame below another waits for a thief or runs a child
  (`Nesting`, `Waits`); words, outcomes and frames fit together (`Queued`, `Words`, `Synced`).
  *Exceptions.* A frame throws only while the innermost stolen task at or below it is cancelled (`Interrupts`),
  and the frames up to that task run its descendants (`Inline`): so whatever an exception leaves behind has a
  cancelled ancestor, which is the condition in `ParentIsAlive`.
  *Waiting.* Nothing below a task that has not begun has begun (`Unspawned`). So a task that is
  called has no descendant at work, and an order of the tasks at work that puts every task before its
  descendants and before all that runs on top of it can be extended by the new task at its end (`NoCycle`: each
  set of tasks at work has a last member). The last of all tasks at work is on top of a stack; if
  its frame waited, then for a descendant that is at work too and so would be later. So that worker does
  not wait (`SomeoneGoesOn`).
  That argument does not use whom a worker steals from: leapfrogging and yielding are both covered. What it does use is
  that a worker that waits calls only tasks that have not begun.
  Each action is first shown to be a step of one of eight kinds (a frame is renewed, spawns, calls, takes, ends,
  throws, discards a task, rests: the `...Kind` lemmas), and the invariant is proved for each kind once. TLC has
  checked `IInv` on the instances of both scheduler runs.
* **LpEngineProofs**: `SimplexDataIsCurrent`, `BasesAgree` and `ReportIsCurrent`, for a caller that keeps
  both rules. The properties do not say which flags imply which (`FlagsAgree`), that
  a backtracking basis exists in the main loop and nowhere else (`SavedInLoop`), that the engine's basis
  is that of the `Highs` object before a factorisation makes it matter (`OneBasis`), and that only
  `getIterate()` leaves an old ray (`Reported`). The state space is small, so that TLC's run is
  complete too; the proof says which facts carry it, one step per call.
* **MipSolverProofs**: `NoLostCell`, `BoundsAreTrue`, `DualBoundRises`, for any set of cells, costs, bounds, gap and any
  number of restarts and calls. The argument has two layers. `TInv` is `TypeOK` and the shape of the
  stack at each place (empty between plunges, with an open node at the top where one is branched on). On top of it
  `IInv` says that the upper bound is that of a solution (`Real`), the dual bound is below all costs
  (`Below`), each queued node's bound holds in its region and is not below the dual bound
  (`AllQueued`), so do both bounds of each open node of the stack (`AllFit`), every useful cell is in
  the domain and in an open node (`Kept`), and the end proves what it should (`Proved`). Bounds hold
  for useful cells only, so that they survive a new incumbent (`FitsLater`, `QueuedLater`): this is
  why nodes that were queued under an old upper bound need not be looked at again. Each
  action has a lemma; all conclude `Better`: `IInv'` and `DualBound' >= DualBound`.

Only model-checked: all liveness under fairness
(`TokenIsTaken`, `SyncEnds`, `Quiesces`, `StopEnds`, `LockReturns`, `Returns`), which the proof system cannot
express a proof of, as it has no rules for fairness and `ENABLED`. Induction over data structures
(what a recursive function computes) is out of its reach too; the models that are proved about use no
recursive operators.

## 7. What is not modelled

The models cover a small share of the 200,000 lines, by choice: those in which state and order decide. The
rest is, for the most part, numerical solvers and reductions, whose correctness is a matter of
floating-point arithmetic; a model of them would assume what is to be shown.

* *Everywhere*: weak memory (section 3). Random choices, such as that of a victim, are any choice;
  times (spinning for some microseconds, a limit) are nondeterministic ends of a loop.
* *Runtime*: `cancelTask()`'s index past a full array (hazard, `HighsSplitDeque.h:296`).
* *LP*: LPs without constraints, QP, icrash, the clean-up after PDLP, ranging, IIS, rays that are found by
  solving another LP, multiple objectives, options, files. Flags that say whether objective
  values and edge weights are up to date; the phases and the switch from dual to primal, which change no
  fact that is kept.
* *MIP*: symmetry and the reductions of presolve that cut off equally good solutions (a lost cell is then
  no error), `objective_bound` and other cut-offs of the user, LPs that no solver solves, solutions that
  `transformNewIntegerFeasibleSolution` rejects after the postsolve, sub-MIPs (a heuristic's solution comes from
  anywhere), the tasks of the root node (`HighsMipSolverData.cpp:347-548, 1914-2470`; a task group as in Scheduler),
  the optimality limit that the queue's `clear()` resets, and in `computeNewUpperLimit()` the branch for an integral
  objective and the dependence of the relative gap on the incumbent (`HighsMipSolverData.cpp:577-599`): `UpperLimit` is
  one tolerance below the incumbent, `OptimalityLimit` a constant `Gap` below, where the code's limits differ by
  amounts that change from one incumbent to the next. Two cells of different cost differ by more than
  the tolerance (`CostsApart`). Presolve in a restart solves the problem only with an improving solution.
* *Sequential structures*: red-black tree, disjoint sets, pools, postsolve stack: open in the plan.
* *highspy*: two locks around a solver thread (`highspy/highs.py`): open in the plan.

The remaining parts of the repository, and why each is left out, are listed as components in
`PROJECT.json`.
