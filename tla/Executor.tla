------------------------------- MODULE Executor -------------------------------
(***************************************************************************)
(* The life of a HighsTaskExecutor (highs/parallel/HighsTaskExecutor.h and  *)
(* .cpp): the thread that initializes it, the worker threads it starts, one *)
(* task at a time between them, and its end by shutdown() or by the exit of *)
(* the first thread, when every worker is injected a null task and the last *)
(* handle deletes the executor with all deques.                             *)
(*                                                                          *)
(* Deque and handshake are abstracted to the state of the task; a deque's   *)
(* semaphore is a token, see AbstractSemaphore.                             *)
(***************************************************************************)
EXTENDS Integers, FiniteSets

CONSTANTS
  NumWorkers,  (* the worker threads are 1 .. NumWorkers, the main thread 0 *)
  WorkersStop, (* may a task call shutdown()?                               *)
  Task, Null   (* what is injected: the task, or the termination signal     *)

Main     == 0
WorkerIds == 1 .. NumWorkers
Threads  == 0 .. NumWorkers

ASSUME ExecutorAssumption ==
  NumWorkers \in Nat /\ WorkersStop \in BOOLEAN /\ Task # Null

VARIABLES
  pc,             (* where each thread is                                   *)
  handle,         (* is the thread's executorHandle.ptr set?                *)
  hasStopped,
  referenceCount,
  deleted,        (* the executor and its deques are freed                  *)
  blocking,       (* the main thread's argument of shutdown()               *)
  next,           (* the next deque that a thread in stopWorkerThreads()    *)
                  (* injects the null task                                  *)
  sleepers,       (* the workers on the sleeper stack, see SleeperStack     *)
  injectedTask,   (* what each deque has been injected last                 *)
  token,          (* each deque's semaphore                                 *)
  task,           (* the main thread's task: "none", "queued", "stolen" or  *)
                  (* "finished"                                             *)
  thief           (* the worker that runs it, if any, else the main thread  *)

ends == <<handle, hasStopped, referenceCount, deleted, blocking, next>>
work == <<sleepers, injectedTask, token, task, thief>>
vars == <<pc, ends, work>>

PC == {"code", "sync", "acquire", "synced",
       "start", "idle", "sleep", "asleep", "run", "notify", "leave",
       "inject", "join", "dispose", "ended"}

(* The handle of the main thread is not counted.                             *)
InitMut ==
  /\ pc = [t \in Threads |-> IF t = Main THEN "code" ELSE "start"]
  /\ handle = [t \in Threads |-> TRUE]
  /\ hasStopped = FALSE
  /\ referenceCount = NumWorkers
  /\ deleted = FALSE
  /\ blocking = FALSE
  /\ next = [t \in Threads |-> 0]
  /\ sleepers = {}
  /\ injectedTask = [t \in Threads |-> Null]
  /\ token = [t \in Threads |-> 0]
  /\ task = "none"
  /\ thief = Main

(* HighsTaskExecutor(numThreads) and initialize()                            *)
Init ==
  /\ pc = [t \in Threads |-> IF t = Main THEN "code" ELSE "start"]
  /\ handle = [t \in Threads |-> TRUE]
  /\ hasStopped = FALSE
  /\ referenceCount = NumWorkers + 1
  /\ deleted = FALSE
  /\ blocking = FALSE
  /\ next = [t \in Threads |-> 0]
  /\ sleepers = {}
  /\ injectedTask = [t \in Threads |-> Null]
  /\ token = [t \in Threads |-> 0]
  /\ task = "none"
  /\ thief = Main

Goto(t, from, to) == /\ pc[t] = from
                     /\ pc' = [pc EXCEPT ![t] = to]

(* injectTaskAndNotify()                                                     *)
Inject(t, what) == /\ injectedTask' = [injectedTask EXCEPT ![t] = what]
                   /\ token' = [token EXCEPT ![t] = 1]

(* semaphore.acquire()                                                       *)
Acquire(t) == /\ token[t] = 1
              /\ token' = [token EXCEPT ![t] = 0]

------------------------------------------------------------------------------
(* The main thread's task                                                    *)

Spawn ==
  /\ Goto(Main, "code", "code")
  /\ task = "none"
  /\ task' = "queued"
  /\ UNCHANGED <<ends, sleepers, injectedTask, token, thief>>

(* publishWork() hands the task to a worker from the sleeper stack.          *)
Publish(w) ==
  /\ Goto(Main, "code", "code")
  /\ task = "queued" /\ w \in sleepers
  /\ sleepers' = sleepers \ {w}
  /\ Inject(w, Task)
  /\ task' = "stolen" /\ thief' = w
  /\ UNCHANGED ends

RunOwn ==
  /\ Goto(Main, "code", "code")
  /\ task = "queued"
  /\ task' = "none"
  /\ UNCHANGED <<ends, sleepers, injectedTask, token, thief>>

SyncStolen ==
  /\ Goto(Main, "code", "sync")
  /\ task \in {"stolen", "finished"}
  /\ UNCHANGED <<ends, work>>

SyncFinished ==
  /\ Goto(Main, "sync", "synced")
  /\ task = "finished"
  /\ UNCHANGED <<ends, work>>

WaitForTask ==
  /\ Goto(Main, "sync", "acquire")
  /\ task = "stolen"
  /\ UNCHANGED <<ends, work>>

Notified ==
  /\ Goto(Main, "acquire", "synced")
  /\ Acquire(Main)
  /\ UNCHANGED <<ends, sleepers, injectedTask, task, thief>>

PopStolen ==
  /\ Goto(Main, "synced", "code")
  /\ task' = "none" /\ thief' = Main
  /\ UNCHANGED <<ends, sleepers, injectedTask, token>>

------------------------------------------------------------------------------
(* run_worker()                                                              *)

StartWorker(w) ==
  /\ Goto(w, "start", IF hasStopped THEN "leave" ELSE "sleep")
  /\ UNCHANGED <<ends, work>>

(* waitForNewTask(), with a stop between the look at hasStopped and here, or *)
(* while the worker waits.                                                   *)
PushSleeper(w) ==
  /\ Goto(w, "sleep", "asleep")
  /\ sleepers' = sleepers \cup {w}
  /\ UNCHANGED <<ends, injectedTask, token, task, thief>>

WakeUp(w) ==
  /\ Goto(w, "asleep", IF injectedTask[w] = Null THEN "leave" ELSE "run")
  /\ Acquire(w)
  /\ UNCHANGED <<ends, sleepers, injectedTask, task, thief>>

(* random_steal_loop() finds the task, or gives up.                          *)
Steal(w) ==
  /\ Goto(w, "idle", "run")
  /\ task = "queued"
  /\ task' = "stolen" /\ thief' = w
  /\ UNCHANGED <<ends, sleepers, injectedTask, token>>

FallAsleep(w) ==
  /\ Goto(w, "idle", "sleep")
  /\ UNCHANGED <<ends, work>>

(* The owner is notified whether it waits or not.                            *)
FinishMut(w) ==
  /\ Goto(w, "run", "notify")
  /\ task' = "finished"
  /\ UNCHANGED <<ends, sleepers, injectedTask, token, thief>>

(* The end of runStolenTask(): the task is marked, and a waiting owner told. *)
Finish(w) ==
  /\ Goto(w, "run", IF pc[Main] = "acquire" THEN "notify" ELSE "idle")
  /\ task' = "finished"
  /\ UNCHANGED <<ends, sleepers, injectedTask, token, thief>>

Notify(w) ==
  /\ Goto(w, "notify", "idle")
  /\ token' = [token EXCEPT ![Main] = 1]
  /\ UNCHANGED <<ends, sleepers, injectedTask, task, thief>>

------------------------------------------------------------------------------
(* The end of the executor                                                   *)

(* shutdown(), or, not blocking, the exit of the main thread, by a thread    *)
(* with a handle: stopWorkerThreads() does its work once.                    *)
Stop(t, b) ==
  /\ pc[t] = IF t = Main THEN "code" ELSE "run"
  /\ IF t = Main THEN task = "none" ELSE WorkersStop /\ handle[t]
  /\ pc' = [pc EXCEPT ![t] = IF hasStopped THEN "dispose" ELSE "inject"]
  /\ hasStopped' = TRUE
  /\ blocking' = IF t = Main THEN b ELSE blocking
  /\ next' = [next EXCEPT ![t] = 0]
  /\ UNCHANGED <<handle, referenceCount, deleted, work>>

InjectNull(t) ==
  /\ pc[t] = "inject" /\ next[t] <= NumWorkers
  /\ Inject(next[t], Null)
  /\ next' = [next EXCEPT ![t] = @ + 1]
  /\ UNCHANGED <<pc, handle, hasStopped, referenceCount, deleted, blocking, sleepers, task, thief>>

(* The main thread does not wait for the workers.                            *)
InjectedMut(t) ==
  /\ Goto(t, "inject", "dispose")
  /\ next[t] > NumWorkers
  /\ UNCHANGED <<ends, work>>

(* The workers are joined by the main thread if blocking, else detached.     *)
Injected(t) ==
  /\ Goto(t, "inject", IF t = Main /\ blocking THEN "join" ELSE "dispose")
  /\ next[t] > NumWorkers
  /\ UNCHANGED <<ends, work>>

Join ==
  /\ Goto(Main, "join", "dispose")
  /\ \A w \in WorkerIds : pc[w] = "ended"
  /\ UNCHANGED <<ends, work>>

(* ExecutorHandle::dispose()                                                 *)
Dispose(t) ==
  /\ referenceCount' = IF handle[t] THEN referenceCount - 1 ELSE referenceCount
  /\ deleted' = (deleted \/ referenceCount' = 0)
  /\ handle' = [handle EXCEPT ![t] = FALSE]
  /\ UNCHANGED <<hasStopped, blocking, next>>

Disposed(t) ==
  /\ Goto(t, "dispose", IF t = Main THEN "ended" ELSE "run")
  /\ Dispose(t)
  /\ UNCHANGED work

(* run_worker() ends without dispose().                                      *)
LeaveMut(w) ==
  /\ Goto(w, "leave", "ended")
  /\ UNCHANGED <<ends, work>>

Leave(w) ==
  /\ Goto(w, "leave", "ended")
  /\ Dispose(w)
  /\ UNCHANGED work

AllEnded == (\A t \in Threads : pc[t] = "ended") /\ UNCHANGED vars

(* A thread goes on; the main thread may go on without the scheduler.        *)
MainStep == SyncFinished \/ WaitForTask \/ Notified \/ PopStolen \/ Join
WorkerStep(w) == \/ StartWorker(w) \/ PushSleeper(w) \/ WakeUp(w) \/ FallAsleep(w)
                 \/ Finish(w) \/ Notify(w) \/ Leave(w)
StopStep(t) == InjectNull(t) \/ Injected(t) \/ Disposed(t)

Next == \/ Spawn \/ RunOwn \/ SyncStolen \/ MainStep
        \/ \E w \in WorkerIds : Publish(w) \/ Steal(w) \/ WorkerStep(w)
        \/ \E t \in Threads : StopStep(t) \/ \E b \in BOOLEAN : Stop(t, b)
        \/ AllEnded

Spec == Init /\ [][Next]_vars

FairSpec == /\ Spec
            /\ WF_vars(MainStep)
            /\ \A w \in WorkerIds : WF_vars(WorkerStep(w))
            /\ \A t \in Threads : WF_vars(StopStep(t))

------------------------------------------------------------------------------
(* The variables have their types, and the count is that of the handles.     *)
TypeOK ==
  /\ pc \in [Threads -> PC]
  /\ handle \in [Threads -> BOOLEAN]
  /\ hasStopped \in BOOLEAN /\ deleted \in BOOLEAN /\ blocking \in BOOLEAN
  /\ referenceCount = Cardinality({t \in Threads : handle[t]})
  /\ next \in [Threads -> 0 .. NumWorkers + 1]
  /\ sleepers \subseteq WorkerIds
  /\ injectedTask \in [Threads -> {Task, Null}]
  /\ token \in [Threads -> {0, 1}]
  /\ task \in {"none", "queued", "stolen", "finished"}
  /\ thief \in Threads

(* The executor and its deques are deleted only when every thread has left   *)
(* them (HighsTaskExecutor.cpp:37-40).                                       *)
NoUseAfterDelete == deleted => \A t \in Threads : pc[t] = "ended"

(* sync() returns only when the stolen task is finished: shutdown() leaves a *)
(* token in the semaphore of every deque, that of a waiting owner included.  *)
SyncMeansDone == pc[Main] = "synced" => task = "finished"

(* "will not return until all memory is freed" (highs_c_api.h:2490-2491)     *)
BlockingFrees == pc[Main] = "ended" /\ blocking => deleted

(* Once stopped, the workers end and the executor is deleted.                *)
StopEnds == hasStopped ~> deleted
------------------------------------------------------------------------------
(* The inductive invariant behind the properties above, when no task calls   *)
(* shutdown().                                                               *)

(* A thread has its handle until it ends, and only the main thread stops the *)
(* executor, once.                                                           *)
HandleInv ==
  /\ \A t \in Threads : handle[t] <=> pc[t] # "ended"
  /\ deleted => \A t \in Threads : pc[t] = "ended"
  /\ hasStopped <=> pc[Main] \in {"inject", "join", "dispose", "ended"}
  /\ \A w \in WorkerIds :
       /\ pc[w] \notin {"code", "sync", "acquire", "synced", "inject", "join", "dispose"}
       /\ pc[w] \in {"leave", "ended"} => hasStopped
  /\ pc[Main] \in {"code", "sync", "acquire", "synced", "inject", "join", "dispose", "ended"}
  /\ pc[Main] = "dispose" /\ blocking => \A w \in WorkerIds : pc[w] = "ended"
  /\ BlockingFrees

(* Only a sleeper is notified of the task, and only the waiting main thread  *)
(* of its end; from the stop on, tokens come with the termination signal.    *)
TokenInv ==
  /\ ~hasStopped =>
       /\ \A w \in WorkerIds :
            /\ token[w] = 1 => /\ pc[w] = "asleep" /\ injectedTask[w] = Task
                               /\ task = "stolen" /\ thief = w
            /\ w \in sleepers => pc[w] = "asleep" /\ token[w] = 0
       /\ token[Main] = 1 => pc[Main] = "acquire" /\ task = "finished"
  /\ hasStopped => /\ task = "none"
                   /\ \A w \in WorkerIds : token[w] = 1 => injectedTask[w] = Null

(* The thief has the task in hand or is about to wake up to it.              *)
TaskInv ==
  /\ \A w \in WorkerIds :
       /\ pc[w] = "run" => task = "stolen" /\ thief = w
       /\ pc[w] = "notify" => task = "finished" /\ pc[Main] = "acquire" /\ token[Main] = 0
  /\ \A v, w \in WorkerIds : pc[v] = "notify" /\ pc[w] = "notify" => v = w
  /\ task = "stolen" =>
       /\ thief \in WorkerIds
       /\ \/ pc[thief] = "run"
          \/ pc[thief] = "asleep" /\ token[thief] = 1 /\ injectedTask[thief] = Task
  /\ pc[Main] \in {"sync", "acquire"} => task \in {"stolen", "finished"}
  /\ SyncMeansDone

IInv == TypeOK /\ HandleInv /\ TokenInv /\ TaskInv
==============================================================================
