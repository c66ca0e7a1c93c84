---------------------------- MODULE ExecutorProofs ----------------------------
(* Proofs of Executor's safety invariants, for any number of worker threads, *)
(* when no task calls shutdown().                                            *)
EXTENDS Executor, FiniteSetTheorems, TLAPS

Handles == {t \in Threads : handle[t]}

LEMMA ThreadFacts ==
  /\ Main \in Threads /\ Main \notin WorkerIds /\ WorkerIds \subseteq Threads
  /\ Threads = WorkerIds \cup {Main}
  /\ IsFiniteSet(Threads) /\ Cardinality(Threads) = NumWorkers + 1
<1>1. NumWorkers \in Nat
  BY ExecutorAssumption
<1>2. /\ Main \in Threads /\ Main \notin WorkerIds /\ WorkerIds \subseteq Threads
      /\ Threads = WorkerIds \cup {Main}
  BY <1>1 DEF Main, Threads, WorkerIds
<1>3. IsFiniteSet(Threads) /\ Cardinality(Threads) = NumWorkers + 1
  BY <1>1, FS_Interval DEF Threads
<1>. QED
  BY <1>2, <1>3

(* The thread that gives up its handle is one less to count, and the last of *)
(* them leaves nobody with a handle.                                         *)
LEMMA DisposeStep ==
  ASSUME TypeOK, NEW t \in Threads, handle[t], Dispose(t)
  PROVE  /\ handle' = [handle EXCEPT ![t] = FALSE]
         /\ referenceCount' = Cardinality(Handles')
         /\ deleted' \in BOOLEAN
         /\ deleted' <=> deleted \/ \A v \in Threads : ~handle'[v]
<1>1. handle \in [Threads -> BOOLEAN] /\ referenceCount = Cardinality(Handles)
  BY DEF TypeOK, Handles
<1>2. handle' = [handle EXCEPT ![t] = FALSE] /\ referenceCount' = referenceCount - 1
  BY DEF Dispose
<1>3. IsFiniteSet(Handles) /\ t \in Handles
  BY ThreadFacts, FS_Subset DEF Handles
<1>4. Handles' = Handles \ {t}
  BY <1>1, <1>2 DEF Handles
<1>5. Cardinality(Handles \ {t}) = Cardinality(Handles) - 1 /\ IsFiniteSet(Handles \ {t})
  BY <1>3, FS_RemoveElement
<1>6. referenceCount' = Cardinality(Handles')
  BY <1>1, <1>2, <1>4, <1>5
<1>7. referenceCount' = 0 <=> Handles' = {}
  BY <1>4, <1>5, <1>6, FS_EmptySet
<1>8. Handles' = {} <=> \A v \in Threads : ~handle'[v]
  BY DEF Handles
<1>9. deleted' = (deleted \/ referenceCount' = 0)
  BY DEF Dispose
<1>. QED
  BY <1>2, <1>6, <1>7, <1>8, <1>9

(* The state after a step of t that moves it from one place to another.      *)
LEMMA GotoStep ==
  ASSUME TypeOK, NEW t \in Threads, NEW from, NEW to, Goto(t, from, to)
  PROVE  /\ pc[t] = from /\ pc'[t] = to
         /\ \A v \in Threads : v # t => pc'[v] = pc[v]
  BY DEF Goto, TypeOK

LEMMA InitInv == Init => IInv
<1> SUFFICES ASSUME Init PROVE IInv
  OBVIOUS
<1>1. referenceCount = Cardinality({t \in Threads : handle[t]})
  <2>1. {t \in Threads : handle[t]} = Threads
    BY DEF Init
  <2>. QED
    BY <2>1, ThreadFacts DEF Init
<1>2. TypeOK
  <2>1. 0 \in 0 .. NumWorkers + 1
    BY ExecutorAssumption
  <2>. QED
    BY <1>1, <2>1, ThreadFacts DEF Init, TypeOK, PC
<1>3. HandleInv
  BY ThreadFacts DEF Init, HandleInv, BlockingFrees
<1>4. TokenInv
  BY ThreadFacts DEF Init, TokenInv
<1>5. TaskInv
  BY ThreadFacts DEF Init, TaskInv, SyncMeansDone
<1>. QED
  BY <1>2, <1>3, <1>4, <1>5 DEF IInv

(* The steps in groups: those of the main thread and of the workers that     *)
(* change the task or the tokens, and those of the end.                      *)
LEMMA TypeStep == IInv /\ [Next]_vars => TypeOK'
<1> SUFFICES ASSUME IInv, [Next]_vars PROVE TypeOK'
  OBVIOUS
<1>0. TypeOK /\ HandleInv /\ NumWorkers \in Nat
  BY ExecutorAssumption DEF IInv
<1> USE ThreadFacts
<1>1. ASSUME UNCHANGED ends,
             pc' \in [Threads -> PC], sleepers' \subseteq WorkerIds,
             injectedTask' \in [Threads -> {Task, Null}],
             token' \in [Threads -> {0, 1}],
             task' \in {"none", "queued", "stolen", "finished"}, thief' \in Threads
      PROVE  TypeOK'
  BY <1>0, <1>1 DEF ends, TypeOK
<1>2. CASE Spawn \/ RunOwn \/ SyncStolen \/ SyncFinished \/ WaitForTask \/ PopStolen
  BY <1>0, <1>1, <1>2 DEF Spawn, RunOwn, SyncStolen, SyncFinished, WaitForTask,
     PopStolen, Goto, TypeOK, PC, work
<1>3. CASE Notified
  BY <1>0, <1>1, <1>3 DEF Notified, Acquire, Goto, TypeOK, PC
<1>4. ASSUME NEW w \in WorkerIds, Publish(w) PROVE TypeOK'
  BY <1>0, <1>1, <1>4 DEF Publish, Inject, Goto, TypeOK, PC
<1>5. ASSUME NEW w \in WorkerIds,
             Steal(w) \/ StartWorker(w) \/ PushSleeper(w) \/ FallAsleep(w) \/ Finish(w)
      PROVE  TypeOK'
  BY <1>0, <1>1, <1>5 DEF Steal, StartWorker, PushSleeper, FallAsleep, Finish, Goto,
     TypeOK, PC, work
<1>6. ASSUME NEW w \in WorkerIds, WakeUp(w) \/ Notify(w) PROVE TypeOK'
  BY <1>0, <1>1, <1>6 DEF WakeUp, Notify, Acquire, Goto, TypeOK, PC
<1>7. ASSUME NEW t \in Threads, InjectNull(t) PROVE TypeOK'
  <2>1. next[t] \in 0 .. NumWorkers /\ next[t] \in Threads /\ next[t] + 1 \in 0 .. NumWorkers + 1
    BY <1>0, <1>7 DEF InjectNull, TypeOK, Threads
  <2>. QED
    BY <1>0, <1>7, <2>1 DEF InjectNull, Inject, TypeOK
<1>8. ASSUME NEW t \in Threads, NEW b \in BOOLEAN, Stop(t, b) PROVE TypeOK'
  <2>1. 0 \in 0 .. NumWorkers + 1
    BY <1>0
  <2>. QED
    BY <1>0, <1>8, <2>1 DEF Stop, TypeOK, PC, work
<1>9. ASSUME NEW t \in Threads, Injected(t) PROVE TypeOK'
  BY <1>0, <1>1, <1>9 DEF Injected, Goto, TypeOK, PC, work
<1>10. CASE Join
  BY <1>0, <1>1, <1>10 DEF Join, Goto, TypeOK, PC, work
<1>11. ASSUME NEW t \in Threads, Disposed(t) \/ (t \in WorkerIds /\ Leave(t)) PROVE TypeOK'
  <2>1. handle[t] /\ Dispose(t) /\ UNCHANGED <<hasStopped, blocking, next, work>>
    BY <1>0, <1>11 DEF Disposed, Leave, Goto, HandleInv, Dispose
  <2>2. /\ handle' = [handle EXCEPT ![t] = FALSE]
        /\ referenceCount' = Cardinality({v \in Threads : handle'[v]})
        /\ deleted' \in BOOLEAN
    BY <1>0, <2>1, DisposeStep DEF Handles
  <2>3. pc' \in [Threads -> PC]
    BY <1>0, <1>11 DEF Disposed, Leave, Goto, TypeOK, PC
  <2>. QED
    BY <1>0, <2>1, <2>2, <2>3 DEF TypeOK, work
<1>12. CASE UNCHANGED vars
  BY <1>0, <1>12 DEF vars, ends, work, TypeOK
<1>13. ASSUME NEW t \in Threads, StopStep(t) \/ \E b \in BOOLEAN : Stop(t, b)
       PROVE  TypeOK'
  <2>1. CASE InjectNull(t)
    BY <1>7, <2>1
  <2>2. CASE Injected(t)
    BY <1>9, <2>2
  <2>3. CASE Disposed(t)
    BY <1>11, <2>3
  <2>4. CASE \E b \in BOOLEAN : Stop(t, b)
    BY <1>8, <2>4
  <2>. QED
    BY <1>13, <2>1, <2>2, <2>3, <2>4 DEF StopStep
<1>14. ASSUME NEW w \in WorkerIds, Publish(w) \/ Steal(w) \/ WorkerStep(w)
       PROVE  TypeOK'
  <2>1. w \in Threads
    OBVIOUS
  <2>. QED
    BY <1>4, <1>5, <1>6, <1>11, <1>14, <2>1 DEF WorkerStep
<1>15. CASE MainStep
  BY <1>2, <1>3, <1>10, <1>15 DEF MainStep
<1>16. CASE AllEnded
  BY <1>12, <1>16 DEF AllEnded
<1>. QED
  BY <1>2, <1>12, <1>13, <1>14, <1>15, <1>16 DEF Next
(* Only the main thread takes the steps of the end.                          *)

LEMMA MainStops ==
  ASSUME ~WorkersStop, TypeOK, HandleInv, NEW t \in Threads,
         StopStep(t) \/ \E b \in BOOLEAN : Stop(t, b)
  PROVE  t = Main
<1>1. CASE StopStep(t)
  BY <1>1, ThreadFacts DEF StopStep, InjectNull, Injected, Disposed, Goto, HandleInv
<1>2. CASE \E b \in BOOLEAN : Stop(t, b)
  BY <1>2 DEF Stop
<1>. QED
  BY <1>1, <1>2

LEMMA HandleStep ==
  ASSUME ~WorkersStop PROVE IInv /\ [Next]_vars => HandleInv'
<1> SUFFICES ASSUME IInv, [Next]_vars PROVE HandleInv'
  OBVIOUS
<1>0. TypeOK /\ HandleInv
  BY DEF IInv
<1> USE ThreadFacts
<1> DEFINE Ours == {"code", "sync", "acquire", "synced"}
           Theirs == {"start", "idle", "sleep", "asleep", "run", "notify"}
<1>1. ASSUME UNCHANGED ends, NEW to \in Ours, pc[Main] \in Ours,
             pc' = [pc EXCEPT ![Main] = to]
      PROVE  HandleInv'
  BY <1>0, <1>1 DEF ends, TypeOK, HandleInv, BlockingFrees
<1>2. ASSUME UNCHANGED ends, NEW w \in WorkerIds, NEW to, pc[w] \in Theirs,
             pc' = [pc EXCEPT ![w] = to], to \in Theirs \/ (to = "leave" /\ hasStopped)
      PROVE  HandleInv'
  BY <1>0, <1>2 DEF ends, TypeOK, HandleInv, BlockingFrees
<1>3. CASE \/ Spawn \/ RunOwn \/ SyncStolen \/ SyncFinished \/ WaitForTask \/ Notified
           \/ PopStolen \/ \E w \in WorkerIds : Publish(w)
  <2>1. /\ UNCHANGED ends /\ pc[Main] \in Ours
        /\ \E to \in Ours : pc' = [pc EXCEPT ![Main] = to]
    BY <1>3 DEF Spawn, RunOwn, SyncStolen, SyncFinished, WaitForTask, Notified,
       PopStolen, Publish, Goto
  <2>. QED
    BY <1>1, <2>1
<1>4. ASSUME NEW w \in WorkerIds,
             \/ Steal(w) \/ StartWorker(w) \/ PushSleeper(w) \/ WakeUp(w)
             \/ FallAsleep(w) \/ Finish(w) \/ Notify(w)
      PROVE  HandleInv'
  <2>1. CASE StartWorker(w)
    <3>1. /\ UNCHANGED ends /\ pc[w] = "start"
          /\ \/ pc' = [pc EXCEPT ![w] = "leave"] /\ hasStopped
             \/ pc' = [pc EXCEPT ![w] = "sleep"]
      BY <2>1 DEF StartWorker, Goto
    <3>. QED
      BY <1>2, <3>1
  <2>2. CASE WakeUp(w)
    <3>1. hasStopped \/ injectedTask[w] # Null
      BY <2>2, ExecutorAssumption DEF WakeUp, Acquire, IInv, TokenInv
    <3>2. /\ UNCHANGED ends /\ pc[w] = "asleep"
          /\ \/ pc' = [pc EXCEPT ![w] = "leave"] /\ hasStopped
             \/ pc' = [pc EXCEPT ![w] = "run"]
      BY <2>2, <3>1 DEF WakeUp, Goto
    <3>. QED
      BY <1>2, <3>2
  <2>3. CASE Finish(w)
    <3>1. /\ UNCHANGED ends /\ pc[w] = "run"
          /\ pc' = [pc EXCEPT ![w] = IF pc[Main] = "acquire" THEN "notify" ELSE "idle"]
      BY <2>3 DEF Finish, Goto
    <3>. QED
      BY <1>2, <3>1
  <2>4. CASE Steal(w) \/ PushSleeper(w) \/ FallAsleep(w) \/ Notify(w)
    <3>1. /\ UNCHANGED ends /\ pc[w] \in Theirs
          /\ \/ pc' = [pc EXCEPT ![w] = "run"]
             \/ pc' = [pc EXCEPT ![w] = "asleep"]
             \/ pc' = [pc EXCEPT ![w] = "sleep"]
             \/ pc' = [pc EXCEPT ![w] = "idle"]
      BY <2>4 DEF Steal, PushSleeper, FallAsleep, Notify, Goto
    <3>. QED
      BY <1>2, <3>1
  <2>. QED
    BY <1>4, <2>1, <2>2, <2>3, <2>4
<1>5. ASSUME NEW w \in WorkerIds, Leave(w) PROVE HandleInv'
  <2>1. /\ w \in Threads /\ handle[w] /\ Dispose(w) /\ pc[w] = "leave" /\ hasStopped
        /\ pc' = [pc EXCEPT ![w] = "ended"]
        /\ UNCHANGED <<hasStopped, blocking>>
    BY <1>0, <1>5 DEF Leave, Goto, HandleInv, Dispose
  <2>2. /\ handle' = [handle EXCEPT ![w] = FALSE]
        /\ deleted' <=> deleted \/ \A v \in Threads : ~handle'[v]
    BY <1>0, <2>1, DisposeStep
  <2>3. \A t \in Threads : handle'[t] <=> pc'[t] # "ended"
    BY <1>0, <2>1, <2>2 DEF HandleInv, TypeOK
  <2>4. deleted' => \A t \in Threads : pc'[t] = "ended"
    BY <1>0, <2>1, <2>2, <2>3 DEF HandleInv
  <2>5. pc'[Main] = pc[Main] /\ \A v \in WorkerIds : pc'[v] = pc[v] \/ pc'[v] = "ended"
    BY <1>0, <2>1 DEF TypeOK
  <2>. QED
    BY <1>0, <2>1, <2>2, <2>3, <2>4, <2>5 DEF HandleInv, BlockingFrees
<1>6. CASE Join
  BY <1>0, <1>6 DEF Join, Goto, ends, TypeOK, HandleInv, BlockingFrees
<1>7. CASE InjectNull(Main)
  BY <1>0, <1>7 DEF InjectNull, HandleInv, BlockingFrees
<1>8. CASE Injected(Main)
  BY <1>0, <1>8 DEF Injected, Goto, ends, TypeOK, HandleInv, BlockingFrees
<1>9. CASE Disposed(Main)
  <2>1. /\ handle[Main] /\ Dispose(Main) /\ pc[Main] = "dispose" /\ hasStopped
        /\ pc' = [pc EXCEPT ![Main] = "ended"]
        /\ UNCHANGED <<hasStopped, blocking>>
    BY <1>0, <1>9 DEF Disposed, Goto, HandleInv, Dispose
  <2>2. /\ handle' = [handle EXCEPT ![Main] = FALSE]
        /\ deleted' <=> deleted \/ \A v \in Threads : ~handle'[v]
    BY <1>0, <2>1, DisposeStep
  <2>3. \A t \in Threads : handle'[t] <=> pc'[t] # "ended"
    BY <1>0, <2>1, <2>2 DEF HandleInv, TypeOK
  <2>4. deleted' <=> \A t \in Threads : pc'[t] = "ended"
    BY <1>0, <2>1, <2>2, <2>3 DEF HandleInv
  <2>5. pc'[Main] = "ended" /\ \A v \in WorkerIds : pc'[v] = pc[v]
    BY <1>0, <2>1 DEF TypeOK
  <2>6. blocking => \A w \in WorkerIds : pc[w] = "ended"
    BY <1>0, <2>1 DEF HandleInv
  <2>. QED
    BY <1>0, <2>1, <2>3, <2>4, <2>5, <2>6 DEF HandleInv, BlockingFrees
<1>10. ASSUME NEW b \in BOOLEAN, Stop(Main, b) PROVE HandleInv'
  <2>1. pc[Main] = "code" /\ ~hasStopped
    BY <1>0, <1>10 DEF Stop, HandleInv
  <2>. QED
    BY <1>0, <1>10, <2>1 DEF Stop, TypeOK, HandleInv, BlockingFrees
<1>11. CASE UNCHANGED vars
  BY <1>0, <1>11 DEF vars, ends, HandleInv, BlockingFrees
<1>12. ASSUME NEW t \in Threads, StopStep(t) \/ \E b \in BOOLEAN : Stop(t, b)
       PROVE  HandleInv'
  <2>1. t = Main
    BY <1>0, <1>12, MainStops
  <2>2. CASE StopStep(t)
    BY <1>7, <1>8, <1>9, <2>1, <2>2 DEF StopStep
  <2>3. CASE \E b \in BOOLEAN : Stop(t, b)
    BY <1>10, <2>1, <2>3
  <2>. QED
    BY <1>12, <2>2, <2>3
<1>13. ASSUME NEW w \in WorkerIds, Publish(w) \/ Steal(w) \/ WorkerStep(w)
       PROVE  HandleInv'
  BY <1>3, <1>4, <1>5, <1>13 DEF WorkerStep
<1>14. CASE MainStep \/ AllEnded
  BY <1>3, <1>6, <1>11, <1>14 DEF MainStep, AllEnded
<1>. QED
  BY <1>3, <1>11, <1>12, <1>13, <1>14 DEF Next

(* Where a token may be after each step, by the place and the task before.   *)
LEMMA TokenStep ==
  ASSUME ~WorkersStop PROVE IInv /\ [Next]_vars => TokenInv'
<1> SUFFICES ASSUME IInv, [Next]_vars PROVE TokenInv'
  OBVIOUS
<1>0. TypeOK /\ HandleInv /\ TokenInv /\ TaskInv
  BY DEF IInv
<1> USE ThreadFacts, ExecutorAssumption
<1>1. CASE Spawn \/ RunOwn
  BY <1>0, <1>1 DEF Spawn, RunOwn, Goto, ends, TypeOK, HandleInv, TokenInv
<1>2. CASE SyncStolen \/ SyncFinished \/ WaitForTask
  BY <1>0, <1>2 DEF SyncStolen, SyncFinished, WaitForTask, Goto, ends, work, TypeOK,
     HandleInv, TokenInv
<1>3. CASE PopStolen
  BY <1>0, <1>3 DEF PopStolen, Goto, ends, TypeOK, HandleInv, TokenInv, TaskInv, SyncMeansDone
<1>4. CASE Notified
  BY <1>0, <1>4 DEF Notified, Acquire, Goto, ends, TypeOK, HandleInv, TokenInv
<1>5. ASSUME NEW w \in WorkerIds, Publish(w) PROVE TokenInv'
  BY <1>0, <1>5 DEF Publish, Inject, Goto, ends, TypeOK, HandleInv, TokenInv
<1>6. ASSUME NEW w \in WorkerIds, Steal(w) PROVE TokenInv'
  BY <1>0, <1>6 DEF Steal, Goto, ends, TypeOK, TokenInv
<1>7. ASSUME NEW w \in WorkerIds, StartWorker(w) \/ FallAsleep(w) \/ PushSleeper(w)
      PROVE  TokenInv'
  BY <1>0, <1>7 DEF StartWorker, FallAsleep, PushSleeper, Goto, ends, work, TypeOK, TokenInv
<1>8. ASSUME NEW w \in WorkerIds, WakeUp(w) PROVE TokenInv'
  BY <1>0, <1>8 DEF WakeUp, Acquire, Goto, ends, TypeOK, TokenInv
<1>9. ASSUME NEW w \in WorkerIds, Finish(w) PROVE TokenInv'
  BY <1>0, <1>9 DEF Finish, Goto, ends, TypeOK, TokenInv, TaskInv
<1>10. ASSUME NEW w \in WorkerIds, Notify(w) PROVE TokenInv'
  BY <1>0, <1>10 DEF Notify, Goto, ends, TypeOK, TokenInv, TaskInv
<1>11. ASSUME NEW w \in WorkerIds, Leave(w) PROVE TokenInv'
  BY <1>0, <1>11 DEF Leave, Dispose, Goto, work, TypeOK, HandleInv, TokenInv
<1>12. CASE Join
  BY <1>0, <1>12 DEF Join, Goto, ends, work, TypeOK, TokenInv, HandleInv
<1>13. ASSUME NEW b \in BOOLEAN, Stop(Main, b) PROVE TokenInv'
  BY <1>0, <1>13 DEF Stop, work, HandleInv, TokenInv
<1>14. CASE InjectNull(Main)
  <2>1. next[Main] \in Threads
    BY <1>0, <1>14 DEF InjectNull, TypeOK, Threads
  <2>. QED
    BY <1>0, <1>14, <2>1 DEF InjectNull, Inject, TypeOK, HandleInv, TokenInv
<1>15. CASE Injected(Main) \/ Disposed(Main)
  BY <1>0, <1>15 DEF Injected, Disposed, Dispose, Goto, ends, work, HandleInv, TokenInv
<1>16. CASE UNCHANGED vars
  BY <1>0, <1>16 DEF vars, ends, work, TokenInv
<1>17. ASSUME NEW t \in Threads, StopStep(t) \/ \E b \in BOOLEAN : Stop(t, b)
       PROVE  TokenInv'
  <2>1. t = Main
    BY <1>0, <1>17, MainStops
  <2>2. CASE StopStep(t)
    BY <1>14, <1>15, <2>1, <2>2 DEF StopStep
  <2>3. CASE \E b \in BOOLEAN : Stop(t, b)
    BY <1>13, <2>1, <2>3
  <2>. QED
    BY <1>17, <2>2, <2>3
<1>18. ASSUME NEW w \in WorkerIds, Publish(w) \/ Steal(w) \/ WorkerStep(w)
       PROVE  TokenInv'
  BY <1>5, <1>6, <1>7, <1>8, <1>9, <1>10, <1>11, <1>18 DEF WorkerStep
<1>19. CASE MainStep \/ AllEnded
  BY <1>2, <1>3, <1>4, <1>12, <1>16, <1>19 DEF MainStep, AllEnded
<1>. QED
  BY <1>1, <1>2, <1>16, <1>17, <1>18, <1>19 DEF Next

(* Who has the task after each step.                                         *)
LEMMA TaskStep ==
  ASSUME ~WorkersStop PROVE IInv /\ [Next]_vars => TaskInv'
<1> SUFFICES ASSUME IInv, [Next]_vars PROVE TaskInv'
  OBVIOUS
<1>0. TypeOK /\ HandleInv /\ TokenInv /\ TaskInv
  BY DEF IInv
<1> USE ThreadFacts, ExecutorAssumption DEF TaskInv, SyncMeansDone
<1>1. CASE Spawn \/ RunOwn
  BY <1>0, <1>1 DEF Spawn, RunOwn, Goto, TypeOK
<1>2. CASE SyncStolen \/ SyncFinished \/ WaitForTask
  BY <1>0, <1>2 DEF SyncStolen, SyncFinished, WaitForTask, Goto, work, TypeOK
<1>3. CASE PopStolen
  BY <1>0, <1>3 DEF PopStolen, Goto, TypeOK
<1>4. CASE Notified
  BY <1>0, <1>4 DEF Notified, Acquire, Goto, TypeOK, HandleInv, TokenInv
<1>5. ASSUME NEW w \in WorkerIds, Publish(w) PROVE TaskInv'
  BY <1>0, <1>5 DEF Publish, Inject, Goto, TypeOK, HandleInv, TokenInv
<1>6. ASSUME NEW w \in WorkerIds, Steal(w) PROVE TaskInv'
  BY <1>0, <1>6 DEF Steal, Goto, TypeOK
<1>7. ASSUME NEW w \in WorkerIds, StartWorker(w) \/ FallAsleep(w) \/ PushSleeper(w)
      PROVE  TaskInv'
  BY <1>0, <1>7 DEF StartWorker, FallAsleep, PushSleeper, Goto, work, TypeOK
<1>8. ASSUME NEW w \in WorkerIds, WakeUp(w) PROVE TaskInv'
  BY <1>0, <1>8 DEF WakeUp, Acquire, Goto, TypeOK, TokenInv
<1>9. ASSUME NEW w \in WorkerIds, Finish(w) PROVE TaskInv'
  BY <1>0, <1>9 DEF Finish, Goto, TypeOK, TokenInv
<1>10. ASSUME NEW w \in WorkerIds, Notify(w) PROVE TaskInv'
  BY <1>0, <1>10 DEF Notify, Goto, TypeOK
<1>11. ASSUME NEW w \in WorkerIds, Leave(w) PROVE TaskInv'
  BY <1>0, <1>11 DEF Leave, Goto, work, TypeOK
<1>12. CASE Join
  BY <1>0, <1>12 DEF Join, Goto, work, TypeOK
<1>13. ASSUME NEW b \in BOOLEAN, Stop(Main, b) PROVE TaskInv'
  BY <1>0, <1>13 DEF Stop, work, TypeOK
<1>14. CASE InjectNull(Main)
  BY <1>0, <1>14 DEF InjectNull, HandleInv, TokenInv
<1>15. CASE Injected(Main) \/ Disposed(Main)
  BY <1>0, <1>15 DEF Injected, Disposed, Goto, work, TypeOK
<1>16. CASE UNCHANGED vars
  BY <1>0, <1>16 DEF vars, ends, work
<1>17. ASSUME NEW t \in Threads, StopStep(t) \/ \E b \in BOOLEAN : Stop(t, b)
       PROVE  TaskInv'
  <2>1. t = Main
    BY <1>0, <1>17, MainStops
  <2>2. CASE StopStep(t)
    BY <1>14, <1>15, <2>1, <2>2 DEF StopStep
  <2>3. CASE \E b \in BOOLEAN : Stop(t, b)
    BY <1>13, <2>1, <2>3
  <2>. QED
    BY <1>17, <2>2, <2>3
<1>18. ASSUME NEW w \in WorkerIds, Publish(w) \/ Steal(w) \/ WorkerStep(w)
       PROVE  TaskInv'
  BY <1>5, <1>6, <1>7, <1>8, <1>9, <1>10, <1>11, <1>18 DEF WorkerStep
<1>19. CASE MainStep \/ AllEnded
  BY <1>2, <1>3, <1>4, <1>12, <1>16, <1>19 DEF MainStep, AllEnded
<1>. QED
  BY <1>1, <1>2, <1>16, <1>17, <1>18, <1>19 DEF Next

(* However many workers there are, the handles, the tokens and the task stay *)
(* consistent, from initialize() to the end.                                 *)
THEOREM ExecutorInvariant == ASSUME ~WorkersStop PROVE Spec => []IInv
<1>1. Init => IInv
  BY InitInv
<1>2. IInv /\ [Next]_vars => IInv'
  BY TypeStep, HandleStep, TokenStep, TaskStep DEF IInv
<1>. QED
  BY <1>1, <1>2, PTL DEF Spec

(* Every variable keeps to the values that its declaration gives it, for    *)
(* every value of the constants.                                            *)
THEOREM TypeCorrect == ASSUME ~WorkersStop PROVE Spec => []TypeOK
<1>1. IInv => TypeOK
  BY DEF IInv
<1>. QED
  BY ExecutorInvariant, <1>1, PTL

(* ExecutorHandle::dispose(): the thread that counts down to zero deletes    *)
(* the executor after every other thread has left it.                        *)
THEOREM NoUseAfterDeleteHolds ==
  ASSUME ~WorkersStop PROVE Spec => []NoUseAfterDelete
<1>1. IInv => NoUseAfterDelete
  BY DEF IInv, HandleInv, NoUseAfterDelete
<1>. QED
  BY <1>1, ExecutorInvariant, PTL

(* sync() goes on only when the stolen task is finished.                     *)
THEOREM SyncMeansDoneHolds ==
  ASSUME ~WorkersStop PROVE Spec => []SyncMeansDone
<1>1. IInv => SyncMeansDone
  BY DEF IInv, TaskInv
<1>. QED
  BY <1>1, ExecutorInvariant, PTL

(* A blocking shutdown() by the main thread returns with all memory freed.   *)
THEOREM BlockingFreesHolds ==
  ASSUME ~WorkersStop PROVE Spec => []BlockingFrees
<1>1. IInv => BlockingFrees
  BY DEF IInv, HandleInv
<1>. QED
  BY <1>1, ExecutorInvariant, PTL
==============================================================================
