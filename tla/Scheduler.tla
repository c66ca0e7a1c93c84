------------------------------ MODULE Scheduler ------------------------------
(***************************************************************************)
(* The work-stealing scheduler as a whole: the call stacks of the workers   *)
(* while they run a tree of tasks (highs/parallel/HighsParallel.h,          *)
(* HighsTaskExecutor.h and runStolenTask(), leapfrogStolenTask(), yield()   *)
(* and checkInterrupt() of HighsSplitDeque.h), with task groups, their      *)
(* cancellation and the Interrupt exception that unwinds a stolen task.     *)
(*                                                                          *)
(* The deque is a TaskStack, as SplitDeque implements it; the handshake on  *)
(* a task's word is a wait for the finished flag, see TaskHandshake; a      *)
(* search for a task may fail although there is one.                        *)
(***************************************************************************)
EXTENDS Integers, Sequences

CONSTANTS
  Workers,   (* the workers                                                 *)
  Main,      (* the worker that runs Root                                   *)
  Tasks,     (* all tasks                                                   *)
  Root,      (* what the main worker runs; not a task of the scheduler      *)
  Children,  (* the tasks that each one spawns, in order                    *)
  Groups,    (* those that spawn through a TaskGroup of their own           *)
  Specials,  (* those that spawn through a TaskGroupSpecial (HiPO)          *)
  None       (* no worker                                                   *)

Kids(p)   == {Children[p][i] : i \in 1 .. Len(Children[p])}
Parent(c) == {p \in Tasks : c \in Kids(p)}

(* A task and all those that it has been spawned for.                        *)
Lineage ==
  [t \in Tasks |->
     {q \in Tasks : \A family \in SUBSET Tasks :
        t \in family /\ (\A x \in family : Parent(x) \subseteq family) =>
          q \in family}]

(* Every call of spawn() makes a task of its own.                            *)
ASSUME TreeAssumption ==
  /\ Main \in Workers /\ None \notin Workers
  /\ Root \in Tasks
  /\ Children \in [Tasks -> Seq(Tasks)]
  /\ \A p, q \in Tasks : \A i \in 1 .. Len(Children[p]), j \in 1 .. Len(Children[q]) :
       Children[p][i] = Children[q][j] => p = q /\ i = j
  /\ \A p \in Tasks : Root \notin Kids(p) /\ Kids(p) \cap Lineage[p] = {}
  /\ Groups \subseteq Tasks /\ Specials \subseteq Tasks /\ Groups \cap Specials = {}

VARIABLES
  frames,    (* the call stack of each worker, the innermost task last      *)
  deque,     (* the tasks in each worker's deque, the newest last           *)
  thief,     (* the worker that stole each task                             *)
  word,      (* HighsTask's word: "new", "started" or "finished"            *)
  cancelled, (* the tasks whose word has the cancel flag                    *)
  complete,  (* history: the tasks whose code has returned                  *)
  terminated (* an exception has left a destructor: std::terminate()        *)

vars == <<frames, deque, thief, word, cancelled, complete, terminated>>

Modes  == {"start", "run", "throw", "destroy", "catch", "mark", "check"}
Active == Modes \ {"check"}

(* The frame of a task: was it stolen, the size of the deque when it was     *)
(* called, the number of children it has spawned, how it runs, whether its   *)
(* task group is destroyed by an exception, and where in sync() it is.       *)
Frame == [task : Tasks, stolen : BOOLEAN, base : Nat, spawned : Nat,
          mode : Modes,
          raised : BOOLEAN,
          wait : {"no", "look", "leapfrog", "yield", "sleep"}]

Call(t, isStolen, size, m) ==
  [task |-> t, stolen |-> isStolen, base |-> size, spawned |-> 0,
   mode |-> m, raised |-> FALSE, wait |-> "no"]

Init ==
  /\ deque = [w \in Workers |-> <<>>]
  /\ frames = [w \in Workers |-> IF w = Main THEN <<Call(Root, FALSE, 0, "run")>>
                                            ELSE <<>>]
  /\ thief = [t \in Tasks |-> None]
  /\ word = [t \in Tasks |-> "new"]
  /\ cancelled = {} /\ complete = {}
  /\ terminated = FALSE

Newest(s)     == s[Len(s)]
Older(s)      == SubSeq(s, 1, Len(s) - 1)
Renewed(s, x) == [s EXCEPT ![Len(s)] = x]

Alive(w)  == frames[w] # <<>> /\ ~terminated
Top(w)    == Newest(frames[w])
Below(w)  == Older(frames[w])
SetFrames(w, s) == frames' = [frames EXCEPT ![w] = s]
SetTop(w, f)    == SetFrames(w, Renewed(frames[w], f))

(* The tasks that w's innermost frame, or one that an exception has left     *)
(* above it, has in the deque.                                               *)
Pending(w) == {deque[w][i] : i \in Top(w).base + 1 .. Len(deque[w])}

(* ownerData.rootTask: the innermost stolen task, if any.                    *)
RootCancelled(s) ==
  \E i \in 1 .. Len(s) : /\ s[i].stolen /\ s[i].task \in cancelled
                         /\ \A j \in i + 1 .. Len(s) : ~s[j].stolen

InCode(w) == Alive(w) /\ Top(w).mode = "run" /\ Top(w).wait = "no"

------------------------------------------------------------------------------
(* The code of a task                                                        *)

Spawn(w) ==
  LET f == Top(w) IN
  /\ InCode(w)
  /\ f.spawned < Len(Children[f.task])
  /\ deque' = [deque EXCEPT ![w] = Append(@, Children[f.task][f.spawned + 1])]
  /\ SetTop(w, [f EXCEPT !.spawned = @ + 1])
  /\ UNCHANGED <<thief, word, cancelled, complete, terminated>>

(* TaskGroup::cancel()                                                       *)
Cancel(w) ==
  /\ InCode(w)
  /\ Top(w).task \in Groups \cup Specials
  /\ ~(Pending(w) \subseteq cancelled)
  /\ cancelled' = cancelled \cup Pending(w)
  /\ UNCHANGED <<frames, deque, thief, word, complete, terminated>>

(* The frame's task ends: a stolen one is marked, sync() of another returns. *)
Leave(w) == IF Top(w).stolen THEN SetTop(w, [Top(w) EXCEPT !.mode = "mark"])
                             ELSE SetFrames(w, Below(w))

Return(w) ==
  /\ InCode(w)
  /\ Top(w).spawned = Len(Children[Top(w).task])
  /\ Pending(w) = {}
  /\ Leave(w)
  /\ complete' = complete \cup {Top(w).task}
  /\ UNCHANGED <<deque, thief, word, cancelled, terminated>>

(* ~TaskGroup(), entered by a return before the group is synced or by an     *)
(* exception, cancels and syncs what is left.                                *)
Destroy(w, exception) ==
  /\ SetTop(w, [Top(w) EXCEPT !.mode = "destroy", !.raised = exception])
  /\ cancelled' = cancelled \cup Pending(w)

ReturnEarly(w) ==
  /\ InCode(w)
  /\ Top(w).task \in Groups \cup Specials
  /\ Pending(w) # {}
  /\ Destroy(w, FALSE)
  /\ UNCHANGED <<deque, thief, word, complete, terminated>>

------------------------------------------------------------------------------
(* sync()                                                                    *)

Syncing(w) == /\ Alive(w)
              /\ Top(w).mode \in {"run", "destroy", "catch"}
              /\ Pending(w) # {}

Popped(w) == Newest(deque[w])

Pop(w) == deque' = [deque EXCEPT ![w] = Older(@)]

(* pop() answers kWork: run() the task, if it is not cancelled.              *)
SyncWork(w) ==
  /\ Syncing(w)
  /\ Top(w).wait = "no" /\ thief[Popped(w)] = None
  /\ Pop(w)
  /\ IF Popped(w) \in cancelled THEN UNCHANGED frames
     ELSE SetFrames(w, Append(frames[w],
                              Call(Popped(w), FALSE, Len(deque[w]) - 1, "run")))
  /\ UNCHANGED <<thief, word, cancelled, complete, terminated>>

WaitStep(w, from, to) == /\ Syncing(w)
                         /\ Top(w).wait = from
                         /\ SetTop(w, [Top(w) EXCEPT !.wait = to])

(* pop() answers kStolen for any task when one is stolen.                    *)
SyncStolenMut(w) ==
  /\ WaitStep(w, "no", "look")
  /\ \E t \in Tasks : thief[t] # None
  /\ UNCHANGED <<deque, thief, word, cancelled, complete, terminated>>

SyncStolen(w) ==
  /\ WaitStep(w, "no", "look")
  /\ thief[Popped(w)] # None
  /\ UNCHANGED <<deque, thief, word, cancelled, complete, terminated>>

(* getStealerIfUnfinished() spins until the thief has started the task.      *)
Spin(w) ==
  /\ Syncing(w)
  /\ Top(w).wait = "look"
  /\ word[Popped(w)] = "new"
  /\ UNCHANGED vars

(* sync() then steals from it, unless the task is cancelled; the handler of  *)
(* runStolenTask() steals nothing.                                           *)
Look(w) ==
  /\ WaitStep(w, "look", IF Top(w).mode = "catch" THEN "sleep"
                         ELSE IF Popped(w) \in cancelled THEN "yield"
                         ELSE "leapfrog")
  /\ word[Popped(w)] = "started"
  /\ UNCHANGED <<deque, thief, word, cancelled, complete, terminated>>

(* The owner takes a stolen task that is cancelled for finished.             *)
EndWaitEarlyMut(w) ==
  /\ \E from \in {"look", "leapfrog", "yield", "sleep"} : WaitStep(w, from, "no")
  /\ word[Popped(w)] = "finished" \/ Popped(w) \in cancelled
  /\ Pop(w)
  /\ UNCHANGED <<thief, word, cancelled, complete, terminated>>

(* The stolen task is finished: popStolen().                                 *)
EndWait(w) ==
  /\ \E from \in {"look", "leapfrog", "yield", "sleep"} : WaitStep(w, from, "no")
  /\ word[Popped(w)] = "finished"
  /\ Pop(w)
  /\ UNCHANGED <<thief, word, cancelled, complete, terminated>>

(* stealWithRetryLoop() finds nothing; the time for yield() is over.         *)
StopLeapfrog(w) ==
  /\ WaitStep(w, "leapfrog", "yield")
  /\ UNCHANGED <<deque, thief, word, cancelled, complete, terminated>>
FallAsleep(w) ==
  /\ WaitStep(w, "yield", "sleep")
  /\ word[Popped(w)] # "finished"
  /\ UNCHANGED <<deque, thief, word, cancelled, complete, terminated>>

------------------------------------------------------------------------------
(* Stealing, and runStolenTask()                                             *)

(* The thief takes the oldest task that is not stolen and calls              *)
(* runStolenTask().                                                          *)
Take(w, v) ==
  /\ \E i \in 1 .. Len(deque[v]) :
       LET t == deque[v][i] IN
       /\ thief[t] = None
       /\ \A j \in 1 .. i - 1 : thief[deque[v][j]] # None
       /\ thief' = [thief EXCEPT ![t] = w]
       /\ SetFrames(w, Append(frames[w], Call(t, TRUE, Len(deque[w]), "start")))
  /\ UNCHANGED <<deque, word, cancelled, complete, terminated>>

StealIdle(w, v) ==
  /\ w # Main /\ frames[w] = <<>> /\ ~terminated
  /\ Take(w, v)

StealLeapfrog(w, v) ==
  /\ Syncing(w) /\ Top(w).wait = "leapfrog" /\ v = thief[Popped(w)]
  /\ Take(w, v)

StealYield(w, v) ==
  /\ Syncing(w) /\ Top(w).wait = "yield"
  /\ Take(w, v)

Steal(w) == \E v \in Workers \ {w} : StealIdle(w, v) \/ StealLeapfrog(w, v) \/ StealYield(w, v)

InMode(w, m) == Alive(w) /\ Top(w).mode = m

(* A task that is cancelled already is dropped.                              *)
StartMut(w) ==
  LET t == Top(w).task IN
  /\ InMode(w, "start")
  /\ word' = IF t \in cancelled THEN word ELSE [word EXCEPT ![t] = "started"]
  /\ SetTop(w, [Top(w) EXCEPT !.mode = IF t \in cancelled THEN "check" ELSE "run"])
  /\ UNCHANGED <<deque, thief, cancelled, complete, terminated>>

(* run(stealer): a task that is cancelled already is not run.                *)
Start(w) ==
  /\ InMode(w, "start")
  /\ word' = [word EXCEPT ![Top(w).task] = "started"]
  /\ SetTop(w, [Top(w) EXCEPT !.mode = IF Top(w).task \in cancelled THEN "mark" ELSE "run"])
  /\ UNCHANGED <<deque, thief, cancelled, complete, terminated>>

MarkAsFinished(w) ==
  /\ InMode(w, "mark")
  /\ word' = [word EXCEPT ![Top(w).task] = "finished"]
  /\ SetTop(w, [Top(w) EXCEPT !.mode = "check"])
  /\ UNCHANGED <<deque, thief, cancelled, complete, terminated>>

(* Where an Interrupt goes from the innermost of the frames s: out of sync() *)
(* in a task's code; or out of ~TaskGroup(), which must not throw, while     *)
(* ~TaskGroupSpecial() catches it and syncs again.                           *)
Throw(w, s) ==
  LET f == Newest(s) IN
  IF f.mode = "destroy" /\ f.task \in Groups
  THEN terminated' = TRUE /\ SetFrames(w, s)
  ELSE /\ SetFrames(w, Renewed(s, [f EXCEPT !.wait = "no",
                                            !.mode = IF @ = "run" THEN "throw" ELSE @]))
       /\ UNCHANGED terminated

(* The end of runStolenTask(): checkInterrupt() of the task stolen before.   *)
LeaveStolen(w) ==
  /\ InMode(w, "check")
  /\ IF RootCancelled(Below(w)) THEN Throw(w, Below(w))
     ELSE SetFrames(w, Below(w)) /\ UNCHANGED terminated
  /\ UNCHANGED <<deque, thief, word, cancelled, complete>>

(* A task's code calls checkInterrupt().                                     *)
CheckInterrupt(w) ==
  /\ InCode(w)
  /\ RootCancelled(frames[w])
  /\ Throw(w, frames[w])
  /\ UNCHANGED <<deque, thief, word, cancelled, complete>>

(* The exception leaves the frame's code: the task group is destroyed, else  *)
(* runStolenTask() catches it, else it goes on to the next frame.            *)
Rethrow(w) == SetFrames(w, Renewed(Below(w), [Newest(Below(w)) EXCEPT !.mode = "throw"]))

Unwind(w) ==
  /\ InMode(w, "throw")
  /\ \/ /\ Top(w).task \in Groups \cup Specials
        /\ Destroy(w, TRUE)
     \/ /\ Top(w).task \notin Groups \cup Specials /\ Top(w).stolen
        /\ SetTop(w, [Top(w) EXCEPT !.mode = "catch"])
        /\ cancelled' = cancelled \cup Pending(w)
     \/ /\ Top(w).task \notin Groups \cup Specials /\ ~Top(w).stolen
        /\ Rethrow(w)
        /\ UNCHANGED cancelled
  /\ UNCHANGED <<deque, thief, word, complete, terminated>>

(* ~TaskGroup() cancels what is left, and leaves it in the deque.            *)
DestroyedMut(w) ==
  /\ InMode(w, "destroy")
  /\ IF ~Top(w).raised THEN Leave(w) /\ complete' = complete \cup {Top(w).task}
     ELSE /\ IF Top(w).stolen THEN SetTop(w, [Top(w) EXCEPT !.mode = "catch"])
                              ELSE Rethrow(w)
          /\ UNCHANGED complete
  /\ UNCHANGED <<deque, thief, word, cancelled, terminated>>

(* ~TaskGroup() returns: the task ends, or the exception goes on.            *)
Destroyed(w) ==
  /\ InMode(w, "destroy")
  /\ Pending(w) = {}
  /\ IF ~Top(w).raised THEN Leave(w) /\ complete' = complete \cup {Top(w).task}
     ELSE /\ IF Top(w).stolen THEN SetTop(w, [Top(w) EXCEPT !.mode = "catch"])
                              ELSE Rethrow(w)
          /\ UNCHANGED complete
  /\ UNCHANGED <<deque, thief, word, cancelled, terminated>>

(* The handler of runStolenTask() has removed all tasks of its task.         *)
Caught(w) ==
  /\ InMode(w, "catch")
  /\ Pending(w) = {}
  /\ SetTop(w, [Top(w) EXCEPT !.mode = "mark"])
  /\ UNCHANGED <<deque, thief, word, cancelled, complete, terminated>>

Done == frames[Main] = <<>> /\ UNCHANGED vars

(* What a worker does of itself, and what it need not do.                    *)
Proceed(w) ==
  \/ Spawn(w) \/ Return(w)
  \/ SyncWork(w) \/ SyncStolen(w) \/ Look(w) \/ EndWait(w)
  \/ StopLeapfrog(w) \/ FallAsleep(w)
  \/ Start(w) \/ MarkAsFinished(w) \/ LeaveStolen(w)
  \/ Unwind(w) \/ Destroyed(w) \/ Caught(w)
May(w) == Spin(w) \/ Cancel(w) \/ ReturnEarly(w) \/ CheckInterrupt(w) \/ Steal(w)

Next == Done \/ \E w \in Workers : Proceed(w) \/ May(w)

Spec == Init /\ [][Next]_vars

(* A worker with a frame goes on, and the tasks' code ends.                  *)
FairSpec == Spec /\ \A w \in Workers : WF_vars(Proceed(w))

------------------------------------------------------------------------------
InDeque(t) == \E w \in Workers : \E i \in 1 .. Len(deque[w]) : deque[w][i] = t

(* Is there a frame of t in one of these modes?                              *)
InFrame(t, modes) == \E w \in Workers : \E i \in 1 .. Len(frames[w]) :
                       frames[w][i].task = t /\ frames[w][i].mode \in modes

(* The variables have their types, and a waiting frame has a stolen task to  *)
(* wait for.                                                                 *)
TypeOK ==
  /\ frames \in [Workers -> Seq(Frame)]
  /\ deque \in [Workers -> Seq(Tasks)]
  /\ thief \in [Tasks -> Workers \cup {None}]
  /\ word \in [Tasks -> {"new", "started", "finished"}]
  /\ cancelled \subseteq Tasks /\ complete \subseteq Tasks
  /\ terminated \in BOOLEAN
  /\ \A w \in Workers : frames[w] # <<>> =>
       /\ Top(w).base <= Len(deque[w])
       /\ Top(w).wait # "no" => Pending(w) # {} /\ thief[Popped(w)] # None

(* What a task has synced is over, in one way or the other, and nobody is at *)
(* work on it any more.                                                      *)
SyncMeansDone ==
  \A w \in Workers : InCode(w) =>
    \A i \in 1 .. Top(w).spawned :
      LET child == Children[Top(w).task][i] IN
      child \notin Pending(w) => /\ child \in complete \cup cancelled
                                 /\ ~InDeque(child) /\ ~InFrame(child, Active)

(* The tasks that some code has spawned use its variables: it has not been   *)
(* left, by return or exception, while one of them is queued or running.     *)
(* Code that spawns without a task group, as the dual simplex solver does,   *)
(* relies on that neither it nor what it was spawned for is cancelled.       *)
ParentIsAlive ==
  \A p \in Tasks :
    p \in Groups \cup Specials \/ Lineage[p] \cap cancelled = {} =>
      \A i \in 1 .. Len(Children[p]) :
        InDeque(Children[p][i]) \/ InFrame(Children[p][i], Active) =>
          InFrame(p, {"run", "throw", "destroy"})

(* sync() takes the last task that the calling code has spawned, not one     *)
(* that a task it ran meanwhile has left behind.                             *)
SyncsOwnTask ==
  \A w \in Workers : Alive(w) /\ Top(w).mode = "run" /\ Pending(w) # {} =>
    Parent(Popped(w)) = {Top(w).task}

(* A worker that waits for the thief of a task.                              *)
Blocked(w) == Alive(w) /\ Top(w).wait # "no" /\ word[Popped(w)] # "finished"

(* Owners wait for thieves, which wait for thieves of theirs, while they run *)
(* tasks stolen meanwhile on top of those waits: that never closes a cycle,  *)
(* so while workers are at work one of them does not wait.                   *)
SomeoneGoesOn ==
  (\E w \in Workers : Alive(w)) => \E w \in Workers : Alive(w) /\ ~Blocked(w)

(* Whoever waits for whom, the main worker's call returns, and all workers   *)
(* come to rest.                                                             *)
Quiesces == <>[](\A w \in Workers : frames[w] = <<>>)

(* An Interrupt ends in the handler of runStolenTask().                      *)
InterruptIsCaught == ~terminated
==============================================================================
