-------------------------- MODULE HighsMutexProofs --------------------------
(* Proofs of HighsMutex's safety invariants, for any number of workers, of   *)
(* nested tasks and of locks.                                                *)
EXTENDS HighsMutex, TLAPS

(* The state after a step of w that moves it from one place to another.      *)
LEMMA GotoStep ==
  ASSUME TypeOK, NEW w \in Workers, NEW from, NEW to, Goto(w, from, to)
  PROVE  /\ pc[w] = from /\ pc'[w] = to
         /\ \A v \in Workers : v # w => pc'[v] = pc[v]
  BY DEF Goto, TypeOK

(* Steps of a worker that is not in the middle of taking or giving the       *)
(* mutex, and that leave the word alone.                                     *)
Quiet(w) == \/ Lock(w) \/ Yield(w) \/ EndYield(w) \/ StopTrying(w)
            \/ LoadState(w)

LEMMA QuietSteps ==
  ASSUME TypeOK, NEW w \in Workers, Quiet(w)
  PROVE  /\ UNCHANGED <<state, heir, token>>
         /\ \A v \in Workers : /\ Holds(v)' = Holds(v)
                               /\ Waiting(v)' = Waiting(v)
                               /\ pc'[v] = "handed" <=> pc[v] = "handed"
                               /\ pc'[v] = "notify" <=> pc[v] = "notify"
                               /\ pc'[v] = "wait" <=> pc[v] = "wait"
                               /\ Waiting(v) => s'[v] = s[v]
  BY DEF Quiet, Lock, Yield, EndYield, StopTrying, LoadState, Goto, Holds,
     Waiting, TypeOK

LEMMA TypeStep == IInv /\ [Next]_vars => TypeOK'
<1> SUFFICES ASSUME TypeOK, BatonInv, [Next]_vars PROVE TypeOK'
  BY DEF IInv
<1> USE MutexAssumption DEF TypeOK, Word, Free, Locked, PC, Goto
<1>1. ASSUME NEW w \in Workers, Lock(w) PROVE TypeOK'
  BY <1>1 DEF Lock
<1>2. ASSUME NEW w \in Workers, Yield(w) PROVE TypeOK'
  BY <1>2 DEF Yield
<1>3. ASSUME NEW w \in Workers, TryLock(w) \/ LockFree(w) PROVE TypeOK'
  <2>1. pc' = [pc EXCEPT ![w] = "critical"] /\ state' = Locked
        /\ UNCHANGED <<s, heir, token, depth, locks>>
    BY <1>3 DEF TryLock, LockFree
  <2>. QED
    BY <2>1
<1>4. ASSUME NEW w \in Workers, EndYield(w) PROVE TypeOK'
  BY <1>4 DEF EndYield
<1>5. ASSUME NEW w \in Workers, StopTrying(w) \/ LoadState(w) PROVE TypeOK'
  BY <1>5 DEF StopTrying, LoadState
<1>6. ASSUME NEW w \in Workers, BecomeNext(w) PROVE TypeOK'
  BY <1>6 DEF BecomeNext
<1>7. ASSUME NEW w \in Workers, Wait(w) \/ TakeOver(w) PROVE TypeOK'
  BY <1>7 DEF Wait, TakeOver
<1>8. ASSUME NEW w \in Workers, Unlock(w) PROVE TypeOK'
  <2>1. state.locked
    BY <1>8 DEF Unlock, BatonInv, Holds
  <2>2. state # Locked => state.next \in Workers
    BY <2>1
  <2>. QED
    BY <1>8, <2>1, <2>2 DEF Unlock
<1>9. ASSUME NEW w \in Workers, Notify(w) PROVE TypeOK'
  BY <1>9 DEF Notify
<1>10. CASE Done \/ UNCHANGED vars
  BY <1>10 DEF Done, vars
<1>. QED
  BY <1>1, <1>2, <1>3, <1>4, <1>5, <1>6, <1>7, <1>8, <1>9, <1>10
     DEF Next, Proceed

(* The mutex changes hands one step at a time.                               *)
LEMMA BatonStep == IInv /\ [Next]_vars => BatonInv'
<1> SUFFICES ASSUME TypeOK, BatonInv, ListInv, [Next]_vars PROVE BatonInv'
  BY DEF IInv
<1> USE MutexAssumption DEF Word, Free, Locked, PC
<1>1. ASSUME NEW w \in Workers, Quiet(w) PROVE BatonInv'
  BY <1>1, QuietSteps DEF BatonInv, HasBaton, Holds, TypeOK
<1>2. ASSUME NEW w \in Workers, TryLock(w) \/ LockFree(w) PROVE BatonInv'
  <2>1. /\ state = Free /\ state' = Locked /\ UNCHANGED <<heir, token>>
        /\ pc'[w] = "critical" /\ \A v \in Workers : v # w => pc'[v] = pc[v]
        /\ pc[w] \in {"try", "queue"}
    BY <1>2, GotoStep DEF TryLock, LockFree
  <2>2. \A v \in Workers : ~HasBaton(v)
    BY <2>1 DEF BatonInv, HasBaton, Holds, TypeOK
  <2>. QED
    BY <2>1, <2>2 DEF BatonInv, HasBaton, Holds
<1>3. ASSUME NEW w \in Workers, BecomeNext(w) PROVE BatonInv'
  <2>1. /\ state.locked /\ state' = [locked |-> TRUE, next |-> w]
        /\ UNCHANGED <<heir, token>>
        /\ pc'[w] = "wait" /\ \A v \in Workers : v # w => pc'[v] = pc[v]
        /\ pc[w] = "queue"
    BY <1>3, GotoStep DEF BecomeNext
  <2>2. \A v \in Workers : /\ HasBaton(v)' = HasBaton(v)
                           /\ Holds(v)' = Holds(v)
    BY <2>1 DEF HasBaton, Holds
  <2>3. \A v \in Workers : HasBaton(v) => Holds(v)
    BY <2>1 DEF BatonInv, HasBaton, Holds
  <2>. QED
    BY <2>1, <2>2, <2>3 DEF BatonInv, HasBaton, Holds
<1>4. ASSUME NEW w \in Workers, Wait(w) PROVE BatonInv'
  <2>1. /\ UNCHANGED <<state, heir>> /\ token[w] = 1
        /\ token'[w] = 0 /\ \A v \in Workers : v # w => token'[v] = token[v]
        /\ pc'[w] = "handed" /\ \A v \in Workers : v # w => pc'[v] = pc[v]
        /\ pc[w] = "wait"
    BY <1>4, GotoStep DEF Wait, TypeOK
  <2>2. \A v \in Workers : HasBaton(v)' = HasBaton(v) /\ Holds(v)' = Holds(v)
    BY <2>1 DEF HasBaton, Holds
  <2>3. \A v \in Workers : pc[v] # "notify"
    BY <2>1 DEF BatonInv, HasBaton
  <2>. QED
    BY <2>1, <2>2, <2>3 DEF BatonInv, HasBaton, Holds
<1>5. ASSUME NEW w \in Workers, TakeOver(w) PROVE BatonInv'
  <2>1. /\ state' = s[w] /\ UNCHANGED <<heir, token>>
        /\ pc'[w] = "critical" /\ \A v \in Workers : v # w => pc'[v] = pc[v]
        /\ pc[w] = "handed"
    BY <1>5, GotoStep DEF TakeOver
  <2>2. s[w].locked
    BY <2>1 DEF ListInv, Waiting
  <2>3. \A v \in Workers : HasBaton(v)' = HasBaton(v)
    BY <2>1 DEF HasBaton
  <2>4. \A v \in Workers : HasBaton(v) => v = w
    BY <2>1 DEF BatonInv, HasBaton
  <2>. QED
    BY <2>1, <2>2, <2>3, <2>4 DEF BatonInv, HasBaton, Holds
<1>6. ASSUME NEW w \in Workers, Unlock(w) PROVE BatonInv'
  <2>1. /\ pc[w] = "critical" /\ state' = [state EXCEPT !.locked = FALSE]
        /\ pc'[w] = IF state = Locked THEN "idle" ELSE "notify"
        /\ \A v \in Workers : v # w => pc'[v] = pc[v]
        /\ heir'[w] = state.next
        /\ UNCHANGED token
    BY <1>6, GotoStep DEF Unlock, TypeOK
  <2>2. state.locked /\ \A v \in Workers : HasBaton(v) => v = w
    BY <2>1 DEF BatonInv, HasBaton, Holds
  <2>3. token[w] # 1
    BY <2>1 DEF BatonInv
  <2>4. CASE state = Locked
    <3>1. state' = Free /\ pc'[w] = "idle"
      BY <2>1, <2>4
    <3>2. \A v \in Workers : ~HasBaton(v)'
      BY <2>1, <2>2, <2>3, <3>1 DEF HasBaton
    <3>. QED
      BY <3>1, <3>2 DEF BatonInv, HasBaton, Holds
  <2>5. CASE state # Locked
    <3>1. /\ state.next \in Workers /\ pc'[w] = "notify"
          /\ state' = [locked |-> FALSE, next |-> heir'[w]]
      BY <2>1, <2>2, <2>5 DEF TypeOK
    <3>2. pc[state.next] = "wait" /\ state.next # w
      BY <2>1, <2>2, <3>1 DEF ListInv, Waiting, HasBaton
    <3>3. \A v \in Workers : v # w => ~HasBaton(v)'
      BY <2>1, <2>2 DEF HasBaton
    <3>4. /\ HasBaton(w)' /\ pc'[heir'[w]] = "wait"
          /\ \A v \in Workers : token'[v] # 1
      BY <2>1, <2>3, <3>1, <3>2, <3>3 DEF HasBaton
    <3>. QED
      BY <3>1, <3>3, <3>4 DEF BatonInv, HasBaton, Holds
  <2>. QED
    BY <2>4, <2>5
<1>7. ASSUME NEW w \in Workers, Notify(w) PROVE BatonInv'
  <2>1. /\ pc[w] = "notify" /\ pc'[w] = "idle" /\ UNCHANGED <<state, heir>>
        /\ \A v \in Workers : v # w => pc'[v] = pc[v]
        /\ token' = [token EXCEPT ![heir[w]] = 1]
    BY <1>7, GotoStep DEF Notify
  <2>2. /\ pc[heir[w]] = "wait" /\ heir[w] \in Workers
        /\ state = [locked |-> FALSE, next |-> heir[w]]
    BY <2>1 DEF BatonInv, TypeOK
  <2>3. \A v \in Workers : HasBaton(v) => v = w
    BY <2>1 DEF BatonInv, HasBaton
  <2>4. /\ token'[heir[w]] = 1 /\ heir[w] # w
        /\ \A v \in Workers : v # heir[w] => token'[v] = token[v]
    BY <2>1, <2>2 DEF TypeOK
  <2>5. \A v \in Workers : HasBaton(v)' <=> v = heir[w]
    BY <2>1, <2>2, <2>3, <2>4 DEF HasBaton, BatonInv
  <2>. QED
    BY <2>1, <2>2, <2>4, <2>5 DEF BatonInv, HasBaton, Holds
<1>8. CASE Done \/ UNCHANGED vars
  BY <1>8 DEF Done, vars, BatonInv, HasBaton, Holds
<1>. QED
  BY <1>1, <1>2, <1>3, <1>4, <1>5, <1>6, <1>7, <1>8 DEF Next, Proceed, Quiet

(* The list of waiting workers loses nobody.                                 *)
LEMMA ListStep == IInv /\ [Next]_vars => ListInv'
<1> SUFFICES ASSUME TypeOK, BatonInv, ListInv, [Next]_vars PROVE ListInv'
  BY DEF IInv
<1> USE MutexAssumption DEF Word, Free, Locked, PC
<1>1. ASSUME NEW w \in Workers, Quiet(w) PROVE ListInv'
  <2>1. /\ state' = state
        /\ \A v \in Workers : /\ Waiting(v)' = Waiting(v)
                              /\ Waiting(v) => s'[v] = s[v]
    BY <1>1, QuietSteps
  <2>. QED
    BY <2>1 DEF ListInv
<1>2. ASSUME NEW w \in Workers, TryLock(w) \/ LockFree(w) PROVE ListInv'
  <2>1. /\ state = Free /\ state' = Locked /\ s' = s
        /\ \A v \in Workers : Waiting(v)' = Waiting(v)
    BY <1>2, GotoStep DEF TryLock, LockFree, Waiting
  <2>. QED
    BY <2>1 DEF ListInv
<1>3. ASSUME NEW w \in Workers, BecomeNext(w) PROVE ListInv'
  <2>1. /\ s[w].locked /\ s[w] = state /\ s' = s
        /\ state' = [locked |-> TRUE, next |-> w]
        /\ ~Waiting(w) /\ Waiting(w)'
        /\ \A v \in Workers : v # w => Waiting(v)' = Waiting(v)
    BY <1>3, GotoStep DEF BecomeNext, Waiting
  <2>2. state.next # w /\ \A v \in Workers : Waiting(v) => s[v].next # w
    BY <2>1 DEF ListInv
  <2>3. \A v \in Workers : Waiting(v)' => s'[v].locked
    BY <2>1 DEF ListInv
  <2>4. \A u \in Workers :
          Waiting(u)' <=> \/ state'.next = u
                          \/ \E v \in Workers : Waiting(v)' /\ s'[v].next = u
    <3> TAKE u \in Workers
    <3>1. CASE u = w
      BY <2>1, <3>1
    <3>2. CASE u # w
      BY <2>1, <3>2 DEF ListInv
    <3>. QED
      BY <3>1, <3>2
  <2>5. \A v \in Workers : Waiting(v)' => s'[v].next # state'.next
    BY <2>1, <2>2
  <2>6. \A u, v \in Workers :
          Waiting(u)' /\ Waiting(v)' /\ s'[u].next = s'[v].next
            => u = v \/ s'[u].next = None
    BY <2>1 DEF ListInv
  <2>. QED
    BY <2>3, <2>4, <2>5, <2>6 DEF ListInv
<1>4. ASSUME NEW w \in Workers, Wait(w) PROVE ListInv'
  <2>1. /\ UNCHANGED <<state, s>>
        /\ \A v \in Workers : Waiting(v)' = Waiting(v)
    BY <1>4, GotoStep DEF Wait, Waiting
  <2>. QED
    BY <2>1 DEF ListInv
<1>5. ASSUME NEW w \in Workers, TakeOver(w) PROVE ListInv'
  <2>1. /\ state' = s[w] /\ s' = s
        /\ Waiting(w) /\ ~Waiting(w)'
        /\ \A v \in Workers : v # w => Waiting(v)' = Waiting(v)
        /\ pc[w] = "handed"
    BY <1>5, GotoStep DEF TakeOver, Waiting
  <2>2. state.next = w
    BY <2>1 DEF BatonInv
  <2>3. s[w].next # w /\ \A v \in Workers : Waiting(v) => s[v].next # w
    BY <2>1, <2>2 DEF ListInv
  <2>4. \A u \in Workers :
          Waiting(u)' <=> \/ state'.next = u
                          \/ \E v \in Workers : Waiting(v)' /\ s'[v].next = u
    <3> TAKE u \in Workers
    <3>1. CASE u = w
      BY <2>1, <2>3, <3>1
    <3>2. CASE u # w
      BY <2>1, <2>2, <3>2 DEF ListInv
    <3>. QED
      BY <3>1, <3>2
  <2>5. \A v \in Workers :
          Waiting(v)' /\ s'[v].next = state'.next => state'.next = None
    BY <2>1 DEF ListInv
  <2>. QED
    BY <2>1, <2>4, <2>5 DEF ListInv
<1>6. ASSUME NEW w \in Workers, Unlock(w) PROVE ListInv'
  <2>1. /\ state'.next = state.next /\ s' = s
        /\ \A v \in Workers : Waiting(v)' = Waiting(v)
    BY <1>6, GotoStep DEF Unlock, Waiting, TypeOK
  <2>. QED
    BY <2>1 DEF ListInv
<1>7. ASSUME NEW w \in Workers, Notify(w) PROVE ListInv'
  <2>1. /\ UNCHANGED <<state, s>>
        /\ \A v \in Workers : Waiting(v)' = Waiting(v)
    BY <1>7, GotoStep DEF Notify, Waiting
  <2>. QED
    BY <2>1 DEF ListInv
<1>8. CASE Done \/ UNCHANGED vars
  BY <1>8 DEF Done, vars, ListInv, Waiting
<1>. QED
  BY <1>1, <1>2, <1>3, <1>4, <1>5, <1>6, <1>7, <1>8 DEF Next, Proceed, Quiet

LEMMA InvInit == Init => IInv
  BY MutexAssumption DEF Init, IInv, TypeOK, BatonInv, ListInv, Word, Free, PC,
     HasBaton, Holds, Waiting

(* The workers keep the invariant of the mutex and of its list of waiting    *)
(* workers.                                                                  *)
THEOREM MutexInvariant == Spec => []IInv
<1>1. IInv /\ [Next]_vars => IInv'
  BY TypeStep, BatonStep, ListStep DEF IInv
<1>. QED
  BY <1>1, InvInit, PTL DEF Spec

(* Every variable keeps to the values that its declaration gives it, for    *)
(* every value of the constants.                                            *)
THEOREM TypeCorrect == Spec => []TypeOK
<1>1. IInv => TypeOK
  BY DEF IInv
<1>. QED
  BY MutexInvariant, <1>1, PTL

(* The code between lock() and unlock() is run by one worker at a time, for  *)
(* any number of workers and of tasks that they run inside lock().           *)
THEOREM MutualExclusionHolds == Spec => []MutualExclusion
<1>1. IInv => MutualExclusion
  BY DEF IInv, BatonInv, HasBaton, Holds, MutualExclusion
<1>. QED
  BY <1>1, MutexInvariant, PTL

(* unlock() hands the mutex to one worker, and nobody takes it on its way.   *)
THEOREM HandedToOneHolds == Spec => []HandedToOne
<1>1. IInv => HandedToOne
  <2> SUFFICES ASSUME IInv PROVE HandedToOne
    OBVIOUS
  <2> USE DEF IInv, BatonInv
  <2>1. \A w \in Workers : OnItsWay(w) => state = [locked |-> FALSE, next |-> w]
    BY DEF OnItsWay
  <2>2. state # Free => \E w \in Workers : Holds(w) \/ OnItsWay(w)
    <3>1. ASSUME NEW w \in Workers, HasBaton(w)
          PROVE  \E v \in Workers : Holds(v) \/ OnItsWay(v)
      <4>1. CASE pc[w] = "notify"
        BY <4>1, MutexAssumption DEF OnItsWay, TypeOK
      <4>2. CASE pc[w] # "notify"
        BY <3>1, <4>2 DEF HasBaton, OnItsWay, Holds
      <4>. QED
        BY <4>1, <4>2
    <3>. QED
      BY <3>1
  <2>. QED
    BY <2>1, <2>2 DEF HandedToOne
<1>. QED
  BY <1>1, MutexInvariant, PTL

(* A worker that waits for the mutex is named once, by the word or by        *)
(* another waiting worker: it is neither lost nor notified twice.            *)
THEOREM WaiterIsKnownHolds == Spec => []WaiterIsKnown
<1>1. IInv => WaiterIsKnown
  BY MutexAssumption DEF IInv, ListInv, Waiting, WaiterIsKnown
<1>. QED
  BY <1>1, MutexInvariant, PTL
=============================================================================
