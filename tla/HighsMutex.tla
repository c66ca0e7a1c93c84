------------------------------ MODULE HighsMutex ------------------------------
(***************************************************************************)
(* highs/parallel/HighsMutex.h: a mutex whose lock() runs other tasks while *)
(* it is not available and then waits on the semaphore of the worker's      *)
(* deque.  The word holds a lock bit and the worker to notify next; a       *)
(* waiting worker keeps the word that it replaced, so that the waiting      *)
(* workers form a stack.  One action per access to the word.                *)
(***************************************************************************)
EXTENDS Naturals

CONSTANTS
  Workers,
  None,      (* no worker                                                   *)
  MaxDepth,  (* bound on the tasks that a worker runs within lock()         *)
  MaxLocks   (* bound on the calls of lock() of each worker                 *)

ASSUME MutexAssumption ==
  None \notin Workers /\ MaxDepth \in Nat /\ MaxLocks \in Nat

VARIABLES
  state,   (* the word                                                      *)
  pc,      (* where each worker is, in its innermost task                   *)
  s,       (* each worker's local copy of the word                          *)
  heir,    (* the worker that each unlock() notifies                        *)
  token,   (* the semaphore of each worker's deque, see AbstractSemaphore   *)
  depth,   (* the calls of lock() that run a task in yield()                *)
  locks    (* the calls of lock() that are left to each worker              *)

vars == <<state, pc, s, heir, token, depth, locks>>

Word == [locked : BOOLEAN, next : Workers \cup {None}]
Free   == [locked |-> FALSE, next |-> None]
Locked == [locked |-> TRUE, next |-> None]

PC == {"idle", "try", "load", "queue", "wait", "handed", "critical", "notify"}

Init == /\ state = Free
        /\ pc = [w \in Workers |-> "idle"]
        /\ s = [w \in Workers |-> Free]
        /\ heir = [w \in Workers |-> None]
        /\ token = [w \in Workers |-> 0]
        /\ depth = [w \in Workers |-> 0]
        /\ locks = [w \in Workers |-> MaxLocks]

Goto(w, from, to) == /\ pc[w] = from
                     /\ pc' = [pc EXCEPT ![w] = to]

Lock(w) ==
  /\ Goto(w, "idle", "try")
  /\ locks[w] > 0 /\ locks' = [locks EXCEPT ![w] = @ - 1]
  /\ UNCHANGED <<state, s, heir, token, depth>>

(* try_lock() on the fast path, or after a look in the spin loops.           *)
TryLock(w) ==
  /\ Goto(w, "try", "critical")
  /\ state = Free /\ state' = Locked
  /\ UNCHANGED <<s, heir, token, depth, locks>>

(* yield() between two tries: a stolen task runs, which uses the mutex (one  *)
(* that does not changes nothing here).                                      *)
Yield(w) ==
  /\ pc[w] = "try"
  /\ depth[w] < MaxDepth /\ depth' = [depth EXCEPT ![w] = @ + 1]
  /\ locks[w] > 0 /\ locks' = [locks EXCEPT ![w] = @ - 1]
  /\ UNCHANGED <<state, pc, s, heir, token>>

EndYield(w) ==
  /\ Goto(w, "idle", "try")
  /\ depth[w] > 0 /\ depth' = [depth EXCEPT ![w] = @ - 1]
  /\ UNCHANGED <<state, s, heir, token, locks>>

(* The spin loops have taken too long.                                       *)
StopTrying(w) ==
  /\ Goto(w, "try", "load")
  /\ UNCHANGED <<state, s, heir, token, depth, locks>>

(* state.load(), or what a failed exchange leaves in s.                      *)
LoadState(w) ==
  /\ pc[w] \in {"load", "queue"} /\ pc' = [pc EXCEPT ![w] = "queue"]
  /\ s' = [s EXCEPT ![w] = state]
  /\ UNCHANGED <<state, heir, token, depth, locks>>

LockFree(w) ==
  /\ Goto(w, "queue", "critical")
  /\ s[w] = Free /\ state = s[w]
  /\ state' = Locked
  /\ UNCHANGED <<s, heir, token, depth, locks>>

(* A worker becomes the next one although the lock is being handed over.     *)
BecomeNextMut(w) ==
  /\ Goto(w, "queue", "wait")
  /\ s[w] # Free /\ state = s[w]
  /\ state' = [locked |-> TRUE, next |-> w]
  /\ UNCHANGED <<s, heir, token, depth, locks>>

BecomeNext(w) ==
  /\ Goto(w, "queue", "wait")
  /\ s[w].locked /\ state = s[w]
  /\ state' = [locked |-> TRUE, next |-> w]
  /\ UNCHANGED <<s, heir, token, depth, locks>>

(* thisDeque->wait()                                                         *)
Wait(w) ==
  /\ Goto(w, "wait", "handed")
  /\ token[w] = 1 /\ token' = [token EXCEPT ![w] = 0]
  /\ UNCHANGED <<state, s, heir, depth, locks>>

(* The workers that wait below are forgotten.                                *)
TakeOverMut(w) ==
  /\ Goto(w, "handed", "critical")
  /\ state' = Locked
  /\ UNCHANGED <<s, heir, token, depth, locks>>

(* state.store(s)                                                            *)
TakeOver(w) ==
  /\ Goto(w, "handed", "critical")
  /\ state' = s[w]
  /\ UNCHANGED <<s, heir, token, depth, locks>>

(* unlock() frees the word as if nobody waited, and notifies the next.       *)
UnlockMut(w) ==
  /\ Goto(w, "critical", IF state = Locked THEN "idle" ELSE "notify")
  /\ state' = Free
  /\ heir' = [heir EXCEPT ![w] = state.next]
  /\ UNCHANGED <<s, token, depth, locks>>

(* unlock(): fetch_add of -1.                                                *)
Unlock(w) ==
  /\ Goto(w, "critical", IF state = Locked THEN "idle" ELSE "notify")
  /\ state' = [state EXCEPT !.locked = FALSE]
  /\ heir' = [heir EXCEPT ![w] = state.next]
  /\ UNCHANGED <<s, token, depth, locks>>

Notify(w) ==
  /\ Goto(w, "notify", "idle")
  /\ token' = [token EXCEPT ![heir[w]] = 1]
  /\ UNCHANGED <<state, s, heir, depth, locks>>

Done == /\ \A w \in Workers : pc[w] = "idle" /\ locks[w] = 0 /\ depth[w] = 0
        /\ UNCHANGED vars

Proceed(w) == \/ TryLock(w) \/ EndYield(w) \/ StopTrying(w)
              \/ LoadState(w) \/ LockFree(w) \/ BecomeNext(w)
              \/ Wait(w) \/ TakeOver(w) \/ Unlock(w) \/ Notify(w)

Next == Done \/ \E w \in Workers : Lock(w) \/ Yield(w) \/ Proceed(w)

Spec == Init /\ [][Next]_vars

(* A worker in lock(), and one that holds the mutex, goes on; an exchange    *)
(* does not fail for ever while the word stays as it is.                     *)
FairSpec == Spec /\ \A w \in Workers : WF_vars(Proceed(w))

------------------------------------------------------------------------------
Holds(w) == pc[w] = "critical"

(* The variables have their types, and unlock() knows whom to notify.        *)
TypeOK == /\ state \in Word
          /\ pc \in [Workers -> PC]
          /\ s \in [Workers -> Word]
          /\ heir \in [Workers -> Workers \cup {None}]
          /\ token \in [Workers -> {0, 1}]
          /\ depth \in [Workers -> 0 .. MaxDepth]
          /\ locks \in [Workers -> 0 .. MaxLocks]
          /\ \A w \in Workers : pc[w] = "notify" => heir[w] # None

(* The code between lock() and unlock() is run by one worker at a time.     *)
MutualExclusion == \A v, w \in Workers : Holds(v) /\ Holds(w) => v = w

(* The mutex is on its way to a worker that is, or will be, notified.        *)
OnItsWay(w) ==
  \/ pc[w] = "handed"
  \/ pc[w] = "wait" /\ (token[w] = 1 \/ \E v \in Workers : pc[v] = "notify" /\ heir[v] = w)

(* Nobody can take the mutex while it is on its way, and the word is free    *)
(* unless it is held or on its way: else no lock() would ever return.  The   *)
(* semaphore, which other waits of the worker share, gets no token else.     *)
HandedToOne ==
  /\ \A w \in Workers : token[w] = 1 => pc[w] = "wait"
  /\ \A w \in Workers : OnItsWay(w) => state = [locked |-> FALSE, next |-> w]
  /\ state # Free => \E w \in Workers : Holds(w) \/ OnItsWay(w)

(* A waiting worker will be notified: the word or another waiting worker's   *)
(* copy of it names it, and only one does.                                   *)
WaiterIsKnown ==
  \A w \in Workers : pc[w] \in {"wait", "handed"} =>
    IF state.next = w THEN \A v \in Workers : pc[v] \in {"wait", "handed"} => s[v].next # w
    ELSE \E v \in Workers : /\ pc[v] \in {"wait", "handed"} /\ s[v].next = w
                            /\ \A u \in Workers \ {v} :
                                 pc[u] \in {"wait", "handed"} => s[u].next # w

(* lock() returns, as long as other workers do not lock again and again: the *)
(* last to wait is the first to be served.                                   *)
LockReturns ==
  \A w \in Workers :
    (pc[w] \in {"try", "load", "queue", "wait", "handed"}) ~> Holds(w)
------------------------------------------------------------------------------
(* The inductive invariant behind the properties above.                      *)

Waiting(w) == pc[w] \in {"wait", "handed"}

(* Whoever holds the mutex, is handing it over or is being handed it.        *)
HasBaton(w) == pc[w] \in {"critical", "notify", "handed"} \/ token[w] = 1

BatonInv ==
  /\ \A v, w \in Workers : HasBaton(v) /\ HasBaton(w) => v = w
  /\ \A w \in Workers : token[w] = 1 => pc[w] = "wait"
  /\ \A w \in Workers : Holds(w) => state.locked
  /\ \A w \in Workers :
       pc[w] = "handed" \/ token[w] = 1 => state = [locked |-> FALSE, next |-> w]
  /\ \A w \in Workers :
       pc[w] = "notify" => /\ pc[heir[w]] = "wait"
                           /\ state = [locked |-> FALSE, next |-> heir[w]]
  /\ state # Free => \E w \in Workers : HasBaton(w)

(* The word and the waiting workers' copies of it name every waiting worker  *)
(* once, and nobody else.                                                    *)
ListInv ==
  /\ \A w \in Workers : Waiting(w) => s[w].locked
  /\ \A w \in Workers :
       Waiting(w) <=> \/ state.next = w
                      \/ \E v \in Workers : Waiting(v) /\ s[v].next = w
  /\ \A v \in Workers : Waiting(v) /\ s[v].next = state.next => state.next = None
  /\ \A u, v \in Workers :
       Waiting(u) /\ Waiting(v) /\ s[u].next = s[v].next => u = v \/ s[u].next = None

IInv == TypeOK /\ BatonInv /\ ListInv
==============================================================================
