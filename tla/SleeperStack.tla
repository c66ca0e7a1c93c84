----------------------------- MODULE SleeperStack -----------------------------
(***************************************************************************)
(* WorkerBunk's stack of sleeping workers (highs/parallel/HighsSplitDeque.h, *)
(* pushSleeper(), popSleeper() and their callers): a linked stack whose top *)
(* is one word with the index of a worker and a tag, changed by compare and *)
(* exchange.  One action per access to the word or to a link.               *)
(*                                                                          *)
(* The semaphore on which a sleeper waits is one step here, see             *)
(* BinarySemaphore; whether a publisher has a task for the sleeper it took  *)
(* is left open, see SplitDeque.                                            *)
(***************************************************************************)
EXTENDS Naturals, Sequences

CONSTANTS
  Workers,  (* the workers, each with its deque                             *)
  Main,     (* the worker that never sleeps                                 *)
  None,     (* no worker                                                    *)
  MaxTag    (* bound on the 44-bit tag                                      *)

ASSUME WorkersAssumption ==
  /\ Main \in Workers
  /\ None \notin Workers
  /\ Workers \cap {"awake", "pool"} = {}
  /\ MaxTag \in Nat

VARIABLES
  sleeperStack, (* the tag and the worker on top                            *)
  nextSleeper,  (* the link of each worker                                  *)
  pc,           (* where each worker is                                     *)
  stackState,   (* each worker's local copy of the word                     *)
  newHead,      (* each worker's local newHead in popSleeper()              *)
  item,         (* the worker that each worker pushes, or has popped        *)
  stack         (* history: the workers on the stack, the top first         *)

locals == <<stackState, newHead, item>>
vars == <<sleeperStack, nextSleeper, pc, locals, stack>>

Handling == {"link", "push", "unlink", "holds"}
PC       == Handling \cup {"run", "next", "pop", "asleep"}

Init == /\ sleeperStack = [tag |-> 0, top |-> None]
        /\ nextSleeper = [w \in Workers |-> None]
        /\ pc = [w \in Workers |-> "run"]
        /\ stackState = [w \in Workers |-> sleeperStack]
        /\ newHead = [w \in Workers |-> None]
        /\ item = [w \in Workers |-> None]
        /\ stack = <<>>

Goto(w, from, to) == /\ pc[w] = from
                     /\ pc' = [pc EXCEPT ![w] = to]

Load(w) == stackState' = [stackState EXCEPT ![w] = sleeperStack]

(* compare_exchange_weak(): the tag goes up with every change of the word.   *)
ExchangeMut(w, d) ==
  /\ stackState[w] = sleeperStack
  /\ sleeperStack' = [sleeperStack EXCEPT !.top = d]

Exchange(w, d) ==
  /\ stackState[w] = sleeperStack
  /\ sleeperStack.tag < MaxTag
  /\ sleeperStack' = [tag |-> sleeperStack.tag + 1, top |-> d]

------------------------------------------------------------------------------
(* pushSleeper()                                                             *)

(* waitForNewTask(): a worker that found nothing to steal pushes itself.     *)
GoToSleep(w) ==
  /\ w # Main
  /\ Goto(w, "run", "link")
  /\ Load(w)
  /\ item' = [item EXCEPT ![w] = w]
  /\ UNCHANGED <<sleeperStack, nextSleeper, newHead, stack>>

(* publishWork() has nothing left for the sleeper it has taken.              *)
PutBack(w) ==
  /\ Goto(w, "holds", "link")
  /\ Load(w)
  /\ UNCHANGED <<sleeperStack, nextSleeper, newHead, item, stack>>

StoreNext(w) ==
  /\ Goto(w, "link", "push")
  /\ nextSleeper' = [nextSleeper EXCEPT ![item[w]] = stackState[w].top]
  /\ UNCHANGED <<sleeperStack, locals, stack>>

Push(w) ==
  /\ Goto(w, "push", IF item[w] = w THEN "asleep" ELSE "run")
  /\ Exchange(w, item[w])
  /\ stack' = <<item[w]>> \o stack
  /\ item' = [item EXCEPT ![w] = None]
  /\ UNCHANGED <<nextSleeper, stackState, newHead>>

(* The exchange fails, spuriously or because the word has changed.           *)
PushFails(w) ==
  /\ Goto(w, "push", "link")
  /\ Load(w)
  /\ UNCHANGED <<sleeperStack, nextSleeper, newHead, item, stack>>

------------------------------------------------------------------------------
(* popSleeper() and what publishWork() does with the sleeper                 *)

(* An empty stack ends publishWork(), before or in the loop.                 *)
Look(w, from) ==
  /\ Goto(w, from, IF sleeperStack.top = None THEN "run" ELSE "next")
  /\ Load(w)
  /\ UNCHANGED <<sleeperStack, nextSleeper, newHead, item, stack>>

StartPop(w) == Look(w, "run")
PopFails(w) == Look(w, "pop")

LoadNext(w) ==
  /\ Goto(w, "next", "pop")
  /\ newHead' = [newHead EXCEPT ![w] = nextSleeper[stackState[w].top]]
  /\ UNCHANGED <<sleeperStack, nextSleeper, stackState, item, stack>>

(* A worker is taken without a look at whether the word has changed.         *)
PopMut(w) ==
  /\ Goto(w, "pop", "unlink")
  /\ sleeperStack.tag < MaxTag
  /\ sleeperStack' = [tag |-> sleeperStack.tag + 1, top |-> newHead[w]]
  /\ stack' = IF stack = <<>> THEN stack ELSE Tail(stack)
  /\ item' = [item EXCEPT ![w] = stackState[w].top]
  /\ UNCHANGED <<nextSleeper, stackState, newHead>>

Pop(w) ==
  /\ Goto(w, "pop", "unlink")
  /\ Exchange(w, newHead[w])
  /\ stack' = Tail(stack)
  /\ item' = [item EXCEPT ![w] = stackState[w].top]
  /\ UNCHANGED <<nextSleeper, stackState, newHead>>

ClearNext(w) ==
  /\ Goto(w, "unlink", "holds")
  /\ nextSleeper' = [nextSleeper EXCEPT ![item[w]] = None]
  /\ UNCHANGED <<sleeperStack, locals, stack>>

(* injectTaskAndNotify(): the sleeper wakes, and publishWork() may go on to  *)
(* the next.                                                                 *)
Inject(w) ==
  /\ pc[w] = "holds"
  /\ pc' = [pc EXCEPT ![w] = "run", ![item[w]] = "run"]
  /\ item' = [item EXCEPT ![w] = None]
  /\ UNCHANGED <<sleeperStack, nextSleeper, stackState, newHead, stack>>

Next == \E w \in Workers :
          \/ GoToSleep(w) \/ PutBack(w) \/ StoreNext(w) \/ Push(w) \/ PushFails(w)
          \/ StartPop(w) \/ PopFails(w) \/ LoadNext(w) \/ Pop(w) \/ ClearNext(w)
          \/ Inject(w)

Spec == Init /\ [][Next]_vars

------------------------------------------------------------------------------
(* The variables have their types, and a worker has another, or itself, in   *)
(* hand exactly between the two ends of a push or a pop.                     *)
TypeOK ==
  /\ sleeperStack \in [tag : 0 .. MaxTag, top : Workers \cup {None}]
  /\ nextSleeper \in [Workers -> Workers \cup {None}]
  /\ pc \in [Workers -> PC]
  /\ stackState \in [Workers -> [tag : 0 .. MaxTag, top : Workers \cup {None}]]
  /\ newHead \in [Workers -> Workers \cup {None}]
  /\ item \in [Workers -> Workers \cup {None}]
  /\ \A w \in Workers : item[w] # None <=> pc[w] \in Handling
  /\ stack \in Seq(Workers)

OnStack(d) == \E i \in 1 .. Len(stack) : stack[i] = d

(* The word and the links lead through exactly the workers that have been    *)
(* pushed and not popped: no popSleeper() that read a link of a worker that  *)
(* has left the stack and come back (HighsSplitDeque.h:136-144) succeeds.    *)
LinksAreStack ==
  /\ sleeperStack.top = IF stack = <<>> THEN None ELSE stack[1]
  /\ \A i \in 1 .. Len(stack) :
       nextSleeper[stack[i]] = IF i = Len(stack) THEN None ELSE stack[i + 1]

(* A sleeping worker is on the stack or in the hands of one publisher, so    *)
(* that publishWork() can still find it, and it is injected one task only.   *)
SleeperIsFindable ==
  \A d \in Workers :
    pc[d] = "asleep" =>
      IF OnStack(d) THEN \A w \in Workers : item[w] # d
      ELSE \E w \in Workers : /\ item[w] = d
                            /\ \A v \in Workers : item[v] = d => v = w

(* A worker on the stack, or popped from it, is asleep, and is there once.   *)
PooledIsAsleep ==
  /\ \A i \in 1 .. Len(stack) :
       /\ pc[stack[i]] = "asleep"
       /\ \A j \in 1 .. Len(stack) : stack[i] = stack[j] => i = j
  /\ \A w, d \in Workers : item[w] = d /\ w # d => pc[d] = "asleep"

place == [d \in Workers |->
            IF OnStack(d) THEN "pool"
            ELSE IF \E w \in Workers \ {d} : item[w] = d
                 THEN CHOOSE w \in Workers \ {d} : item[w] = d
                 ELSE "awake"]

Pool == INSTANCE SleeperPool

(* The stack is a pool from which each sleeper is taken by one publisher.    *)
Refinement == Pool!Spec
------------------------------------------------------------------------------
(* The inductive invariant behind the properties above.                      *)

(* A worker in the hands of another is there alone, asleep and off the       *)
(* stack; one in its own hands is on its way to sleep.                       *)
ItemInv ==
  /\ \A v, w \in Workers : item[v] = item[w] /\ item[v] # None => v = w
  /\ \A w \in Workers : item[w] # None => ~OnStack(item[w])
  /\ \A w \in Workers : item[w] = w => pc[w] \in {"link", "push"}
  /\ \A d \in Workers :
       pc[d] = "asleep" => OnStack(d) \/ \E w \in Workers : item[w] = d

(* A copy of the word with the same tag is the word, and what its owner has  *)
(* read or stored of the links since then still holds.                       *)
TagInv ==
  \A w \in Workers :
    /\ stackState[w].tag <= sleeperStack.tag
    /\ stackState[w].tag = sleeperStack.tag => stackState[w] = sleeperStack
    /\ pc[w] \in {"next", "pop"} => stackState[w].top # None
    /\ pc[w] = "push" /\ stackState[w] = sleeperStack =>
         nextSleeper[item[w]] = sleeperStack.top
    /\ pc[w] = "pop" /\ stackState[w] = sleeperStack =>
         newHead[w] = nextSleeper[sleeperStack.top]

IInv == TypeOK /\ PooledIsAsleep /\ ItemInv /\ TagInv /\ LinksAreStack
==============================================================================
