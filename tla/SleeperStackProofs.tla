-------------------------- MODULE SleeperStackProofs --------------------------
(* Proofs of SleeperStack's safety invariants and of its refinement of the   *)
(* pool, for any number of workers and any bound on the tag.                 *)
EXTENDS SleeperStack, TLAPS

(* What pushing on a sequence and dropping its head do to its elements.      *)
LEMMA PushedSeq ==
  ASSUME NEW S, NEW q \in Seq(S), NEW d \in S
  PROVE  /\ <<d>> \o q \in Seq(S) /\ Len(<<d>> \o q) = Len(q) + 1
         /\ <<d>> \o q # <<>>
         /\ (<<d>> \o q)[1] = d
         /\ \A i \in 2 .. Len(q) + 1 : (<<d>> \o q)[i] = q[i - 1]
  OBVIOUS

LEMMA PoppedSeq ==
  ASSUME NEW S, NEW q \in Seq(S), q # <<>>
  PROVE  /\ Tail(q) \in Seq(S) /\ Len(Tail(q)) = Len(q) - 1
         /\ Tail(q) = <<>> <=> Len(q) = 1
         /\ q[1] \in S /\ Len(q) \in Nat \ {0}
         /\ \A i \in 1 .. Len(q) - 1 : Tail(q)[i] = q[i + 1]
<1>1. Tail(q) \in Seq(S) /\ Len(q) \in Nat \ {0} /\ q[1] \in S
  OBVIOUS
<1>2. Len(Tail(q)) = Len(q) - 1 /\ \A i \in 1 .. Len(q) - 1 : Tail(q)[i] = q[i + 1]
  OBVIOUS
<1>3. \A r \in Seq(S) : r = <<>> <=> Len(r) = 0
  OBVIOUS
<1>4. Tail(q) = <<>> <=> Len(Tail(q)) = 0
  <2>1. PICK r \in Seq(S) : r = Tail(q)
    BY <1>1
  <2>2. r = <<>> <=> Len(r) = 0
    BY <1>3
  <2>. QED
    BY <2>1, <2>2, Zenon
<1>5. Len(q) - 1 = 0 <=> Len(q) = 1
  BY <1>1
<1>. QED
  BY <1>1, <1>2, <1>4, <1>5, Zenon

(* The state after a step of w that moves it from one place to another.      *)
LEMMA GotoStep ==
  ASSUME TypeOK, NEW w \in Workers, NEW from, NEW to, Goto(w, from, to)
  PROVE  /\ pc[w] = from /\ pc'[w] = to
         /\ \A v \in Workers : v # w => pc'[v] = pc[v]
  BY DEF Goto, TypeOK

(* A step that leaves the word, the links and the stack alone.               *)
Quiet(w) == \/ GoToSleep(w) \/ PutBack(w) \/ PushFails(w) \/ StartPop(w)
            \/ PopFails(w) \/ LoadNext(w) \/ Inject(w)

LEMMA QuietSteps ==
  ASSUME NEW w, Quiet(w)
  PROVE  UNCHANGED <<sleeperStack, nextSleeper, stack>>
  BY DEF Quiet, GoToSleep, PutBack, PushFails, StartPop, PopFails, Look,
     LoadNext, Inject

(* The stack after a Push: the pushed worker is on it, once, and no other    *)
(* has come or gone.                                                         *)
LEMMA PushStep ==
  ASSUME IInv, NEW w \in Workers, Push(w)
  PROVE  /\ item[w] \in Workers /\ ~OnStack(item[w])
         /\ stack' \in Seq(Workers) /\ stack' # <<>> /\ Len(stack') = Len(stack) + 1
         /\ stack'[1] = item[w]
         /\ \A i \in 2 .. Len(stack') : stack'[i] = stack[i - 1]
         /\ \A x : OnStack(x)' <=> OnStack(x) \/ x = item[w]
<1>1. item[w] \in Workers /\ ~OnStack(item[w]) /\ stack \in Seq(Workers)
  BY DEF Push, Goto, IInv, TypeOK, ItemInv, Handling
<1>2. /\ stack' \in Seq(Workers) /\ stack' # <<>> /\ Len(stack') = Len(stack) + 1
      /\ stack'[1] = item[w]
      /\ \A i \in 2 .. Len(stack') : stack'[i] = stack[i - 1]
  BY <1>1, PushedSeq DEF Push
<1>3. ASSUME NEW x PROVE OnStack(x)' <=> OnStack(x) \/ x = item[w]
  <2>1. OnStack(x)' => OnStack(x) \/ x = item[w]
    BY <1>1, <1>2 DEF OnStack
  <2>2. ASSUME OnStack(x) PROVE OnStack(x)'
    <3>1. PICK i \in 1 .. Len(stack) : stack[i] = x
      BY <2>2 DEF OnStack
    <3>2. i + 1 \in 2 .. Len(stack') /\ (i + 1) - 1 = i
      BY <1>1, <1>2, <3>1
    <3>3. stack'[i + 1] = x
      BY <1>2, <3>1, <3>2
    <3>. QED
      BY <3>2, <3>3 DEF OnStack
  <2>3. x = item[w] => OnStack(x)'
    BY <1>1, <1>2 DEF OnStack
  <2>. QED
    BY <2>1, <2>2, <2>3
<1>. QED
  BY <1>1, <1>2, <1>3

(* The stack after a Pop: its top has gone, into the hands of the popper.    *)
LEMMA PopStep ==
  ASSUME IInv, NEW w \in Workers, Pop(w)
  PROVE  /\ stack # <<>> /\ Len(stack) \in Nat \ {0}
         /\ stackState[w] = sleeperStack
         /\ sleeperStack.top = stack[1] /\ stack[1] \in Workers /\ stack[1] # w
         /\ item' = [item EXCEPT ![w] = stack[1]]
         /\ item[w] = None
         /\ OnStack(stack[1])
         /\ \A v \in Workers : item[v] # stack[1]
         /\ stack' \in Seq(Workers) /\ Len(stack') = Len(stack) - 1
         /\ stack' = <<>> <=> Len(stack) = 1
         /\ \A i \in 1 .. Len(stack') : stack'[i] = stack[i + 1]
         /\ \A x : OnStack(x)' <=> OnStack(x) /\ x # stack[1]
<1>0. pc[w] = "pop" /\ stackState[w] = sleeperStack
      /\ stack' = Tail(stack) /\ stack \in Seq(Workers)
      /\ item[w] = None
  BY DEF Pop, Exchange, Goto, IInv, TypeOK, Handling
<1>1. stack # <<>> /\ sleeperStack.top = stack[1]
  BY <1>0 DEF IInv, TagInv, LinksAreStack
<1>2. /\ Len(stack) \in Nat \ {0} /\ stack[1] \in Workers
      /\ stack' \in Seq(Workers) /\ Len(stack') = Len(stack) - 1
      /\ stack' = <<>> <=> Len(stack) = 1
      /\ \A i \in 1 .. Len(stack') : stack'[i] = stack[i + 1]
  BY <1>0, <1>1, PoppedSeq
<1>3. OnStack(stack[1])
  BY <1>2 DEF OnStack
<1>4. \A v \in Workers : item[v] # stack[1]
  BY <1>2, <1>3, WorkersAssumption DEF IInv, ItemInv
<1>5. stack[1] # w
  BY <1>0, <1>2 DEF IInv, PooledIsAsleep
<1>6. item' = [item EXCEPT ![w] = stack[1]]
  BY <1>0, <1>1 DEF Pop
<1>7. ASSUME NEW x PROVE OnStack(x)' <=> OnStack(x) /\ x # stack[1]
  <2>1. ASSUME OnStack(x)' PROVE OnStack(x) /\ x # stack[1]
    <3>1. PICK i \in 1 .. Len(stack') : stack'[i] = x
      BY <2>1 DEF OnStack
    <3>2. i + 1 \in 1 .. Len(stack) /\ i + 1 # 1 /\ 1 \in 1 .. Len(stack)
          /\ stack[i + 1] = x
      BY <1>2, <3>1
    <3>. QED
      BY <3>2 DEF OnStack, IInv, PooledIsAsleep
  <2>2. ASSUME OnStack(x), x # stack[1] PROVE OnStack(x)'
    <3>1. PICK i \in 1 .. Len(stack) : stack[i] = x
      BY <2>2 DEF OnStack
    <3>2. i - 1 \in 1 .. Len(stack') /\ (i - 1) + 1 = i
      BY <1>2, <2>2, <3>1
    <3>3. stack'[i - 1] = x
      BY <1>2, <3>1, <3>2
    <3>. QED
      BY <3>2, <3>3 DEF OnStack
  <2>. QED
    BY <2>1, <2>2
<1>. QED
  BY <1>0, <1>1, <1>2, <1>3, <1>4, <1>5, <1>6, <1>7

(* The one that is injected is not its injector, and only it wakes.          *)
LEMMA InjectStep ==
  ASSUME IInv, NEW w \in Workers, Inject(w)
  PROVE  /\ item[w] \in Workers /\ item[w] # w /\ pc[w] = "holds"
         /\ pc[item[w]] = "asleep" /\ ~OnStack(item[w])
         /\ pc'[w] = "run" /\ pc'[item[w]] = "run"
         /\ \A v \in Workers : v # w /\ v # item[w] => pc'[v] = pc[v]
         /\ item'[w] = None
         /\ \A v \in Workers : v # w => item'[v] = item[v] /\ item[v] # item[w]
<1>1. pc[w] = "holds" /\ item[w] \in Workers /\ item[w] # w /\ ~OnStack(item[w])
  BY DEF Inject, IInv, TypeOK, ItemInv, Handling
<1>2. pc[item[w]] = "asleep"
  BY <1>1 DEF IInv, PooledIsAsleep
<1>3. /\ pc'[w] = "run" /\ pc'[item[w]] = "run"
      /\ \A v \in Workers : v # w /\ v # item[w] => pc'[v] = pc[v]
  BY <1>1 DEF Inject, IInv, TypeOK
<1>4. /\ item'[w] = None
      /\ \A v \in Workers : v # w => item'[v] = item[v] /\ item[v] # item[w]
  BY <1>1, WorkersAssumption DEF Inject, IInv, TypeOK, ItemInv
<1>. QED
  BY <1>1, <1>2, <1>3, <1>4

LEMMA TypeStep == IInv /\ [Next]_vars => TypeOK'
<1> SUFFICES ASSUME IInv, [Next]_vars PROVE TypeOK'
  OBVIOUS
<1>0. TypeOK
  BY DEF IInv
<1>1. ASSUME NEW w \in Workers, GoToSleep(w) PROVE TypeOK'
  BY <1>0, <1>1, WorkersAssumption DEF GoToSleep, Goto, Load, TypeOK, PC, Handling
<1>2. ASSUME NEW w \in Workers, PutBack(w) \/ PushFails(w) PROVE TypeOK'
  <2>1. /\ pc[w] \in Handling /\ pc' = [pc EXCEPT ![w] = "link"]
        /\ stackState' = [stackState EXCEPT ![w] = sleeperStack]
        /\ UNCHANGED <<sleeperStack, nextSleeper, newHead, item, stack>>
    BY <1>2 DEF PutBack, PushFails, Goto, Load, Handling
  <2>. QED
    BY <1>0, <2>1 DEF TypeOK, PC, Handling
<1>3. ASSUME NEW w \in Workers, StoreNext(w) PROVE TypeOK'
  BY <1>0, <1>3 DEF StoreNext, Goto, TypeOK, PC, Handling, locals
<1>4. ASSUME NEW w \in Workers, Push(w) PROVE TypeOK'
  <2>1. stack' \in Seq(Workers) /\ item[w] \in Workers
    BY <1>4, PushStep
  <2>2. sleeperStack' \in [tag : 0 .. MaxTag, top : Workers \cup {None}]
    BY <1>0, <1>4, <2>1, WorkersAssumption DEF Push, Exchange, TypeOK
  <2>. QED
    BY <1>0, <1>4, <2>1, <2>2, WorkersAssumption DEF Push, Goto, TypeOK, PC, Handling
<1>5. ASSUME NEW w \in Workers, StartPop(w) \/ PopFails(w) PROVE TypeOK'
  <2>1. PICK to \in {"run", "next"} : pc' = [pc EXCEPT ![w] = to]
    BY <1>5 DEF StartPop, PopFails, Look, Goto
  <2>2. /\ pc[w] \notin Handling
        /\ stackState' = [stackState EXCEPT ![w] = sleeperStack]
        /\ UNCHANGED <<sleeperStack, nextSleeper, newHead, item, stack>>
    BY <1>5 DEF StartPop, PopFails, Look, Goto, Load, Handling
  <2>. QED
    BY <1>0, <2>1, <2>2 DEF TypeOK, PC, Handling
<1>6. ASSUME NEW w \in Workers, LoadNext(w) PROVE TypeOK'
  <2>1. stackState[w].top \in Workers
    BY <1>0, <1>6 DEF LoadNext, Goto, IInv, TagInv, TypeOK
  <2>. QED
    BY <1>0, <1>6, <2>1 DEF LoadNext, Goto, TypeOK, PC, Handling
<1>7. ASSUME NEW w \in Workers, Pop(w) PROVE TypeOK'
  <2>1. stack' \in Seq(Workers) /\ stack[1] \in Workers
        /\ item' = [item EXCEPT ![w] = stack[1]]
    BY <1>7, PopStep
  <2>2. sleeperStack' \in [tag : 0 .. MaxTag, top : Workers \cup {None}]
    BY <1>0, <1>7, WorkersAssumption DEF Pop, Exchange, TypeOK
  <2>. QED
    BY <1>0, <1>7, <2>1, <2>2, WorkersAssumption DEF Pop, Goto, TypeOK, PC, Handling
<1>8. ASSUME NEW w \in Workers, ClearNext(w) PROVE TypeOK'
  BY <1>0, <1>8 DEF ClearNext, Goto, TypeOK, PC, Handling, locals
<1>9. ASSUME NEW w \in Workers, Inject(w) PROVE TypeOK'
  <2>1. item[w] \in Workers /\ item[w] # w /\ pc[item[w]] = "asleep"
    BY <1>9, InjectStep
  <2>2. pc' \in [Workers -> PC] /\ item' \in [Workers -> Workers \cup {None}]
    BY <1>0, <1>9, <2>1 DEF Inject, TypeOK, PC
  <2>3. \A v \in Workers : item'[v] # None <=> pc'[v] \in Handling
    BY <1>0, <1>9, <2>1, InjectStep DEF TypeOK, Handling
  <2>. QED
    BY <1>0, <1>9, <2>2, <2>3 DEF Inject, TypeOK, locals
<1>10. ASSUME UNCHANGED vars PROVE TypeOK'
  BY <1>0, <1>10 DEF vars, locals, TypeOK
<1>. QED
  BY <1>1, <1>2, <1>3, <1>4, <1>5, <1>6, <1>7, <1>8, <1>9, <1>10 DEF Next

LEMMA PooledStep == IInv /\ [Next]_vars => PooledIsAsleep'
<1> SUFFICES ASSUME IInv, [Next]_vars PROVE PooledIsAsleep'
  OBVIOUS
<1>0. TypeOK
  BY DEF IInv
<1>1. ASSUME NEW w \in Workers, GoToSleep(w) PROVE PooledIsAsleep'
  <2>1. pc[w] = "run" /\ item' = [item EXCEPT ![w] = w] /\ stack' = stack
        /\ \A v \in Workers : v # w => pc'[v] = pc[v]
    BY <1>0, <1>1, GotoStep DEF GoToSleep
  <2>2. \A i \in 1 .. Len(stack) : stack[i] \in Workers
    BY <1>0 DEF TypeOK
  <2>. QED
    BY <1>0, <2>1, <2>2 DEF IInv, PooledIsAsleep, TypeOK
<1>2. ASSUME NEW w \in Workers, NEW to,
             pc[w] # "asleep", pc' = [pc EXCEPT ![w] = to],
             UNCHANGED <<item, stack>>
      PROVE  PooledIsAsleep'
  BY <1>0, <1>2 DEF IInv, PooledIsAsleep, TypeOK
<1>3. ASSUME NEW w \in Workers,
             \/ PutBack(w) \/ StoreNext(w) \/ PushFails(w) \/ StartPop(w)
             \/ PopFails(w) \/ LoadNext(w) \/ ClearNext(w)
      PROVE  PooledIsAsleep'
  <2>1. pc[w] # "asleep" /\ UNCHANGED <<item, stack>>
    BY <1>3 DEF PutBack, StoreNext, PushFails, StartPop, PopFails, Look, LoadNext,
       ClearNext, Goto, locals
  <2>2. \E to : pc' = [pc EXCEPT ![w] = to]
    BY <1>3 DEF PutBack, StoreNext, PushFails, StartPop, PopFails, Look, LoadNext,
       ClearNext, Goto
  <2>. QED
    BY <1>2, <2>1, <2>2
<1>4. ASSUME NEW w \in Workers, Push(w) PROVE PooledIsAsleep'
  <2> DEFINE d == item[w]
  <2>1. /\ d \in Workers /\ pc[w] = "push"
        /\ item' = [item EXCEPT ![w] = None]
        /\ pc'[d] = "asleep"
        /\ \A v \in Workers : v # w => pc'[v] = pc[v]
    <3>1. d \in Workers /\ item' = [item EXCEPT ![w] = None] /\ pc[w] = "push"
      BY <1>4, PushStep DEF Push, Goto
    <3>2. /\ pc'[w] = IF d = w THEN "asleep" ELSE "run"
          /\ \A v \in Workers : v # w => pc'[v] = pc[v]
      BY <1>0, <1>4, GotoStep DEF Push
    <3>3. d # w => pc[d] = "asleep"
      BY <3>1 DEF IInv, PooledIsAsleep
    <3>. QED
      BY <3>1, <3>2, <3>3
  <2>2. \A v, x \in Workers : item'[v] = x /\ v # x => pc'[x] = "asleep"
    BY <1>0, <2>1, WorkersAssumption DEF IInv, PooledIsAsleep, TypeOK
  <2>3. /\ Len(stack) \in Nat /\ Len(stack') = Len(stack) + 1
        /\ stack'[1] = d /\ ~OnStack(d)
        /\ \A i \in 2 .. Len(stack') : stack'[i] = stack[i - 1]
    BY <1>0, <1>4, PushStep DEF TypeOK
  <2>4. \A i \in 2 .. Len(stack') :
          i - 1 \in 1 .. Len(stack) /\ stack[i - 1] # d
    BY <2>3 DEF OnStack
  <2>5. ASSUME NEW i \in 1 .. Len(stack') PROVE pc'[stack'[i]] = "asleep"
    <3>1. CASE i = 1
      BY <2>1, <2>3, <3>1
    <3>2. CASE i # 1
      <4>1. stack'[i] = stack[i - 1] /\ i - 1 \in 1 .. Len(stack)
        BY <2>3, <2>4, <3>2
      <4>2. stack[i - 1] \in Workers /\ pc[stack[i - 1]] = "asleep"
        BY <1>0, <4>1 DEF TypeOK, IInv, PooledIsAsleep
      <4>. QED
        BY <2>1, <4>1, <4>2
    <3>. QED
      BY <3>1, <3>2
  <2>6. ASSUME NEW i \in 1 .. Len(stack'), NEW j \in 1 .. Len(stack'),
               stack'[i] = stack'[j]
        PROVE  i = j
    <3>1. CASE i = 1 \/ j = 1
      BY <2>3, <2>4, <2>6, <3>1
    <3>2. CASE i # 1 /\ j # 1
      <4>1. i - 1 \in 1 .. Len(stack) /\ j - 1 \in 1 .. Len(stack)
            /\ stack[i - 1] = stack[j - 1]
        BY <2>3, <2>4, <2>6, <3>2
      <4>2. i - 1 = j - 1
        BY <4>1 DEF IInv, PooledIsAsleep
      <4>. QED
        BY <4>2
    <3>. QED
      BY <3>1, <3>2
  <2>. QED
    BY <2>2, <2>5, <2>6 DEF PooledIsAsleep
<1>5. ASSUME NEW w \in Workers, Pop(w) PROVE PooledIsAsleep'
  <2>1. /\ pc[w] = "pop"
        /\ item' = [item EXCEPT ![w] = stack[1]]
        /\ stack[1] \in Workers /\ stack[1] # w
        /\ Len(stack) \in Nat \ {0} /\ Len(stack') = Len(stack) - 1
        /\ \A i \in 1 .. Len(stack') : stack'[i] = stack[i + 1]
    BY <1>5, PopStep DEF Pop, Goto
  <2>2. \A v \in Workers : pc[v] = "asleep" => pc'[v] = "asleep"
    BY <1>0, <1>5, <2>1, GotoStep DEF Pop
  <2>3. \A i \in 1 .. Len(stack) : stack[i] \in Workers /\ pc'[stack[i]] = "asleep"
    BY <1>0, <2>2 DEF TypeOK, IInv, PooledIsAsleep
  <2>4. \A v, x \in Workers : item'[v] = x /\ v # x => pc'[x] = "asleep"
    <3>1. 1 \in 1 .. Len(stack)
      BY <2>1
    <3>. QED
      BY <1>0, <2>1, <2>2, <2>3, <3>1 DEF IInv, PooledIsAsleep, TypeOK
  <2>5. \A i \in 1 .. Len(stack') : i + 1 \in 1 .. Len(stack)
    BY <2>1
  <2>6. \A i, j \in 1 .. Len(stack') : stack'[i] = stack'[j] => i = j
    <3>1. \A i, j \in 1 .. Len(stack') : stack'[i] = stack'[j] => i + 1 = j + 1
      BY <2>1, <2>5 DEF IInv, PooledIsAsleep
    <3>. QED
      BY <3>1
  <2>. QED
    BY <2>1, <2>3, <2>4, <2>5, <2>6 DEF PooledIsAsleep
<1>6. ASSUME NEW w \in Workers, Inject(w) PROVE PooledIsAsleep'
  <2>1. /\ pc[w] = "holds" /\ item[w] \in Workers /\ ~OnStack(item[w])
        /\ \A v \in Workers : v # w /\ v # item[w] => pc'[v] = pc[v]
        /\ item'[w] = None
        /\ \A v \in Workers : v # w => item'[v] = item[v] /\ item[v] # item[w]
        /\ stack' = stack
    BY <1>6, InjectStep DEF Inject
  <2>2. \A i \in 1 .. Len(stack) :
          stack[i] \in Workers /\ stack[i] # item[w] /\ pc[stack[i]] = "asleep"
    BY <1>0, <2>1 DEF TypeOK, OnStack, IInv, PooledIsAsleep
  <2>3. \A i \in 1 .. Len(stack) : pc'[stack[i]] = "asleep"
    BY <2>1, <2>2
  <2>4. \A v, x \in Workers : item'[v] = x /\ v # x => pc'[x] = "asleep"
    BY <2>1, WorkersAssumption DEF IInv, PooledIsAsleep
  <2>. QED
    BY <2>1, <2>3, <2>4 DEF IInv, PooledIsAsleep
<1>7. ASSUME UNCHANGED vars PROVE PooledIsAsleep'
  BY <1>7 DEF vars, locals, IInv, PooledIsAsleep
<1>. QED
  BY <1>1, <1>3, <1>4, <1>5, <1>6, <1>7 DEF Next

LEMMA ItemStep == IInv /\ [Next]_vars => ItemInv'
<1> SUFFICES ASSUME IInv, [Next]_vars PROVE ItemInv'
  OBVIOUS
<1>0. TypeOK
  BY DEF IInv
<1>1. ASSUME NEW w \in Workers, GoToSleep(w) PROVE ItemInv'
  <2>1. /\ pc[w] = "run" /\ pc'[w] = "link"
        /\ \A v \in Workers : v # w => pc'[v] = pc[v]
        /\ item[w] = None /\ item'[w] = w
        /\ \A v \in Workers : v # w => item'[v] = item[v]
        /\ stack' = stack
    <3>1. /\ pc[w] = "run" /\ pc'[w] = "link"
          /\ \A v \in Workers : v # w => pc'[v] = pc[v]
      BY <1>0, <1>1, GotoStep DEF GoToSleep
    <3>2. item[w] = None
      BY <1>0, <3>1 DEF TypeOK, Handling
    <3>. QED
      BY <1>0, <1>1, <3>1, <3>2 DEF GoToSleep, TypeOK
  <2>2. \A v \in Workers : item[v] # w
    BY <2>1, WorkersAssumption DEF IInv, PooledIsAsleep
  <2>3. ~OnStack(w)
    BY <2>1 DEF OnStack, IInv, PooledIsAsleep
  <2>4. \A x : OnStack(x)' <=> OnStack(x)
    BY <2>1 DEF OnStack
  <2>. QED
    BY <2>1, <2>2, <2>3, <2>4, WorkersAssumption DEF IInv, ItemInv
<1>2. ASSUME NEW w \in Workers, NEW to,
             pc[w] # "asleep", to # "asleep", pc' = [pc EXCEPT ![w] = to],
             item[w] = w => to \in {"link", "push"},
             UNCHANGED <<item, stack>>
      PROVE  ItemInv'
  <2>1. \A x : OnStack(x)' <=> OnStack(x)
    BY <1>2 DEF OnStack
  <2>2. pc'[w] = to /\ \A v \in Workers : v # w => pc'[v] = pc[v]
    BY <1>0, <1>2 DEF TypeOK
  <2>. QED
    BY <1>2, <2>1, <2>2 DEF IInv, ItemInv
<1>3. ASSUME NEW w \in Workers,
             \/ PutBack(w) \/ StoreNext(w) \/ PushFails(w) \/ StartPop(w)
             \/ PopFails(w) \/ LoadNext(w) \/ ClearNext(w)
      PROVE  ItemInv'
  <2>1. UNCHANGED <<item, stack>>
    BY <1>3 DEF PutBack, StoreNext, PushFails, StartPop, PopFails, Look, LoadNext,
       ClearNext, Goto, locals
  <2>2. item[w] = w => pc[w] \in {"link", "push"}
    BY DEF IInv, ItemInv
  <2>3. \E to : /\ pc' = [pc EXCEPT ![w] = to] /\ pc[w] # "asleep" /\ to # "asleep"
                /\ pc[w] \in {"link", "push"} => to \in {"link", "push"}
    BY <1>3 DEF PutBack, StoreNext, PushFails, StartPop, PopFails, Look, LoadNext,
       ClearNext, Goto
  <2>. QED
    BY <1>2, <2>1, <2>2, <2>3
<1>4. ASSUME NEW w \in Workers, Push(w) PROVE ItemInv'
  <2> DEFINE d == item[w]
  <2>1. /\ d \in Workers
        /\ item'[w] = None /\ \A v \in Workers : v # w => item'[v] = item[v]
        /\ \A x : OnStack(x)' <=> OnStack(x) \/ x = d
    BY <1>0, <1>4, PushStep DEF Push, TypeOK
  <2>2. /\ pc'[w] = IF d = w THEN "asleep" ELSE "run"
        /\ \A v \in Workers : v # w => pc'[v] = pc[v]
    BY <1>0, <1>4, GotoStep DEF Push
  <2>3. \A v \in Workers : v # w => item[v] # d
    BY <2>1, WorkersAssumption DEF IInv, ItemInv
  <2>4. ASSUME NEW x \in Workers, pc'[x] = "asleep"
        PROVE  OnStack(x)' \/ \E v \in Workers : item'[v] = x
    <3>1. CASE x = d
      BY <2>1, <3>1
    <3>2. CASE x # d
      <4>1. x # w /\ pc[x] = "asleep"
        BY <2>2, <2>4, <3>2
      <4>2. OnStack(x) \/ \E v \in Workers : item[v] = x
        BY <4>1 DEF IInv, ItemInv
      <4>. QED
        BY <2>1, <3>2, <4>2
    <3>. QED
      BY <3>1, <3>2
  <2>. QED
    BY <2>1, <2>2, <2>3, <2>4, WorkersAssumption DEF IInv, ItemInv
<1>5. ASSUME NEW w \in Workers, Pop(w) PROVE ItemInv'
  <2> DEFINE d == stack[1]
  <2>1. /\ d \in Workers /\ d # w /\ item[w] = None /\ item' = [item EXCEPT ![w] = d]
        /\ \A v \in Workers : item[v] # d
        /\ \A x : OnStack(x)' <=> OnStack(x) /\ x # d
    BY <1>5, PopStep
  <2>2. item'[w] = d /\ \A v \in Workers : v # w => item'[v] = item[v]
    BY <1>0, <2>1 DEF TypeOK
  <2>3. /\ pc'[w] = "unlink" /\ \A v \in Workers : v # w => pc'[v] = pc[v]
    BY <1>0, <1>5, GotoStep DEF Pop
  <2>. QED
    BY <2>1, <2>2, <2>3, WorkersAssumption DEF IInv, ItemInv
<1>6. ASSUME NEW w \in Workers, Inject(w) PROVE ItemInv'
  <2>1. /\ item[w] \in Workers
        /\ pc'[w] = "run" /\ pc'[item[w]] = "run"
        /\ \A v \in Workers : v # w /\ v # item[w] => pc'[v] = pc[v]
        /\ item'[w] = None
        /\ \A v \in Workers : v # w => item'[v] = item[v] /\ item[v] # item[w]
    BY <1>6, InjectStep
  <2>2. \A x : OnStack(x)' <=> OnStack(x)
    BY <1>6 DEF Inject, OnStack
  <2>3. \A v \in Workers : item'[v] = v => pc'[v] \in {"link", "push"}
    <3>1. ASSUME NEW v \in Workers, item'[v] = v PROVE pc'[v] \in {"link", "push"}
      <4>1. v # w /\ v # item[w] /\ item[v] = v
        BY <2>1, <3>1, WorkersAssumption
      <4>. QED
        BY <2>1, <4>1 DEF IInv, ItemInv
    <3>. QED
      BY <3>1
  <2>4. \A x \in Workers :
          pc'[x] = "asleep" => OnStack(x)' \/ \E v \in Workers : item'[v] = x
    <3>1. ASSUME NEW x \in Workers, pc'[x] = "asleep"
          PROVE  OnStack(x)' \/ \E v \in Workers : item'[v] = x
      <4>1. x # w /\ x # item[w] /\ pc[x] = "asleep"
        BY <2>1, <3>1
      <4>2. OnStack(x) \/ \E v \in Workers : item[v] = x
        BY <4>1 DEF IInv, ItemInv
      <4>. QED
        BY <2>1, <2>2, <4>1, <4>2
    <3>. QED
      BY <3>1
  <2>. QED
    BY <2>1, <2>2, <2>3, <2>4, WorkersAssumption DEF IInv, ItemInv
<1>7. ASSUME UNCHANGED vars PROVE ItemInv'
  BY <1>7 DEF vars, locals, IInv, ItemInv, OnStack
<1>. QED
  BY <1>1, <1>3, <1>4, <1>5, <1>6, <1>7 DEF Next
(* A link is stored only of a worker that is off the stack and in no other's *)
(* hands.                                                                    *)
LEMMA StoreStep ==
  ASSUME IInv, NEW w \in Workers, StoreNext(w) \/ ClearNext(w)
  PROVE  /\ item[w] \in Workers /\ ~OnStack(item[w])
         /\ \A v \in Workers : v # w => item[v] # item[w]
         /\ \A x \in Workers : x # item[w] => nextSleeper'[x] = nextSleeper[x]
         /\ UNCHANGED <<sleeperStack, stackState, newHead, item, stack>>
<1>1. item[w] \in Workers
  BY DEF StoreNext, ClearNext, Goto, IInv, TypeOK, Handling
<1>2. ~OnStack(item[w]) /\ \A v \in Workers : v # w => item[v] # item[w]
  BY <1>1, WorkersAssumption DEF IInv, ItemInv
<1>3. \A x \in Workers : x # item[w] => nextSleeper'[x] = nextSleeper[x]
  BY <1>1 DEF StoreNext, ClearNext, IInv, TypeOK
<1>. QED
  BY <1>1, <1>2, <1>3 DEF StoreNext, ClearNext, locals

LEMMA LinkStep == IInv /\ [Next]_vars => LinksAreStack'
<1> SUFFICES ASSUME IInv, [Next]_vars PROVE LinksAreStack'
  OBVIOUS
<1>0. TypeOK /\ LinksAreStack
  BY DEF IInv
<1>1. ASSUME UNCHANGED <<sleeperStack, nextSleeper, stack>> PROVE LinksAreStack'
  BY <1>0, <1>1 DEF LinksAreStack
<1>2. ASSUME NEW w \in Workers, StoreNext(w) \/ ClearNext(w) PROVE LinksAreStack'
  <2>1. \A i \in 1 .. Len(stack) : nextSleeper'[stack[i]] = nextSleeper[stack[i]]
    BY <1>0, <1>2, StoreStep DEF OnStack, TypeOK
  <2>. QED
    BY <1>0, <1>2, <2>1, StoreStep DEF LinksAreStack
<1>3. ASSUME NEW w \in Workers, Push(w) PROVE LinksAreStack'
  <2>1. /\ item[w] \in Workers
        /\ stack' # <<>> /\ Len(stack) \in Nat /\ Len(stack') = Len(stack) + 1
        /\ stack'[1] = item[w]
        /\ \A i \in 2 .. Len(stack') : stack'[i] = stack[i - 1]
    BY <1>0, <1>3, PushStep DEF TypeOK
  <2>2. /\ sleeperStack'.top = item[w] /\ nextSleeper' = nextSleeper
        /\ nextSleeper[item[w]] = sleeperStack.top
    BY <1>3 DEF Push, Exchange, Goto, IInv, TagInv
  <2>3. ASSUME NEW i \in 1 .. Len(stack')
        PROVE  nextSleeper'[stack'[i]] = IF i = Len(stack') THEN None ELSE stack'[i + 1]
    <3>1. CASE i = 1
      <4>1. nextSleeper'[stack'[i]] = IF stack = <<>> THEN None ELSE stack[1]
        BY <1>0, <2>1, <2>2, <3>1 DEF LinksAreStack
      <4>2. stack = <<>> <=> Len(stack) = 0
        BY <1>0 DEF TypeOK
      <4>3. Len(stack) # 0 => stack'[2] = stack[1] /\ i # Len(stack')
        BY <2>1, <3>1
      <4>4. i + 1 = 2 /\ (Len(stack) = 0 => i = Len(stack'))
        BY <2>1, <3>1
      <4>. QED
        BY <4>1, <4>2, <4>3, <4>4
    <3>2. CASE i # 1
      <4>1. /\ i \in 2 .. Len(stack') /\ i - 1 \in 1 .. Len(stack)
            /\ i - 1 = Len(stack) <=> i = Len(stack')
            /\ i # Len(stack') => i + 1 \in 2 .. Len(stack') /\ (i + 1) - 1 = (i - 1) + 1
        BY <2>1, <3>2
      <4>2. nextSleeper[stack[i - 1]]
              = IF i - 1 = Len(stack) THEN None ELSE stack[(i - 1) + 1]
        BY <1>0, <4>1 DEF LinksAreStack
      <4>3. stack'[i] = stack[i - 1]
        BY <2>1, <4>1
      <4>4. i # Len(stack') => stack'[i + 1] = stack[(i - 1) + 1]
        BY <2>1, <4>1
      <4>. QED
        BY <2>2, <4>1, <4>2, <4>3, <4>4
    <3>. QED
      BY <3>1, <3>2
  <2>. QED
    BY <2>1, <2>2, <2>3 DEF LinksAreStack
<1>4. ASSUME NEW w \in Workers, Pop(w) PROVE LinksAreStack'
  <2>1. /\ Len(stack) \in Nat \ {0} /\ stackState[w] = sleeperStack
        /\ sleeperStack.top = stack[1] /\ Len(stack') = Len(stack) - 1
        /\ stack' = <<>> <=> Len(stack) = 1
        /\ \A i \in 1 .. Len(stack') : stack'[i] = stack[i + 1]
    BY <1>4, PopStep
  <2>2. /\ sleeperStack'.top = newHead[w] /\ nextSleeper' = nextSleeper
        /\ newHead[w] = nextSleeper[stack[1]]
    BY <1>4, <2>1 DEF Pop, Exchange, Goto, IInv, TagInv
  <2>3. newHead[w] = IF Len(stack) = 1 THEN None ELSE stack[2]
    <3>1. 1 \in 1 .. Len(stack) /\ 1 + 1 = 2
      BY <2>1
    <3>. QED
      BY <1>0, <2>2, <3>1 DEF LinksAreStack
  <2>4. Len(stack) # 1 => 1 \in 1 .. Len(stack') /\ stack'[1] = stack[2]
    BY <2>1
  <2>5. ASSUME NEW i \in 1 .. Len(stack')
        PROVE  nextSleeper'[stack'[i]] = IF i = Len(stack') THEN None ELSE stack'[i + 1]
    <3>1. /\ i + 1 \in 1 .. Len(stack) /\ stack'[i] = stack[i + 1]
          /\ i + 1 = Len(stack) <=> i = Len(stack')
      BY <2>1
    <3>2. i # Len(stack') => stack'[i + 1] = stack[(i + 1) + 1]
      BY <2>1
    <3>3. nextSleeper[stack[i + 1]]
            = IF i + 1 = Len(stack) THEN None ELSE stack[(i + 1) + 1]
      BY <1>0, <3>1 DEF LinksAreStack
    <3>. QED
      BY <2>2, <3>1, <3>2, <3>3
  <2>6. sleeperStack'.top = IF stack' = <<>> THEN None ELSE stack'[1]
    BY <2>1, <2>2, <2>3, <2>4
  <2>. QED
    BY <2>5, <2>6 DEF LinksAreStack
<1>. QED
  BY <1>1, <1>2, <1>3, <1>4, QuietSteps DEF Next, Quiet, vars

(* What TagInv says of one worker.                                           *)
Tagged(w) ==
  /\ stackState[w].tag <= sleeperStack.tag
  /\ stackState[w].tag = sleeperStack.tag => stackState[w] = sleeperStack
  /\ pc[w] \in {"next", "pop"} => stackState[w].top # None
  /\ pc[w] = "push" /\ stackState[w] = sleeperStack =>
       nextSleeper[item[w]] = sleeperStack.top
  /\ pc[w] = "pop" /\ stackState[w] = sleeperStack =>
       newHead[w] = nextSleeper[sleeperStack.top]

LEMMA TopIsOnStack ==
  ASSUME IInv, sleeperStack.top # None
  PROVE  OnStack(sleeperStack.top)
<1>1. stack # <<>> /\ sleeperStack.top = stack[1] /\ stack \in Seq(Workers)
  BY DEF IInv, TypeOK, LinksAreStack
<1>2. 1 \in 1 .. Len(stack)
  BY <1>1
<1>. QED
  BY <1>1, <1>2 DEF OnStack

LEMMA TagStep == IInv /\ [Next]_vars => TagInv'
<1> SUFFICES ASSUME IInv, [Next]_vars PROVE TagInv'
  OBVIOUS
<1>0. TypeOK /\ \A v \in Workers : Tagged(v)
  BY DEF IInv, TagInv, Tagged
<1> SUFFICES ASSUME NEW v \in Workers PROVE Tagged(v)'
  BY DEF TagInv, Tagged
<1>1. ASSUME UNCHANGED <<sleeperStack, nextSleeper>>,
             stackState'[v] = stackState[v], newHead'[v] = newHead[v],
             pc'[v] = pc[v] \/ pc'[v] \notin {"next", "push", "pop"},
             pc[v] = "push" => item'[v] = item[v]
      PROVE  Tagged(v)'
  BY <1>0, <1>1 DEF Tagged
<1>2. ASSUME stackState'[v] = sleeperStack, sleeperStack' = sleeperStack,
             pc'[v] = "next" => sleeperStack.top # None,
             pc'[v] \notin {"push", "pop"}
      PROVE  Tagged(v)'
  BY <1>0, <1>2 DEF Tagged, TypeOK
<1>3. ASSUME NEW w \in Workers, GoToSleep(w) \/ PutBack(w) \/ PushFails(w)
      PROVE  Tagged(v)'
  <2>1. /\ UNCHANGED <<sleeperStack, nextSleeper, newHead>>
        /\ pc' = [pc EXCEPT ![w] = "link"]
        /\ stackState' = [stackState EXCEPT ![w] = sleeperStack]
        /\ v # w => item'[v] = item[v]
    BY <1>0, <1>3 DEF GoToSleep, PutBack, PushFails, Goto, Load, TypeOK
  <2>2. CASE v = w
    BY <1>0, <1>2, <2>1, <2>2 DEF TypeOK
  <2>3. CASE v # w
    BY <1>0, <1>1, <2>1, <2>3 DEF TypeOK
  <2>. QED
    BY <2>2, <2>3
<1>4. ASSUME NEW w \in Workers, StartPop(w) \/ PopFails(w)
      PROVE  Tagged(v)'
  <2>1. /\ UNCHANGED <<sleeperStack, nextSleeper, newHead, item>>
        /\ pc' = [pc EXCEPT ![w] = IF sleeperStack.top = None THEN "run" ELSE "next"]
        /\ stackState' = [stackState EXCEPT ![w] = sleeperStack]
    BY <1>4 DEF StartPop, PopFails, Look, Goto, Load
  <2>2. CASE v = w
    BY <1>0, <1>2, <2>1, <2>2 DEF TypeOK
  <2>3. CASE v # w
    BY <1>0, <1>1, <2>1, <2>3 DEF TypeOK
  <2>. QED
    BY <2>2, <2>3
<1>5. ASSUME NEW w \in Workers, StoreNext(w) PROVE Tagged(v)'
  <2>1. /\ item[w] \in Workers /\ ~OnStack(item[w])
        /\ \A x \in Workers : x # w => item[x] # item[w]
        /\ \A x \in Workers : x # item[w] => nextSleeper'[x] = nextSleeper[x]
        /\ UNCHANGED <<sleeperStack, stackState, newHead, item>>
    BY <1>5, StoreStep
  <2>2. /\ pc'[w] = "push" /\ pc[w] = "link"
        /\ \A x \in Workers : x # w => pc'[x] = pc[x]
        /\ nextSleeper'[item[w]] = stackState[w].top
    BY <1>0, <1>5, <2>1, GotoStep DEF StoreNext, TypeOK
  <2>3. CASE v = w
    BY <1>0, <2>1, <2>2, <2>3 DEF Tagged
  <2>4. CASE v # w
    <3>1. pc'[v] = pc[v]
      BY <2>2, <2>4
    <3>2. pc[v] = "push" => nextSleeper'[item[v]] = nextSleeper[item[v]]
      <4>1. pc[v] = "push" => item[v] \in Workers
        BY <1>0 DEF TypeOK, Handling
      <4>. QED
        BY <2>1, <2>4, <4>1
    <3>3. sleeperStack.top # None =>
            nextSleeper'[sleeperStack.top] = nextSleeper[sleeperStack.top]
      BY <1>0, <2>1, TopIsOnStack DEF TypeOK
    <3>4. pc[v] = "pop" /\ stackState[v] = sleeperStack => sleeperStack.top # None
      BY <1>0 DEF Tagged
    <3>. QED
      BY <1>0, <2>1, <3>1, <3>2, <3>3, <3>4 DEF Tagged
  <2>. QED
    BY <2>3, <2>4
<1>6. ASSUME NEW w \in Workers, ClearNext(w) PROVE Tagged(v)'
  <2>1. /\ item[w] \in Workers /\ ~OnStack(item[w])
        /\ \A x \in Workers : x # w => item[x] # item[w]
        /\ \A x \in Workers : x # item[w] => nextSleeper'[x] = nextSleeper[x]
        /\ UNCHANGED <<sleeperStack, stackState, newHead, item>>
    BY <1>6, StoreStep
  <2>2. /\ pc'[w] = "holds" /\ pc[w] = "unlink"
        /\ \A x \in Workers : x # w => pc'[x] = pc[x]
    BY <1>0, <1>6, GotoStep DEF ClearNext
  <2>3. CASE v = w
    BY <1>0, <2>1, <2>2, <2>3 DEF Tagged
  <2>4. CASE v # w
    <3>1. pc'[v] = pc[v]
      BY <2>2, <2>4
    <3>2. pc[v] = "push" => nextSleeper'[item[v]] = nextSleeper[item[v]]
      <4>1. pc[v] = "push" => item[v] \in Workers
        BY <1>0 DEF TypeOK, Handling
      <4>. QED
        BY <2>1, <2>4, <4>1
    <3>3. sleeperStack.top # None =>
            nextSleeper'[sleeperStack.top] = nextSleeper[sleeperStack.top]
      BY <1>0, <2>1, TopIsOnStack DEF TypeOK
    <3>4. pc[v] = "pop" /\ stackState[v] = sleeperStack => sleeperStack.top # None
      BY <1>0 DEF Tagged
    <3>. QED
      BY <1>0, <2>1, <3>1, <3>2, <3>3, <3>4 DEF Tagged
  <2>. QED
    BY <2>3, <2>4
<1>7. ASSUME NEW w \in Workers, LoadNext(w) PROVE Tagged(v)'
  <2>1. /\ UNCHANGED <<sleeperStack, nextSleeper, stackState, item>>
        /\ pc[w] = "next" /\ pc' = [pc EXCEPT ![w] = "pop"]
        /\ newHead' = [newHead EXCEPT ![w] = nextSleeper[stackState[w].top]]
    BY <1>7 DEF LoadNext, Goto
  <2>2. CASE v = w
    BY <1>0, <2>1, <2>2 DEF Tagged, TypeOK
  <2>3. CASE v # w
    BY <1>0, <1>1, <2>1, <2>3 DEF TypeOK
  <2>. QED
    BY <2>2, <2>3
<1>8. ASSUME NEW w \in Workers, Push(w) \/ Pop(w) PROVE Tagged(v)'
  <2>1. PICK t \in Nat : t = sleeperStack.tag
    BY <1>0 DEF TypeOK
  <2>2. PICK u \in Nat : u = stackState[v].tag
    BY <1>0 DEF TypeOK
  <2>3. u <= t
    BY <1>0, <2>1, <2>2 DEF Tagged
  <2>4. sleeperStack'.tag = t + 1 /\ stackState' = stackState
    BY <1>8, <2>1 DEF Push, Pop, Exchange
  <2>5. u <= t + 1 /\ u # t + 1
    BY <2>3
  <2>6. stackState'[v] # sleeperStack'
    BY <2>2, <2>4, <2>5
  <2>7. pc'[v] \in {"next", "pop"} => pc'[v] = pc[v]
    BY <1>0, <1>8 DEF Push, Pop, Goto, TypeOK
  <2>. QED
    BY <1>0, <2>2, <2>4, <2>5, <2>6, <2>7 DEF Tagged
<1>9. ASSUME NEW w \in Workers, Inject(w) PROVE Tagged(v)'
  <2>1. /\ pc'[w] = "run" /\ pc'[item[w]] = "run"
        /\ \A x \in Workers : x # w /\ x # item[w] => pc'[x] = pc[x]
        /\ \A x \in Workers : x # w => item'[x] = item[x]
        /\ pc[w] = "holds"
    BY <1>9, InjectStep
  <2>2. UNCHANGED <<sleeperStack, nextSleeper, stackState, newHead>>
    BY <1>9 DEF Inject
  <2>. QED
    BY <1>1, <2>1, <2>2
<1>10. ASSUME UNCHANGED vars PROVE Tagged(v)'
  BY <1>1, <1>10 DEF vars, locals
<1>. QED
  BY <1>3, <1>4, <1>5, <1>6, <1>7, <1>8, <1>9, <1>10 DEF Next
LEMMA InitInv == Init => IInv
<1> SUFFICES ASSUME Init PROVE IInv
  OBVIOUS
<1>1. TypeOK
  BY WorkersAssumption DEF Init, TypeOK, PC, Handling
<1>2. stack = <<>> /\ Len(stack) = 0
  BY DEF Init
<1>3. PooledIsAsleep /\ LinksAreStack
  BY <1>2, WorkersAssumption DEF Init, PooledIsAsleep, LinksAreStack
<1>4. ItemInv
  BY <1>2, WorkersAssumption DEF Init, ItemInv, OnStack
<1>5. TagInv
  <2>1. /\ sleeperStack.tag = 0 /\ 0 <= 0
        /\ \A w \in Workers : stackState[w] = sleeperStack /\ pc[w] = "run"
    BY DEF Init
  <2>. QED
    BY <2>1 DEF TagInv
<1>. QED
  BY <1>1, <1>3, <1>4, <1>5 DEF IInv

(* In every state the words, the copies and the links agree: the invariant   *)
(* behind pushSleeper() and popSleeper().                                    *)
THEOREM SleeperInvariant == Spec => []IInv
<1>1. IInv /\ [Next]_vars => IInv'
  BY TypeStep, PooledStep, ItemStep, TagStep, LinkStep DEF IInv
<1>. QED
  BY InitInv, <1>1, PTL DEF Spec

(* Every variable keeps to the values that its declaration gives it, for    *)
(* every value of the constants.                                            *)
THEOREM TypeCorrect == Spec => []TypeOK
<1>1. IInv => TypeOK
  BY DEF IInv
<1>. QED
  BY SleeperInvariant, <1>1, PTL

(* The top of the stack and the links lead through the workers that were     *)
(* pushed and not popped, in that order.                                     *)
THEOREM LinksAreStackHolds == Spec => []LinksAreStack
<1>1. IInv => LinksAreStack
  BY DEF IInv
<1>. QED
  BY SleeperInvariant, <1>1, PTL

LEMMA Findable == IInv => SleeperIsFindable
<1> SUFFICES ASSUME IInv, NEW d \in Workers, pc[d] = "asleep"
             PROVE  IF OnStack(d) THEN \A w \in Workers : item[w] # d
                    ELSE \E w \in Workers : /\ item[w] = d
                                           /\ \A v \in Workers : item[v] = d => v = w
  BY DEF SleeperIsFindable
<1>1. CASE OnStack(d)
  BY <1>1, WorkersAssumption DEF IInv, ItemInv
<1>2. CASE ~OnStack(d)
  BY <1>2, WorkersAssumption DEF IInv, ItemInv
<1>. QED
  BY <1>1, <1>2

(* A sleeping worker is on the stack, or exactly one publisher has it.       *)
THEOREM SleeperIsFindableHolds == Spec => []SleeperIsFindable
  BY SleeperInvariant, Findable, PTL

------------------------------------------------------------------------------
(* The refinement: where each worker is, in the pool's terms.                *)

Placed(d, p) ==
  \/ OnStack(d) /\ p = "pool"
  \/ ~OnStack(d) /\ p \in Workers \ {d} /\ item[p] = d
  \/ ~OnStack(d) /\ p = "awake" /\ \A w \in Workers \ {d} : item[w] # d

LEMMA PlaceIs ==
  ASSUME ItemInv, NEW d \in Workers, NEW p, Placed(d, p)
  PROVE  place[d] = p
<1>1. CASE p \in Workers \ {d} /\ item[p] = d /\ ~OnStack(d)
  <2>1. \A w \in Workers \ {d} : item[w] = d => w = p
    BY <1>1, WorkersAssumption DEF ItemInv
  <2>. QED
    BY <1>1, <2>1 DEF place
<1>2. CASE OnStack(d) /\ p = "pool"
  BY <1>2 DEF place
<1>3. CASE ~OnStack(d) /\ p = "awake" /\ \A w \in Workers \ {d} : item[w] # d
  BY <1>3 DEF place
<1>. QED
  BY <1>1, <1>2, <1>3 DEF Placed

LEMMA PlaceIsNext ==
  ASSUME ItemInv', NEW d \in Workers, NEW p, Placed(d, p)'
  PROVE  place'[d] = p
<1>1. CASE p \in Workers \ {d} /\ item'[p] = d /\ ~OnStack(d)'
  <2>1. \A w \in Workers \ {d} : item'[w] = d => w = p
    BY <1>1, WorkersAssumption DEF ItemInv
  <2>. QED
    BY <1>1, <2>1 DEF place
<1>2. CASE OnStack(d)' /\ p = "pool"
  BY <1>2 DEF place
<1>3. CASE ~OnStack(d)' /\ p = "awake" /\ \A w \in Workers \ {d} : item'[w] # d
  BY <1>3 DEF place
<1>. QED
  BY <1>1, <1>2, <1>3 DEF Placed

(* A worker whose place in the stack and in others' hands is what it was has *)
(* not moved.                                                                *)
LEMMA PlaceStays ==
  ASSUME ItemInv, ItemInv', NEW d \in Workers, OnStack(d)' <=> OnStack(d),
         \A w \in Workers \ {d} : item'[w] = d <=> item[w] = d
  PROVE  place'[d] = place[d]
<1>1. PICK p : Placed(d, p)
  BY DEF Placed
<1>2. Placed(d, p)'
  BY <1>1 DEF Placed
<1>. QED
  BY <1>1, <1>2, PlaceIs, PlaceIsNext

(* One that moves and takes no other along is a move of the pool.            *)
LEMMA PlaceMoves ==
  ASSUME ItemInv, ItemInv', NEW d \in Workers, NEW p, Placed(d, p)',
         \A x \in Workers \ {d} :
           /\ OnStack(x)' <=> OnStack(x)
           /\ \A w \in Workers \ {x} : item'[w] = x <=> item[w] = x
  PROVE  place' = [place EXCEPT ![d] = p]
<1>1. place'[d] = p
  BY PlaceIsNext
<1>2. \A x \in Workers \ {d} : place'[x] = place[x]
  BY PlaceStays
<1>3. place = [x \in Workers |-> place[x]] /\ place' = [x \in Workers |-> place'[x]]
  BY DEF place
<1>. QED
  BY <1>1, <1>2, <1>3

LEMMA PoolStep == IInv /\ IInv' /\ [Next]_vars => [Pool!Next]_place
<1> SUFFICES ASSUME IInv, IInv', [Next]_vars PROVE [Pool!Next]_place
  OBVIOUS
<1>0. TypeOK /\ ItemInv /\ ItemInv' /\ PooledIsAsleep
  BY DEF IInv
<1>1. ASSUME UNCHANGED stack,
             \A x \in Workers : \A w \in Workers \ {x} : item'[w] = x <=> item[w] = x
      PROVE  UNCHANGED place
  <2>1. \A x \in Workers : OnStack(x)' <=> OnStack(x)
    BY <1>1 DEF OnStack
  <2>2. \A x \in Workers : place'[x] = place[x]
    BY <1>0, <1>1, <2>1, PlaceStays
  <2>3. place = [x \in Workers |-> place[x]] /\ place' = [x \in Workers |-> place'[x]]
    BY DEF place
  <2>. QED
    BY <2>2, <2>3
<1>2. ASSUME NEW w \in Workers, pc[w] \notin {"asleep"}
      PROVE  place[w] = "awake"
  <2>1. ~OnStack(w)
    BY <1>0, <1>2 DEF OnStack, PooledIsAsleep
  <2>2. \A v \in Workers \ {w} : item[v] # w
    BY <1>0, <1>2 DEF PooledIsAsleep
  <2>. QED
    BY <1>0, <2>1, <2>2, PlaceIs DEF Placed
<1>3. ASSUME NEW w \in Workers, GoToSleep(w) PROVE UNCHANGED place
  <2>1. \A x \in Workers : \A v \in Workers \ {x} : item'[v] = x <=> item[v] = x
    <3>1. item[w] = None
      BY <1>0, <1>3 DEF GoToSleep, Goto, TypeOK, Handling
    <3>. QED
      BY <1>0, <1>3, <3>1, WorkersAssumption DEF GoToSleep, TypeOK
  <2>. QED
    BY <1>1, <1>3, <2>1 DEF GoToSleep
<1>4. ASSUME NEW w \in Workers,
             \/ PutBack(w) \/ StoreNext(w) \/ PushFails(w) \/ StartPop(w)
             \/ PopFails(w) \/ LoadNext(w) \/ ClearNext(w)
      PROVE  UNCHANGED place
  <2>1. UNCHANGED <<item, stack>>
    BY <1>4 DEF PutBack, StoreNext, PushFails, StartPop, PopFails, Look, LoadNext,
       ClearNext, locals
  <2>. QED
    BY <1>1, <2>1
<1>5. ASSUME NEW w \in Workers, Push(w) PROVE Pool!Next
  <2>0. PICK d \in Workers : d = item[w]
    BY <1>5, PushStep
  <2>1. /\ d \in Workers /\ ~OnStack(d) /\ \A x : OnStack(x)' <=> OnStack(x) \/ x = d
        /\ pc[w] = "push" /\ item' = [item EXCEPT ![w] = None]
    BY <1>5, <2>0, PushStep DEF Push, Goto
  <2>2. place' = [place EXCEPT ![d] = "pool"]
    <3>1. Placed(d, "pool")'
      BY <2>1 DEF Placed
    <3>2. \A x \in Workers \ {d} :
            /\ OnStack(x)' <=> OnStack(x)
            /\ \A v \in Workers \ {x} : item'[v] = x <=> item[v] = x
      BY <1>0, <2>0, <2>1, WorkersAssumption DEF TypeOK
    <3>. QED
      BY <1>0, <2>1, <3>1, <3>2, PlaceMoves
  <2>3. place[w] = "awake"
    BY <1>2, <2>1
  <2>4. CASE d = w
    BY <2>1, <2>2, <2>3, <2>4 DEF Pool!Next, Pool!Enter, Pool!Move
  <2>5. CASE d # w
    <3>1. place[d] = w
      BY <1>0, <2>0, <2>1, <2>5, PlaceIs DEF Placed
    <3>. QED
      BY <2>1, <2>2, <2>3, <3>1 DEF Pool!Next, Pool!PutBack, Pool!Move
  <2>. QED
    BY <2>4, <2>5
<1>6. ASSUME NEW w \in Workers, Pop(w) PROVE Pool!Next
  <2>0. PICK d \in Workers : d = stack[1]
    BY <1>6, PopStep
  <2>1. /\ d \in Workers /\ d # w /\ OnStack(d) /\ item[w] = None
        /\ \A x : OnStack(x)' <=> OnStack(x) /\ x # d
        /\ pc[w] = "pop" /\ item' = [item EXCEPT ![w] = d]
    BY <1>6, <2>0, PopStep DEF Pop, Goto
  <2>2. place' = [place EXCEPT ![d] = w]
    <3>1. Placed(d, w)'
      BY <1>0, <2>1 DEF Placed, TypeOK
    <3>2. \A x \in Workers \ {d} :
            /\ OnStack(x)' <=> OnStack(x)
            /\ \A v \in Workers \ {x} : item'[v] = x <=> item[v] = x
      BY <1>0, <2>1, WorkersAssumption DEF TypeOK
    <3>. QED
      BY <1>0, <2>1, <3>1, <3>2, PlaceMoves
  <2>3. place[w] = "awake" /\ place[d] = "pool"
    BY <1>0, <1>2, <2>1, PlaceIs DEF Placed
  <2>. QED
    BY <2>1, <2>2, <2>3 DEF Pool!Next, Pool!Take, Pool!Move
<1>7. ASSUME NEW w \in Workers, Inject(w) PROVE Pool!Next
  <2>0. PICK d \in Workers : d = item[w]
    BY <1>7, InjectStep
  <2>1. /\ d \in Workers /\ d # w /\ pc[w] = "holds" /\ ~OnStack(d)
        /\ item'[w] = None
        /\ \A v \in Workers : v # w => item'[v] = item[v] /\ item[v] # d
        /\ stack' = stack
    <3>1. /\ item[w] # w /\ pc[w] = "holds" /\ ~OnStack(item[w]) /\ item'[w] = None
          /\ \A v \in Workers : v # w => item'[v] = item[v] /\ item[v] # item[w]
      BY <1>7, InjectStep
    <3>. QED
      BY <1>7, <2>0, <3>1 DEF Inject
  <2>2. \A x : OnStack(x)' <=> OnStack(x)
    BY <2>1 DEF OnStack
  <2>3. place' = [place EXCEPT ![d] = "awake"]
    <3>1. Placed(d, "awake")'
      BY <2>1, <2>2, WorkersAssumption DEF Placed
    <3>2. \A x \in Workers \ {d} :
            /\ OnStack(x)' <=> OnStack(x)
            /\ \A v \in Workers \ {x} : item'[v] = x <=> item[v] = x
      BY <2>0, <2>1, <2>2, WorkersAssumption
    <3>. QED
      BY <1>0, <2>1, <3>1, <3>2, PlaceMoves
  <2>4. place[w] = "awake" /\ place[d] = w
    BY <1>0, <1>2, <2>0, <2>1, PlaceIs DEF Placed
  <2>. QED
    BY <2>1, <2>3, <2>4 DEF Pool!Next, Pool!Wake, Pool!Move
<1>8. ASSUME UNCHANGED vars PROVE UNCHANGED place
  BY <1>1, <1>8 DEF vars, locals
<1>. QED
  BY <1>3, <1>4, <1>5, <1>6, <1>7, <1>8 DEF Next

(* The linked stack implements the pool: a sleeper enters it once, is taken  *)
(* by one publisher, and is woken or put back by that publisher only.        *)
THEOREM PoolRefinement == Spec => Refinement
<1>1. Init => Pool!Init
  <2> SUFFICES ASSUME Init, NEW d \in Workers PROVE place[d] = "awake"
    BY DEF Pool!Init, place
  <2>1. ~OnStack(d)
    BY DEF Init, OnStack
  <2>2. \A w \in Workers : item[w] # d
    BY WorkersAssumption DEF Init
  <2>. QED
    BY <2>1, <2>2 DEF place
<1>. QED
  BY <1>1, SleeperInvariant, PoolStep, PTL DEF Spec, Refinement, Pool!Spec
==============================================================================
