--------------------------- MODULE SchedulerProofs ---------------------------
(***************************************************************************)
(* Proofs about Scheduler, for any number of workers and any trees of tasks, *)
(* with any of them as task groups.                                          *)
(***************************************************************************)
EXTENDS Scheduler, TLAPS

-----------------------------------------------------------------------------
(* What replacing, dropping and appending a last element does.               *)
LEMMA RenewedLast ==
  ASSUME NEW S, NEW s \in Seq(S), Len(s) # 0, NEW x \in S
  PROVE  /\ Renewed(s, x) \in Seq(S) /\ Len(Renewed(s, x)) = Len(s)
         /\ Renewed(s, x)[Len(s)] = x
         /\ \A i \in 1 .. Len(s) - 1 : Renewed(s, x)[i] = s[i]
<1>1. Len(s) \in Nat \ {0}
  OBVIOUS
<1>. QED
  BY <1>1 DEF Renewed

(* Dropping the last element leaves the others where they are.                *)
LEMMA OlderOnes ==
  ASSUME NEW S, NEW s \in Seq(S), Len(s) # 0
  PROVE  /\ Older(s) \in Seq(S) /\ Len(Older(s)) = Len(s) - 1
         /\ \A i \in 1 .. Len(s) - 1 : Older(s)[i] = s[i]
<1> DEFINE n == Len(s) - 1
<1>1. n \in Nat /\ n <= Len(s) /\ 1 .. n \subseteq 1 .. Len(s) /\ Older(s) = SubSeq(s, 1, n)
  BY DEF Older
<1>. HIDE DEF n
<1>2. Len(SubSeq(s, 1, n)) = n /\ \A i \in 1 .. n : SubSeq(s, 1, n)[i] = s[i]
  BY <1>1
<1>3. SubSeq(s, 1, n) \in Seq(S)
  BY <1>1
<1>. QED
  BY <1>1, <1>2, <1>3 DEF n

(* An appended element is the last one.                                       *)
LEMMA AppendLast ==
  ASSUME NEW S, NEW s \in Seq(S), NEW x \in S
  PROVE  /\ Append(s, x) \in Seq(S) /\ Len(Append(s, x)) = Len(s) + 1
         /\ Append(s, x)[Len(s) + 1] = x
         /\ \A i \in 1 .. Len(s) : Append(s, x)[i] = s[i]
  OBVIOUS

(* A sequence has a length, and its elements are of its type.                 *)
LEMMA Lengths ==
  ASSUME NEW S, NEW s \in Seq(S)
  PROVE  /\ Len(s) \in Nat /\ (s # <<>> <=> Len(s) # 0)
         /\ \A i \in 1 .. Len(s) : s[i] \in S
  OBVIOUS

-----------------------------------------------------------------------------
(* The tree of tasks.                                                        *)
LEMMA KidsAreTasks ==
  ASSUME NEW p \in Tasks
  PROVE  /\ Kids(p) \subseteq Tasks
         /\ Len(Children[p]) \in Nat
         /\ \A i \in 1 .. Len(Children[p]) : Children[p][i] \in Kids(p)
  BY TreeAssumption DEF Kids

(* A task has one parent.                                                     *)
LEMMA OneParent ==
  ASSUME NEW p \in Tasks, NEW q \in Tasks, NEW c \in Kids(p), c \in Kids(q)
  PROVE  p = q
  BY TreeAssumption DEF Kids

(* No two calls of spawn() make the same task.                               *)
LEMMA OneOrigin ==
  ASSUME NEW p \in Tasks, NEW q \in Tasks, NEW i \in 1 .. Len(Children[p]), NEW j \in 1 .. Len(Children[q]),
         Children[p][i] = Children[q][j]
  PROVE  p = q /\ i = j
  BY TreeAssumption

(* A task belongs to its own lineage.                                         *)
LEMMA LineageOfSelf ==
  ASSUME NEW t \in Tasks
  PROVE  t \in Lineage[t] /\ Lineage[t] \subseteq Tasks
  BY DEF Lineage

(* With a task, its lineage has those that have spawned it.                  *)
LEMMA LineageUp ==
  ASSUME NEW d \in Tasks, NEW q \in Tasks, NEW x \in Kids(q), x \in Lineage[d]
  PROVE  q \in Lineage[d]
<1>1. x \in Tasks
  BY KidsAreTasks
<1>2. ASSUME NEW family \in SUBSET Tasks, d \in family,
             \A y \in family : Parent(y) \subseteq family
      PROVE  q \in family
  <2>1. x \in family
    BY <1>2 DEF Lineage
  <2>2. q \in Parent(x)
    BY DEF Parent
  <2>. QED
    BY <2>1, <2>2, <1>2
<1>. QED
  BY <1>2 DEF Lineage

(* What is above a child is the child or above its parent.                   *)
LEMMA LineageOfKid ==
  ASSUME NEW p \in Tasks, NEW c \in Kids(p), NEW x \in Lineage[c], x # c
  PROVE  x \in Lineage[p]
<1>1. c \in Tasks /\ x \in Tasks
  BY KidsAreTasks, LineageOfSelf
<1> DEFINE family == Lineage[p] \cup {c}
<1>2. family \in SUBSET Tasks /\ c \in family
  BY <1>1, LineageOfSelf
<1>3. ASSUME NEW y \in family, NEW q \in Parent(y)
      PROVE  q \in family
  <2>1. q \in Tasks /\ y \in Kids(q)
    BY <1>3 DEF Parent
  <2>2. CASE y = c
    BY <2>1, <2>2, OneParent, LineageOfSelf
  <2>3. CASE y \in Lineage[p]
    BY <2>1, <2>3, LineageUp
  <2>. QED
    BY <2>2, <2>3
<1>4. \A y \in family : Parent(y) \subseteq family
  BY <1>3
<1>5. x \in family
  BY <1>1, <1>2, <1>4 DEF Lineage
<1>. QED
  BY <1>5

(* A task's descendants are below its children.                              *)
LEMMA LineageDown ==
  ASSUME NEW d \in Tasks, NEW t \in Lineage[d], t # d
  PROVE  \E c \in Kids(t) : c \in Lineage[d]
<1>1. SUFFICES ASSUME \A c \in Kids(t) : c \notin Lineage[d]
               PROVE  FALSE
  OBVIOUS
<1>2. t \in Tasks /\ Lineage[d] \subseteq Tasks /\ d \in Lineage[d]
  BY LineageOfSelf
<1> DEFINE family == Lineage[d] \ {t}
<1>3. family \in SUBSET Tasks /\ d \in family
  BY <1>2
<1>4. ASSUME NEW y \in family, NEW q \in Parent(y)
      PROVE  q \in family
  <2>1. q \in Tasks /\ y \in Kids(q)
    BY <1>4 DEF Parent
  <2>2. q \in Lineage[d]
    BY <2>1, LineageUp
  <2>3. q # t
    BY <2>1, <1>1
  <2>. QED
    BY <2>2, <2>3
<1>5. \A y \in family : Parent(y) \subseteq family
  BY <1>4
<1>6. t \in family
  BY <1>2, <1>3, <1>5 DEF Lineage
<1>. QED
  BY <1>6

(* The lineage of a child has its parent's.                                  *)
LEMMA LineageKept ==
  ASSUME NEW p \in Tasks, NEW c \in Kids(p)
  PROVE  Lineage[p] \subseteq Lineage[c] /\ c # p /\ c \notin Lineage[p]
<1>1. c \in Tasks /\ p \in Lineage[c]
  BY KidsAreTasks, LineageOfSelf, LineageUp
<1>2. \A x \in Lineage[c] : x \in Tasks /\ Parent(x) \subseteq Lineage[c]
  BY <1>1, LineageOfSelf, LineageUp DEF Parent
<1>3. \A x \in Lineage[p] : x \in Lineage[c]
  BY <1>1, <1>2, LineageOfSelf DEF Lineage
<1>4. c \notin Lineage[p]
  BY TreeAssumption
<1>. QED
  BY <1>3, <1>4, LineageOfSelf

Spawning == Groups \cup Specials

(* The part of w's deque that the tasks of its k-th frame fill: those from    *)
(* the frame's base up to where the next frame begins.                       *)
Upper(w, k)   == IF k = Len(frames[w]) THEN Len(deque[w]) ELSE frames[w][k + 1].base
Owns(w, k, j) == frames[w][k].base < j /\ j <= Upper(w, k)

Framed(t) == \E w \in Workers : \E k \in 1 .. Len(frames[w]) : frames[w][k].task = t

(* The variables have their types.                                           *)
Types ==
  /\ frames \in [Workers -> Seq(Frame)]
  /\ deque \in [Workers -> Seq(Tasks)]
  /\ thief \in [Tasks -> Workers \cup {None}]
  /\ word \in [Tasks -> {"new", "started", "finished"}]
  /\ cancelled \subseteq Tasks /\ complete \subseteq Tasks
  /\ terminated \in BOOLEAN

(* The frames divide the deque between them, in their order.                 *)
Bases ==
  \A w \in Workers : \A k \in 1 .. Len(frames[w]) :
    /\ frames[w][k].base <= Len(deque[w])
    /\ \A i \in 1 .. k : frames[w][i].base <= frames[w][k].base
Covered ==
  \A w \in Workers : \A j \in 1 .. Len(deque[w]) :
    \E k \in 1 .. Len(frames[w]) : Owns(w, k, j)

(* What a frame may be, by its mode.                                         *)
Stages ==
  \A w \in Workers : \A k \in 1 .. Len(frames[w]) :
    LET f == frames[w][k] IN
    /\ f.spawned <= Len(Children[f.task])
    /\ f.mode = "start" => f.spawned = 0
    /\ f.mode \in {"start", "catch", "mark", "check"} => f.stolen
    /\ f.mode \in {"start", "mark", "check"} => Upper(w, k) = f.base
    /\ k = 1 /\ ~f.stolen => f.task = Root

(* A frame below another waits for a thief and has stolen meanwhile, or runs  *)
(* a child of its own.                                                       *)
Nesting ==
  \A w \in Workers : \A k \in 1 .. Len(frames[w]) - 1 :
    LET f == frames[w][k]
        g == frames[w][k + 1] IN
    /\ f.mode \in {"run", "destroy"}
    /\ g.stolen <=> f.wait # "no"
    /\ ~g.stolen => f.mode = "run" /\ g.task \in Kids(f.task)

Waits ==
  \A w \in Workers : \A k \in 1 .. Len(frames[w]) :
    frames[w][k].wait # "no" =>
      /\ frames[w][k].mode \in {"run", "destroy", "catch"}
      /\ frames[w][k].base < Upper(w, k)
      /\ thief[deque[w][Upper(w, k)]] # None
      /\ frames[w][k].mode = "catch" => frames[w][k].wait \notin {"leapfrog", "yield"}

(* Whose tasks a frame has in its part of the deque.                         *)
Segments ==
  \A w \in Workers : \A k \in 1 .. Len(frames[w]) : \A j \in 1 .. Len(deque[w]) :
    Owns(w, k, j) =>
      LET f == frames[w][k]
          t == deque[w][j] IN
      /\ t # f.task /\ f.task \in Lineage[t]
      /\ f.mode = "run" => t \in Kids(f.task)
      /\ f.mode \in {"destroy", "catch"} => t \in cancelled
      /\ f.mode = "catch" => f.task \notin Spawning
      /\ \A p \in Tasks : t \in Kids(p) =>
           p = f.task \/ (p \notin Spawning /\ Lineage[p] \cap cancelled # {})

(* Each task is in one place of one deque, and on one stack, at most.        *)
Once ==
  /\ \A v, w \in Workers : \A i \in 1 .. Len(deque[v]), j \in 1 .. Len(deque[w]) :
       deque[v][i] = deque[w][j] => v = w /\ i = j
  /\ \A v, w \in Workers : \A i \in 1 .. Len(frames[v]), j \in 1 .. Len(frames[w]) :
       frames[v][i].task = frames[w][j].task => v = w /\ i = j

(* A task in a deque has a frame while its thief is at work on it.           *)
Queued ==
  \A w \in Workers : \A j \in 1 .. Len(deque[w]) :
    LET t == deque[w][j] IN
    /\ thief[t] = None => ~Framed(t)
    /\ thief[t] # None /\ word[t] # "finished" => Framed(t)

(* Where a task with a frame is, and what its word says.                     *)
Words ==
  /\ \A w \in Workers : \A k \in 1 .. Len(frames[w]) :
       LET f == frames[w][k] IN
       /\ f.stolen => /\ thief[f.task] = w
                      /\ word[f.task] = "finished" <=> f.mode = "check"
                      /\ f.mode # "check" => InDeque(f.task)
       /\ ~f.stolen => thief[f.task] = None /\ ~InDeque(f.task)
       /\ f.mode = "mark" => f.task \in complete \cup cancelled
       /\ f.mode = "catch" => f.task \in cancelled
  /\ \A t \in Tasks :
       /\ thief[t] = None => word[t] # "finished"
       /\ word[t] = "finished" => t \in complete \cup cancelled

(* The innermost stolen task of the frames up to the k-th is cancelled.      *)
Interrupted(w, k) ==
  \E i \in 1 .. k : /\ frames[w][i].stolen /\ frames[w][i].task \in cancelled
                    /\ \A j \in i + 1 .. k : ~frames[w][j].stolen

Interrupts ==
  \A w \in Workers : \A k \in 1 .. Len(frames[w]) :
    frames[w][k].mode = "throw" \/ (frames[w][k].mode = "destroy" /\ frames[w][k].raised)
      => Interrupted(w, k)

(* Frames that call each other run ancestors of each other.                  *)
Inline ==
  \A w \in Workers : \A k \in 1 .. Len(frames[w]) : \A i \in 1 .. k :
    (\A j \in i + 1 .. k : ~frames[w][j].stolen) =>
      frames[w][i].task \in Lineage[frames[w][k].task]

(* Nothing below a task that has not begun, or not been spawned, has begun.  *)
Fresh(t)      == ~InDeque(t) /\ ~Framed(t) /\ thief[t] = None
FreshBelow(c) == \A d \in Tasks : c \in Lineage[d] => Fresh(d)
Unspawned ==
  /\ \A w \in Workers : \A k \in 1 .. Len(frames[w]) :
       \A i \in frames[w][k].spawned + 1 .. Len(Children[frames[w][k].task]) :
         FreshBelow(Children[frames[w][k].task][i])
  /\ \A w \in Workers : \A j \in 1 .. Len(deque[w]) :
       thief[deque[w][j]] = None => \A c \in Kids(deque[w][j]) : FreshBelow(c)

(* What has become of the children of a task at work.                        *)
Over(c) == c \in complete \cup cancelled /\ ~InDeque(c) /\ ~InFrame(c, Active)
Synced ==
  \A w \in Workers : \A k \in 1 .. Len(frames[w]) :
    frames[w][k].mode = "run" =>
      \A i \in 1 .. frames[w][k].spawned :
        LET c == Children[frames[w][k].task][i] IN
        \/ \E j \in 1 .. Len(deque[w]) : Owns(w, k, j) /\ deque[w][j] = c
        \/ k < Len(frames[w]) /\ ~frames[w][k + 1].stolen /\ frames[w][k + 1].task = c
        \/ Over(c)

(* Some order of the tasks at work puts ancestors before their descendants   *)
(* and each task before those that run on top of it.                         *)
Above(t, u) ==
  \E w \in Workers : \E k \in 1 .. Len(frames[w]) : \E i \in 1 .. k - 1 :
    frames[w][i].task = t /\ frames[w][k].task = u
NoCycle ==
  \A S \in SUBSET Tasks :
    S # {} /\ (\A t \in S : Framed(t)) =>
      \E t \in S : \A u \in S \ {t} : t \notin Lineage[u] /\ ~Above(t, u)

IInv == /\ Types /\ Bases /\ Covered /\ Stages /\ Nesting /\ Waits /\ Segments
        /\ Once /\ Queued /\ Words /\ Interrupts /\ Inline /\ Unspawned
        /\ Synced /\ NoCycle
(* The types of what the stacks and deques hold, before and after a step.    *)
LEMMA Typed ==
  ASSUME Types
  PROVE  /\ \A w \in Workers : Len(frames[w]) \in Nat /\ Len(deque[w]) \in Nat
         /\ \A w \in Workers : \A j \in 1 .. Len(deque[w]) : deque[w][j] \in Tasks
         /\ \A w \in Workers : \A k \in 1 .. Len(frames[w]) :
              LET f == frames[w][k] IN
              /\ f \in Frame /\ f.task \in Tasks /\ f.base \in Nat /\ f.spawned \in Nat
              /\ f.stolen \in BOOLEAN /\ f.mode \in Modes
              /\ \A i \in 1 .. f.spawned : i <= Len(Children[f.task]) => Children[f.task][i] \in Tasks
              /\ \A i \in f.spawned + 1 .. Len(Children[f.task]) : Children[f.task][i] \in Tasks
<1>1. \A w \in Workers : frames[w] \in Seq(Frame) /\ deque[w] \in Seq(Tasks)
  BY DEF Types
<1>2. \A w \in Workers : \A k \in 1 .. Len(frames[w]) : frames[w][k] \in Frame
  BY <1>1
<1>3. ASSUME NEW w \in Workers, NEW k \in 1 .. Len(frames[w])
      PROVE  LET f == frames[w][k] IN
              /\ f \in Frame /\ f.task \in Tasks /\ f.base \in Nat /\ f.spawned \in Nat
              /\ f.stolen \in BOOLEAN /\ f.mode \in Modes
              /\ \A i \in 1 .. f.spawned : i <= Len(Children[f.task]) => Children[f.task][i] \in Tasks
              /\ \A i \in f.spawned + 1 .. Len(Children[f.task]) : Children[f.task][i] \in Tasks
  <2> DEFINE f == frames[w][k]
  <2>1. /\ f \in Frame /\ f.task \in Tasks /\ f.base \in Nat /\ f.spawned \in Nat
        /\ f.stolen \in BOOLEAN /\ f.mode \in Modes
    BY <1>2 DEF Frame
  <2>. HIDE DEF f
  <2>2. /\ \A i \in 1 .. f.spawned : i <= Len(Children[f.task]) => Children[f.task][i] \in Tasks
        /\ \A i \in f.spawned + 1 .. Len(Children[f.task]) : Children[f.task][i] \in Tasks
    BY <2>1, KidsAreTasks
  <2>. QED
    BY <2>1, <2>2 DEF f
<1>. QED
  BY <1>1, <1>3, Lengths

(* The next state is typed in the same way.                                   *)
LEMMA TypedNext ==
  ASSUME Types'
  PROVE  /\ \A w \in Workers : Len(frames'[w]) \in Nat /\ Len(deque'[w]) \in Nat
         /\ \A w \in Workers : \A j \in 1 .. Len(deque'[w]) : deque'[w][j] \in Tasks
         /\ \A w \in Workers : \A k \in 1 .. Len(frames'[w]) :
              LET f == frames'[w][k] IN
              /\ f \in Frame /\ f.task \in Tasks /\ f.base \in Nat /\ f.spawned \in Nat
              /\ f.stolen \in BOOLEAN /\ f.mode \in Modes
              /\ \A i \in 1 .. f.spawned : i <= Len(Children[f.task]) => Children[f.task][i] \in Tasks
              /\ \A i \in f.spawned + 1 .. Len(Children[f.task]) : Children[f.task][i] \in Tasks
<1>1. \A w \in Workers : frames'[w] \in Seq(Frame) /\ deque'[w] \in Seq(Tasks)
  BY DEF Types
<1>2. \A w \in Workers : \A k \in 1 .. Len(frames'[w]) : frames'[w][k] \in Frame
  BY <1>1
<1>3. ASSUME NEW w \in Workers, NEW k \in 1 .. Len(frames'[w])
      PROVE  LET f == frames'[w][k] IN
              /\ f \in Frame /\ f.task \in Tasks /\ f.base \in Nat /\ f.spawned \in Nat
              /\ f.stolen \in BOOLEAN /\ f.mode \in Modes
              /\ \A i \in 1 .. f.spawned : i <= Len(Children[f.task]) => Children[f.task][i] \in Tasks
              /\ \A i \in f.spawned + 1 .. Len(Children[f.task]) : Children[f.task][i] \in Tasks
  <2> DEFINE f == frames'[w][k]
  <2>1. /\ f \in Frame /\ f.task \in Tasks /\ f.base \in Nat /\ f.spawned \in Nat
        /\ f.stolen \in BOOLEAN /\ f.mode \in Modes
    BY <1>2 DEF Frame
  <2>. HIDE DEF f
  <2>2. /\ \A i \in 1 .. f.spawned : i <= Len(Children[f.task]) => Children[f.task][i] \in Tasks
        /\ \A i \in f.spawned + 1 .. Len(Children[f.task]) : Children[f.task][i] \in Tasks
    BY <2>1, KidsAreTasks
  <2>. QED
    BY <2>1, <2>2 DEF f
<1>. QED
  BY <1>1, <1>3, Lengths

(* In the next state too, what has been spawned are tasks.                    *)
LEMMA SpawnedAreTasksNext ==
  ASSUME Types', Stages', NEW v \in Workers, NEW k \in 1 .. Len(frames'[v]),
         NEW i \in 1 .. frames'[v][k].spawned
  PROVE  Children[frames'[v][k].task][i] \in Tasks
<1>1. frames'[v][k].spawned <= Len(Children[frames'[v][k].task])
  BY DEF Stages
<1>2. PICK f \in Frame : f = frames'[v][k] /\ f.task \in Tasks /\ f.spawned \in Nat
  BY TypedNext
<1>3. Len(Children[f.task]) \in Nat /\ i \in 1 .. Len(Children[f.task])
  BY <1>1, <1>2, KidsAreTasks
<1>. QED
  BY <1>2, <1>3, KidsAreTasks


-----------------------------------------------------------------------------
(* What the steps do to the stacks and deques, as the proofs use it.         *)
OtherFrames(w) == \A v \in Workers \ {w} : frames'[v] = frames[v]

RenewsFrame(w, g) ==
  /\ OtherFrames(w)
  /\ Len(frames'[w]) = Len(frames[w]) /\ frames'[w][Len(frames[w])] = g
  /\ \A k \in 1 .. Len(frames[w]) - 1 : frames'[w][k] = frames[w][k]

PushesFrame(w, g) ==
  /\ OtherFrames(w)
  /\ Len(frames'[w]) = Len(frames[w]) + 1 /\ frames'[w][Len(frames[w]) + 1] = g
  /\ \A k \in 1 .. Len(frames[w]) : frames'[w][k] = frames[w][k]

PopsFrame(w) ==
  /\ OtherFrames(w)
  /\ Len(frames'[w]) = Len(frames[w]) - 1
  /\ \A k \in 1 .. Len(frames[w]) - 1 : frames'[w][k] = frames[w][k]

UncoversFrame(w, g) ==
  /\ OtherFrames(w)
  /\ Len(frames'[w]) = Len(frames[w]) - 1 /\ frames'[w][Len(frames[w]) - 1] = g
  /\ \A k \in 1 .. Len(frames[w]) - 2 : frames'[w][k] = frames[w][k]

PushesTask(w, t) ==
  /\ \A v \in Workers \ {w} : deque'[v] = deque[v]
  /\ Len(deque'[w]) = Len(deque[w]) + 1 /\ deque'[w][Len(deque[w]) + 1] = t
  /\ \A j \in 1 .. Len(deque[w]) : deque'[w][j] = deque[w][j]

PopsTask(w) ==
  /\ \A v \in Workers \ {w} : deque'[v] = deque[v]
  /\ Len(deque'[w]) = Len(deque[w]) - 1
  /\ \A j \in 1 .. Len(deque[w]) - 1 : deque'[w][j] = deque[w][j]

Grows == cancelled \subseteq cancelled' /\ complete \subseteq complete'

(* The kinds of steps: a cancellation or nothing ...                         *)
Rests == UNCHANGED <<frames, deque, thief, word>> /\ Grows

(* ... a change of how the innermost frame runs or waits ...                 *)
SameFrame(g, f) ==
  g.task = f.task /\ g.stolen = f.stolen /\ g.base = f.base

Renews(w, g) ==
  LET n == Len(frames[w])
      f == frames[w][n]
      s == Len(deque[w]) IN
  /\ n # 0 /\ g \in Frame /\ RenewsFrame(w, g) /\ UNCHANGED <<deque, thief>> /\ Grows
  /\ SameFrame(g, f) /\ g.spawned = f.spawned
  /\ f.mode # "check" /\ g.mode # "start"
  /\ f.stolen => /\ \A t \in Tasks \ {f.task} : word'[t] = word[t]
                 /\ word'[f.task] = "finished" <=> g.mode = "check"
  /\ ~f.stolen => UNCHANGED word
  /\ g.mode = "run" => f.mode = "run" \/ (f.spawned = 0 /\ f.base = s)
  /\ g.mode \in {"mark", "check"} =>
       f.stolen /\ f.base = s /\ f.task \in complete' \cup cancelled'
  /\ g.mode = "catch" =>
       f.stolen /\ f.task \in cancelled /\ (f.base = s \/ f.task \notin Spawning)
  /\ g.mode \in {"destroy", "catch"} => \A j \in f.base + 1 .. s : deque[w][j] \in cancelled'
  /\ g.mode = "throw" \/ (g.mode = "destroy" /\ g.raised) => Interrupted(w, n)
  /\ g.wait # "no" =>
       /\ g.mode \in {"run", "destroy", "catch"}
       /\ f.base < s /\ thief[deque[w][s]] # None
       /\ g.mode = "catch" => g.wait \notin {"leapfrog", "yield"}

(* ... a spawn ...                                                           *)
Spawns(w, g) ==
  LET f == frames[w][Len(frames[w])] IN
  /\ Len(frames[w]) # 0 /\ g \in Frame /\ RenewsFrame(w, g)
  /\ SameFrame(g, f) /\ g.spawned = f.spawned + 1
  /\ f.mode = "run" /\ g.mode = "run" /\ g.wait = "no"
  /\ g.spawned <= Len(Children[f.task])
  /\ PushesTask(w, Children[f.task][g.spawned])
  /\ UNCHANGED <<thief, word, cancelled, complete>>

(* ... the removal of a task that is finished or will not be run ...         *)
Discards(w, g) ==
  LET f == frames[w][Len(frames[w])]
      t == deque[w][Len(deque[w])] IN
  /\ Len(frames[w]) # 0 /\ g \in Frame /\ RenewsFrame(w, g)
  /\ SameFrame(g, f) /\ g.spawned = f.spawned /\ g.mode = f.mode /\ g.raised = f.raised
  /\ f.mode \in {"run", "destroy", "catch"} /\ g.wait = "no"
  /\ f.base < Len(deque[w]) /\ PopsTask(w)
  /\ word[t] = "finished" \/ (thief[t] = None /\ t \in cancelled)
  /\ UNCHANGED <<thief, word, cancelled, complete>>

(* ... the call of a task by its parent ...                                  *)
Calls(w, g) ==
  LET f == frames[w][Len(frames[w])]
      t == deque[w][Len(deque[w])] IN
  /\ Len(frames[w]) # 0 /\ g \in Frame /\ PushesFrame(w, g)
  /\ f.mode = "run" /\ f.wait = "no"
  /\ f.base < Len(deque[w]) /\ PopsTask(w)
  /\ thief[t] = None
  /\ g.task = t /\ ~g.stolen /\ g.base = Len(deque[w]) - 1 /\ g.spawned = 0
  /\ g.mode = "run" /\ g.wait = "no"
  /\ UNCHANGED <<thief, word, cancelled, complete>>

(* ... a theft ...                                                           *)
Takes(w, g) ==
  /\ g \in Frame /\ PushesFrame(w, g)
  /\ Len(frames[w]) # 0 =>
       /\ frames[w][Len(frames[w])].mode \in {"run", "destroy"}
       /\ frames[w][Len(frames[w])].wait # "no"
  /\ InDeque(g.task) /\ thief[g.task] = None
  /\ thief'[g.task] = w /\ \A t \in Tasks \ {g.task} : thief'[t] = thief[t]
  /\ g.stolen /\ g.base = Len(deque[w]) /\ g.spawned = 0
  /\ g.mode = "start" /\ g.wait = "no"
  /\ UNCHANGED <<deque, word, cancelled, complete>>

(* ... the end of a task ...                                                 *)
Ends(w) ==
  LET f == frames[w][Len(frames[w])] IN
  /\ Len(frames[w]) # 0 /\ PopsFrame(w)
  /\ f.base = Len(deque[w])
  /\ IF f.stolen THEN f.mode = "check" ELSE f.task \in complete'
  /\ UNCHANGED <<deque, thief, word>> /\ Grows

(* ... and an exception that goes on to the frame below.                     *)
Throws(w, g) ==
  LET n == Len(frames[w])
      f == frames[w][n]
      h == frames[w][n - 1] IN
  /\ n >= 2 /\ g \in Frame /\ UncoversFrame(w, g)
  /\ SameFrame(g, h) /\ g.spawned = h.spawned /\ g.raised = h.raised
  /\ g.wait = "no" /\ g.mode \in {"throw", "destroy"}
  /\ g.mode = "throw" => Interrupted(w, n - 1)
  /\ g.mode = "destroy" => h.mode = "destroy"
  /\ IF f.stolen THEN f.mode = "check" /\ f.base = Len(deque[w])
     ELSE g.mode = "throw" /\ (f.base = Len(deque[w]) \/ f.task \notin Spawning)
  /\ UNCHANGED <<deque, thief, word, cancelled, complete>>

(* SetTop() replaces the innermost frame and no other.                        *)
LEMMA SetTopRenews ==
  ASSUME Types, NEW w \in Workers, Len(frames[w]) # 0, NEW g \in Frame, SetTop(w, g)
  PROVE  frames' \in [Workers -> Seq(Frame)] /\ RenewsFrame(w, g)
<1> DEFINE b == frames[w]
           s == Renewed(b, g)
<1>1. b \in Seq(Frame) /\ Len(b) # 0
  BY DEF Types
<1>2. frames' = [frames EXCEPT ![w] = s]
  BY DEF SetTop, SetFrames
<1>. HIDE DEF b
<1>3. s \in Seq(Frame) /\ Len(s) = Len(b)
  BY <1>1, RenewedLast
<1>4. s[Len(b)] = g
  BY <1>1, RenewedLast
<1>5. \A i \in 1 .. Len(b) - 1 : s[i] = b[i]
  BY <1>1, RenewedLast
<1>. HIDE DEF s
<1>. QED
  BY <1>2, <1>3, <1>4, <1>5 DEF Types, RenewsFrame, OtherFrames, b

(* Appending a frame to a stack pushes it.                                    *)
LEMMA AppendPushes ==
  ASSUME Types, NEW w \in Workers, NEW g \in Frame, SetFrames(w, Append(frames[w], g))
  PROVE  frames' \in [Workers -> Seq(Frame)] /\ PushesFrame(w, g)
<1>1. frames[w] \in Seq(Frame)
  BY DEF Types
<1> DEFINE s == Append(frames[w], g)
<1>2. /\ s \in Seq(Frame) /\ Len(s) = Len(frames[w]) + 1
      /\ s[Len(frames[w]) + 1] = g
      /\ \A i \in 1 .. Len(frames[w]) : s[i] = frames[w][i]
  BY <1>1, AppendLast
<1>3. frames' = [frames EXCEPT ![w] = s]
  BY DEF SetFrames
<1>. HIDE DEF s
<1>. QED
  BY <1>2, <1>3 DEF Types, PushesFrame, OtherFrames

(* Giving a worker the frames below its innermost one pops that one.          *)
LEMMA BelowPops ==
  ASSUME Types, NEW w \in Workers, Len(frames[w]) # 0, SetFrames(w, Below(w))
  PROVE  frames' \in [Workers -> Seq(Frame)] /\ PopsFrame(w)
<1>1. frames[w] \in Seq(Frame)
  BY DEF Types
<1> DEFINE s == Below(w)
<1>2. /\ s \in Seq(Frame) /\ Len(s) = Len(frames[w]) - 1
      /\ \A i \in 1 .. Len(frames[w]) - 1 : s[i] = frames[w][i]
  BY <1>1, OlderOnes DEF Below
<1>3. frames' = [frames EXCEPT ![w] = s]
  BY DEF SetFrames
<1>. HIDE DEF s
<1>. QED
  BY <1>2, <1>3 DEF Types, PopsFrame, OtherFrames

(* Replacing the frame below the innermost one uncovers it.                   *)
LEMMA RenewedBelowUncovers ==
  ASSUME Types, NEW w \in Workers, Len(frames[w]) >= 2, NEW g \in Frame,
         SetFrames(w, Renewed(Below(w), g))
  PROVE  frames' \in [Workers -> Seq(Frame)] /\ UncoversFrame(w, g)
<1>1. frames[w] \in Seq(Frame) /\ Len(frames[w]) \in Nat
  BY DEF Types
<1> DEFINE b == Below(w)
           s == Renewed(b, g)
<1>2. /\ b \in Seq(Frame) /\ Len(b) = Len(frames[w]) - 1
      /\ \A i \in 1 .. Len(frames[w]) - 1 : b[i] = frames[w][i]
  BY <1>1, OlderOnes DEF Below
<1>. HIDE DEF b
<1>3. /\ s \in Seq(Frame) /\ Len(s) = Len(b)
      /\ s[Len(b)] = g
      /\ \A i \in 1 .. Len(b) - 1 : s[i] = b[i]
  <2>1. Len(b) # 0
    BY <1>1, <1>2
  <2>2. s \in Seq(Frame) /\ Len(s) = Len(b)
    BY <1>2, <2>1, RenewedLast
  <2>3. s[Len(b)] = g
    BY <1>2, <2>1, RenewedLast
  <2>4. \A i \in 1 .. Len(b) - 1 : s[i] = b[i]
    BY <1>2, <2>1, RenewedLast
  <2>. QED
    BY <2>2, <2>3, <2>4
<1>4. frames' = [frames EXCEPT ![w] = s]
  BY DEF SetFrames, b
<1>5. \A i \in 1 .. Len(frames[w]) - 2 : s[i] = frames[w][i]
  BY <1>1, <1>2, <1>3
<1>6. s[Len(frames[w]) - 1] = g /\ Len(s) = Len(frames[w]) - 1
  BY <1>1, <1>2, <1>3
<1>. HIDE DEF s
<1>. QED
  BY <1>3, <1>4, <1>5, <1>6 DEF Types, UncoversFrame, OtherFrames

(* pop() takes the newest task off a deque and leaves the others.             *)
LEMMA PopPops ==
  ASSUME Types, NEW w \in Workers, Len(deque[w]) # 0, Pop(w)
  PROVE  deque' \in [Workers -> Seq(Tasks)] /\ PopsTask(w)
<1>1. deque[w] \in Seq(Tasks)
  BY DEF Types
<1> DEFINE s == Older(deque[w])
<1>2. /\ s \in Seq(Tasks) /\ Len(s) = Len(deque[w]) - 1
      /\ \A i \in 1 .. Len(deque[w]) - 1 : s[i] = deque[w][i]
  BY <1>1, OlderOnes
<1>3. deque' = [deque EXCEPT ![w] = s]
  BY DEF Pop
<1>. HIDE DEF s
<1>. QED
  BY <1>2, <1>3 DEF Types, PopsTask

(* Appending a task to a deque queues it behind the others.                   *)
LEMMA AppendQueues ==
  ASSUME Types, NEW w \in Workers, NEW t \in Tasks,
         deque' = [deque EXCEPT ![w] = Append(@, t)]
  PROVE  deque' \in [Workers -> Seq(Tasks)] /\ PushesTask(w, t)
<1>1. deque[w] \in Seq(Tasks)
  BY DEF Types
<1> DEFINE s == Append(deque[w], t)
<1>2. /\ s \in Seq(Tasks) /\ Len(s) = Len(deque[w]) + 1
      /\ s[Len(deque[w]) + 1] = t
      /\ \A i \in 1 .. Len(deque[w]) : s[i] = deque[w][i]
  BY <1>1, AppendLast
<1>3. deque' = [deque EXCEPT ![w] = s]
  OBVIOUS
<1>. HIDE DEF s
<1>. QED
  BY <1>2, <1>3 DEF Types, PushesTask

(* The innermost frame, and the tasks that it has in the deque.              *)
LEMMA TopFrame ==
  ASSUME Types, Bases, NEW w \in Workers, Len(frames[w]) # 0
  PROVE  /\ Len(frames[w]) \in Nat \ {0} /\ Len(deque[w]) \in Nat
         /\ Top(w) = frames[w][Len(frames[w])] /\ Top(w) \in Frame
         /\ Top(w).base \in Nat /\ Top(w).base <= Len(deque[w])
         /\ Top(w).task \in Tasks
         /\ Pending(w) \subseteq Tasks
         /\ Pending(w) = {} <=> Top(w).base = Len(deque[w])
         /\ \A j \in Top(w).base + 1 .. Len(deque[w]) : deque[w][j] \in Pending(w)
         /\ Pending(w) # {} => /\ Top(w).base < Len(deque[w]) /\ Len(deque[w]) # 0
                               /\ Popped(w) = deque[w][Len(deque[w])]
                               /\ Popped(w) \in Tasks /\ Popped(w) \in Pending(w)
<1>1. frames[w] \in Seq(Frame) /\ deque[w] \in Seq(Tasks)
  BY DEF Types
<1>2. Len(frames[w]) \in Nat \ {0} /\ Len(deque[w]) \in Nat
  BY <1>1
<1>3. Top(w) = frames[w][Len(frames[w])] /\ Top(w) \in Frame
  BY <1>1, <1>2 DEF Top, Newest
<1>4. Top(w).base \in Nat /\ Top(w).task \in Tasks
  BY <1>3 DEF Frame
<1>5. Top(w).base <= Len(deque[w])
  BY <1>2, <1>3 DEF Bases
<1>6. \A j \in Top(w).base + 1 .. Len(deque[w]) : deque[w][j] \in Tasks
  BY <1>1, <1>4
<1>7. Pending(w) \subseteq Tasks /\ \A j \in Top(w).base + 1 .. Len(deque[w]) : deque[w][j] \in Pending(w)
  BY <1>6 DEF Pending
<1>8. Pending(w) = {} <=> Top(w).base = Len(deque[w])
  <2>1. CASE Top(w).base = Len(deque[w])
    BY <1>2, <2>1 DEF Pending
  <2>2. CASE Top(w).base # Len(deque[w])
    <3>1. Len(deque[w]) \in Top(w).base + 1 .. Len(deque[w])
      BY <1>2, <1>4, <1>5, <2>2
    <3>. QED
      BY <1>7, <2>2, <3>1
  <2>. QED
    BY <2>1, <2>2
<1>9. ASSUME Top(w).base < Len(deque[w])
      PROVE  /\ Len(deque[w]) # 0 /\ Popped(w) = deque[w][Len(deque[w])]
             /\ Popped(w) \in Tasks /\ Popped(w) \in Pending(w)
  BY <1>2, <1>4, <1>6, <1>7, <1>9 DEF Popped, Newest
<1>. QED
  BY <1>2, <1>3, <1>4, <1>5, <1>7, <1>8, <1>9

(* What the invariant says of the innermost frame.                           *)
LEMMA TopFacts ==
  ASSUME IInv, NEW w \in Workers, Len(frames[w]) # 0
  PROVE  LET n == Len(frames[w])
             f == frames[w][n]
             s == Len(deque[w]) IN
         /\ Upper(w, n) = s
         /\ f.spawned \in Nat /\ f.spawned <= Len(Children[f.task])
         /\ f.mode \in Modes /\ f.stolen \in BOOLEAN
         /\ f.mode \in {"start", "mark", "check"} => f.base = s
         /\ f.mode = "start" => f.spawned = 0
         /\ f.mode \in {"start", "catch", "mark", "check"} => f.stolen
         /\ n = 1 /\ ~f.stolen => f.task = Root
         /\ f.wait # "no" =>
              /\ f.mode \in {"run", "destroy", "catch"}
              /\ f.base < s /\ thief[deque[w][s]] # None
              /\ f.mode = "catch" => f.wait \notin {"leapfrog", "yield"}
         /\ \A j \in f.base + 1 .. s : Owns(w, n, j)
         /\ f.mode = "throw" \/ (f.mode = "destroy" /\ f.raised) => Interrupted(w, n)
         /\ f.mode = "mark" => f.task \in complete \cup cancelled
         /\ f.mode = "catch" => f.task \in cancelled
<1> DEFINE n == Len(frames[w])
           f == frames[w][n]
           s == Len(deque[w])
<1>1. n \in 1 .. Len(frames[w]) /\ s \in Nat /\ f \in Frame /\ f.base \in Nat
  BY TopFrame DEF IInv
<1>2. Upper(w, n) = s
  BY DEF Upper
<1>3. f.spawned \in Nat /\ f.mode \in Modes /\ f.stolen \in BOOLEAN
  BY <1>1 DEF Frame
<1>4. /\ f.spawned <= Len(Children[f.task])
      /\ f.mode \in {"start", "mark", "check"} => f.base = s
      /\ f.mode = "start" => f.spawned = 0
      /\ f.mode \in {"start", "catch", "mark", "check"} => f.stolen
      /\ n = 1 /\ ~f.stolen => f.task = Root
  BY <1>1, <1>2 DEF IInv, Stages
<1>5. f.wait # "no" =>
        /\ f.mode \in {"run", "destroy", "catch"}
        /\ f.base < s /\ thief[deque[w][s]] # None
        /\ f.mode = "catch" => f.wait \notin {"leapfrog", "yield"}
  BY <1>1, <1>2 DEF IInv, Waits
<1>6. \A j \in f.base + 1 .. s : Owns(w, n, j)
  BY <1>1, <1>2 DEF Owns
<1>7. f.mode = "throw" \/ (f.mode = "destroy" /\ f.raised) => Interrupted(w, n)
  BY <1>1 DEF IInv, Interrupts
<1>8. /\ f.mode = "mark" => f.task \in complete \cup cancelled
      /\ f.mode = "catch" => f.task \in cancelled
  BY <1>1 DEF IInv, Words
<1>. QED
  BY <1>2, <1>3, <1>4, <1>5, <1>6, <1>7, <1>8

(* A worker at work has an innermost frame.                                   *)
LEMMA AliveHasFrame ==
  ASSUME Types, NEW w \in Workers, Alive(w)
  PROVE  Len(frames[w]) # 0
<1>1. frames[w] \in Seq(Frame) /\ frames[w] # <<>>
  BY DEF Types, Alive
<1>. QED
  BY <1>1

(* checkInterrupt() throws when the innermost stolen task is cancelled.       *)
LEMMA RootCancelledIsInterrupted ==
  ASSUME NEW w \in Workers
  PROVE  RootCancelled(frames[w]) <=> Interrupted(w, Len(frames[w]))
  BY DEF RootCancelled, Interrupted

(* spawn() queues a child of the task at work.                              *)
LEMMA SpawnKind ==
  ASSUME IInv, NEW w \in Workers, Spawn(w)
  PROVE  Types' /\ \E g \in Frame : Spawns(w, g)
<1> DEFINE f == Top(w)
           g == [f EXCEPT !.spawned = @ + 1]
<1>1. Len(frames[w]) # 0 /\ Types
  BY AliveHasFrame DEF IInv, Spawn, InCode
<1>2. f = frames[w][Len(frames[w])] /\ f \in Frame /\ f.task \in Tasks
  BY <1>1, TopFrame DEF IInv
<1>3. f.mode = "run" /\ f.wait = "no" /\ f.spawned < Len(Children[f.task]) /\ f.spawned \in Nat
  BY <1>2 DEF Spawn, InCode, Frame
<1>4. /\ g \in Frame /\ SameFrame(g, f) /\ g.spawned = f.spawned + 1
      /\ g.mode = "run" /\ g.wait = "no"
  BY <1>2, <1>3 DEF Frame, SameFrame
<1>5. g.spawned \in 1 .. Len(Children[f.task]) /\ g.spawned <= Len(Children[f.task])
  BY <1>2, <1>3, <1>4, KidsAreTasks
<1>6. Children[f.task][g.spawned] \in Tasks
  BY <1>2, <1>5, KidsAreTasks
<1>7. /\ SetTop(w, g) /\ deque' = [deque EXCEPT ![w] = Append(@, Children[f.task][g.spawned])]
      /\ UNCHANGED <<thief, word, cancelled, complete, terminated>>
  BY <1>4 DEF Spawn
<1>. HIDE DEF f, g
<1>8. frames' \in [Workers -> Seq(Frame)] /\ RenewsFrame(w, g)
  BY <1>1, <1>4, <1>7, SetTopRenews
<1>9. deque' \in [Workers -> Seq(Tasks)] /\ PushesTask(w, Children[f.task][g.spawned])
  BY <1>1, <1>6, <1>7, AppendQueues
<1>10. Types'
  BY <1>1, <1>7, <1>8, <1>9 DEF Types
<1>11. Spawns(w, g)
  BY <1>1, <1>2, <1>3, <1>4, <1>5, <1>7, <1>8, <1>9 DEF Spawns
<1>. QED
  BY <1>4, <1>10, <1>11

(* cancel() changes nothing but the tasks' flags.                             *)
LEMMA CancelKind ==
  ASSUME IInv, NEW w \in Workers, Cancel(w)
  PROVE  Types' /\ Rests
<1>1. Len(frames[w]) # 0 /\ Types
  BY AliveHasFrame DEF IInv, Cancel, InCode
<1>2. Pending(w) \subseteq Tasks
  BY <1>1, TopFrame DEF IInv
<1>. QED
  BY <1>1, <1>2 DEF Cancel, Types, Rests, Grows

(* Steps to another mode or wait of the innermost frame.                     *)
LEMMA WaitStepKind ==
  ASSUME IInv, NEW w \in Workers, NEW from, NEW to \in {"look", "leapfrog", "yield", "sleep"},
         WaitStep(w, from, to),
         thief[Popped(w)] # None,
         Top(w).mode = "catch" => to \notin {"leapfrog", "yield"},
         UNCHANGED <<deque, thief, word, cancelled, complete, terminated>>
  PROVE  Types' /\ \E g \in Frame : Renews(w, g)
<1> DEFINE f == Top(w)
           g == [f EXCEPT !.wait = to]
<1>1. Len(frames[w]) # 0 /\ Types
  BY AliveHasFrame DEF IInv, WaitStep, Syncing
<1>2. f = frames[w][Len(frames[w])] /\ f \in Frame
  BY <1>1, TopFrame DEF IInv
<1>3. f.mode \in {"run", "destroy", "catch"} /\ Pending(w) # {}
  BY DEF WaitStep, Syncing
<1>4. f.base < Len(deque[w]) /\ thief[deque[w][Len(deque[w])]] # None
  BY <1>1, <1>3, TopFrame DEF IInv
<1>5. /\ g \in Frame /\ SameFrame(g, f) /\ g.spawned = f.spawned
      /\ g.mode = f.mode /\ g.raised = f.raised /\ g.wait = to
  BY <1>2 DEF Frame, SameFrame
<1>6. SetTop(w, g) /\ (f.mode = "catch" => to \notin {"leapfrog", "yield"})
  BY DEF WaitStep
<1>. HIDE DEF f, g
<1>7. frames' \in [Workers -> Seq(Frame)] /\ RenewsFrame(w, g)
  BY <1>1, <1>5, <1>6, SetTopRenews
<1>8. Types'
  BY <1>1, <1>7 DEF Types
<1>9. /\ f.mode = "catch" => f.stolen /\ f.task \in cancelled
      /\ f.mode = "destroy" /\ f.raised => Interrupted(w, Len(frames[w]))
  BY <1>1, <1>2, TopFacts
<1>10. f.mode \in {"destroy", "catch"} =>
         /\ \A j \in f.base + 1 .. Len(deque[w]) : deque[w][j] \in cancelled
         /\ f.mode = "catch" => f.task \notin Spawning
  <2>1. f.base \in Nat /\ Len(deque[w]) \in Nat /\ Len(frames[w]) \in 1 .. Len(frames[w])
    BY <1>1, <1>2, TopFrame DEF IInv
  <2>2. \A j \in f.base + 1 .. Len(deque[w]) : Owns(w, Len(frames[w]), j) /\ j \in 1 .. Len(deque[w])
    BY <1>1, <1>2, <2>1, TopFacts
  <2>3. Len(deque[w]) \in f.base + 1 .. Len(deque[w])
    BY <1>4, <2>1
  <2>. QED
    BY <1>2, <2>1, <2>2, <2>3 DEF IInv, Segments
<1>11. f.stolen => f.mode # "check" /\ (word[f.task] = "finished" <=> f.mode = "check")
  <2>1. Len(frames[w]) \in 1 .. Len(frames[w])
    BY <1>1, TopFrame DEF IInv
  <2>. QED
    BY <1>2, <1>3, <2>1 DEF IInv, Words
<1>12. Renews(w, g)
  BY <1>1, <1>2, <1>3, <1>4, <1>5, <1>6, <1>7, <1>9, <1>10, <1>11 DEF Renews, Grows
<1>. QED
  BY <1>5, <1>8, <1>12

(* A step that changes only the mode of the innermost frame.                 *)
LEMMA ModeChange ==
  ASSUME IInv, NEW w \in Workers, Alive(w), NEW m \in Modes,
         SetTop(w, [Top(w) EXCEPT !.mode = m])
  PROVE  \E g \in Frame :
           /\ frames' \in [Workers -> Seq(Frame)] /\ RenewsFrame(w, g)
           /\ SameFrame(g, Top(w)) /\ g.spawned = Top(w).spawned
           /\ g.mode = m /\ g.raised = Top(w).raised /\ g.wait = Top(w).wait
<1> DEFINE f == Top(w)
           g == [f EXCEPT !.mode = m]
<1>1. Len(frames[w]) # 0 /\ Types
  BY AliveHasFrame DEF IInv
<1>2. f \in Frame
  BY <1>1, TopFrame DEF IInv
<1>3. /\ g \in Frame /\ SameFrame(g, f) /\ g.spawned = f.spawned
      /\ g.mode = m /\ g.raised = f.raised /\ g.wait = f.wait
  BY <1>2 DEF Frame, SameFrame
<1>4. SetTop(w, g)
  OBVIOUS
<1>. HIDE DEF g
<1>5. frames' \in [Workers -> Seq(Frame)] /\ RenewsFrame(w, g)
  BY <1>1, <1>3, <1>4, SetTopRenews
<1>. QED
  BY <1>3, <1>5

(* A frame with nothing pending does not wait.                               *)
LEMMA NothingPending ==
  ASSUME IInv, NEW w \in Workers, Alive(w)
  PROVE  LET n == Len(frames[w])
             f == frames[w][n] IN
         /\ n # 0 /\ Top(w) = f /\ f \in Frame /\ f.task \in Tasks /\ f.mode \in Modes
         /\ n \in 1 .. Len(frames[w]) /\ f.base \in Nat /\ Len(deque[w]) \in Nat
         /\ Pending(w) \subseteq Tasks
         /\ Pending(w) = {} => f.base = Len(deque[w]) /\ f.wait = "no"
         /\ \A j \in f.base + 1 .. Len(deque[w]) : deque[w][j] \in Pending(w)
         /\ f.stolen => (word[f.task] = "finished" <=> f.mode = "check")
<1>1. Len(frames[w]) # 0 /\ Types /\ Bases
  BY AliveHasFrame DEF IInv
<1>2. Len(frames[w]) \in 1 .. Len(frames[w])
  BY <1>1, TopFrame
<1> DEFINE f == frames[w][Len(frames[w])]
<1>3. f.stolen => (word[f.task] = "finished" <=> f.mode = "check")
  BY <1>2 DEF IInv, Words
<1>4. f.base = Len(deque[w]) => f.wait = "no"
  BY <1>1, TopFacts, TopFrame
<1>. QED
  BY <1>1, <1>2, <1>3, <1>4, TopFrame, TopFacts

(* The frame's task ends.                                                    *)
LEMMA LeaveKind ==
  ASSUME IInv, NEW w \in Workers, Alive(w), Leave(w), Pending(w) = {},
         Top(w).mode \in {"run", "destroy"},
         complete' = complete \cup {Top(w).task},
         UNCHANGED <<deque, thief, word, cancelled, terminated>>
  PROVE  Types' /\ (Ends(w) \/ \E g \in Frame : Renews(w, g))
<1> DEFINE f == Top(w)
<1>1. /\ Len(frames[w]) # 0 /\ f = frames[w][Len(frames[w])] /\ f.task \in Tasks
      /\ f.base = Len(deque[w]) /\ f.wait = "no" /\ Types
      /\ f.stolen => (word[f.task] = "finished" <=> f.mode = "check")
  BY NothingPending DEF IInv
<1>2. complete' \subseteq Tasks /\ f.task \in complete' /\ Grows
  BY <1>1 DEF Types, Grows
<1>3. CASE ~Top(w).stolen
  <2>1. SetFrames(w, Below(w))
    BY <1>3 DEF Leave
  <2>2. frames' \in [Workers -> Seq(Frame)] /\ PopsFrame(w)
    BY <1>1, <2>1, BelowPops
  <2>3. Types'
    BY <1>1, <1>2, <2>2 DEF Types
  <2>4. Ends(w)
    BY <1>1, <1>2, <1>3, <2>2 DEF Ends
  <2>. QED
    BY <2>3, <2>4
<1>4. CASE Top(w).stolen
  <2>1. SetTop(w, [Top(w) EXCEPT !.mode = "mark"])
    BY <1>4 DEF Leave
  <2>2. PICK g \in Frame :
           /\ frames' \in [Workers -> Seq(Frame)] /\ RenewsFrame(w, g)
           /\ SameFrame(g, f) /\ g.spawned = f.spawned
           /\ g.mode = "mark" /\ g.raised = f.raised /\ g.wait = f.wait
    BY <2>1, ModeChange DEF Modes
  <2>3. Types'
    BY <1>1, <1>2, <2>2 DEF Types
  <2>. HIDE DEF f
  <2>4. Renews(w, g)
    BY <1>1, <1>2, <1>4, <2>2 DEF Renews, f
  <2>. QED
    BY <2>2, <2>3, <2>4
<1>. QED
  BY <1>3, <1>4

(* A return ends a frame, by marking its task or by going back to sync().     *)
LEMMA ReturnKind ==
  ASSUME IInv, NEW w \in Workers, Return(w)
  PROVE  Types' /\ (Ends(w) \/ \E g \in Frame : Renews(w, g))
  BY LeaveKind DEF Return, InCode

(* A task group's destructor starts.                                         *)
LEMMA DestroyKind ==
  ASSUME IInv, NEW w \in Workers, Alive(w), NEW exception \in BOOLEAN,
         Destroy(w, exception),
         Top(w).wait = "no",
         Top(w).mode = IF exception THEN "throw" ELSE "run",
         UNCHANGED <<deque, thief, word, complete, terminated>>
  PROVE  Types' /\ \E g \in Frame : Renews(w, g)
<1> DEFINE f == Top(w)
           g == [f EXCEPT !.mode = "destroy", !.raised = exception]
<1>1. /\ Len(frames[w]) # 0 /\ f = frames[w][Len(frames[w])] /\ f \in Frame /\ Types
      /\ Pending(w) \subseteq Tasks
      /\ \A j \in f.base + 1 .. Len(deque[w]) : deque[w][j] \in Pending(w)
      /\ f.stolen => (word[f.task] = "finished" <=> f.mode = "check")
  BY NothingPending DEF IInv
<1>2. /\ g \in Frame /\ SameFrame(g, f) /\ g.spawned = f.spawned
      /\ g.mode = "destroy" /\ g.raised = exception /\ g.wait = "no"
  BY <1>1 DEF Frame, SameFrame, Modes
<1>3. SetTop(w, g) /\ cancelled' = cancelled \cup Pending(w)
  BY DEF Destroy
<1>4. f.mode = "throw" => Interrupted(w, Len(frames[w]))
  BY <1>1, TopFacts
<1>5. f.mode # "check" /\ (exception => f.mode = "throw")
  OBVIOUS
<1>. HIDE DEF f, g
<1>6. frames' \in [Workers -> Seq(Frame)] /\ RenewsFrame(w, g)
  BY <1>1, <1>2, <1>3, SetTopRenews
<1>7. Types'
  BY <1>1, <1>3, <1>6 DEF Types
<1>8. \A j \in f.base + 1 .. Len(deque[w]) : deque[w][j] \in cancelled'
  BY <1>1, <1>3
<1>9. Renews(w, g)
  BY <1>1, <1>2, <1>3, <1>4, <1>5, <1>6, <1>8 DEF Renews, Grows
<1>. QED
  BY <1>2, <1>7, <1>9

(* A return before the group is synced cancels what is left.                  *)
LEMMA ReturnEarlyKind ==
  ASSUME IInv, NEW w \in Workers, ReturnEarly(w)
  PROVE  Types' /\ \E g \in Frame : Renews(w, g)
  BY DestroyKind DEF ReturnEarly, InCode

(* The thief starts the task, or finds it cancelled.                          *)
LEMMA StartKind ==
  ASSUME IInv, NEW w \in Workers, Start(w)
  PROVE  Types' /\ \E g \in Frame : Renews(w, g)
<1> DEFINE f == Top(w)
           m == IF f.task \in cancelled THEN "mark" ELSE "run"
<1>1. Alive(w) /\ f.mode = "start"
  BY DEF Start, InMode
<1>2. /\ Len(frames[w]) # 0 /\ f = frames[w][Len(frames[w])] /\ f \in Frame /\ f.task \in Tasks
      /\ Types
  BY <1>1, NothingPending DEF IInv
<1>3. f.base = Len(deque[w]) /\ f.spawned = 0 /\ f.stolen /\ f.wait = "no"
  BY <1>1, <1>2, TopFacts
<1>4. PICK g \in Frame :
           /\ frames' \in [Workers -> Seq(Frame)] /\ RenewsFrame(w, g)
           /\ SameFrame(g, f) /\ g.spawned = f.spawned
           /\ g.mode = m /\ g.raised = f.raised /\ g.wait = f.wait
  <2>1. m \in Modes /\ SetTop(w, [f EXCEPT !.mode = m])
    BY DEF Start, Modes
  <2>. HIDE DEF m
  <2>. QED
    BY <1>1, <2>1, ModeChange
<1>5. /\ word' = [word EXCEPT ![f.task] = "started"]
      /\ UNCHANGED <<deque, thief, cancelled, complete, terminated>>
  BY DEF Start
<1>6. Types'
  BY <1>2, <1>4, <1>5 DEF Types
<1>7. /\ \A t \in Tasks \ {f.task} : word'[t] = word[t]
      /\ word'[f.task] = "started"
  BY <1>2, <1>5 DEF Types
<1>8. m \in {"run", "mark"} /\ (m = "mark" => f.task \in cancelled)
  OBVIOUS
<1>. HIDE DEF f, m
<1>9. Renews(w, g)
  BY <1>1, <1>2, <1>3, <1>4, <1>5, <1>7, <1>8 DEF Renews, Grows
<1>. QED
  BY <1>4, <1>6, <1>9

(* markAsFinished() changes the word and the mode of the frame.               *)
LEMMA MarkAsFinishedKind ==
  ASSUME IInv, NEW w \in Workers, MarkAsFinished(w)
  PROVE  Types' /\ \E g \in Frame : Renews(w, g)
<1> DEFINE f == Top(w)
<1>1. Alive(w) /\ f.mode = "mark"
  BY DEF MarkAsFinished, InMode
<1>2. /\ Len(frames[w]) # 0 /\ f = frames[w][Len(frames[w])] /\ f \in Frame /\ f.task \in Tasks
      /\ Types
  BY <1>1, NothingPending DEF IInv
<1>3. f.base = Len(deque[w]) /\ f.stolen /\ f.wait = "no" /\ f.task \in complete \cup cancelled
  BY <1>1, <1>2, TopFacts
<1>4. PICK g \in Frame :
           /\ frames' \in [Workers -> Seq(Frame)] /\ RenewsFrame(w, g)
           /\ SameFrame(g, f) /\ g.spawned = f.spawned
           /\ g.mode = "check" /\ g.raised = f.raised /\ g.wait = f.wait
  BY <1>1, ModeChange DEF MarkAsFinished, Modes
<1>5. /\ word' = [word EXCEPT ![f.task] = "finished"]
      /\ UNCHANGED <<deque, thief, cancelled, complete, terminated>>
  BY DEF MarkAsFinished
<1>6. Types'
  BY <1>2, <1>4, <1>5 DEF Types
<1>7. /\ \A t \in Tasks \ {f.task} : word'[t] = word[t]
      /\ word'[f.task] = "finished"
  BY <1>2, <1>5 DEF Types
<1>. HIDE DEF f
<1>8. Renews(w, g)
  BY <1>1, <1>2, <1>3, <1>4, <1>5, <1>7 DEF Renews, Grows
<1>. QED
  BY <1>4, <1>6, <1>8

(* The handler of runStolenTask() goes on to mark the task.                   *)
LEMMA CaughtKind ==
  ASSUME IInv, NEW w \in Workers, Caught(w)
  PROVE  Types' /\ \E g \in Frame : Renews(w, g)
<1> DEFINE f == Top(w)
<1>1. Alive(w) /\ f.mode = "catch" /\ Pending(w) = {}
  BY DEF Caught, InMode
<1>2. /\ Len(frames[w]) # 0 /\ f = frames[w][Len(frames[w])] /\ f \in Frame /\ f.task \in Tasks
      /\ f.base = Len(deque[w]) /\ f.wait = "no" /\ Types
      /\ f.stolen => (word[f.task] = "finished" <=> f.mode = "check")
  BY <1>1, NothingPending DEF IInv
<1>3. f.stolen /\ f.task \in cancelled
  BY <1>1, <1>2, TopFacts
<1>4. PICK g \in Frame :
           /\ frames' \in [Workers -> Seq(Frame)] /\ RenewsFrame(w, g)
           /\ SameFrame(g, f) /\ g.spawned = f.spawned
           /\ g.mode = "mark" /\ g.raised = f.raised /\ g.wait = f.wait
  BY <1>1, ModeChange DEF Caught, Modes
<1>5. UNCHANGED <<deque, thief, word, cancelled, complete, terminated>>
  BY DEF Caught
<1>6. Types'
  BY <1>2, <1>4, <1>5 DEF Types
<1>. HIDE DEF f
<1>7. Renews(w, g)
  BY <1>1, <1>2, <1>3, <1>4, <1>5 DEF Renews, Grows
<1>. QED
  BY <1>4, <1>6, <1>7

(* The frames below the innermost one.                                       *)
LEMMA BelowFacts ==
  ASSUME Types, NEW w \in Workers, Len(frames[w]) # 0
  PROVE  LET n == Len(frames[w]) IN
         /\ n \in Nat \ {0} /\ Len(Below(w)) = n - 1
         /\ n >= 2 => Newest(Below(w)) = frames[w][n - 1] /\ frames[w][n - 1] \in Frame
         /\ RootCancelled(Below(w)) => n >= 2 /\ Interrupted(w, n - 1)
<1> DEFINE b == Below(w)
           n == Len(frames[w])
<1>1. frames[w] \in Seq(Frame) /\ n \in Nat \ {0}
  BY DEF Types
<1>2. b \in Seq(Frame) /\ Len(b) = n - 1 /\ \A i \in 1 .. n - 1 : b[i] = frames[w][i]
  BY <1>1, OlderOnes DEF Below
<1>3. n >= 2 => Newest(b) = frames[w][n - 1] /\ frames[w][n - 1] \in Frame
  BY <1>1, <1>2 DEF Newest
<1>4. ASSUME RootCancelled(b) PROVE n >= 2 /\ Interrupted(w, n - 1)
  <2>. HIDE DEF b, n
  <2>1. PICK i \in 1 .. Len(b) : /\ b[i].stolen /\ b[i].task \in cancelled
                                 /\ \A j \in i + 1 .. Len(b) : ~b[j].stolen
    BY <1>4 DEF RootCancelled
  <2>2. i \in 1 .. n - 1 /\ n >= 2
    BY <1>1, <1>2, <2>1
  <2>3. \A j \in i + 1 .. n - 1 : ~frames[w][j].stolen
    BY <1>1, <1>2, <2>1, <2>2
  <2>4. frames[w][i].stolen /\ frames[w][i].task \in cancelled
    BY <1>2, <2>1, <2>2
  <2>. QED
    BY <2>2, <2>3, <2>4 DEF Interrupted
<1>. QED
  BY <1>1, <1>2, <1>3, <1>4

(* checkInterrupt() in a task's code throws.                                  *)
LEMMA CheckInterruptKind ==
  ASSUME IInv, NEW w \in Workers, CheckInterrupt(w)
  PROVE  Types' /\ \E g \in Frame : Renews(w, g)
<1> DEFINE f == Top(w)
           g == [f EXCEPT !.wait = "no", !.mode = "throw"]
<1>1. Alive(w) /\ f.mode = "run" /\ RootCancelled(frames[w])
  BY DEF CheckInterrupt, InCode
<1>2. /\ Len(frames[w]) # 0 /\ f = frames[w][Len(frames[w])] /\ f \in Frame /\ Types
      /\ f.stolen => (word[f.task] = "finished" <=> f.mode = "check")
  BY <1>1, NothingPending DEF IInv
<1>3. /\ g \in Frame /\ SameFrame(g, f) /\ g.spawned = f.spawned
      /\ g.mode = "throw" /\ g.wait = "no"
  BY <1>2 DEF Frame, SameFrame, Modes
<1>4. g = [f EXCEPT !.wait = "no", !.mode = IF @ = "run" THEN "throw" ELSE @]
  BY <1>1, <1>2 DEF Frame
<1>5. SetTop(w, g) /\ UNCHANGED terminated
  BY <1>1, <1>4 DEF CheckInterrupt, Throw, SetTop, Top
<1>6. Interrupted(w, Len(frames[w]))
  BY <1>1, RootCancelledIsInterrupted
<1>7. UNCHANGED <<deque, thief, word, cancelled, complete>>
  BY DEF CheckInterrupt
<1>. HIDE DEF f, g
<1>8. frames' \in [Workers -> Seq(Frame)] /\ RenewsFrame(w, g)
  BY <1>2, <1>3, <1>5, SetTopRenews
<1>9. Types'
  BY <1>2, <1>5, <1>7, <1>8 DEF Types
<1>10. Renews(w, g)
  BY <1>1, <1>2, <1>3, <1>6, <1>7, <1>8 DEF Renews, Grows
<1>. QED
  BY <1>3, <1>9, <1>10

(* The step of an innermost frame into the handler of runStolenTask().       *)
LEMMA CatchKind ==
  ASSUME IInv, NEW w \in Workers, Alive(w), Top(w).stolen,
         SetTop(w, [Top(w) EXCEPT !.mode = "catch"]),
         Top(w).mode = "throw" \/ (Top(w).mode = "destroy" /\ Top(w).raised),
         Top(w).wait = "no",
         Pending(w) # {} => Top(w).task \notin Spawning,
         cancelled' = cancelled \cup Pending(w),
         UNCHANGED <<deque, thief, word, complete, terminated>>
  PROVE  Types' /\ \E g \in Frame : Renews(w, g)
<1> DEFINE f == Top(w)
           n == Len(frames[w])
<1>1. /\ n # 0 /\ n \in 1 .. Len(frames[w]) /\ f = frames[w][n] /\ f \in Frame /\ Types
      /\ Pending(w) \subseteq Tasks
      /\ Pending(w) = {} => f.base = Len(deque[w])
      /\ \A j \in f.base + 1 .. Len(deque[w]) : deque[w][j] \in Pending(w)
      /\ f.stolen => (word[f.task] = "finished" <=> f.mode = "check")
  BY NothingPending DEF IInv
<1>2. f.task \in cancelled
  <2>1. Interrupted(w, n)
    BY <1>1, TopFacts
  <2>2. PICK i \in 1 .. n : /\ frames[w][i].stolen /\ frames[w][i].task \in cancelled
                            /\ \A j \in i + 1 .. n : ~frames[w][j].stolen
    BY <2>1 DEF Interrupted
  <2>3. i = n
    BY <1>1, <2>2
  <2>. QED
    BY <1>1, <2>2, <2>3
<1>3. PICK g \in Frame :
           /\ frames' \in [Workers -> Seq(Frame)] /\ RenewsFrame(w, g)
           /\ SameFrame(g, f) /\ g.spawned = f.spawned
           /\ g.mode = "catch" /\ g.raised = f.raised /\ g.wait = f.wait
  BY ModeChange DEF Modes
<1>4. Types'
  BY <1>1, <1>3 DEF Types
<1>5. \A j \in f.base + 1 .. Len(deque[w]) : deque[w][j] \in cancelled'
  BY <1>1
<1>6. f.base = Len(deque[w]) \/ f.task \notin Spawning
  BY <1>1
<1>. HIDE DEF f, n
<1>7. Renews(w, g)
  BY <1>1, <1>2, <1>3, <1>5, <1>6 DEF Renews, Grows, f, n
<1>. QED
  BY <1>3, <1>4, <1>7

(* An exception goes on from a task that its parent has called.              *)
LEMMA RethrowKind ==
  ASSUME IInv, NEW w \in Workers, Alive(w), ~Top(w).stolen, Rethrow(w),
         Top(w).mode = "throw" \/ (Top(w).mode = "destroy" /\ Top(w).raised),
         Pending(w) # {} => Top(w).task \notin Spawning,
         UNCHANGED <<deque, thief, word, cancelled, complete, terminated>>
  PROVE  Types' /\ \E g \in Frame : Throws(w, g)
<1> DEFINE n == Len(frames[w])
           f == frames[w][n]
           h == frames[w][n - 1]
           g == [h EXCEPT !.mode = "throw"]
<1>1. /\ n # 0 /\ n \in 1 .. Len(frames[w]) /\ f = Top(w) /\ f \in Frame /\ Types
      /\ Pending(w) = {} => f.base = Len(deque[w])
  BY NothingPending DEF IInv
<1>2. Interrupted(w, n)
  BY <1>1, TopFacts
<1>3. PICK i \in 1 .. n : /\ frames[w][i].stolen /\ frames[w][i].task \in cancelled
                          /\ \A j \in i + 1 .. n : ~frames[w][j].stolen
  BY <1>2 DEF Interrupted
<1>4. i \in 1 .. n - 1 /\ n >= 2
  BY <1>1, <1>3
<1>5. Interrupted(w, n - 1)
  BY <1>1, <1>3, <1>4 DEF Interrupted
<1>6. h \in Frame /\ Newest(Below(w)) = h
  BY <1>1, <1>4, BelowFacts
<1>7. h.mode = "run" /\ h.wait = "no"
  <2>1. n - 1 \in 1 .. Len(frames[w]) - 1 /\ (n - 1) + 1 = n
    BY <1>1, <1>4
  <2>. QED
    BY <1>1, <2>1 DEF IInv, Nesting
<1>8. /\ g \in Frame /\ SameFrame(g, h) /\ g.spawned = h.spawned
      /\ g.mode = "throw" /\ g.wait = "no" /\ g.raised = h.raised
  BY <1>6, <1>7 DEF Frame, SameFrame, Modes
<1>9. SetFrames(w, Renewed(Below(w), g))
  BY <1>6 DEF Rethrow
<1>. HIDE DEF f, g, h, n
<1>10. frames' \in [Workers -> Seq(Frame)] /\ UncoversFrame(w, g)
  BY <1>1, <1>4, <1>8, <1>9, RenewedBelowUncovers DEF n
<1>11. Types'
  BY <1>1, <1>10 DEF Types
<1>12. f.base = Len(deque[w]) \/ f.task \notin Spawning
  BY <1>1 DEF f
<1>13. Throws(w, g)
  BY <1>1, <1>4, <1>5, <1>8, <1>10, <1>12 DEF Throws, f, h, n
<1>. QED
  BY <1>8, <1>11, <1>13

(* An exception leaves a frame: into its group's destructor, its handler or   *)
(* the frame below.                                                           *)
LEMMA UnwindKind ==
  ASSUME IInv, NEW w \in Workers, Unwind(w)
  PROVE  Types' /\ \E g \in Frame : Renews(w, g) \/ Throws(w, g)
<1>1. Alive(w) /\ Top(w).mode = "throw" /\ UNCHANGED <<deque, thief, word, complete, terminated>>
  BY DEF Unwind, InMode
<1>2. Top(w).wait = "no"
  BY <1>1, NothingPending, TopFacts
<1>3. CASE Destroy(w, TRUE)
  BY <1>1, <1>2, <1>3, DestroyKind
<1>4. CASE /\ Top(w).task \notin Spawning /\ Top(w).stolen
           /\ SetTop(w, [Top(w) EXCEPT !.mode = "catch"])
           /\ cancelled' = cancelled \cup Pending(w)
  BY <1>1, <1>2, <1>4, CatchKind
<1>5. CASE Top(w).task \notin Spawning /\ ~Top(w).stolen /\ Rethrow(w) /\ UNCHANGED cancelled
  BY <1>1, <1>5, RethrowKind
<1>. QED
  BY <1>3, <1>4, <1>5 DEF Unwind, Spawning

(* A destructor returns, or lets the exception go on.                         *)
LEMMA DestroyedKind ==
  ASSUME IInv, NEW w \in Workers, Destroyed(w)
  PROVE  Types' /\ (Ends(w) \/ \E g \in Frame : Renews(w, g) \/ Throws(w, g))
<1>1. /\ Alive(w) /\ Top(w).mode = "destroy" /\ Pending(w) = {}
      /\ UNCHANGED <<deque, thief, word, cancelled, terminated>>
  BY DEF Destroyed, InMode
<1>2. Top(w).wait = "no"
  BY <1>1, NothingPending
<1>3. CASE ~Top(w).raised
  <2>1. Leave(w) /\ complete' = complete \cup {Top(w).task}
    BY <1>3 DEF Destroyed
  <2>. QED
    BY <1>1, <2>1, LeaveKind
<1>4. CASE Top(w).raised /\ Top(w).stolen
  <2>1. SetTop(w, [Top(w) EXCEPT !.mode = "catch"]) /\ UNCHANGED complete
    BY <1>4 DEF Destroyed
  <2>2. cancelled' = cancelled \cup Pending(w)
    BY <1>1
  <2>. QED
    BY <1>1, <1>2, <1>4, <2>1, <2>2, CatchKind
<1>5. CASE Top(w).raised /\ ~Top(w).stolen
  <2>1. Rethrow(w) /\ UNCHANGED complete
    BY <1>5 DEF Destroyed
  <2>. QED
    BY <1>1, <1>5, <2>1, RethrowKind
<1>. QED
  BY <1>3, <1>4, <1>5

(* A stolen task's frame goes; the task stolen before it may be interrupted.  *)
LEMMA LeaveStolenKind ==
  ASSUME IInv, NEW w \in Workers, LeaveStolen(w)
  PROVE  Types' /\ (Ends(w) \/ \E g \in Frame : Throws(w, g))
<1> DEFINE n == Len(frames[w])
           f == frames[w][n]
           h == frames[w][n - 1]
           m == IF h.mode = "run" THEN "throw" ELSE h.mode
           g == [h EXCEPT !.wait = "no", !.mode = m]
<1>1. Alive(w) /\ Top(w).mode = "check" /\ UNCHANGED <<deque, thief, word, cancelled, complete>>
  BY DEF LeaveStolen, InMode
<1>2. n # 0 /\ n \in 1 .. Len(frames[w]) /\ f = Top(w) /\ f \in Frame /\ Types
  BY <1>1, NothingPending DEF IInv
<1>3. f.stolen /\ f.base = Len(deque[w]) /\ f.mode = "check"
  BY <1>1, <1>2, TopFacts
<1>4. CASE SetFrames(w, Below(w)) /\ terminated' \in BOOLEAN
  <2>1. frames' \in [Workers -> Seq(Frame)] /\ PopsFrame(w)
    BY <1>2, <1>4, BelowPops
  <2>2. Types'
    BY <1>1, <1>2, <1>4, <2>1 DEF Types
  <2>3. Ends(w)
    BY <1>1, <1>2, <1>3, <2>1 DEF Ends, Grows
  <2>. QED
    BY <2>2, <2>3
<1>5. CASE RootCancelled(Below(w)) /\ ~SetFrames(w, Below(w))
  <2>1. n >= 2 /\ n \in Nat /\ Interrupted(w, n - 1) /\ h = Newest(Below(w)) /\ h \in Frame
    BY <1>2, <1>5, BelowFacts
  <2>2. h.mode \in {"run", "destroy"}
    <3>1. n - 1 \in 1 .. Len(frames[w]) - 1
      BY <2>1
    <3>. QED
      BY <3>1 DEF IInv, Nesting
  <2>3. Throw(w, Below(w))
    BY <1>5 DEF LeaveStolen
  <2>4. /\ SetFrames(w, Renewed(Below(w), [h EXCEPT !.wait = "no",
                                     !.mode = IF @ = "run" THEN "throw" ELSE @]))
        /\ UNCHANGED terminated
    BY <1>5, <2>1, <2>3 DEF Throw
  <2>5. g = [h EXCEPT !.wait = "no", !.mode = IF @ = "run" THEN "throw" ELSE @]
    BY <2>1 DEF Frame
  <2>6. m \in {"throw", "destroy"} /\ (m = "destroy" => h.mode = "destroy")
    BY <2>2
  <2>. HIDE DEF m
  <2>7. /\ g \in Frame /\ SameFrame(g, h) /\ g.spawned = h.spawned
        /\ g.mode = m /\ g.wait = "no" /\ g.raised = h.raised
    BY <2>1, <2>6 DEF Frame, SameFrame, Modes
  <2>8. SetFrames(w, Renewed(Below(w), g))
    BY <2>4, <2>5
  <2>. HIDE DEF f, g, h, n
  <2>9. frames' \in [Workers -> Seq(Frame)] /\ UncoversFrame(w, g)
    BY <1>2, <2>1, <2>7, <2>8, RenewedBelowUncovers DEF n
  <2>10. Types'
    BY <1>1, <1>2, <2>4, <2>9 DEF Types
  <2>11. Throws(w, g)
    BY <1>1, <1>2, <1>3, <2>1, <2>6, <2>7, <2>9 DEF Throws, f, h, n
  <2>. QED
    BY <2>7, <2>10, <2>11
<1>6. terminated' \in BOOLEAN
  BY <1>2 DEF LeaveStolen, Throw, Types
<1>. QED
  BY <1>4, <1>5, <1>6 DEF LeaveStolen

(* A task leaves the deque, and its owner's wait, if any, ends.              *)
LEMMA SyncWorkKind ==
  ASSUME IInv, NEW w \in Workers, SyncWork(w)
  PROVE  Types' /\ \E g \in Frame : Discards(w, g) \/ Calls(w, g)
<1> DEFINE f == Top(w)
           t == Popped(w)
           s == Len(deque[w])
           n == Len(frames[w])
<1>1. /\ Alive(w) /\ f.mode \in {"run", "destroy", "catch"} /\ Pending(w) # {}
      /\ f.wait = "no" /\ thief[t] = None /\ Pop(w)
      /\ UNCHANGED <<thief, word, cancelled, complete, terminated>>
  BY DEF SyncWork, Syncing
<1>2. /\ n # 0 /\ n \in 1 .. Len(frames[w]) /\ f = frames[w][n] /\ f \in Frame /\ Types /\ Bases
      /\ f.base \in Nat /\ s \in Nat
  BY <1>1, NothingPending DEF IInv
<1>3. f.base < s /\ s # 0 /\ t = deque[w][s] /\ t \in Tasks
  BY <1>1, <1>2, TopFrame
<1>4. deque' \in [Workers -> Seq(Tasks)] /\ PopsTask(w)
  BY <1>1, <1>2, <1>3, PopPops
<1>5. CASE t \in cancelled
  <2>1. UNCHANGED frames
    BY <1>5 DEF SyncWork
  <2>2. Types'
    BY <1>1, <1>2, <1>4, <2>1 DEF Types
  <2>3. RenewsFrame(w, f)
    BY <1>2, <2>1 DEF RenewsFrame, OtherFrames
  <2>4. Discards(w, f)
    BY <1>1, <1>2, <1>3, <1>4, <1>5, <2>3 DEF Discards, SameFrame
  <2>. QED
    BY <1>2, <2>2, <2>4
<1>6. CASE t \notin cancelled
  <2> DEFINE g == Call(t, FALSE, s - 1, "run")
  <2>1. /\ g \in Frame /\ g.task = t /\ ~g.stolen /\ g.base = s - 1 /\ g.spawned = 0
        /\ g.mode = "run" /\ g.wait = "no"
    <3>1. s - 1 \in Nat /\ t \in Tasks
      BY <1>2, <1>3
    <3>. HIDE DEF s, t
    <3>. QED
      BY <3>1 DEF Call, Frame, Modes
  <2>2. SetFrames(w, Append(frames[w], g))
    BY <1>6 DEF SyncWork
  <2>. HIDE DEF g
  <2>3. frames' \in [Workers -> Seq(Frame)] /\ PushesFrame(w, g)
    BY <1>2, <2>1, <2>2, AppendPushes
  <2>4. Types'
    BY <1>1, <1>2, <1>4, <2>3 DEF Types
  <2>5. f.mode = "run"
    <3>1. Owns(w, n, s) /\ s \in 1 .. s
      BY <1>2, <1>3, TopFacts
    <3>2. f.mode \in {"destroy", "catch"} => t \in cancelled
      BY <1>2, <1>3, <3>1 DEF IInv, Segments
    <3>. QED
      BY <1>1, <1>6, <3>2
  <2>6. Calls(w, g)
    BY <1>1, <1>2, <1>3, <1>4, <2>1, <2>3, <2>5 DEF Calls
  <2>. QED
    BY <2>1, <2>4, <2>6
<1>. QED
  BY <1>5, <1>6

(* The end of a wait takes the awaited task off the deque.                    *)
LEMMA EndWaitKind ==
  ASSUME IInv, NEW w \in Workers, EndWait(w)
  PROVE  Types' /\ \E g \in Frame : Discards(w, g)
<1> DEFINE f == Top(w)
           g == [f EXCEPT !.wait = "no"]
           t == Popped(w)
           s == Len(deque[w])
           n == Len(frames[w])
<1>1. /\ Alive(w) /\ f.mode \in {"run", "destroy", "catch"} /\ Pending(w) # {}
      /\ SetTop(w, g) /\ word[t] = "finished" /\ Pop(w)
      /\ UNCHANGED <<thief, word, cancelled, complete, terminated>>
  BY DEF EndWait, WaitStep, Syncing
<1>2. /\ n # 0 /\ n \in 1 .. Len(frames[w]) /\ f = frames[w][n] /\ f \in Frame /\ Types /\ Bases
      /\ f.base \in Nat /\ s \in Nat
  BY <1>1, NothingPending DEF IInv
<1>3. f.base < s /\ s # 0 /\ t = deque[w][s] /\ t \in Tasks
  BY <1>1, <1>2, TopFrame
<1>4. deque' \in [Workers -> Seq(Tasks)] /\ PopsTask(w)
  BY <1>1, <1>2, <1>3, PopPops
<1>5. /\ g \in Frame /\ SameFrame(g, f) /\ g.spawned = f.spawned
      /\ g.mode = f.mode /\ g.raised = f.raised /\ g.wait = "no"
  BY <1>2 DEF Frame, SameFrame
<1>. HIDE DEF g
<1>6. frames' \in [Workers -> Seq(Frame)] /\ RenewsFrame(w, g)
  BY <1>1, <1>2, <1>5, SetTopRenews
<1>7. Types'
  BY <1>1, <1>2, <1>4, <1>6 DEF Types
<1>8. Discards(w, g)
  BY <1>1, <1>2, <1>3, <1>4, <1>5, <1>6 DEF Discards
<1>. QED
  BY <1>5, <1>7, <1>8

(* A wait goes from one stage to the next.                                    *)
LEMMA WaitKind ==
  ASSUME IInv, NEW w \in Workers,
         SyncStolen(w) \/ Look(w) \/ StopLeapfrog(w) \/ FallAsleep(w)
  PROVE  Types' /\ \E g \in Frame : Renews(w, g)
<1>1. /\ Syncing(w) /\ UNCHANGED <<deque, thief, word, cancelled, complete, terminated>>
      /\ Top(w).wait # "no" \/ thief[Popped(w)] # None
  BY DEF SyncStolen, Look, StopLeapfrog, FallAsleep, WaitStep
<1>2. thief[Popped(w)] # None
  <2>1. Alive(w) /\ Pending(w) # {}
    BY <1>1 DEF Syncing
  <2>2. Len(frames[w]) # 0 /\ Top(w) = frames[w][Len(frames[w])] /\ Types /\ Bases
    BY <2>1, NothingPending DEF IInv
  <2>3. Popped(w) = deque[w][Len(deque[w])]
    BY <2>1, <2>2, TopFrame
  <2>. QED
    BY <1>1, <2>2, <2>3, TopFacts
<1>3. CASE SyncStolen(w)
  BY <1>1, <1>2, <1>3, WaitStepKind DEF SyncStolen
<1>4. CASE Look(w)
  <2>1. \E to \in {"look", "leapfrog", "yield", "sleep"} :
          WaitStep(w, "look", to) /\ (Top(w).mode = "catch" => to = "sleep")
    BY <1>4 DEF Look
  <2>. QED
    BY <1>1, <1>2, <2>1, WaitStepKind
<1>5. CASE StopLeapfrog(w)
  <2>1. WaitStep(w, "leapfrog", "yield") /\ Alive(w) /\ Top(w).wait = "leapfrog"
    BY <1>1, <1>5 DEF StopLeapfrog, WaitStep, Syncing
  <2>2. Top(w).mode # "catch"
    BY <2>1, NothingPending, TopFacts
  <2>. QED
    BY <1>1, <1>2, <2>1, <2>2, WaitStepKind
<1>6. CASE FallAsleep(w)
  BY <1>1, <1>2, <1>6, WaitStepKind DEF FallAsleep
<1>. QED
  BY <1>3, <1>4, <1>5, <1>6

(* A thief pushes a frame for the task that it takes.                         *)
LEMMA TakeKind ==
  ASSUME IInv, NEW w \in Workers, NEW v \in Workers, Take(w, v), UNCHANGED terminated,
         Len(frames[w]) # 0 => /\ frames[w][Len(frames[w])].mode \in {"run", "destroy"}
                               /\ frames[w][Len(frames[w])].wait # "no"
  PROVE  Types' /\ \E g \in Frame : Takes(w, g)
<1>1. PICK i \in 1 .. Len(deque[v]) :
        /\ thief[deque[v][i]] = None
        /\ thief' = [thief EXCEPT ![deque[v][i]] = w]
        /\ SetFrames(w, Append(frames[w], Call(deque[v][i], TRUE, Len(deque[w]), "start")))
  BY DEF Take
<1> DEFINE t == deque[v][i]
           g == Call(t, TRUE, Len(deque[w]), "start")
<1>2. Types /\ t \in Tasks /\ Len(deque[w]) \in Nat
  BY DEF IInv, Types
<1>3. /\ g \in Frame /\ g.task = t /\ g.stolen /\ g.base = Len(deque[w]) /\ g.spawned = 0
      /\ g.mode = "start" /\ g.wait = "no"
  BY <1>2 DEF Call, Frame, Modes
<1>4. InDeque(t)
  BY DEF InDeque
<1>5. /\ thief[t] = None /\ thief' = [thief EXCEPT ![t] = w]
      /\ SetFrames(w, Append(frames[w], g))
      /\ UNCHANGED <<deque, word, cancelled, complete, terminated>>
  BY <1>1 DEF Take
<1>. HIDE DEF t, g
<1>6. frames' \in [Workers -> Seq(Frame)] /\ PushesFrame(w, g)
  BY <1>2, <1>3, <1>5, AppendPushes
<1>7. /\ thief' \in [Tasks -> Workers \cup {None}]
      /\ thief'[t] = w /\ \A u \in Tasks \ {t} : thief'[u] = thief[u]
  BY <1>2, <1>5 DEF Types
<1>8. Types'
  BY <1>2, <1>5, <1>6, <1>7 DEF Types
<1>9. Takes(w, g)
  BY <1>3, <1>4, <1>5, <1>6, <1>7 DEF Takes
<1>. QED
  BY <1>3, <1>8, <1>9

(* A worker steals when it has no task, or while it waits in sync().         *)
LEMMA StealKind ==
  ASSUME IInv, NEW w \in Workers, Steal(w)
  PROVE  Types' /\ \E g \in Frame : Takes(w, g)
<1>1. PICK v \in Workers \ {w} : StealIdle(w, v) \/ StealLeapfrog(w, v) \/ StealYield(w, v)
  BY DEF Steal
<1>2. CASE StealIdle(w, v)
  <2>1. frames[w] = <<>> /\ ~terminated /\ Take(w, v)
    BY <1>2 DEF StealIdle
  <2>2. Len(frames[w]) = 0
    BY <2>1
  <2>. QED
    BY <2>1, <2>2, TakeKind DEF Take
<1>3. CASE StealLeapfrog(w, v) \/ StealYield(w, v)
  <2>1. Syncing(w) /\ Top(w).wait \in {"leapfrog", "yield"} /\ Take(w, v)
    BY <1>3 DEF StealLeapfrog, StealYield
  <2>2. Alive(w)
    BY <2>1 DEF Syncing
  <2>3. Top(w) = frames[w][Len(frames[w])] /\ Len(frames[w]) # 0
    BY <2>2, NothingPending
  <2>4. Top(w).mode \in {"run", "destroy"} /\ Top(w).wait # "no"
    BY <2>1, <2>3, TopFacts DEF Syncing
  <2>. QED
    BY <2>1, <2>3, <2>4, TakeKind DEF Take
<1>. QED
  BY <1>1, <1>2, <1>3

(* Every step is of one of these kinds.                                      *)
LEMMA StepKind ==
  ASSUME IInv, [Next]_vars
  PROVE  /\ Types'
         /\ \/ Rests
            \/ \E w \in Workers :
                 \/ Ends(w)
                 \/ \E g \in Frame : \/ Renews(w, g) \/ Spawns(w, g) \/ Discards(w, g)
                                     \/ Calls(w, g) \/ Takes(w, g) \/ Throws(w, g)
<1>1. ASSUME UNCHANGED vars
      PROVE  Types' /\ Rests
  BY <1>1 DEF vars, IInv, Types, Rests, Grows
<1>2. ASSUME NEW w \in Workers, Proceed(w)
      PROVE  /\ Types'
             /\ \/ Ends(w)
                \/ \E g \in Frame : \/ Renews(w, g) \/ Spawns(w, g) \/ Discards(w, g)
                                    \/ Calls(w, g) \/ Takes(w, g) \/ Throws(w, g)
  <2>1. CASE Spawn(w)
    BY <2>1, SpawnKind
  <2>2. CASE Return(w)
    BY <2>2, ReturnKind
  <2>3. CASE SyncWork(w)
    BY <2>3, SyncWorkKind
  <2>4. CASE SyncStolen(w) \/ Look(w) \/ StopLeapfrog(w) \/ FallAsleep(w)
    BY <2>4, WaitKind
  <2>5. CASE EndWait(w)
    BY <2>5, EndWaitKind
  <2>6. CASE Start(w)
    BY <2>6, StartKind
  <2>7. CASE MarkAsFinished(w)
    BY <2>7, MarkAsFinishedKind
  <2>8. CASE LeaveStolen(w)
    BY <2>8, LeaveStolenKind
  <2>9. CASE Unwind(w)
    BY <2>9, UnwindKind
  <2>10. CASE Destroyed(w)
    BY <2>10, DestroyedKind
  <2>11. CASE Caught(w)
    BY <2>11, CaughtKind
  <2>. QED
    BY <1>2, <2>1, <2>2, <2>3, <2>4, <2>5, <2>6, <2>7, <2>8, <2>9, <2>10, <2>11 DEF Proceed
<1>3. ASSUME NEW w \in Workers, May(w)
      PROVE  /\ Types'
             /\ \/ Rests
                \/ \E g \in Frame : Renews(w, g) \/ Takes(w, g)
  <2>1. CASE Spin(w)
    BY <1>1, <2>1 DEF Spin
  <2>2. CASE Cancel(w)
    BY <2>2, CancelKind
  <2>3. CASE ReturnEarly(w)
    BY <2>3, ReturnEarlyKind
  <2>4. CASE CheckInterrupt(w)
    BY <2>4, CheckInterruptKind
  <2>5. CASE Steal(w)
    BY <2>5, StealKind
  <2>. QED
    BY <1>3, <2>1, <2>2, <2>3, <2>4, <2>5 DEF May
<1>. QED
  BY <1>1, <1>2, <1>3 DEF Next, Done

-----------------------------------------------------------------------------
(* Steps that leave the stacks' tasks as they are.                           *)
SameStacks ==
  \A v \in Workers :
    /\ Len(frames'[v]) = Len(frames[v])
    /\ \A k \in 1 .. Len(frames[v]) : SameFrame(frames'[v][k], frames[v][k])

(* A frame that is replaced by one for the same task leaves the stacks' tasks *)
(* alone.                                                                     *)
LEMMA RenewedStacks ==
  ASSUME Types, NEW w \in Workers, Len(frames[w]) # 0, NEW g \in Frame, RenewsFrame(w, g),
         SameFrame(g, frames[w][Len(frames[w])])
  PROVE  /\ SameStacks
         /\ \A v \in Workers : \A k \in 1 .. Len(frames[v]) :
              IF v = w /\ k = Len(frames[w]) THEN frames'[v][k] = g
              ELSE frames'[v][k] = frames[v][k]
<1>1. Len(frames[w]) \in Nat \ {0}
  BY Lengths DEF Types
<1>2. ASSUME NEW v \in Workers, NEW k \in 1 .. Len(frames[v])
      PROVE  IF v = w /\ k = Len(frames[w]) THEN frames'[v][k] = g
             ELSE frames'[v][k] = frames[v][k]
  BY <1>1 DEF RenewsFrame, OtherFrames
<1>3. ASSUME NEW v \in Workers
      PROVE  Len(frames'[v]) = Len(frames[v])
  BY DEF RenewsFrame, OtherFrames
<1>. QED
  BY <1>2, <1>3 DEF SameStacks, SameFrame

(* What the invariant says of the tasks on the stacks, when these stay.       *)
LEMMA SameStacksKeep ==
  ASSUME IInv, SameStacks, Grows
  PROVE  /\ \A t \in Tasks : Framed(t)' <=> Framed(t)
         /\ \A w \in Workers : \A k \in 1 .. Len(frames[w]) : Interrupted(w, k) => Interrupted(w, k)'
         /\ \A v, w \in Workers : \A i \in 1 .. Len(frames'[v]), j \in 1 .. Len(frames'[w]) :
              frames'[v][i].task = frames'[w][j].task => v = w /\ i = j
         /\ Inline' /\ NoCycle'
<1>1. \A w \in Workers : Len(frames'[w]) = Len(frames[w])
  BY DEF SameStacks
<1>2. \A w \in Workers : \A k \in 1 .. Len(frames[w]) :
        /\ frames'[w][k].task = frames[w][k].task
        /\ frames'[w][k].stolen = frames[w][k].stolen
  BY DEF SameStacks, SameFrame
<1>3. \A t \in Tasks : Framed(t)' <=> Framed(t)
  BY <1>1, <1>2 DEF Framed
<1>4. ASSUME NEW w \in Workers, NEW k \in 1 .. Len(frames[w])
      PROVE  Interrupted(w, k) => Interrupted(w, k)'
  <2>1. Len(frames[w]) \in Nat
    BY Lengths DEF IInv, Types
  <2>2. \A i \in 1 .. k : i \in 1 .. Len(frames[w])
    BY <2>1
  <2>3. ASSUME NEW i \in 1 .. k, NEW j \in i + 1 .. k
        PROVE  j \in 1 .. Len(frames[w])
    BY <2>1
  <2>. QED
    BY <1>1, <1>2, <2>2, <2>3 DEF Interrupted, Grows
<1>5. \A v, w \in Workers : \A i \in 1 .. Len(frames'[v]), j \in 1 .. Len(frames'[w]) :
        frames'[v][i].task = frames'[w][j].task => v = w /\ i = j
  BY <1>1, <1>2 DEF IInv, Once
<1>6. Inline'
  <2> SUFFICES ASSUME NEW w \in Workers, NEW k \in 1 .. Len(frames'[w]), NEW i \in 1 .. k,
                      \A j \in i + 1 .. k : ~frames'[w][j].stolen
               PROVE  frames'[w][i].task \in Lineage[frames'[w][k].task]
    BY DEF Inline
  <2>1. Len(frames[w]) \in Nat /\ k \in 1 .. Len(frames[w]) /\ i \in 1 .. Len(frames[w])
    BY <1>1, Lengths DEF IInv, Types
  <2>2. \A j \in i + 1 .. k : j \in 1 .. Len(frames[w])
    BY <2>1
  <2>3. \A j \in i + 1 .. k : ~frames[w][j].stolen
    BY <1>2, <2>2
  <2>4. frames[w][i].task \in Lineage[frames[w][k].task]
    BY <2>1, <2>3 DEF IInv, Inline
  <2>. QED
    BY <1>2, <2>1, <2>4
<1>7. \A t, u \in Tasks : Above(t, u)' <=> Above(t, u)
  <2>1. \A w \in Workers : \A k \in 1 .. Len(frames[w]) : \A i \in 1 .. k - 1 : i \in 1 .. Len(frames[w])
    BY Lengths DEF IInv, Types
  <2>2. \A w \in Workers : \A k \in 1 .. Len(frames[w]) : \A i \in 1 .. k - 1 :
          frames'[w][i].task = frames[w][i].task /\ frames'[w][k].task = frames[w][k].task
    BY <1>2, <2>1
  <2>3. ASSUME NEW t \in Tasks, NEW u \in Tasks, Above(t, u)
        PROVE  Above(t, u)'
    <3>1. PICK w \in Workers : \E k \in 1 .. Len(frames[w]) : \E i \in 1 .. k - 1 :
                 frames[w][i].task = t /\ frames[w][k].task = u
      BY <2>3 DEF Above
    <3>2. PICK k \in 1 .. Len(frames[w]) : \E i \in 1 .. k - 1 :
                 frames[w][i].task = t /\ frames[w][k].task = u
      BY <3>1
    <3>3. k \in 1 .. Len(frames'[w]) /\ \E i \in 1 .. k - 1 :
                 frames'[w][i].task = t /\ frames'[w][k].task = u
      BY <1>1, <2>2, <3>2
    <3>. QED
      BY <3>3 DEF Above
  <2>4. ASSUME NEW t \in Tasks, NEW u \in Tasks, Above(t, u)'
        PROVE  Above(t, u)
    <3>1. PICK w \in Workers : \E k \in 1 .. Len(frames'[w]) : \E i \in 1 .. k - 1 :
                 frames'[w][i].task = t /\ frames'[w][k].task = u
      BY <2>4 DEF Above
    <3>2. PICK k \in 1 .. Len(frames[w]) : \E i \in 1 .. k - 1 :
                 frames'[w][i].task = t /\ frames'[w][k].task = u
      BY <1>1, <3>1
    <3>3. \E i \in 1 .. k - 1 : frames[w][i].task = t /\ frames[w][k].task = u
      BY <2>2, <3>2
    <3>. QED
      BY <3>3 DEF Above
  <2>. QED
    BY <2>3, <2>4
<1>8. NoCycle'
  <2> SUFFICES ASSUME NEW S \in SUBSET Tasks, S # {}, \A t \in S : Framed(t)'
               PROVE  \E t \in S : \A u \in S \ {t} : t \notin Lineage[u] /\ ~Above(t, u)'
    BY DEF NoCycle
  <2>1. \A t \in S : Framed(t)
    BY <1>3
  <2>2. PICK t \in S : \A u \in S \ {t} : t \notin Lineage[u] /\ ~Above(t, u)
    BY <2>1 DEF IInv, NoCycle
  <2>. QED
    BY <1>7, <2>2
<1>. QED
  BY <1>3, <1>4, <1>5, <1>6, <1>8

(* What the invariant says of the division of the deques, when these stay.    *)
LEMMA SameDequesKeep ==
  ASSUME IInv, SameStacks, UNCHANGED deque
  PROVE  /\ \A w \in Workers : \A k \in 1 .. Len(frames[w]) : Upper(w, k)' = Upper(w, k)
         /\ \A w \in Workers : \A k \in 1 .. Len(frames[w]) : \A j \in 1 .. Len(deque[w]) :
              Owns(w, k, j)' <=> Owns(w, k, j)
         /\ \A t \in Tasks : InDeque(t)' <=> InDeque(t)
         /\ Bases' /\ Covered'
<1>1. \A w \in Workers : Len(frames'[w]) = Len(frames[w]) /\ Len(frames[w]) \in Nat
  BY Lengths DEF SameStacks, IInv, Types
<1>2. \A w \in Workers : \A k \in 1 .. Len(frames[w]) : frames'[w][k].base = frames[w][k].base
  BY DEF SameStacks, SameFrame
<1>3. ASSUME NEW w \in Workers, NEW k \in 1 .. Len(frames[w])
      PROVE  Upper(w, k)' = Upper(w, k)
  <2>1. CASE k = Len(frames[w])
    BY <1>1, <2>1 DEF Upper
  <2>2. CASE k # Len(frames[w])
    <3>1. k + 1 \in 1 .. Len(frames[w])
      BY <1>1, <2>2
    <3>. QED
      BY <1>1, <1>2, <2>2, <3>1 DEF Upper
  <2>. QED
    BY <2>1, <2>2
<1>4. \A w \in Workers : \A k \in 1 .. Len(frames[w]) : \A j \in 1 .. Len(deque[w]) :
        Owns(w, k, j)' <=> Owns(w, k, j)
  BY <1>2, <1>3 DEF Owns
<1>5. Bases'
  <2>1. \A w \in Workers : \A k \in 1 .. Len(frames[w]) : \A i \in 1 .. k : i \in 1 .. Len(frames[w])
    BY <1>1
  <2>. QED
    BY <1>1, <1>2, <2>1 DEF IInv, Bases
<1>6. Covered'
  BY <1>1, <1>4 DEF IInv, Covered
<1>. QED
  BY <1>3, <1>4, <1>5, <1>6 DEF InDeque

(* With the same stacks, deques and thieves the freshness is the same.       *)
LEMMA FreshKeep ==
  ASSUME IInv, SameStacks, Grows, UNCHANGED <<deque, thief>>
  PROVE  \A c \in Tasks : FreshBelow(c)' <=> FreshBelow(c)
<1>1. \A t \in Tasks : Fresh(t)' <=> Fresh(t)
  BY SameStacksKeep, SameDequesKeep DEF Fresh
<1>. QED
  BY <1>1 DEF FreshBelow

(* A step that changes no stack, deque, thief or word keeps the invariant.    *)
LEMMA RestsStep ==
  ASSUME IInv, Types', Rests
  PROVE  IInv'
<1>1. UNCHANGED <<frames, deque, thief, word>> /\ cancelled \subseteq cancelled' /\ complete \subseteq complete'
  BY DEF Rests, Grows
<1>2. SameStacks /\ Grows
  BY <1>1 DEF SameStacks, SameFrame, Grows
<1>3. \A t \in Tasks : (InDeque(t)' <=> InDeque(t)) /\ (Framed(t)' <=> Framed(t))
  BY <1>1, <1>2, SameStacksKeep, SameDequesKeep
<1>4. \A w \in Workers : \A k \in 1 .. Len(frames[w]) :
        /\ Upper(w, k)' = Upper(w, k)
        /\ \A j \in 1 .. Len(deque[w]) : Owns(w, k, j)' <=> Owns(w, k, j)
        /\ Interrupted(w, k) => Interrupted(w, k)'
  BY <1>1, <1>2, SameStacksKeep, SameDequesKeep
<1>5. Bases' /\ Covered' /\ Inline' /\ NoCycle'
  BY <1>1, <1>2, SameStacksKeep, SameDequesKeep
<1>6. Stages'
  BY <1>1, <1>4 DEF IInv, Stages
<1>7. Nesting'
  BY <1>1 DEF IInv, Nesting
<1>8. Waits'
  BY <1>1, <1>4 DEF IInv, Waits
<1>9. Segments'
  <2> SUFFICES ASSUME NEW w \in Workers, NEW k \in 1 .. Len(frames[w]), NEW j \in 1 .. Len(deque[w]),
                      Owns(w, k, j)'
               PROVE  LET f == frames[w][k]
                          t == deque[w][j] IN
                      /\ t # f.task /\ f.task \in Lineage[t]
                      /\ f.mode = "run" => t \in Kids(f.task)
                      /\ f.mode \in {"destroy", "catch"} => t \in cancelled'
                      /\ f.mode = "catch" => f.task \notin Spawning
                      /\ \A p \in Tasks : t \in Kids(p) =>
                           p = f.task \/ (p \notin Spawning /\ Lineage[p] \cap cancelled' # {})
    BY <1>1 DEF Segments
  <2>. QED
    BY <1>1, <1>4 DEF IInv, Segments
<1>10. Once'
  BY <1>1 DEF IInv, Once
<1>11. Queued'
  BY <1>1, <1>3, Typed DEF IInv, Queued
<1>12. Words'
  BY <1>1, <1>3, Typed DEF IInv, Words
<1>13. Interrupts'
  BY <1>1, <1>4 DEF IInv, Interrupts
<1>14. Unspawned'
  <2>1. \A c \in Tasks : FreshBelow(c) => FreshBelow(c)'
    BY <1>1, <1>2, FreshKeep
  <2>2. \A w \in Workers : \A j \in 1 .. Len(deque[w]) : Kids(deque[w][j]) \subseteq Tasks
    BY KidsAreTasks, Lengths DEF IInv, Types
  <2>3. \A w \in Workers : \A k \in 1 .. Len(frames[w]) :
          \A i \in frames[w][k].spawned + 1 .. Len(Children[frames[w][k].task]) :
            FreshBelow(Children[frames[w][k].task][i])'
    <3>1. ASSUME NEW w \in Workers, NEW k \in 1 .. Len(frames[w]),
                 NEW i \in frames[w][k].spawned + 1 .. Len(Children[frames[w][k].task])
          PROVE  FreshBelow(Children[frames[w][k].task][i])'
      <4>1. Children[frames[w][k].task][i] \in Tasks
        BY Typed DEF IInv
      <4>2. FreshBelow(Children[frames[w][k].task][i])
        BY DEF IInv, Unspawned
      <4>3. PICK c \in Tasks : c = Children[frames[w][k].task][i]
        BY <4>1
      <4>4. FreshBelow(c)'
        BY <2>1, <4>2, <4>3
      <4>5. c = Children[frames'[w][k].task][i]
        BY <1>1, <4>3
      <4>. QED
        BY <4>4, <4>5
    <3>. QED
      BY <3>1
  <2>4. \A w \in Workers : \A j \in 1 .. Len(deque[w]) :
          thief[deque[w][j]] = None => \A c \in Kids(deque[w][j]) : FreshBelow(c)'
    BY <2>1, <2>2 DEF IInv, Unspawned
  <2>. QED
    BY <1>1, <2>3, <2>4 DEF Unspawned
<1>15. Synced'
  <2>1. \A c \in Tasks : Over(c) => Over(c)'
    BY <1>1, <1>3 DEF Over, InFrame
  <2> SUFFICES ASSUME NEW w \in Workers, NEW k \in 1 .. Len(frames[w]), frames[w][k].mode = "run",
                      NEW i \in 1 .. frames[w][k].spawned
               PROVE  LET c == Children[frames[w][k].task][i] IN
                      \/ \E j \in 1 .. Len(deque[w]) : Owns(w, k, j)' /\ deque[w][j] = c
                      \/ k < Len(frames[w]) /\ ~frames[w][k + 1].stolen /\ frames[w][k + 1].task = c
                      \/ Over(c)'
    <3>1. frames' = frames /\ deque' = deque
      BY <1>1
    <3>. QED
      BY <3>1, SMTT(30) DEF Synced
  <2>2. Children[frames[w][k].task][i] \in Tasks
    <3>1. frames[w][k].spawned <= Len(Children[frames[w][k].task])
      BY DEF IInv, Stages
    <3>2. /\ frames[w][k].spawned \in Nat
          /\ frames[w][k].task \in Tasks
          /\ Len(Children[frames[w][k].task]) \in Nat
      BY Typed, KidsAreTasks DEF IInv
    <3>. QED
      BY <3>1, <3>2, KidsAreTasks
  <2>. QED
    BY <1>1, <1>4, <2>1, <2>2 DEF IInv, Synced
<1>. QED
  BY <1>5, <1>6, <1>7, <1>8, <1>9, <1>10, <1>11, <1>12, <1>13, <1>14, <1>15 DEF IInv

(* The innermost frame gets another mode or wait.                            *)
LEMMA RenewsStep ==
  ASSUME IInv, Types', NEW w \in Workers, NEW g \in Frame, Renews(w, g)
  PROVE  IInv'
<1> DEFINE n == Len(frames[w])
           f == frames[w][n]
           s == Len(deque[w])
<1>1. /\ n # 0 /\ RenewsFrame(w, g) /\ SameFrame(g, f)
      /\ UNCHANGED <<deque, thief>> /\ Grows /\ cancelled \subseteq cancelled' /\ complete \subseteq complete'
      /\ g.task = f.task /\ g.stolen = f.stolen /\ g.base = f.base /\ g.spawned = f.spawned
  BY DEF Renews, SameFrame, Grows
<1>2. SameStacks /\ Types /\ n \in Nat /\ s \in Nat /\ n \in 1 .. n
  BY <1>1, RenewedStacks, Typed DEF IInv
<1>3. \A v \in Workers : \A k \in 1 .. Len(frames[v]) :
        /\ v = w /\ k = n => frames'[v][k] = g
        /\ v # w \/ k # n => frames'[v][k] = frames[v][k]
  BY <1>1, <1>2, RenewedStacks
<1>4. \A v \in Workers : Len(frames'[v]) = Len(frames[v])
  BY <1>2 DEF SameStacks
<1>5. \A v \in Workers : \A k \in 1 .. Len(frames[v]) :
        /\ frames'[v][k].task = frames[v][k].task
        /\ frames'[v][k].stolen = frames[v][k].stolen
        /\ frames'[v][k].base = frames[v][k].base
        /\ frames'[v][k].spawned = frames[v][k].spawned
  BY <1>1, <1>3
<1>6. \A t \in Tasks : (InDeque(t)' <=> InDeque(t)) /\ (Framed(t)' <=> Framed(t))
  BY <1>1, <1>2, SameStacksKeep, SameDequesKeep
<1>7. \A v \in Workers : \A k \in 1 .. Len(frames[v]) :
        /\ Upper(v, k)' = Upper(v, k)
        /\ \A j \in 1 .. Len(deque[v]) : Owns(v, k, j)' <=> Owns(v, k, j)
        /\ Interrupted(v, k) => Interrupted(v, k)'
  BY <1>1, <1>2, SameStacksKeep, SameDequesKeep
<1>8. Bases' /\ Covered' /\ Inline' /\ NoCycle'
  BY <1>1, <1>2, SameStacksKeep, SameDequesKeep
<1>9. Upper(w, n) = s /\ f.base \in Nat /\ f.stolen \in BOOLEAN /\ f.task \in Tasks
  BY <1>1, <1>2, Typed DEF Upper
<1>10. Stages'
  <2> SUFFICES ASSUME NEW v \in Workers, NEW k \in 1 .. Len(frames[v])
               PROVE  LET h == frames'[v][k] IN
                      /\ h.spawned <= Len(Children[h.task])
                      /\ h.mode = "start" => h.spawned = 0
                      /\ h.mode \in {"start", "catch", "mark", "check"} => h.stolen
                      /\ h.mode \in {"start", "mark", "check"} => Upper(v, k) = h.base
                      /\ k = 1 /\ ~h.stolen => h.task = Root
    BY <1>4, <1>7 DEF Stages
  <2>1. CASE v # w \/ k # n
    BY <1>3, <2>1 DEF IInv, Stages
  <2>2. CASE v = w /\ k = n
    <3>1. /\ f.spawned <= Len(Children[f.task])
          /\ n = 1 /\ ~f.stolen => f.task = Root
      BY <1>2 DEF IInv, Stages
    <3>2. /\ g.mode # "start"
          /\ g.mode \in {"mark", "check"} => f.stolen /\ f.base = s
          /\ g.mode = "catch" => f.stolen
      BY DEF Renews
    <3>. QED
      BY <1>1, <1>3, <1>9, <2>2, <3>1, <3>2
  <2>. QED
    BY <2>1, <2>2
<1>11. Nesting'
  <2> SUFFICES ASSUME NEW v \in Workers, NEW k \in 1 .. Len(frames[v]) - 1
               PROVE  LET h == frames'[v][k]
                          c == frames'[v][k + 1] IN
                      /\ h.mode \in {"run", "destroy"}
                      /\ c.stolen <=> h.wait # "no"
                      /\ ~c.stolen => h.mode = "run" /\ c.task \in Kids(h.task)
    BY <1>4 DEF Nesting
  <2>1. k \in 1 .. Len(frames[v]) /\ k + 1 \in 1 .. Len(frames[v]) /\ k # Len(frames[v])
    BY <1>2, Typed
  <2>2. frames'[v][k] = frames[v][k]
    BY <1>3, <2>1
  <2>3. LET h == frames[v][k]
            c == frames[v][k + 1] IN
        /\ h.mode \in {"run", "destroy"}
        /\ c.stolen <=> h.wait # "no"
        /\ ~c.stolen => h.mode = "run" /\ c.task \in Kids(h.task)
    BY DEF IInv, Nesting
  <2>4. frames'[v][k + 1].task = frames[v][k + 1].task /\ frames'[v][k + 1].stolen = frames[v][k + 1].stolen
    BY <1>5, <2>1
  <2>. QED
    BY <2>2, <2>3, <2>4
<1>12. Waits'
  <2> SUFFICES ASSUME NEW v \in Workers, NEW k \in 1 .. Len(frames[v]), frames'[v][k].wait # "no"
               PROVE  /\ frames'[v][k].mode \in {"run", "destroy", "catch"}
                      /\ frames'[v][k].base < Upper(v, k)
                      /\ thief[deque[v][Upper(v, k)]] # None
                      /\ frames'[v][k].mode = "catch" => frames'[v][k].wait \notin {"leapfrog", "yield"}
    BY <1>1, <1>4, <1>7 DEF Waits
  <2>1. CASE v # w \/ k # n
    BY <1>3, <2>1 DEF IInv, Waits
  <2>2. CASE v = w /\ k = n
    BY <1>1, <1>3, <1>9, <2>2 DEF Renews
  <2>. QED
    BY <2>1, <2>2
<1>13. Segments'
  <2> SUFFICES ASSUME NEW v \in Workers, NEW k \in 1 .. Len(frames[v]), NEW j \in 1 .. Len(deque[v]),
                      Owns(v, k, j)
               PROVE  LET h == frames'[v][k]
                          t == deque[v][j] IN
                      /\ t # h.task /\ h.task \in Lineage[t]
                      /\ h.mode = "run" => t \in Kids(h.task)
                      /\ h.mode \in {"destroy", "catch"} => t \in cancelled'
                      /\ h.mode = "catch" => h.task \notin Spawning
                      /\ \A p \in Tasks : t \in Kids(p) =>
                           p = h.task \/ (p \notin Spawning /\ Lineage[p] \cap cancelled' # {})
    BY <1>1, <1>4, <1>7 DEF Segments
  <2> DEFINE t == deque[v][j]
  <2>1. LET h == frames[v][k] IN
        /\ t # h.task /\ h.task \in Lineage[t]
        /\ h.mode = "run" => t \in Kids(h.task)
        /\ h.mode \in {"destroy", "catch"} => t \in cancelled
        /\ h.mode = "catch" => h.task \notin Spawning
        /\ \A p \in Tasks : t \in Kids(p) =>
             p = h.task \/ (p \notin Spawning /\ Lineage[p] \cap cancelled # {})
    BY DEF IInv, Segments
  <2>2. \A p \in Tasks : t \in Kids(p) =>
             p = frames[v][k].task \/ (p \notin Spawning /\ Lineage[p] \cap cancelled' # {})
    BY <1>1, <2>1
  <2>3. CASE v # w \/ k # n
    BY <1>1, <1>3, <2>1, <2>2, <2>3
  <2>4. CASE v = w /\ k = n
    <3>1. f.base < j /\ j <= s /\ j \in f.base + 1 .. s
      BY <1>2, <1>9, <2>4 DEF Owns
    <3>2. /\ g.mode = "run" => f.mode = "run"
          /\ g.mode = "catch" => f.task \notin Spawning
      BY <1>2, <1>9, <3>1 DEF Renews
    <3>3. g.mode \in {"destroy", "catch"} => t \in cancelled'
      BY <2>4, <3>1 DEF Renews
    <3>. QED
      BY <1>1, <1>3, <2>1, <2>2, <2>4, <3>2, <3>3
  <2>. QED
    BY <2>3, <2>4
<1>14. Once'
  <2>1. \A u, v \in Workers : \A i \in 1 .. Len(frames'[u]), j \in 1 .. Len(frames'[v]) :
          frames'[u][i].task = frames'[v][j].task => u = v /\ i = j
    BY <1>1, <1>2, SameStacksKeep
  <2>. QED
    BY <1>1, <2>1 DEF IInv, Once
<1>15. \A t \in Tasks : t # f.task => word'[t] = word[t]
  BY <1>9 DEF Renews
<1>16. /\ f.stolen => /\ word[f.task] # "finished" /\ thief[f.task] = w /\ InDeque(f.task)
                      /\ word'[f.task] = "finished" <=> g.mode = "check"
       /\ ~f.stolen => UNCHANGED word
       /\ ~f.stolen => thief[f.task] = None /\ ~InDeque(f.task)
  BY <1>2 DEF IInv, Words, Renews
<1>17. Queued'
  <2> SUFFICES ASSUME NEW v \in Workers, NEW j \in 1 .. Len(deque[v])
               PROVE  LET t == deque[v][j] IN
                      /\ thief[t] = None => ~Framed(t)'
                      /\ thief[t] # None /\ word'[t] # "finished" => Framed(t)'
    BY <1>1 DEF Queued
  <2>1. PICK t \in Tasks : t = deque[v][j]
    BY <1>2, Typed
  <2>2. t = f.task => Framed(t)
    BY <1>2 DEF Framed
  <2>3. /\ thief[t] = None => ~Framed(t)
        /\ thief[t] # None /\ word[t] # "finished" => Framed(t)
    BY <2>1 DEF IInv, Queued
  <2>4. /\ thief[t] = None => ~Framed(t)'
        /\ thief[t] # None /\ word'[t] # "finished" => Framed(t)'
    BY <1>6, <1>15, <2>2, <2>3
  <2>. QED
    BY <1>1, <2>1, <2>4
<1>18. Words'
  <2>1. ASSUME NEW v \in Workers, NEW k \in 1 .. Len(frames[v])
        PROVE  LET h == frames'[v][k] IN
               /\ h.stolen => /\ thief[h.task] = v
                              /\ word'[h.task] = "finished" <=> h.mode = "check"
                              /\ h.mode # "check" => InDeque(h.task)
               /\ ~h.stolen => thief[h.task] = None /\ ~InDeque(h.task)
               /\ h.mode = "mark" => h.task \in complete' \cup cancelled'
               /\ h.mode = "catch" => h.task \in cancelled'
    <3>1. CASE v # w \/ k # n
      <4>1. frames[v][k].task # f.task
        BY <1>2, <3>1 DEF IInv, Once
      <4>2. word'[frames[v][k].task] = word[frames[v][k].task]
        BY <1>2, <1>15, <4>1, Typed
      <4>. QED
        BY <1>1, <1>3, <3>1, <4>2 DEF IInv, Words
    <3>2. CASE v = w /\ k = n
      <4>1. /\ g.mode = "mark" => f.task \in complete' \cup cancelled'
            /\ g.mode = "catch" => f.task \in cancelled'
        BY <1>1 DEF Renews
      <4>. QED
        BY <1>1, <1>3, <1>16, <3>2, <4>1
    <3>. QED
      BY <3>1, <3>2
  <2>2. ASSUME NEW t \in Tasks
        PROVE  /\ thief[t] = None => word'[t] # "finished"
               /\ word'[t] = "finished" => t \in complete' \cup cancelled'
    <3>1. CASE t # f.task
      BY <1>1, <1>15, <3>1 DEF IInv, Words
    <3>2. CASE t = f.task /\ ~f.stolen
      BY <1>1, <1>16, <3>2 DEF IInv, Words
    <3>3. CASE t = f.task /\ f.stolen
      <4>1. g.mode = "check" => f.task \in complete' \cup cancelled'
        BY DEF Renews
      <4>2. thief[f.task] # None
        BY <1>16, <3>3, TreeAssumption
      <4>. QED
        BY <1>16, <3>3, <4>1, <4>2
    <3>. QED
      BY <3>1, <3>2, <3>3
  <2>3. \A v \in Workers : \A k \in 1 .. Len(frames[v]) :
          frames'[v][k].task \in Tasks /\ frames'[v][k].stolen \in BOOLEAN
    BY <1>2, <1>5, Typed
  <2>4. thief' = thief
    BY <1>1
  <2>. QED
    BY <1>4, <1>6, <2>1, <2>2, <2>3, <2>4 DEF Words
<1>19. Interrupts'
  <2> SUFFICES ASSUME NEW v \in Workers, NEW k \in 1 .. Len(frames[v]),
                      frames'[v][k].mode = "throw"
                        \/ (frames'[v][k].mode = "destroy" /\ frames'[v][k].raised)
               PROVE  Interrupted(v, k)'
    BY <1>4 DEF Interrupts
  <2>1. CASE v # w \/ k # n
    BY <1>3, <1>7, <2>1 DEF IInv, Interrupts
  <2>2. CASE v = w /\ k = n
    BY <1>3, <1>7, <2>2 DEF Renews
  <2>. QED
    BY <2>1, <2>2
<1>20. Unspawned'
  <2>1. \A c \in Tasks : FreshBelow(c) => FreshBelow(c)'
    BY <1>1, <1>2, FreshKeep
  <2>2. ASSUME NEW v \in Workers, NEW k \in 1 .. Len(frames'[v]),
               NEW i \in frames'[v][k].spawned + 1 .. Len(Children[frames'[v][k].task]),
               NEW c \in Tasks, c = Children[frames'[v][k].task][i]
        PROVE  FreshBelow(c)'
    BY <1>4, <1>5, <2>1, <2>2 DEF IInv, Unspawned
  <2>3. ASSUME NEW v \in Workers, NEW j \in 1 .. Len(deque'[v]), thief'[deque'[v][j]] = None,
               NEW c \in Kids(deque'[v][j])
        PROVE  FreshBelow(c)'
    <3>1. c \in Tasks
      BY <1>1, <1>2, KidsAreTasks, Typed
    <3>. QED
      BY <1>1, <2>1, <2>3, <3>1 DEF IInv, Unspawned
  <2>. QED
    BY <2>2, <2>3, TypedNext DEF Unspawned
<1>21. \A c \in Tasks : Over(c) => Over(c)'
  <2>1. ASSUME NEW u \in Workers, NEW i \in 1 .. Len(frames[u]), frames'[u][i].mode \in Active
        PROVE  frames[u][i].mode \in Active
    <3>1. CASE u # w \/ i # n
      BY <1>3, <2>1, <3>1
    <3>2. CASE u = w /\ i = n
      BY <1>2, <3>2, Typed DEF Renews, Active
    <3>. QED
      BY <3>1, <3>2
  <2>2. \A c \in Tasks : InFrame(c, Active)' => InFrame(c, Active)
    BY <1>4, <1>5, <2>1 DEF InFrame
  <2>. QED
    BY <1>1, <1>6, <2>2 DEF Over
<1>22. Synced'
  <2>1. ASSUME NEW v \in Workers, NEW k \in 1 .. Len(frames'[v]), frames'[v][k].mode = "run",
               NEW i \in 1 .. frames'[v][k].spawned,
               NEW c \in Tasks, c = Children[frames'[v][k].task][i]
        PROVE  \/ \E j \in 1 .. Len(deque'[v]) : Owns(v, k, j)' /\ deque'[v][j] = c
               \/ k < Len(frames'[v]) /\ ~frames'[v][k + 1].stolen /\ frames'[v][k + 1].task = c
               \/ Over(c)'
    <3>1. k \in 1 .. Len(frames[v]) /\ i \in 1 .. frames[v][k].spawned
          /\ c = Children[frames[v][k].task][i]
      BY <1>4, <1>5, <2>1
    <3>2. frames[v][k].mode = "run"
      <4>1. CASE v # w \/ k # n
        BY <1>3, <2>1, <3>1, <4>1
      <4>2. CASE v = w /\ k = n
        BY <1>2, <1>3, <2>1, <3>1, <4>2 DEF Renews
      <4>. QED
        BY <4>1, <4>2
    <3>3. \/ \E j \in 1 .. Len(deque[v]) : Owns(v, k, j) /\ deque[v][j] = c
          \/ k < Len(frames[v]) /\ ~frames[v][k + 1].stolen /\ frames[v][k + 1].task = c
          \/ Over(c)
      BY <3>1, <3>2 DEF IInv, Synced
    <3>4. k < Len(frames[v]) => k + 1 \in 1 .. Len(frames[v])
      BY <1>2, <3>1, Typed
    <3>. QED
      BY <1>1, <1>4, <1>5, <1>7, <1>21, <3>1, <3>3, <3>4
  <2>. QED
    BY <1>10, <2>1, SpawnedAreTasksNext DEF Synced
<1>. QED
  BY <1>8, <1>10, <1>11, <1>12, <1>13, <1>14, <1>17, <1>18, <1>19, <1>20, <1>22 DEF IInv

(* A frame's part of the deque lies in the deque, below those further up.     *)
LEMMA UpperBounds ==
  ASSUME IInv, NEW w \in Workers, NEW k \in 1 .. Len(frames[w])
  PROVE  /\ Upper(w, k) \in Nat
         /\ frames[w][k].base <= Upper(w, k) /\ Upper(w, k) <= Len(deque[w])
         /\ k < Len(frames[w]) => Upper(w, k) <= frames[w][Len(frames[w])].base
<1>1. Types /\ Bases /\ Len(frames[w]) \in Nat /\ Len(deque[w]) \in Nat /\ k \in Nat
  BY Typed DEF IInv
<1>2. CASE k = Len(frames[w])
  BY <1>1, <1>2 DEF Upper, Bases
<1>3. CASE k # Len(frames[w])
  <2>1. /\ k + 1 \in 1 .. Len(frames[w]) /\ k \in 1 .. k + 1
        /\ Len(frames[w]) \in 1 .. Len(frames[w]) /\ k + 1 \in 1 .. Len(frames[w])
    BY <1>1, <1>3
  <2>2. frames[w][k + 1].base \in Nat
    BY <1>1, <2>1, Typed
  <2>. QED
    BY <1>1, <1>3, <2>1, <2>2 DEF Upper, Bases
<1>. QED
  BY <1>2, <1>3

(* What a frame's part of the deque holds.                                   *)
LEMMA SegmentTask ==
  ASSUME IInv, NEW w \in Workers, NEW k \in 1 .. Len(frames[w]), NEW j \in 1 .. Len(deque[w]),
         Owns(w, k, j)
  PROVE  LET f == frames[w][k]
             t == deque[w][j] IN
         /\ t # f.task /\ f.task \in Lineage[t]
         /\ f.mode = "run" => t \in Kids(f.task)
         /\ f.mode \in {"destroy", "catch"} => t \in cancelled
         /\ f.mode = "catch" => f.task \notin Spawning
         /\ \A p \in Tasks : t \in Kids(p) =>
              p = f.task \/ (p \notin Spawning /\ Lineage[p] \cap cancelled # {})
  BY DEF IInv, Segments

(* A spawn.                                                                  *)
LEMMA SpawnsStep ==
  ASSUME IInv, Types', NEW w \in Workers, NEW g \in Frame, Spawns(w, g)
  PROVE  IInv'
<1> DEFINE n == Len(frames[w])
           f == frames[w][n]
           s == Len(deque[w])
<1>1. /\ n # 0 /\ RenewsFrame(w, g) /\ SameFrame(g, f)
      /\ UNCHANGED <<thief, word, cancelled, complete>> /\ Grows
      /\ g.task = f.task /\ g.stolen = f.stolen /\ g.base = f.base /\ g.spawned = f.spawned + 1
      /\ f.mode = "run" /\ g.mode = "run" /\ g.wait = "no" /\ g.spawned <= Len(Children[f.task])
  BY DEF Spawns, SameFrame, Grows
<1>2. SameStacks /\ Types /\ n \in Nat /\ s \in Nat /\ n \in 1 .. n
  BY <1>1, RenewedStacks, Typed DEF IInv
<1>3. \A v \in Workers : \A k \in 1 .. Len(frames[v]) :
        /\ v = w /\ k = n => frames'[v][k] = g
        /\ v # w \/ k # n => frames'[v][k] = frames[v][k]
  BY <1>1, <1>2, RenewedStacks
<1>4. \A v \in Workers : Len(frames'[v]) = Len(frames[v])
  BY <1>2 DEF SameStacks
<1>5. \A v \in Workers : \A k \in 1 .. Len(frames[v]) :
        /\ frames'[v][k].task = frames[v][k].task
        /\ frames'[v][k].stolen = frames[v][k].stolen
        /\ frames'[v][k].base = frames[v][k].base
  BY <1>1, <1>3
<1>6. f.base \in Nat /\ f.base <= s /\ f.stolen \in BOOLEAN /\ f.task \in Tasks /\ f.spawned \in Nat
  BY <1>1, <1>2, Typed DEF IInv, Bases
<1>7. g.spawned \in f.spawned + 1 .. Len(Children[f.task]) /\ g.spawned \in 1 .. Len(Children[f.task])
  BY <1>1, <1>6, KidsAreTasks
<1>8. PICK c \in Tasks : c = Children[f.task][g.spawned] /\ c \in Kids(f.task)
  BY <1>6, <1>7, KidsAreTasks
<1>9. FreshBelow(c)
  BY <1>2, <1>7, <1>8 DEF IInv, Unspawned
<1>10. ~InDeque(c) /\ ~Framed(c) /\ thief[c] = None
  BY <1>9, LineageOfSelf DEF FreshBelow, Fresh
<1>once. ASSUME NEW p \in Tasks, NEW i \in 1 .. Len(Children[p]), Children[p][i] = c
       PROVE  p = f.task /\ i = g.spawned
  <2>1. PICK q \in Tasks : q = f.task
    BY <1>6
  <2>2. PICK j \in 1 .. Len(Children[q]) : j = g.spawned
    BY <1>7, <2>1
  <2>3. Children[p][i] = Children[q][j]
    BY <1>8, <1>once, <2>1, <2>2
  <2>. QED
    BY <2>1, <2>2, <2>3, OneOrigin
<1>11. /\ \A v \in Workers \ {w} : deque'[v] = deque[v]
       /\ Len(deque'[w]) = s + 1 /\ deque'[w][s + 1] = c
       /\ \A j \in 1 .. s : deque'[w][j] = deque[w][j]
  BY <1>8 DEF Spawns, PushesTask
<1>12. \A v \in Workers : /\ Len(deque'[v]) = IF v = w THEN s + 1 ELSE Len(deque[v])
                          /\ \A j \in 1 .. Len(deque[v]) : deque'[v][j] = deque[v][j]
  BY <1>11
<1>13. \A t \in Tasks : (Framed(t)' <=> Framed(t))
  BY <1>1, <1>2, SameStacksKeep
<1>14. \A t \in Tasks : InDeque(t)' <=> InDeque(t) \/ t = c
  <2> TAKE t \in Tasks
  <2>1. ASSUME InDeque(t) PROVE InDeque(t)'
    <3>0. PICK v \in Workers : \E j \in 1 .. Len(deque[v]) : deque[v][j] = t
      BY <2>1 DEF InDeque
    <3>1. PICK j \in 1 .. Len(deque[v]) : deque[v][j] = t
      BY <3>0
    <3>2. j \in 1 .. Len(deque'[v]) /\ deque'[v][j] = t
      BY <1>2, <1>12, <3>1
    <3>. QED
      BY <3>2 DEF InDeque
  <2>2. ASSUME InDeque(t)' PROVE InDeque(t) \/ t = c
    <3>0. PICK v \in Workers : \E j \in 1 .. Len(deque'[v]) : deque'[v][j] = t
      BY <2>2 DEF InDeque
    <3>1. PICK j \in 1 .. Len(deque'[v]) : deque'[v][j] = t
      BY <3>0
    <3>2. j \in 1 .. Len(deque[v]) \/ (v = w /\ j = s + 1)
      BY <1>2, <1>12
    <3>. QED
      BY <1>11, <1>12, <3>1, <3>2 DEF InDeque
  <2>3. InDeque(c)'
    BY <1>2, <1>11 DEF InDeque
  <2>. QED
    BY <2>1, <2>2, <2>3
<1>15. \A v \in Workers : \A k \in 1 .. Len(frames[v]) :
         Upper(v, k)' = IF v = w /\ k = n THEN s + 1 ELSE Upper(v, k)
  <2> TAKE v \in Workers
  <2> TAKE k \in 1 .. Len(frames[v])
  <2>1. CASE k = Len(frames[v])
    BY <1>4, <1>12, <2>1 DEF Upper
  <2>2. CASE k # Len(frames[v])
    <3>1. k + 1 \in 1 .. Len(frames[v])
      BY <1>2, <2>2, Typed
    <3>. QED
      BY <1>4, <1>5, <2>2, <3>1 DEF Upper
  <2>. QED
    BY <2>1, <2>2
<1>16. \A v \in Workers : \A k \in 1 .. Len(frames[v]) : \A j \in 1 .. Len(deque[v]) :
         Owns(v, k, j)' <=> Owns(v, k, j)
  <2> TAKE v \in Workers
  <2> TAKE k \in 1 .. Len(frames[v])
  <2> TAKE j \in 1 .. Len(deque[v])
  <2>1. CASE v = w /\ k = n
    <3>1. Upper(v, k)' = s + 1 /\ Upper(v, k) = s
      BY <1>15, <2>1 DEF Upper
    <3>2. j <= s /\ j <= s + 1
      BY <1>2, <2>1
    <3>. QED
      BY <1>5, <3>1, <3>2 DEF Owns
  <2>2. CASE v # w \/ k # n
    BY <1>5, <1>15, <2>2 DEF Owns
  <2>. QED
    BY <2>1, <2>2
<1>17. \A k \in 1 .. n : \A j \in {s + 1} : Owns(w, k, j)' <=> k = n
  <2> TAKE k \in 1 .. n
  <2> TAKE j \in {s + 1}
  <2>1. CASE k = n
    <3>1. Upper(w, k)' = s + 1 /\ frames'[w][k].base = f.base
      BY <1>5, <1>15, <2>1
    <3>2. f.base < j /\ j <= s + 1
      BY <1>2, <1>6
    <3>. QED
      BY <2>1, <3>1, <3>2 DEF Owns
  <2>2. CASE k # n
    <3>1. Upper(w, k)' = Upper(w, k)
      BY <1>15, <2>2
    <3>2. Upper(w, k) \in Nat /\ Upper(w, k) <= s
      BY UpperBounds
    <3>3. ~(j <= Upper(w, k))
      BY <1>2, <3>2
    <3>. QED
      BY <2>2, <3>1, <3>3 DEF Owns
  <2>. QED
    BY <2>1, <2>2
<1>18. Inline' /\ NoCycle'
  BY <1>1, <1>2, SameStacksKeep
<1>19. Bases'
  <2>1. \A v \in Workers : \A k \in 1 .. Len(frames[v]) : \A i \in 1 .. k : i \in 1 .. Len(frames[v])
    BY <1>2, Typed
  <2>2. \A v \in Workers : \A k \in 1 .. Len(frames[v]) :
          frames[v][k].base <= Len(deque[v]) /\ frames[v][k].base \in Nat /\ Len(deque[v]) \in Nat
    BY <1>2, Typed DEF IInv, Bases
  <2>3. \A v \in Workers : \A k \in 1 .. Len(frames[v]) : frames[v][k].base <= Len(deque'[v])
    BY <1>2, <1>12, <2>2
  <2>. QED
    BY <1>4, <1>5, <2>1, <2>3 DEF IInv, Bases
<1>20. Covered'
  <2> SUFFICES ASSUME NEW v \in Workers, NEW j \in 1 .. Len(deque'[v])
               PROVE  \E k \in 1 .. Len(frames[v]) : Owns(v, k, j)'
    BY <1>4 DEF Covered
  <2>1. j \in 1 .. Len(deque[v]) \/ (v = w /\ j = s + 1)
    BY <1>2, <1>12
  <2>2. CASE j \in 1 .. Len(deque[v])
    <3>1. PICK k \in 1 .. Len(frames[v]) : Owns(v, k, j)
      BY <2>2 DEF IInv, Covered
    <3>2. Owns(v, k, j)'
      BY <1>16, <2>2, <3>1
    <3>. QED
      BY <3>2
  <2>3. CASE v = w /\ j = s + 1
    <3>1. n \in 1 .. Len(frames[v]) /\ j \in {s + 1}
      BY <1>2, <2>3
    <3>. QED
      BY <1>17, <2>3, <3>1
  <2>. QED
    BY <2>1, <2>2, <2>3
<1>21. Stages'
  <2> SUFFICES ASSUME NEW v \in Workers, NEW k \in 1 .. Len(frames[v])
               PROVE  LET h == frames'[v][k] IN
                      /\ h.spawned <= Len(Children[h.task])
                      /\ h.mode = "start" => h.spawned = 0
                      /\ h.mode \in {"start", "catch", "mark", "check"} => h.stolen
                      /\ h.mode \in {"start", "mark", "check"} => Upper(v, k)' = h.base
                      /\ k = 1 /\ ~h.stolen => h.task = Root
    BY <1>4 DEF Stages
  <2>1. CASE v # w \/ k # n
    <3>1. LET h == frames[v][k] IN
          /\ h.spawned <= Len(Children[h.task])
          /\ h.mode = "start" => h.spawned = 0
          /\ h.mode \in {"start", "catch", "mark", "check"} => h.stolen
          /\ h.mode \in {"start", "mark", "check"} => Upper(v, k) = h.base
          /\ k = 1 /\ ~h.stolen => h.task = Root
      BY DEF IInv, Stages
    <3>2. frames'[v][k] = frames[v][k] /\ Upper(v, k)' = Upper(v, k)
      BY <1>3, <1>15, <2>1
    <3>. QED
      BY <3>1, <3>2
  <2>2. CASE v = w /\ k = n
    <3>1. n = 1 /\ ~f.stolen => f.task = Root
      BY <1>2 DEF IInv, Stages
    <3>. QED
      BY <1>1, <1>3, <2>2, <3>1
  <2>. QED
    BY <2>1, <2>2
<1>22. Nesting'
  <2> SUFFICES ASSUME NEW v \in Workers, NEW k \in 1 .. Len(frames[v]) - 1
               PROVE  LET h == frames'[v][k]
                          d == frames'[v][k + 1] IN
                      /\ h.mode \in {"run", "destroy"}
                      /\ d.stolen <=> h.wait # "no"
                      /\ ~d.stolen => h.mode = "run" /\ d.task \in Kids(h.task)
    BY <1>4 DEF Nesting
  <2>1. k \in 1 .. Len(frames[v]) /\ k + 1 \in 1 .. Len(frames[v]) /\ k # Len(frames[v])
    BY <1>2, Typed
  <2>2. frames'[v][k] = frames[v][k]
    BY <1>3, <2>1
  <2>3. LET h == frames[v][k]
            d == frames[v][k + 1] IN
        /\ h.mode \in {"run", "destroy"}
        /\ d.stolen <=> h.wait # "no"
        /\ ~d.stolen => h.mode = "run" /\ d.task \in Kids(h.task)
    BY DEF IInv, Nesting
  <2>4. frames'[v][k + 1].task = frames[v][k + 1].task /\ frames'[v][k + 1].stolen = frames[v][k + 1].stolen
    BY <1>5, <2>1
  <2>. QED
    BY <2>2, <2>3, <2>4
<1>23. Waits'
  <2> SUFFICES ASSUME NEW v \in Workers, NEW k \in 1 .. Len(frames[v]), frames'[v][k].wait # "no"
               PROVE  /\ frames'[v][k].mode \in {"run", "destroy", "catch"}
                      /\ frames'[v][k].base < Upper(v, k)'
                      /\ thief[deque'[v][Upper(v, k)']] # None
                      /\ frames'[v][k].mode = "catch" => frames'[v][k].wait \notin {"leapfrog", "yield"}
    BY <1>1, <1>4 DEF Waits
  <2>1. v # w \/ k # n
    BY <1>1, <1>3
  <2>2. Upper(v, k)' = Upper(v, k) /\ frames'[v][k] = frames[v][k]
    BY <1>3, <1>15, <2>1
  <2>3. frames[v][k].base < Upper(v, k) /\ thief[deque[v][Upper(v, k)]] # None
    BY <2>2 DEF IInv, Waits
  <2>4. Upper(v, k) \in 1 .. Len(deque[v])
    BY <1>2, <2>3, UpperBounds, Typed
  <2>. QED
    <3>1. deque'[v][Upper(v, k)] = deque[v][Upper(v, k)]
      BY <1>12, <2>4
    <3>2. /\ frames[v][k].mode \in {"run", "destroy", "catch"}
          /\ frames[v][k].mode = "catch" => frames[v][k].wait \notin {"leapfrog", "yield"}
      BY <2>2 DEF IInv, Waits
    <3>. QED
      BY <2>2, <2>3, <3>1, <3>2
<1>24. Segments'
  <2> SUFFICES ASSUME NEW v \in Workers, NEW k \in 1 .. Len(frames[v]), NEW j \in 1 .. Len(deque'[v]),
                      Owns(v, k, j)'
               PROVE  LET h == frames'[v][k]
                          t == deque'[v][j] IN
                      /\ t # h.task /\ h.task \in Lineage[t]
                      /\ h.mode = "run" => t \in Kids(h.task)
                      /\ h.mode \in {"destroy", "catch"} => t \in cancelled
                      /\ h.mode = "catch" => h.task \notin Spawning
                      /\ \A p \in Tasks : t \in Kids(p) =>
                           p = h.task \/ (p \notin Spawning /\ Lineage[p] \cap cancelled # {})
    BY <1>1, <1>4 DEF Segments
  <2>1. j \in 1 .. Len(deque[v]) \/ (v = w /\ j = s + 1)
    BY <1>2, <1>12
  <2>2. CASE j \in 1 .. Len(deque[v])
    <3>1. Owns(v, k, j) /\ deque'[v][j] = deque[v][j]
      BY <1>12, <1>16, <2>2
    <3>2. /\ frames'[v][k].task = frames[v][k].task
          /\ frames'[v][k].mode = frames[v][k].mode
      BY <1>1, <1>3
    <3>3. LET h == frames[v][k]
              t == deque[v][j] IN
          /\ t # h.task /\ h.task \in Lineage[t]
          /\ h.mode = "run" => t \in Kids(h.task)
          /\ h.mode \in {"destroy", "catch"} => t \in cancelled
          /\ h.mode = "catch" => h.task \notin Spawning
          /\ \A p \in Tasks : t \in Kids(p) =>
               p = h.task \/ (p \notin Spawning /\ Lineage[p] \cap cancelled # {})
      BY <2>2, <3>1, SegmentTask
    <3>. QED
      BY <3>1, <3>2, <3>3
  <2>3. CASE v = w /\ j = s + 1
    <3>1. k = n /\ frames'[v][k] = g /\ deque'[v][j] = c
      BY <1>3, <1>11, <1>17, <2>3
    <3>2. c # f.task /\ f.task \in Lineage[c]
      BY <1>6, <1>8, LineageKept, LineageOfSelf
    <3>3. \A p \in Tasks : c \in Kids(p) => p = f.task
      BY <1>6, <1>8, OneParent
    <3>. QED
      BY <1>1, <1>8, <3>1, <3>2, <3>3
  <2>. QED
    BY <2>1, <2>2, <2>3
<1>25. Once'
  <2>1. \A u, v \in Workers : \A i \in 1 .. Len(frames'[u]), j \in 1 .. Len(frames'[v]) :
          frames'[u][i].task = frames'[v][j].task => u = v /\ i = j
    BY <1>1, <1>2, SameStacksKeep
  <2>2. ASSUME NEW u \in Workers, NEW v \in Workers,
               NEW i \in 1 .. Len(deque'[u]), NEW j \in 1 .. Len(deque'[v]),
               deque'[u][i] = deque'[v][j]
        PROVE  u = v /\ i = j
    <3>1. i \in 1 .. Len(deque[u]) \/ (u = w /\ i = s + 1)
      BY <1>2, <1>12
    <3>2. j \in 1 .. Len(deque[v]) \/ (v = w /\ j = s + 1)
      BY <1>2, <1>12
    <3>3. CASE i \in 1 .. Len(deque[u]) /\ j \in 1 .. Len(deque[v])
      <4>1. deque[u][i] = deque[v][j]
        BY <1>12, <2>2, <3>3
      <4>. QED
        BY <3>3, <4>1 DEF IInv, Once
    <3>4. i \in 1 .. Len(deque[u]) => deque'[u][i] # c
      BY <1>10, <1>12 DEF InDeque
    <3>5. j \in 1 .. Len(deque[v]) => deque'[v][j] # c
      BY <1>10, <1>12 DEF InDeque
    <3>. QED
      BY <1>11, <2>2, <3>1, <3>2, <3>3, <3>4, <3>5
  <2>. QED
    BY <2>1, <2>2 DEF Once
<1>26. Queued'
  <2> SUFFICES ASSUME NEW v \in Workers, NEW j \in 1 .. Len(deque'[v]),
                      NEW t \in Tasks, t = deque'[v][j]
               PROVE  /\ thief[t] = None => ~Framed(t)'
                      /\ thief[t] # None /\ word[t] # "finished" => Framed(t)'
    BY <1>1, TypedNext DEF Queued
  <2>1. j \in 1 .. Len(deque[v]) \/ (v = w /\ j = s + 1)
    BY <1>2, <1>12
  <2>2. CASE j \in 1 .. Len(deque[v])
    BY <1>12, <1>13, <2>2 DEF IInv, Queued
  <2>3. CASE v = w /\ j = s + 1
    BY <1>10, <1>11, <1>13, <2>3
  <2>. QED
    BY <2>1, <2>2, <2>3
<1>27. Words'
  <2>1. ASSUME NEW v \in Workers, NEW k \in 1 .. Len(frames[v])
        PROVE  LET h == frames'[v][k] IN
               /\ h.stolen => /\ thief[h.task] = v
                              /\ word[h.task] = "finished" <=> h.mode = "check"
                              /\ h.mode # "check" => InDeque(h.task)
               /\ ~h.stolen => thief[h.task] = None /\ ~InDeque(h.task) /\ h.task # c
               /\ h.mode = "mark" => h.task \in complete \cup cancelled
               /\ h.mode = "catch" => h.task \in cancelled
    <3>1. frames'[v][k].mode = frames[v][k].mode
      BY <1>1, <1>3
    <3>2. frames[v][k].task # c
      BY <1>10 DEF Framed
    <3>. QED
      BY <1>5, <3>1, <3>2 DEF IInv, Words
  <2>2. \A v \in Workers : \A k \in 1 .. Len(frames[v]) :
          frames'[v][k].task \in Tasks /\ frames'[v][k].stolen \in BOOLEAN
    BY <1>2, <1>5, Typed
  <2>3. \A t \in Tasks : /\ thief[t] = None => word[t] # "finished"
                         /\ word[t] = "finished" => t \in complete \cup cancelled
    BY DEF IInv, Words
  <2>. QED
    BY <1>1, <1>4, <1>14, <2>1, <2>2, <2>3 DEF Words
<1>28. Interrupts'
  <2> SUFFICES ASSUME NEW v \in Workers, NEW k \in 1 .. Len(frames[v]),
                      frames'[v][k].mode = "throw"
                        \/ (frames'[v][k].mode = "destroy" /\ frames'[v][k].raised)
               PROVE  Interrupted(v, k)'
    BY <1>4 DEF Interrupts
  <2>1. v # w \/ k # n
    BY <1>1, <1>3
  <2>2. Interrupted(v, k)
    BY <1>3, <2>1 DEF IInv, Interrupts
  <2>. QED
    BY <1>1, <1>2, <2>2, SameStacksKeep
<1>29. ASSUME NEW x \in Tasks, FreshBelow(x), c \notin Kids(x), x # c
       PROVE  FreshBelow(x)'
  <2> SUFFICES ASSUME NEW d \in Tasks, x \in Lineage[d]
               PROVE  Fresh(d)'
    BY DEF FreshBelow
  <2>1. Fresh(d)
    BY <1>29 DEF FreshBelow
  <2>2. d # c
    <3>1. SUFFICES ASSUME x \in Lineage[c] PROVE FALSE
      OBVIOUS
    <3>2. x \in Lineage[f.task]
      BY <1>6, <1>8, <1>29, <3>1, LineageOfKid
    <3>3. Fresh(f.task)
      BY <1>6, <1>29, <3>2 DEF FreshBelow
    <3>. QED
      BY <1>2, <3>3 DEF Fresh, Framed
  <2>. QED
    BY <1>1, <1>13, <1>14, <2>1, <2>2 DEF Fresh
<1>30. Unspawned'
  <2>1. ASSUME NEW v \in Workers, NEW k \in 1 .. Len(frames'[v]),
               NEW i \in frames'[v][k].spawned + 1 .. Len(Children[frames'[v][k].task]),
               NEW x \in Tasks, x = Children[frames'[v][k].task][i]
        PROVE  FreshBelow(x)'
    <3>1. k \in 1 .. Len(frames[v]) /\ x = Children[frames[v][k].task][i] /\ frames[v][k].task \in Tasks
      BY <1>2, <1>4, <1>5, <2>1, Typed
    <3>2. /\ i \in frames[v][k].spawned + 1 .. Len(Children[frames[v][k].task])
          /\ v = w /\ k = n => i # g.spawned
      <4>1. CASE v # w \/ k # n
        BY <1>3, <3>1, <4>1
      <4>2. CASE v = w /\ k = n
        <5>1. Len(Children[f.task]) \in Nat /\ i \in g.spawned + 1 .. Len(Children[f.task])
          BY <1>1, <1>3, <1>6, <3>1, <4>2, KidsAreTasks
        <5>. QED
          BY <1>1, <1>6, <4>2, <5>1
      <4>. QED
        BY <4>1, <4>2
    <3>3. FreshBelow(x)
      BY <3>1, <3>2 DEF IInv, Unspawned
    <3>4. i \in 1 .. Len(Children[frames[v][k].task])
      <4>1. frames[v][k].spawned \in Nat /\ Len(Children[frames[v][k].task]) \in Nat
        BY <1>2, <3>1, Typed, KidsAreTasks
      <4>. QED
        BY <3>2, <4>1
    <3>5. x # c
      <4>1. ASSUME x = c PROVE FALSE
        <5>1. frames[v][k].task = f.task /\ i = g.spawned
          BY <1>once, <3>1, <3>4, <4>1
        <5>2. v = w /\ k = n
          BY <1>2, <3>1, <5>1 DEF IInv, Once
        <5>. QED
          BY <3>2, <5>1, <5>2
      <4>. QED
        BY <4>1
    <3>6. c \notin Kids(x)
      <4>1. ASSUME c \in Kids(x) PROVE FALSE
        <5>1. x = f.task
          BY <1>6, <1>8, <4>1, OneParent
        <5>2. Fresh(x)
          BY <3>3, LineageOfSelf DEF FreshBelow
        <5>. QED
          BY <1>2, <5>1, <5>2 DEF Fresh, Framed
      <4>. QED
        BY <4>1
    <3>. QED
      BY <1>29, <3>3, <3>5, <3>6
  <2>2. ASSUME NEW v \in Workers, NEW j \in 1 .. Len(deque'[v]), NEW t \in Tasks,
               t = deque'[v][j], thief[t] = None, NEW x \in Kids(t)
        PROVE  FreshBelow(x)'
    <3>1. j \in 1 .. Len(deque[v]) \/ (v = w /\ j = s + 1)
      BY <1>2, <1>12
    <3>2. x \in Tasks
      BY KidsAreTasks
    <3>3. CASE j \in 1 .. Len(deque[v])
      <4>1. t = deque[v][j]
        BY <1>12, <2>2, <3>3
      <4>2. FreshBelow(x)
        BY <2>2, <3>3, <4>1 DEF IInv, Unspawned
      <4>3. Fresh(x)
        BY <3>2, <4>2, LineageOfSelf DEF FreshBelow
      <4>4. ~Framed(t)
        BY <2>2, <3>3, <4>1 DEF IInv, Queued
      <4>5. x # c
        <5>1. ASSUME x = c PROVE FALSE
          <6>1. t = f.task
            BY <1>6, <1>8, <5>1, OneParent
          <6>. QED
            BY <1>2, <4>4, <6>1 DEF Framed
        <5>. QED
          BY <5>1
      <4>6. c \notin Kids(x)
        <5>1. ASSUME c \in Kids(x) PROVE FALSE
          <6>1. x = f.task
            BY <1>6, <1>8, <3>2, <5>1, OneParent
          <6>. QED
            BY <1>2, <4>3, <6>1 DEF Fresh, Framed
        <5>. QED
          BY <5>1
      <4>. QED
        BY <1>29, <3>2, <4>2, <4>5, <4>6
    <3>4. CASE v = w /\ j = s + 1
      <4>1. t = c
        BY <1>11, <2>2, <3>4
      <4>2. FreshBelow(x)
        <5> SUFFICES ASSUME NEW d \in Tasks, x \in Lineage[d]
                     PROVE  Fresh(d)
          BY DEF FreshBelow
        <5>1. c \in Lineage[d]
          BY <2>2, <4>1, LineageUp
        <5>. QED
          BY <1>9, <5>1 DEF FreshBelow
      <4>3. x \notin Lineage[c] /\ x # c
        BY <2>2, <4>1, LineageKept
      <4>4. FreshBelow(x)'
        <5> SUFFICES ASSUME NEW d \in Tasks, x \in Lineage[d]
                     PROVE  Fresh(d)'
          BY DEF FreshBelow
        <5>1. d # c
          BY <4>3
        <5>2. Fresh(d)
          BY <4>2 DEF FreshBelow
        <5>. QED
          BY <1>1, <1>13, <1>14, <5>1, <5>2 DEF Fresh
      <4>. QED
        BY <4>4
    <3>. QED
      BY <3>1, <3>3, <3>4
  <2>. QED
    BY <1>1, <2>1, <2>2, TypedNext DEF Unspawned
<1>31. Synced'
  <2>1. ASSUME NEW v \in Workers, NEW k \in 1 .. Len(frames'[v]), frames'[v][k].mode = "run",
               NEW i \in 1 .. frames'[v][k].spawned,
               NEW x \in Tasks, x = Children[frames'[v][k].task][i]
        PROVE  \/ \E j \in 1 .. Len(deque'[v]) : Owns(v, k, j)' /\ deque'[v][j] = x
               \/ k < Len(frames'[v]) /\ ~frames'[v][k + 1].stolen /\ frames'[v][k + 1].task = x
               \/ Over(x)'
    <3>1. k \in 1 .. Len(frames[v]) /\ x = Children[frames[v][k].task][i]
      BY <1>4, <1>5, <2>1
    <3>2. frames[v][k].mode = "run"
      BY <1>1, <1>3, <2>1, <3>1
    <3>3. CASE v = w /\ k = n /\ i = g.spawned
      <4>1. x = c
        <5>1. frames[v][k].task = f.task
          BY <3>3
        <5>. QED
          BY <1>8, <3>1, <3>3, <5>1
      <4>2. PICK j \in 1 .. Len(deque'[v]) : j = s + 1
        BY <1>2, <1>11, <3>3
      <4>3. Owns(v, k, j)' /\ deque'[v][j] = x
        BY <1>11, <1>17, <3>3, <4>1, <4>2
      <4>. QED
        BY <4>2, <4>3
    <3>4. CASE ~(v = w /\ k = n /\ i = g.spawned)
      <4>1. i \in 1 .. frames[v][k].spawned
        <5>1. CASE v # w \/ k # n
          BY <1>3, <3>1, <5>1
        <5>2. CASE v = w /\ k = n
          <6>1. i \in 1 .. g.spawned /\ i # g.spawned /\ g.spawned = f.spawned + 1
            <7>1. frames'[v][k] = g
              BY <1>3, <3>1, <5>2
            <7>2. i \in 1 .. g.spawned
              BY <2>1, <7>1
            <7>3. i # g.spawned
              BY <3>4, <5>2
            <7>. QED
              BY <1>1, <7>2, <7>3
          <6>2. i \in 1 .. f.spawned
            <7>1. PICK m \in Nat : m = f.spawned
              BY <1>6
            <7>2. i \in 1 .. m + 1 /\ i # m + 1
              BY <6>1, <7>1
            <7>. QED
              BY <7>1, <7>2
          <6>. QED
            BY <5>2, <6>2
        <5>. QED
          BY <5>1, <5>2
      <4>2. \/ \E j \in 1 .. Len(deque[v]) : Owns(v, k, j) /\ deque[v][j] = x
            \/ k < Len(frames[v]) /\ ~frames[v][k + 1].stolen /\ frames[v][k + 1].task = x
            \/ Over(x)
        <5>1. Synced
          BY DEF IInv
        <5>. QED
          BY <3>1, <3>2, <4>1, <5>1 DEF Synced
      <4>3. k < Len(frames[v]) => k + 1 \in 1 .. Len(frames[v])
        BY <1>2, <3>1, Typed
      <4>4. x # c
        <5>1. ASSUME x = c PROVE FALSE
          <6>1. i \in 1 .. Len(Children[frames[v][k].task]) /\ frames[v][k].task \in Tasks
            <7>1. /\ frames[v][k].spawned <= Len(Children[frames[v][k].task])
                  /\ frames[v][k].spawned \in Nat /\ frames[v][k].task \in Tasks
              BY <1>2, <3>1, Typed DEF IInv, Stages
            <7>. QED
              BY <4>1, <7>1, KidsAreTasks
          <6>2. frames[v][k].task = f.task /\ i = g.spawned
            BY <1>once, <3>1, <5>1, <6>1
          <6>3. v = w /\ k = n
            BY <1>2, <3>1, <6>2 DEF IInv, Once
          <6>. QED
            BY <3>4, <6>2, <6>3
        <5>. QED
          BY <5>1
      <4>5. InFrame(x, Active)' => InFrame(x, Active)
        <5>1. \A u \in Workers : \A l \in 1 .. Len(frames[u]) : frames'[u][l].mode = frames[u][l].mode
          <6>1. g.mode = f.mode
            BY <1>1
          <6>. QED
            BY <1>3, <6>1
        <5>2. ASSUME NEW u \in Workers, NEW l \in 1 .. Len(frames'[u]),
                     frames'[u][l].task = x, frames'[u][l].mode \in Active
              PROVE  InFrame(x, Active)
          <6>1. /\ l \in 1 .. Len(frames[u]) /\ frames[u][l].task = x
                /\ frames[u][l].mode \in Active
            BY <1>4, <1>5, <5>1, <5>2
          <6>. QED
            BY <6>1 DEF InFrame
        <5>. QED
          BY <5>2 DEF InFrame
      <4>6. Over(x) => Over(x)'
        BY <1>1, <1>14, <4>4, <4>5 DEF Over
      <4>7. \A j \in 1 .. Len(deque[v]) : j \in 1 .. Len(deque'[v]) /\ deque'[v][j] = deque[v][j]
        BY <1>2, <1>12
      <4>. QED
        BY <1>4, <1>5, <1>16, <3>1, <4>2, <4>3, <4>6, <4>7
    <3>. QED
      BY <3>3, <3>4
  <2>. QED
    BY <1>21, <2>1, SpawnedAreTasksNext DEF Synced
<1>. QED
  BY <1>18, <1>19, <1>20, <1>21, <1>22, <1>23, <1>24, <1>25, <1>26, <1>27, <1>28, <1>30, <1>31 DEF IInv


(* What is left of the deques when the newest task leaves one.               *)
LEMMA PoppedDeque ==
  ASSUME IInv, Types', NEW w \in Workers, Len(deque[w]) # 0, PopsTask(w),
         NEW c \in Tasks, c = deque[w][Len(deque[w])]
  PROVE  /\ \A v \in Workers : Len(deque'[v]) = IF v = w THEN Len(deque[w]) - 1 ELSE Len(deque[v])
         /\ \A v \in Workers : \A j \in 1 .. Len(deque'[v]) :
              j \in 1 .. Len(deque[v]) /\ deque'[v][j] = deque[v][j]
         /\ \A v \in Workers : \A j \in 1 .. Len(deque[v]) :
              j \in 1 .. Len(deque'[v]) \/ (v = w /\ j = Len(deque[w]) /\ deque[v][j] = c)
         /\ \A t \in Tasks : InDeque(t)' <=> InDeque(t) /\ t # c
         /\ InDeque(c)
         /\ \A u, v \in Workers : \A i \in 1 .. Len(deque'[u]), j \in 1 .. Len(deque'[v]) :
              deque'[u][i] = deque'[v][j] => u = v /\ i = j
<1> DEFINE s == Len(deque[w])
<1>1. s \in Nat \ {0} /\ \A v \in Workers : Len(deque[v]) \in Nat
  BY Typed DEF IInv
<1>2. /\ \A v \in Workers : v # w => deque'[v] = deque[v]
      /\ Len(deque'[w]) = s - 1
      /\ \A j \in 1 .. s - 1 : deque'[w][j] = deque[w][j]
  BY DEF PopsTask
<1>3. \A v \in Workers : Len(deque'[v]) = IF v = w THEN s - 1 ELSE Len(deque[v])
  BY <1>2
<1>4. ASSUME NEW v \in Workers, NEW j \in 1 .. Len(deque'[v])
      PROVE  /\ j \in 1 .. Len(deque[v]) /\ deque'[v][j] = deque[v][j]
             /\ v = w => j # s
  BY <1>1, <1>2
<1>5. ASSUME NEW v \in Workers, NEW j \in 1 .. Len(deque[v])
      PROVE  j \in 1 .. Len(deque'[v]) \/ (v = w /\ j = s /\ deque[v][j] = c)
  BY <1>1, <1>2
<1>6. s \in 1 .. Len(deque[w]) /\ deque[w][s] = c
  BY <1>1
<1>. HIDE DEF s
<1>7. \A u, v \in Workers : \A i \in 1 .. Len(deque[u]), j \in 1 .. Len(deque[v]) :
         deque[u][i] = deque[v][j] => u = v /\ i = j
  BY DEF IInv, Once
<1>8. ASSUME NEW t \in Tasks
      PROVE  InDeque(t)' <=> InDeque(t) /\ t # c
  <2>1. ASSUME InDeque(t)' PROVE InDeque(t) /\ t # c
    <3>1. PICK v \in Workers : \E j \in 1 .. Len(deque'[v]) : deque'[v][j] = t
      BY <2>1 DEF InDeque
    <3>2. PICK j \in 1 .. Len(deque'[v]) : deque'[v][j] = t
      BY <3>1
    <3>3. j \in 1 .. Len(deque[v]) /\ deque[v][j] = t /\ (v = w => j # s)
      BY <1>4, <3>2
    <3>. QED
      BY <1>6, <1>7, <3>3 DEF InDeque
  <2>2. ASSUME InDeque(t), t # c PROVE InDeque(t)'
    <3>1. PICK v \in Workers : \E j \in 1 .. Len(deque[v]) : deque[v][j] = t
      BY <2>2 DEF InDeque
    <3>2. PICK j \in 1 .. Len(deque[v]) : deque[v][j] = t
      BY <3>1
    <3>3. j \in 1 .. Len(deque'[v])
      BY <1>5, <2>2, <3>2
    <3>4. deque'[v][j] = t
      BY <1>4, <3>2, <3>3
    <3>. QED
      BY <3>3, <3>4 DEF InDeque
  <2>. QED
    BY <2>1, <2>2
<1>9. InDeque(c)
  BY <1>6 DEF InDeque
<1>10. ASSUME NEW u \in Workers, NEW v \in Workers,
              NEW i \in 1 .. Len(deque'[u]), NEW j \in 1 .. Len(deque'[v]), deque'[u][i] = deque'[v][j]
       PROVE  u = v /\ i = j
  BY <1>4, <1>7, <1>10
<1>. QED
  BY <1>3, <1>4, <1>5, <1>8, <1>9, <1>10 DEF s

(* The removal of a task that is over.                                       *)
LEMMA DiscardsStep ==
  ASSUME IInv, Types', NEW w \in Workers, NEW g \in Frame, Discards(w, g)
  PROVE  IInv'
<1> DEFINE n == Len(frames[w])
           f == frames[w][n]
           s == Len(deque[w])
<1>1. /\ n # 0 /\ RenewsFrame(w, g) /\ SameFrame(g, f) /\ PopsTask(w)
      /\ UNCHANGED <<thief, word, cancelled, complete>> /\ Grows
      /\ g.task = f.task /\ g.stolen = f.stolen /\ g.base = f.base /\ g.spawned = f.spawned
      /\ g.mode = f.mode /\ g.raised = f.raised /\ g.wait = "no"
      /\ f.mode \in {"run", "destroy", "catch"} /\ f.base < s
  BY DEF Discards, SameFrame, Grows
<1>2. SameStacks /\ Types /\ n \in Nat /\ s \in Nat /\ n \in 1 .. n
  BY <1>1, RenewedStacks, Typed DEF IInv
<1>3. \A v \in Workers : \A k \in 1 .. Len(frames[v]) :
        /\ v = w /\ k = n => frames'[v][k] = g
        /\ v # w \/ k # n => frames'[v][k] = frames[v][k]
  BY <1>1, <1>2, RenewedStacks
<1>4. \A v \in Workers : Len(frames'[v]) = Len(frames[v])
  BY <1>2 DEF SameStacks
<1>5. \A v \in Workers : \A k \in 1 .. Len(frames[v]) :
        /\ frames'[v][k].task = frames[v][k].task
        /\ frames'[v][k].stolen = frames[v][k].stolen
        /\ frames'[v][k].base = frames[v][k].base
        /\ frames'[v][k].spawned = frames[v][k].spawned
        /\ frames'[v][k].mode = frames[v][k].mode
        /\ frames'[v][k].raised = frames[v][k].raised
  BY <1>1, <1>3
<1>6. f.base \in Nat /\ f.stolen \in BOOLEAN /\ f.task \in Tasks
  BY <1>1, <1>2, Typed
<1>some. s # 0 /\ s \in 1 .. Len(deque[w])
  BY <1>1, <1>2, <1>6
<1>7. PICK c \in Tasks : c = deque[w][s]
  BY <1>2, <1>some, Typed
<1>8. word[c] = "finished" \/ (thief[c] = None /\ c \in cancelled)
  BY <1>7 DEF Discards
<1>9. /\ \A v \in Workers : Len(deque'[v]) = IF v = w THEN s - 1 ELSE Len(deque[v])
      /\ \A v \in Workers : \A j \in 1 .. Len(deque'[v]) :
           j \in 1 .. Len(deque[v]) /\ deque'[v][j] = deque[v][j]
      /\ \A v \in Workers : \A j \in 1 .. Len(deque[v]) :
           j \in 1 .. Len(deque'[v]) \/ deque[v][j] = c
      /\ \A t \in Tasks : InDeque(t)' <=> InDeque(t) /\ t # c
      /\ InDeque(c)
      /\ \A u, v \in Workers : \A i \in 1 .. Len(deque'[u]), j \in 1 .. Len(deque'[v]) :
           deque'[u][i] = deque'[v][j] => u = v /\ i = j
  <2>1. PopsTask(w) /\ Len(deque[w]) # 0 /\ c = deque[w][Len(deque[w])]
    BY <1>1, <1>7, <1>some
  <2>. HIDE DEF n, f, s
  <2>2. s = Len(deque[w])
    BY DEF s
  <2>3. /\ \A v \in Workers : Len(deque'[v]) = IF v = w THEN s - 1 ELSE Len(deque[v])
        /\ \A v \in Workers : \A j \in 1 .. Len(deque'[v]) :
             j \in 1 .. Len(deque[v]) /\ deque'[v][j] = deque[v][j]
    BY <2>1, <2>2, PoppedDeque
  <2>4. \A v \in Workers : \A j \in 1 .. Len(deque[v]) :
          j \in 1 .. Len(deque'[v]) \/ deque[v][j] = c
    BY <2>1, PoppedDeque
  <2>5. /\ \A t \in Tasks : InDeque(t)' <=> InDeque(t) /\ t # c
        /\ InDeque(c)
        /\ \A u, v \in Workers : \A i \in 1 .. Len(deque'[u]), j \in 1 .. Len(deque'[v]) :
             deque'[u][i] = deque'[v][j] => u = v /\ i = j
    BY <2>1, PoppedDeque
  <2>. QED
    BY <2>3, <2>4, <2>5
<1>10. \A t \in Tasks : Framed(t)' <=> Framed(t)
  BY <1>1, <1>2, SameStacksKeep
<1>11. \A v \in Workers : \A k \in 1 .. Len(frames[v]) :
         Upper(v, k)' = IF v = w /\ k = n THEN s - 1 ELSE Upper(v, k)
  <2> TAKE v \in Workers
  <2> TAKE k \in 1 .. Len(frames[v])
  <2>1. CASE k = Len(frames[v])
    BY <1>4, <1>9, <2>1 DEF Upper
  <2>2. CASE k # Len(frames[v])
    <3>1. k + 1 \in 1 .. Len(frames[v])
      BY <1>2, <2>2, Typed
    <3>. QED
      BY <1>4, <1>5, <2>2, <3>1 DEF Upper
  <2>. QED
    BY <2>1, <2>2
<1>12. \A v \in Workers : \A k \in 1 .. Len(frames[v]) : \A j \in 1 .. Len(deque'[v]) :
         Owns(v, k, j)' <=> Owns(v, k, j)
  <2> TAKE v \in Workers
  <2> TAKE k \in 1 .. Len(frames[v])
  <2> TAKE j \in 1 .. Len(deque'[v])
  <2>1. CASE v = w /\ k = n
    <3>1. Upper(v, k)' = s - 1 /\ Upper(v, k) = s
      BY <1>11, <2>1 DEF Upper
    <3>2. j <= s /\ j <= s - 1
      BY <1>2, <1>9, <2>1
    <3>. QED
      BY <1>5, <3>1, <3>2 DEF Owns
  <2>2. CASE v # w \/ k # n
    BY <1>5, <1>11, <2>2 DEF Owns
  <2>. QED
    BY <2>1, <2>2
<1>13. \A v \in Workers : \A k \in 1 .. Len(frames[v]) :
         v # w \/ k # n => Upper(v, k) <= Len(deque'[v])
  <2> TAKE v \in Workers
  <2> TAKE k \in 1 .. Len(frames[v])
  <2>1. CASE v # w
    BY <1>9, <2>1, UpperBounds
  <2>2. CASE v = w /\ k # n
    <3>1. k < n
      BY <1>2, <2>2
    <3>2. Upper(w, k) <= f.base /\ Upper(w, k) \in Nat
      BY <2>2, <3>1, UpperBounds
    <3>. QED
      BY <1>1, <1>2, <1>6, <1>9, <2>2, <3>2
  <2>. QED
    BY <2>1, <2>2
<1>14. Inline' /\ NoCycle'
  BY <1>1, <1>2, SameStacksKeep
<1>15. Bases'
  <2>1. \A v \in Workers : \A k \in 1 .. Len(frames[v]) : \A i \in 1 .. k : i \in 1 .. Len(frames[v])
    BY <1>2, Typed
  <2>2. ASSUME NEW v \in Workers, NEW k \in 1 .. Len(frames[v])
        PROVE  frames[v][k].base <= Len(deque'[v])
    <3>1. CASE v # w \/ k # n
      <4>1. frames[v][k].base \in Nat /\ Upper(v, k) \in Nat /\ Len(deque'[v]) \in Nat
        BY <1>2, Typed, TypedNext, UpperBounds
      <4>2. frames[v][k].base <= Upper(v, k) /\ Upper(v, k) <= Len(deque'[v])
        BY <1>13, <3>1, UpperBounds
      <4>. QED
        BY <4>1, <4>2
    <3>2. CASE v = w /\ k = n
      <4>1. frames[v][k].base = f.base /\ Len(deque'[v]) = s - 1
        BY <1>9, <3>2
      <4>2. f.base <= s - 1
        BY <1>1, <1>2, <1>6
      <4>. QED
        BY <4>1, <4>2
    <3>. QED
      BY <3>1, <3>2
  <2>3. \A v \in Workers : \A k \in 1 .. Len(frames[v]) : frames'[v][k].base = frames[v][k].base
    BY <1>5
  <2>. QED
    BY <1>4, <2>1, <2>2, <2>3 DEF IInv, Bases
<1>16. Covered'
  <2> SUFFICES ASSUME NEW v \in Workers, NEW j \in 1 .. Len(deque'[v])
               PROVE  \E k \in 1 .. Len(frames[v]) : Owns(v, k, j)'
    BY <1>4 DEF Covered
  <2>1. PICK k \in 1 .. Len(frames[v]) : Owns(v, k, j)
    BY <1>9 DEF IInv, Covered
  <2>. QED
    BY <1>12, <2>1
<1>17. Stages'
  <2> SUFFICES ASSUME NEW v \in Workers, NEW k \in 1 .. Len(frames[v])
               PROVE  LET h == frames'[v][k] IN
                      /\ h.spawned <= Len(Children[h.task])
                      /\ h.mode = "start" => h.spawned = 0
                      /\ h.mode \in {"start", "catch", "mark", "check"} => h.stolen
                      /\ h.mode \in {"start", "mark", "check"} => Upper(v, k)' = h.base
                      /\ k = 1 /\ ~h.stolen => h.task = Root
    BY <1>4 DEF Stages
  <2>1. CASE v # w \/ k # n
    <3>1. LET h == frames[v][k] IN
          /\ h.spawned <= Len(Children[h.task])
          /\ h.mode = "start" => h.spawned = 0
          /\ h.mode \in {"start", "catch", "mark", "check"} => h.stolen
          /\ h.mode \in {"start", "mark", "check"} => Upper(v, k) = h.base
          /\ k = 1 /\ ~h.stolen => h.task = Root
      BY DEF IInv, Stages
    <3>2. frames'[v][k] = frames[v][k] /\ Upper(v, k)' = Upper(v, k)
      BY <1>3, <1>11, <2>1
    <3>. QED
      BY <3>1, <3>2
  <2>2. CASE v = w /\ k = n
    <3>1. frames'[v][k].mode \notin {"start", "mark", "check"}
      BY <1>1, <1>3, <2>2
    <3>2. LET h == frames[v][k] IN
          /\ h.spawned <= Len(Children[h.task])
          /\ h.mode \in {"start", "catch", "mark", "check"} => h.stolen
          /\ k = 1 /\ ~h.stolen => h.task = Root
      BY DEF IInv, Stages
    <3>3. /\ frames'[v][k].task = frames[v][k].task
          /\ frames'[v][k].stolen = frames[v][k].stolen
          /\ frames'[v][k].spawned = frames[v][k].spawned
          /\ frames'[v][k].mode = frames[v][k].mode
      BY <1>5
    <3>. QED
      BY <3>1, <3>2, <3>3
  <2>. QED
    BY <2>1, <2>2
<1>18. Nesting'
  <2> SUFFICES ASSUME NEW v \in Workers, NEW k \in 1 .. Len(frames[v]) - 1
               PROVE  LET h == frames'[v][k]
                          d == frames'[v][k + 1] IN
                      /\ h.mode \in {"run", "destroy"}
                      /\ d.stolen <=> h.wait # "no"
                      /\ ~d.stolen => h.mode = "run" /\ d.task \in Kids(h.task)
    BY <1>4 DEF Nesting
  <2>1. k \in 1 .. Len(frames[v]) /\ k + 1 \in 1 .. Len(frames[v]) /\ k # Len(frames[v])
    BY <1>2, Typed
  <2>2. frames'[v][k] = frames[v][k]
    BY <1>3, <2>1
  <2>3. /\ frames'[v][k + 1].task = frames[v][k + 1].task
        /\ frames'[v][k + 1].stolen = frames[v][k + 1].stolen
    BY <1>5, <2>1
  <2>. QED
    BY <2>2, <2>3 DEF IInv, Nesting
<1>19. Waits'
  <2> SUFFICES ASSUME NEW v \in Workers, NEW k \in 1 .. Len(frames[v]), frames'[v][k].wait # "no"
               PROVE  /\ frames'[v][k].mode \in {"run", "destroy", "catch"}
                      /\ frames'[v][k].base < Upper(v, k)'
                      /\ thief[deque'[v][Upper(v, k)']] # None
                      /\ frames'[v][k].mode = "catch" => frames'[v][k].wait \notin {"leapfrog", "yield"}
    BY <1>1, <1>4 DEF Waits
  <2>1. v # w \/ k # n
    BY <1>1, <1>3
  <2>2. Upper(v, k)' = Upper(v, k) /\ frames'[v][k] = frames[v][k]
    BY <1>3, <1>11, <2>1
  <2>3. frames[v][k].base < Upper(v, k) /\ thief[deque[v][Upper(v, k)]] # None
    BY <2>2 DEF IInv, Waits
  <2>4. Upper(v, k) \in 1 .. Len(deque'[v])
    BY <1>2, <1>13, <2>1, <2>3, UpperBounds, Typed, TypedNext
  <2>. QED
    BY <1>9, <2>2, <2>3, <2>4 DEF IInv, Waits
<1>20. Segments'
  <2> SUFFICES ASSUME NEW v \in Workers, NEW k \in 1 .. Len(frames[v]), NEW j \in 1 .. Len(deque'[v]),
                      Owns(v, k, j)'
               PROVE  LET h == frames'[v][k]
                          t == deque'[v][j] IN
                      /\ t # h.task /\ h.task \in Lineage[t]
                      /\ h.mode = "run" => t \in Kids(h.task)
                      /\ h.mode \in {"destroy", "catch"} => t \in cancelled
                      /\ h.mode = "catch" => h.task \notin Spawning
                      /\ \A p \in Tasks : t \in Kids(p) =>
                           p = h.task \/ (p \notin Spawning /\ Lineage[p] \cap cancelled # {})
    BY <1>1, <1>4 DEF Segments
  <2>1. Owns(v, k, j) /\ deque'[v][j] = deque[v][j] /\ j \in 1 .. Len(deque[v])
    BY <1>9, <1>12
  <2>2. LET h == frames[v][k]
            t == deque[v][j] IN
        /\ t # h.task /\ h.task \in Lineage[t]
        /\ h.mode = "run" => t \in Kids(h.task)
        /\ h.mode \in {"destroy", "catch"} => t \in cancelled
        /\ h.mode = "catch" => h.task \notin Spawning
        /\ \A p \in Tasks : t \in Kids(p) =>
             p = h.task \/ (p \notin Spawning /\ Lineage[p] \cap cancelled # {})
    BY <2>1, SegmentTask
  <2>. QED
    BY <1>5, <2>1, <2>2
<1>21. Once'
  <2>1. \A u, v \in Workers : \A i \in 1 .. Len(frames'[u]), j \in 1 .. Len(frames'[v]) :
          frames'[u][i].task = frames'[v][j].task => u = v /\ i = j
    BY <1>1, <1>2, SameStacksKeep
  <2>. QED
    BY <1>9, <2>1 DEF Once
<1>22. Queued'
  <2> SUFFICES ASSUME NEW v \in Workers, NEW j \in 1 .. Len(deque'[v]),
                      NEW t \in Tasks, t = deque'[v][j]
               PROVE  /\ thief[t] = None => ~Framed(t)'
                      /\ thief[t] # None /\ word[t] # "finished" => Framed(t)'
    BY <1>1, TypedNext DEF Queued
  <2>1. j \in 1 .. Len(deque[v]) /\ t = deque[v][j]
    BY <1>9
  <2>. QED
    BY <1>10, <2>1 DEF IInv, Queued
<1>23. ASSUME NEW v \in Workers, NEW k \in 1 .. Len(frames[v]), frames[v][k].task = c
       PROVE  frames[v][k].mode = "check"
  <2>1. frames[v][k].stolen
    BY <1>9, <1>23 DEF IInv, Words
  <2>2. thief[c] # None
    BY <1>23, <2>1, TreeAssumption DEF IInv, Words
  <2>. QED
    BY <1>8, <1>23, <2>1, <2>2 DEF IInv, Words
<1>24. Words'
  <2>1. ASSUME NEW v \in Workers, NEW k \in 1 .. Len(frames[v])
        PROVE  LET h == frames'[v][k] IN
               /\ h.stolen => /\ thief[h.task] = v
                              /\ word[h.task] = "finished" <=> h.mode = "check"
                              /\ h.mode # "check" => InDeque(h.task) /\ h.task # c
               /\ ~h.stolen => thief[h.task] = None /\ ~InDeque(h.task)
               /\ h.mode = "mark" => h.task \in complete \cup cancelled
               /\ h.mode = "catch" => h.task \in cancelled
    BY <1>5, <1>23 DEF IInv, Words
  <2>2. \A v \in Workers : \A k \in 1 .. Len(frames[v]) :
          frames'[v][k].task \in Tasks /\ frames'[v][k].stolen \in BOOLEAN
    BY <1>2, <1>5, Typed
  <2>3. \A t \in Tasks : /\ thief[t] = None => word[t] # "finished"
                         /\ word[t] = "finished" => t \in complete \cup cancelled
    BY DEF IInv, Words
  <2>4. \A t \in Tasks : InDeque(t)' <=> InDeque(t) /\ t # c
    BY <1>9
  <2>. QED
    BY <1>1, <1>4, <2>1, <2>2, <2>3, <2>4 DEF Words
<1>25. Interrupts'
  <2> SUFFICES ASSUME NEW v \in Workers, NEW k \in 1 .. Len(frames[v]),
                      frames'[v][k].mode = "throw"
                        \/ (frames'[v][k].mode = "destroy" /\ frames'[v][k].raised)
               PROVE  Interrupted(v, k)'
    BY <1>4 DEF Interrupts
  <2>1. Interrupted(v, k)
    BY <1>5 DEF IInv, Interrupts
  <2>. QED
    BY <1>1, <1>2, <2>1, SameStacksKeep
<1>26. Unspawned'
  <2>1. \A x \in Tasks : FreshBelow(x) => FreshBelow(x)'
    BY <1>1, <1>9, <1>10 DEF Fresh, FreshBelow
  <2>2. ASSUME NEW v \in Workers, NEW k \in 1 .. Len(frames'[v]),
               NEW i \in frames'[v][k].spawned + 1 .. Len(Children[frames'[v][k].task]),
               NEW x \in Tasks, x = Children[frames'[v][k].task][i]
        PROVE  FreshBelow(x)'
    <3>1. k \in 1 .. Len(frames[v]) /\ frames'[v][k].task = frames[v][k].task
          /\ frames'[v][k].spawned = frames[v][k].spawned
      BY <1>4, <1>5, <2>2
    <3>2. FreshBelow(x)
      BY <2>2, <3>1 DEF IInv, Unspawned
    <3>. QED
      BY <2>1, <3>2
  <2>3. ASSUME NEW v \in Workers, NEW j \in 1 .. Len(deque'[v]), NEW t \in Tasks,
               t = deque'[v][j], thief[t] = None, NEW x \in Kids(t)
        PROVE  FreshBelow(x)'
    <3>1. x \in Tasks
      BY KidsAreTasks
    <3>2. j \in 1 .. Len(deque[v]) /\ t = deque[v][j]
      BY <1>9, <2>3
    <3>. QED
      BY <2>1, <2>3, <3>1, <3>2 DEF IInv, Unspawned
  <2>. QED
    BY <1>1, <2>2, <2>3, TypedNext DEF Unspawned
<1>27. \A x \in Tasks : InFrame(x, Active)' => InFrame(x, Active)
  BY <1>4, <1>5 DEF InFrame
<1>28. Over(c)'
  <2>1. ~InFrame(c, Active)
    BY <1>23 DEF InFrame, Active
  <2>2. c \in complete \cup cancelled
    BY <1>8 DEF IInv, Words
  <2>. QED
    BY <1>1, <1>9, <1>27, <2>1, <2>2 DEF Over
<1>29. Synced'
  <2>1. ASSUME NEW v \in Workers, NEW k \in 1 .. Len(frames'[v]), frames'[v][k].mode = "run",
               NEW i \in 1 .. frames'[v][k].spawned,
               NEW x \in Tasks, x = Children[frames'[v][k].task][i]
        PROVE  \/ \E j \in 1 .. Len(deque'[v]) : Owns(v, k, j)' /\ deque'[v][j] = x
               \/ k < Len(frames'[v]) /\ ~frames'[v][k + 1].stolen /\ frames'[v][k + 1].task = x
               \/ Over(x)'
    <3>1. /\ k \in 1 .. Len(frames[v]) /\ x = Children[frames[v][k].task][i]
          /\ frames[v][k].mode = "run" /\ i \in 1 .. frames[v][k].spawned
      BY <1>4, <1>5, <2>1
    <3>2. \/ \E j \in 1 .. Len(deque[v]) : Owns(v, k, j) /\ deque[v][j] = x
          \/ k < Len(frames[v]) /\ ~frames[v][k + 1].stolen /\ frames[v][k + 1].task = x
          \/ Over(x)
      BY <3>1 DEF IInv, Synced
    <3>3. k < Len(frames[v]) => k + 1 \in 1 .. Len(frames[v])
      BY <1>2, <3>1, Typed
    <3>4. Over(x) => Over(x)'
      BY <1>1, <1>9, <1>27 DEF Over
    <3>5. ASSUME NEW j \in 1 .. Len(deque[v]), Owns(v, k, j), deque[v][j] = x
          PROVE  Over(x)' \/ \E i_1 \in 1 .. Len(deque'[v]) : Owns(v, k, i_1)' /\ deque'[v][i_1] = x
      <4>1. CASE j \in 1 .. Len(deque'[v])
        BY <1>9, <1>12, <3>1, <3>5, <4>1
      <4>2. CASE j \notin 1 .. Len(deque'[v])
        BY <1>9, <1>28, <3>5, <4>2
      <4>. QED
        BY <4>1, <4>2
    <3>. QED
      BY <1>4, <1>5, <3>1, <3>2, <3>3, <3>4, <3>5
  <2>. QED
    BY <1>17, <2>1, SpawnedAreTasksNext DEF Synced
<1>. QED
  BY <1>14, <1>15, <1>16, <1>17, <1>18, <1>19, <1>20, <1>21, <1>22, <1>24, <1>25, <1>26, <1>29 DEF IInv

(* What a new innermost frame leaves of the stacks.                          *)
LEMMA PushedStack ==
  ASSUME IInv, NEW w \in Workers, NEW g \in Frame, PushesFrame(w, g)
  PROVE  /\ \A v \in Workers : Len(frames'[v]) = IF v = w THEN Len(frames[w]) + 1 ELSE Len(frames[v])
         /\ \A v \in Workers : \A k \in 1 .. Len(frames[v]) :
              k \in 1 .. Len(frames'[v]) /\ frames'[v][k] = frames[v][k]
         /\ \A v \in Workers : \A k \in 1 .. Len(frames'[v]) :
              k \in 1 .. Len(frames[v]) \/ (v = w /\ k = Len(frames[w]) + 1 /\ frames'[v][k] = g)
         /\ Len(frames[w]) + 1 \in 1 .. Len(frames'[w]) /\ frames'[w][Len(frames[w]) + 1] = g
<1>1. \A v \in Workers : Len(frames[v]) \in Nat
  BY Typed DEF IInv
<1>2. ASSUME NEW v \in Workers, v # w
      PROVE  frames'[v] = frames[v]
  BY <1>2 DEF PushesFrame, OtherFrames
<1>3. /\ Len(frames'[w]) = Len(frames[w]) + 1 /\ frames'[w][Len(frames[w]) + 1] = g
      /\ \A k \in 1 .. Len(frames[w]) : frames'[w][k] = frames[w][k]
  BY DEF PushesFrame
<1>4. \A v \in Workers : Len(frames'[v]) = IF v = w THEN Len(frames[w]) + 1 ELSE Len(frames[v])
  BY <1>2, <1>3
<1>5. ASSUME NEW v \in Workers, NEW k \in 1 .. Len(frames[v])
      PROVE  k \in 1 .. Len(frames'[v]) /\ frames'[v][k] = frames[v][k]
  BY <1>1, <1>2, <1>3
<1>6. ASSUME NEW v \in Workers, NEW k \in 1 .. Len(frames'[v])
      PROVE  k \in 1 .. Len(frames[v]) \/ (v = w /\ k = Len(frames[w]) + 1 /\ frames'[v][k] = g)
  BY <1>1, <1>2, <1>3
<1>. QED
  BY <1>1, <1>3, <1>4, <1>5, <1>6

(* After a push the new task and those before have a frame.                   *)
LEMMA PushedFramed ==
  ASSUME IInv, NEW w \in Workers, NEW g \in Frame, PushesFrame(w, g)
  PROVE  /\ \A t \in Tasks : Framed(t)' <=> Framed(t) \/ t = g.task
         /\ \A t \in Tasks : InFrame(t, Active)' => InFrame(t, Active) \/ t = g.task
<1>1. ASSUME NEW t \in Tasks, Framed(t)
      PROVE  Framed(t)'
  <2>1. PICK v \in Workers : \E k \in 1 .. Len(frames[v]) : frames[v][k].task = t
    BY <1>1 DEF Framed
  <2>2. PICK k \in 1 .. Len(frames[v]) : frames[v][k].task = t
    BY <2>1
  <2>3. k \in 1 .. Len(frames'[v]) /\ frames'[v][k] = frames[v][k]
    BY PushedStack
  <2>. QED
    BY <2>2, <2>3 DEF Framed
<1>2. Framed(g.task)'
  <2>1. PICK m \in 1 .. Len(frames'[w]) : frames'[w][m] = g
    BY PushedStack
  <2>. QED
    BY <2>1 DEF Framed
<1>3. ASSUME NEW t \in Tasks, Framed(t)'
      PROVE  Framed(t) \/ t = g.task
  <2>1. PICK v \in Workers : \E k \in 1 .. Len(frames'[v]) : frames'[v][k].task = t
    BY <1>3 DEF Framed
  <2>2. PICK k \in 1 .. Len(frames'[v]) : frames'[v][k].task = t
    BY <2>1
  <2>3. frames'[v][k] = g \/ (k \in 1 .. Len(frames[v]) /\ frames'[v][k] = frames[v][k])
    BY PushedStack
  <2>. QED
    BY <2>2, <2>3 DEF Framed
<1>4. ASSUME NEW t \in Tasks, InFrame(t, Active)'
      PROVE  InFrame(t, Active) \/ t = g.task
  <2>1. PICK v \in Workers : \E k \in 1 .. Len(frames'[v]) :
          frames'[v][k].task = t /\ frames'[v][k].mode \in Active
    BY <1>4 DEF InFrame
  <2>2. PICK k \in 1 .. Len(frames'[v]) : frames'[v][k].task = t /\ frames'[v][k].mode \in Active
    BY <2>1
  <2>3. frames'[v][k] = g \/ (k \in 1 .. Len(frames[v]) /\ frames'[v][k] = frames[v][k])
    BY PushedStack
  <2>. QED
    BY <2>2, <2>3 DEF InFrame
<1>. QED
  BY <1>1, <1>2, <1>3, <1>4

(* A task that begins is below none at work, and on top of its stack.         *)
LEMMA PushedNoCycle ==
  ASSUME IInv, NEW w \in Workers, NEW g \in Frame, PushesFrame(w, g), g.task \in Tasks,
         ~Framed(g.task), \A d \in Tasks : Framed(d) => g.task \notin Lineage[d]
  PROVE  NoCycle'
<1>1. SUFFICES ASSUME NEW S \in SUBSET Tasks, S # {}, \A t \in S : Framed(t)'
               PROVE  \E t \in S : \A u \in S \ {t} : t \notin Lineage[u] /\ ~Above(t, u)'
  BY DEF NoCycle
<1>2. ASSUME NEW t \in Tasks, NEW u \in Tasks, Above(t, u)'
      PROVE  t # g.task /\ (u = g.task \/ Above(t, u))
  <2>1. PICK v \in Workers : \E k \in 1 .. Len(frames'[v]) : \E i \in 1 .. k - 1 :
          frames'[v][i].task = t /\ frames'[v][k].task = u
    BY <1>2 DEF Above
  <2>2. PICK k \in 1 .. Len(frames'[v]) : \E i \in 1 .. k - 1 :
          frames'[v][i].task = t /\ frames'[v][k].task = u
    BY <2>1
  <2>3. PICK i \in 1 .. k - 1 : frames'[v][i].task = t /\ frames'[v][k].task = u
    BY <2>2
  <2>4. Len(frames[v]) \in Nat
    BY Typed DEF IInv
  <2>5. i \in 1 .. Len(frames[v])
    BY <2>4, PushedStack
  <2>6. frames'[v][i] = frames[v][i]
    BY <2>5, PushedStack
  <2>7. t # g.task
    BY <2>3, <2>5, <2>6 DEF Framed
  <2>8. frames'[v][k] = g \/ (k \in 1 .. Len(frames[v]) /\ frames'[v][k] = frames[v][k])
    BY PushedStack
  <2>. QED
    BY <2>3, <2>6, <2>7, <2>8 DEF Above
<1>3. CASE g.task \in S
  <2>1. ASSUME NEW u \in S \ {g.task}
        PROVE  g.task \notin Lineage[u] /\ ~Above(g.task, u)'
    <3>1. Framed(u)
      BY <1>1, PushedFramed
    <3>2. PICK t \in Tasks : t = g.task
      OBVIOUS
    <3>3. ~Above(t, u)'
      BY <1>2, <3>2
    <3>. QED
      BY <3>1, <3>2, <3>3
  <2>. QED
    BY <1>3, <2>1
<1>4. CASE g.task \notin S
  <2>1. \A t \in S : Framed(t)
    BY <1>1, <1>4, PushedFramed
  <2>2. PICK t \in S : \A u \in S \ {t} : t \notin Lineage[u] /\ ~Above(t, u)
    BY <1>1, <2>1 DEF IInv, NoCycle
  <2>3. \A u \in S \ {t} : ~Above(t, u)'
    BY <1>2, <1>4, <2>2
  <2>. QED
    BY <2>2, <2>3
<1>. QED
  BY <1>3, <1>4

(* A push of a child keeps frames that call each other in one lineage.        *)
LEMMA PushedInline ==
  ASSUME IInv, NEW w \in Workers, NEW g \in Frame, PushesFrame(w, g), g.task \in Tasks,
         ~g.stolen => Len(frames[w]) # 0 /\ g.task \in Kids(frames[w][Len(frames[w])].task)
  PROVE  Inline'
<1>1. SUFFICES ASSUME NEW v \in Workers, NEW k \in 1 .. Len(frames'[v]), NEW i \in 1 .. k,
                      \A j \in i + 1 .. k : ~frames'[v][j].stolen
               PROVE  frames'[v][i].task \in Lineage[frames'[v][k].task]
  BY DEF Inline
<1>2. \A u \in Workers : Len(frames[u]) \in Nat
  BY Typed DEF IInv
<1>3. \A u \in Workers : \A l \in 1 .. Len(frames[u]) : frames'[u][l] = frames[u][l]
  BY PushedStack
<1>4. ASSUME NEW l \in 1 .. Len(frames[v]), i \in 1 .. l, l <= k
      PROVE  frames[v][i].task \in Lineage[frames[v][l].task]
  <2>1. ASSUME NEW j \in i + 1 .. l
        PROVE  ~frames[v][j].stolen
    <3>1. j \in i + 1 .. k /\ j \in 1 .. Len(frames[v])
      BY <1>2, <1>4
    <3>. QED
      BY <1>1, <1>3, <3>1
  <2>. QED
    BY <1>4, <2>1 DEF IInv, Inline
<1>5. CASE k \in 1 .. Len(frames[v])
  <2>1. i \in 1 .. Len(frames[v]) /\ k <= k
    BY <1>2, <1>5
  <2>. QED
    BY <1>3, <1>4, <1>5, <2>1
<1>6. CASE v = w /\ k = Len(frames[w]) + 1 /\ frames'[v][k] = g
  <2>1. CASE i = k
    BY <1>6, <2>1, LineageOfSelf
  <2>2. CASE i # k
    <3>1. i \in 1 .. Len(frames[w]) /\ k \in i + 1 .. k /\ Len(frames[w]) <= k
          /\ Len(frames[w]) \in 1 .. Len(frames[w])
      BY <1>2, <1>6, <2>2
    <3>2. ~g.stolen
      BY <1>1, <1>6, <3>1
    <3>3. PICK p \in Tasks : p = frames[w][Len(frames[w])].task
      BY <3>1, Typed DEF IInv
    <3>4. frames[w][i].task \in Lineage[p]
      BY <1>4, <1>6, <3>1, <3>3
    <3>5. Lineage[p] \subseteq Lineage[g.task]
      BY <3>2, <3>3, LineageKept
    <3>. QED
      BY <1>3, <1>6, <3>1, <3>4, <3>5
  <2>. QED
    BY <2>1, <2>2
<1>. QED
  BY <1>5, <1>6, PushedStack

(* What a task that begins finds, called by its parent or stolen.            *)
LEMMA Begins ==
  ASSUME IInv, Types', NEW w \in Workers, NEW g \in Frame, Calls(w, g) \/ Takes(w, g)
  PROVE  /\ PushesFrame(w, g) /\ UNCHANGED <<word, cancelled, complete>>
         /\ g.task \in Tasks /\ g.stolen \in BOOLEAN /\ g.base \in Nat
         /\ InDeque(g.task) /\ thief[g.task] = None /\ ~Framed(g.task)
         /\ g.base = Len(deque'[w]) /\ g.spawned = 0 /\ g.wait = "no"
         /\ g.mode = IF g.stolen THEN "start" ELSE "run"
         /\ \A t \in Tasks : thief'[t] = IF t = g.task /\ g.stolen THEN w ELSE thief[t]
         /\ \A v \in Workers : Len(deque'[v]) <= Len(deque[v])
         /\ \A v \in Workers : \A j \in 1 .. Len(deque'[v]) :
              j \in 1 .. Len(deque[v]) /\ deque'[v][j] = deque[v][j]
         /\ \A v \in Workers : \A j \in 1 .. Len(deque[v]) :
              j \in 1 .. Len(deque'[v]) \/ (~g.stolen /\ v = w /\ deque[v][j] = g.task)
         /\ \A v \in Workers : v # w \/ g.stolen => Len(deque'[v]) = Len(deque[v])
         /\ \A t \in Tasks : InDeque(t)' <=> InDeque(t) /\ (g.stolen \/ t # g.task)
         /\ \A u, v \in Workers : \A i \in 1 .. Len(deque'[u]), j \in 1 .. Len(deque'[v]) :
              deque'[u][i] = deque'[v][j] => u = v /\ i = j
         /\ Len(frames[w]) # 0 =>
              LET f == frames[w][Len(frames[w])] IN
              /\ f.mode \in {"run", "destroy"}
              /\ g.stolen <=> f.wait # "no"
              /\ f.base <= Len(deque'[w])
         /\ ~g.stolen =>
              LET f == frames[w][Len(frames[w])] IN
              /\ Len(frames[w]) # 0 /\ f.mode = "run" /\ g.task \in Kids(f.task)
<1> DEFINE n == Len(frames[w])
           s == Len(deque[w])
           f == frames[w][n]
<1>1. /\ Types /\ n \in Nat /\ s \in Nat /\ g.task \in Tasks /\ g.stolen \in BOOLEAN /\ g.base \in Nat
      /\ \A v \in Workers : Len(deque[v]) \in Nat
  BY Typed DEF IInv, Frame
<1>2. n # 0 => f.base <= s /\ f.base \in Nat /\ n \in 1 .. n
  BY <1>1, Typed DEF IInv, Bases
<1>3. ASSUME InDeque(g.task), thief[g.task] = None
      PROVE  ~Framed(g.task)
  <2>1. PICK v \in Workers : \E j \in 1 .. Len(deque[v]) : deque[v][j] = g.task
    BY <1>3 DEF InDeque
  <2>2. PICK j \in 1 .. Len(deque[v]) : deque[v][j] = g.task
    BY <2>1
  <2>. QED
    BY <1>3, <2>2 DEF IInv, Queued
<1>4. CASE Calls(w, g)
  <2>1. /\ n # 0 /\ PushesFrame(w, g) /\ PopsTask(w)
        /\ f.mode = "run" /\ f.wait = "no" /\ f.base < s
        /\ g.task = deque[w][s] /\ thief[g.task] = None /\ ~g.stolen
        /\ g.base = s - 1 /\ g.spawned = 0 /\ g.mode = "run" /\ g.wait = "no"
        /\ UNCHANGED <<thief, word, cancelled, complete>>
    BY <1>4 DEF Calls
  <2>2. s # 0 /\ s \in 1 .. Len(deque[w]) /\ f.base <= s - 1
    BY <1>1, <1>2, <2>1
  <2>3. PICK c \in Tasks : c = g.task /\ c = deque[w][Len(deque[w])]
    BY <1>1, <2>1
  <2>4. /\ \A v \in Workers : Len(deque'[v]) = IF v = w THEN Len(deque[w]) - 1 ELSE Len(deque[v])
        /\ \A v \in Workers : \A j \in 1 .. Len(deque'[v]) :
             j \in 1 .. Len(deque[v]) /\ deque'[v][j] = deque[v][j]
        /\ \A v \in Workers : \A j \in 1 .. Len(deque[v]) :
             j \in 1 .. Len(deque'[v]) \/ (v = w /\ deque[v][j] = c)
        /\ \A t \in Tasks : InDeque(t)' <=> InDeque(t) /\ t # c
        /\ InDeque(c)
        /\ \A u, v \in Workers : \A i \in 1 .. Len(deque'[u]), j \in 1 .. Len(deque'[v]) :
             deque'[u][i] = deque'[v][j] => u = v /\ i = j
    BY <2>1, <2>2, <2>3, PoppedDeque
  <2>5. g.task \in Kids(f.task)
    <3>1. Owns(w, n, s)
      BY <2>1 DEF Owns, Upper
    <3>. QED
      BY <1>2, <2>1, <2>2, <3>1, SegmentTask
  <2>6. \A v \in Workers : Len(deque'[v]) <= Len(deque[v])
    BY <1>1, <2>4
  <2>7. Len(deque'[w]) = s - 1
    BY <2>4
  <2>8. \A v \in Workers : v # w => Len(deque'[v]) = Len(deque[v])
    BY <2>4
  <2>9. InDeque(g.task) /\ \A t \in Tasks : InDeque(t)' <=> InDeque(t) /\ t # g.task
    BY <2>3, <2>4
  <2>10. \A v \in Workers : \A j \in 1 .. Len(deque[v]) :
           j \in 1 .. Len(deque'[v]) \/ (v = w /\ deque[v][j] = g.task)
    BY <2>3, <2>4
  <2>11. \A t \in Tasks : thief'[t] = thief[t]
    BY <2>1
  <2>. QED
    BY <1>1, <1>3, <2>1, <2>2, <2>4, <2>5, <2>6, <2>7, <2>8, <2>9, <2>10, <2>11
<1>5. CASE Takes(w, g)
  <2>1. /\ PushesFrame(w, g) /\ InDeque(g.task) /\ thief[g.task] = None /\ g.stolen
        /\ thief'[g.task] = w /\ \A t \in Tasks \ {g.task} : thief'[t] = thief[t]
        /\ g.base = s /\ g.spawned = 0 /\ g.mode = "start" /\ g.wait = "no"
        /\ UNCHANGED <<deque, word, cancelled, complete>>
        /\ n # 0 => f.mode \in {"run", "destroy"} /\ f.wait # "no"
    BY <1>5 DEF Takes
  <2>2. \A t \in Tasks : thief'[t] = IF t = g.task /\ g.stolen THEN w ELSE thief[t]
    BY <2>1
  <2>3. \A v \in Workers : Len(deque[v]) <= Len(deque[v])
    BY <1>1
  <2>4. \A u, v \in Workers : \A i \in 1 .. Len(deque[u]), j \in 1 .. Len(deque[v]) :
          deque[u][i] = deque[v][j] => u = v /\ i = j
    BY DEF IInv, Once
  <2>5. \A t \in Tasks : InDeque(t)' <=> InDeque(t)
    BY <2>1 DEF InDeque
  <2>. QED
    BY <1>1, <1>2, <1>3, <2>1, <2>2, <2>3, <2>4, <2>5
<1>. QED
  BY <1>4, <1>5

(* What a new innermost frame, with no task of its own yet, leaves of the    *)
(* division of the deques.                                                   *)
LEMMA PushedParts ==
  ASSUME IInv, Types', NEW w \in Workers, NEW g \in Frame, Calls(w, g) \/ Takes(w, g)
  PROVE  /\ \A v \in Workers : \A k \in 1 .. Len(frames[v]) : \A j \in 1 .. Len(deque'[v]) :
              Owns(v, k, j)' <=> Owns(v, k, j)
         /\ \A v \in Workers : \A k \in 1 .. Len(frames[v]) :
              v # w \/ k # Len(frames[w]) => Upper(v, k)' = Upper(v, k) /\ Upper(v, k) <= Len(deque'[v])
         /\ Len(frames[w]) # 0 => \A k \in 1 .. Len(frames[w]) :
              k = Len(frames[w]) => Upper(w, k)' = Len(deque'[w])
         /\ \A k \in 1 .. Len(frames'[w]) : k = Len(frames[w]) + 1 =>
              /\ Upper(w, k)' = Len(deque'[w])
              /\ \A j \in 1 .. Len(deque'[w]) : ~Owns(w, k, j)'
         /\ Bases'
<1> DEFINE n == Len(frames[w])
           s == Len(deque'[w])
<1>1. /\ \A v \in Workers : Len(frames[v]) \in Nat /\ Len(deque[v]) \in Nat
      /\ \A v \in Workers : Len(frames'[v]) \in Nat /\ Len(deque'[v]) \in Nat
      /\ \A v \in Workers : \A k \in 1 .. Len(frames[v]) : frames[v][k].base \in Nat
  BY Typed, TypedNext DEF IInv
<1>2. /\ \A v \in Workers : Len(frames'[v]) = IF v = w THEN n + 1 ELSE Len(frames[v])
      /\ \A v \in Workers : \A k \in 1 .. Len(frames[v]) :
           k \in 1 .. Len(frames'[v]) /\ frames'[v][k] = frames[v][k]
      /\ \A v \in Workers : \A k \in 1 .. Len(frames'[v]) :
           k \in 1 .. Len(frames[v]) \/ (v = w /\ k = n + 1 /\ frames'[v][k] = g)
      /\ n + 1 \in 1 .. Len(frames'[w]) /\ frames'[w][n + 1] = g
  BY PushedStack, Begins
<1>3. /\ g.base = s /\ g.base \in Nat
      /\ \A v \in Workers : Len(deque'[v]) <= Len(deque[v])
      /\ \A v \in Workers : v # w => Len(deque'[v]) = Len(deque[v])
      /\ n # 0 => frames[w][n].base <= s
  BY Begins
<1>4. ASSUME NEW v \in Workers, NEW k \in 1 .. Len(frames[v]), v # w \/ k # n
      PROVE  Upper(v, k)' = Upper(v, k) /\ Upper(v, k) <= Len(deque'[v])
  <2>1. CASE v # w
    <3>1. CASE k = Len(frames[v])
      BY <1>2, <1>3, <2>1, <3>1, UpperBounds DEF Upper
    <3>2. CASE k # Len(frames[v])
      <4>1. k + 1 \in 1 .. Len(frames[v])
        BY <1>1, <3>2
      <4>. QED
        BY <1>2, <1>3, <2>1, <3>2, <4>1, UpperBounds DEF Upper
    <3>. QED
      BY <3>1, <3>2
  <2>2. CASE v = w /\ k # n
    <3>1. k + 1 \in 1 .. n /\ k < n /\ k # n + 1 /\ n # 0
      BY <1>1, <1>4, <2>2
    <3>2. Upper(v, k)' = Upper(v, k)
      BY <1>2, <2>2, <3>1 DEF Upper
    <3>3. Upper(v, k) <= frames[w][n].base /\ Upper(v, k) \in Nat
      BY <2>2, <3>1, UpperBounds
    <3>4. frames[w][n].base \in Nat /\ s \in Nat
      BY <1>1, <3>1
    <3>. QED
      BY <1>3, <2>2, <3>1, <3>2, <3>3, <3>4
  <2>. QED
    BY <1>4, <2>1, <2>2
<1>5. ASSUME NEW k \in 1 .. Len(frames[w]), k = n
      PROVE  Upper(w, k)' = s
  <2>1. k # n + 1 /\ k + 1 = n + 1
    BY <1>1, <1>5
  <2>. QED
    BY <1>2, <1>3, <2>1 DEF Upper
<1>6. ASSUME NEW k \in 1 .. Len(frames'[w]), k = n + 1
      PROVE  Upper(w, k)' = s /\ \A j \in 1 .. s : ~Owns(w, k, j)'
  <2>1. Upper(w, k)' = s
    BY <1>2, <1>6 DEF Upper
  <2>2. frames'[w][k].base = s
    BY <1>2, <1>3, <1>6
  <2>3. ASSUME NEW j \in 1 .. s
        PROVE  ~Owns(w, k, j)'
    <3>1. ~(s < j)
      BY <1>1
    <3>. QED
      BY <2>2, <3>1 DEF Owns
  <2>. QED
    BY <2>1, <2>3
<1>7. ASSUME NEW v \in Workers, NEW k \in 1 .. Len(frames[v]), NEW j \in 1 .. Len(deque'[v])
      PROVE  Owns(v, k, j)' <=> Owns(v, k, j)
  <2>1. frames'[v][k] = frames[v][k]
    BY <1>2
  <2>2. CASE v # w \/ k # n
    BY <1>4, <2>1, <2>2 DEF Owns
  <2>3. CASE v = w /\ k = n
    <3>1. Upper(v, k)' = s /\ Upper(v, k) = Len(deque[w])
      BY <1>5, <2>3 DEF Upper
    <3>2. j <= s /\ j <= Len(deque[w])
      BY <1>1, <1>3, <2>3
    <3>. QED
      BY <2>1, <3>1, <3>2 DEF Owns
  <2>. QED
    BY <2>2, <2>3
<1>8. ASSUME NEW v \in Workers, NEW k \in 1 .. Len(frames[v])
      PROVE  /\ frames[v][k].base <= Len(deque'[v])
             /\ \A i \in 1 .. k : i \in 1 .. Len(frames[v]) /\ frames[v][i].base <= frames[v][k].base
  <2>1. \A i \in 1 .. k : i \in 1 .. Len(frames[v]) /\ frames[v][i].base <= frames[v][k].base
    BY <1>1 DEF IInv, Bases
  <2>2. CASE v # w \/ k # n
    <3>1. frames[v][k].base <= Upper(v, k) /\ Upper(v, k) <= Len(deque'[v]) /\ Upper(v, k) \in Nat
      BY <1>4, <2>2, UpperBounds
    <3>2. frames[v][k].base \in Nat /\ Len(deque'[v]) \in Nat
      BY <1>1
    <3>. QED
      BY <2>1, <3>1, <3>2
  <2>3. CASE v = w /\ k = n
    <3>1. n # 0
      BY <2>3
    <3>. QED
      BY <1>3, <2>1, <2>3, <3>1
  <2>. QED
    BY <2>2, <2>3
<1>9. Bases'
  <2> SUFFICES ASSUME NEW v \in Workers, NEW k \in 1 .. Len(frames'[v])
               PROVE  /\ frames'[v][k].base <= Len(deque'[v])
                      /\ \A i \in 1 .. k : frames'[v][i].base <= frames'[v][k].base
    BY DEF Bases
  <2>1. CASE k \in 1 .. Len(frames[v])
    BY <1>2, <1>8, <2>1
  <2>2. CASE v = w /\ k = n + 1 /\ frames'[v][k] = g
    <3>1. \A i \in 1 .. k : i = k \/ i \in 1 .. n
      BY <1>1, <2>2
    <3>2. \A i \in 1 .. n : frames'[w][i].base <= s
      BY <1>2, <1>8
    <3>3. g.base <= s
      BY <1>3
    <3>. QED
      BY <1>3, <2>2, <3>1, <3>2, <3>3
  <2>. QED
    BY <1>2, <2>1, <2>2
<1>. QED
  BY <1>4, <1>5, <1>6, <1>7, <1>9

(* The call of a task by its parent, and a theft.                            *)
LEMMA BeginsStep ==
  ASSUME IInv, Types', NEW w \in Workers, NEW g \in Frame, Calls(w, g) \/ Takes(w, g)
  PROVE  IInv'
<1> DEFINE n == Len(frames[w])
           f == frames[w][n]
<1>1. /\ PushesFrame(w, g) /\ UNCHANGED <<word, cancelled, complete>>
      /\ g.task \in Tasks /\ g.stolen \in BOOLEAN /\ g.base \in Nat
      /\ InDeque(g.task) /\ thief[g.task] = None /\ ~Framed(g.task)
      /\ g.base = Len(deque'[w]) /\ g.spawned = 0 /\ g.wait = "no"
      /\ g.mode = IF g.stolen THEN "start" ELSE "run"
  BY Begins
<1>2. \A t \in Tasks : thief'[t] = IF t = g.task /\ g.stolen THEN w ELSE thief[t]
  BY Begins
<1>3. /\ \A v \in Workers : \A j \in 1 .. Len(deque'[v]) :
           j \in 1 .. Len(deque[v]) /\ deque'[v][j] = deque[v][j]
      /\ \A v \in Workers : \A j \in 1 .. Len(deque[v]) :
           j \in 1 .. Len(deque'[v]) \/ (~g.stolen /\ v = w /\ deque[v][j] = g.task)
      /\ \A v \in Workers : v # w \/ g.stolen => Len(deque'[v]) = Len(deque[v])
      /\ \A u, v \in Workers : \A i \in 1 .. Len(deque'[u]), j \in 1 .. Len(deque'[v]) :
           deque'[u][i] = deque'[v][j] => u = v /\ i = j
  BY Begins
<1>4. \A t \in Tasks : InDeque(t)' <=> InDeque(t) /\ (g.stolen \/ t # g.task)
  BY Begins
<1>5. /\ n # 0 => f.mode \in {"run", "destroy"} /\ (g.stolen <=> f.wait # "no")
      /\ ~g.stolen => n # 0 /\ f.mode = "run" /\ g.task \in Kids(f.task)
  BY Begins
<1>6. /\ \A v \in Workers : Len(frames'[v]) = IF v = w THEN n + 1 ELSE Len(frames[v])
      /\ \A v \in Workers : \A k \in 1 .. Len(frames[v]) :
           k \in 1 .. Len(frames'[v]) /\ frames'[v][k] = frames[v][k]
      /\ \A v \in Workers : \A k \in 1 .. Len(frames'[v]) :
           k \in 1 .. Len(frames[v]) \/ (v = w /\ k = n + 1 /\ frames'[v][k] = g)
      /\ n + 1 \in 1 .. Len(frames'[w]) /\ frames'[w][n + 1] = g
  BY <1>1, PushedStack
<1>7. /\ \A t \in Tasks : Framed(t)' <=> Framed(t) \/ t = g.task
      /\ \A t \in Tasks : InFrame(t, Active)' => InFrame(t, Active) \/ t = g.task
  BY <1>1, PushedFramed
<1>8. \A v \in Workers : \A k \in 1 .. Len(frames[v]) : \A j \in 1 .. Len(deque'[v]) :
        Owns(v, k, j)' <=> Owns(v, k, j)
  BY PushedParts
<1>9. \A v \in Workers : \A k \in 1 .. Len(frames[v]) :
        /\ v # w \/ k # n => Upper(v, k)' = Upper(v, k) /\ Upper(v, k) <= Len(deque'[v])
        /\ v = w /\ k = n => Upper(v, k)' = Len(deque'[v])
  BY PushedParts
<1>10. \A v \in Workers : \A k \in 1 .. Len(frames'[v]) : v = w /\ k = n + 1 =>
         /\ Upper(v, k)' = Len(deque'[v])
         /\ \A j \in 1 .. Len(deque'[v]) : ~Owns(v, k, j)'
  BY PushedParts
<1>11. Bases'
  BY PushedParts
<1>12. /\ Types /\ \A v \in Workers : Len(frames[v]) \in Nat /\ Len(deque[v]) \in Nat
       /\ \A v \in Workers : Len(frames'[v]) \in Nat /\ Len(deque'[v]) \in Nat
  BY Typed, TypedNext DEF IInv
<1>13. \A v \in Workers : \A k \in 1 .. Len(frames[v]) :
         /\ frames[v][k].task \in Tasks /\ frames[v][k].stolen \in BOOLEAN
         /\ frames[v][k].base \in Nat /\ frames[v][k].task # g.task
  BY <1>1, <1>12, Typed DEF Framed
<1>. HIDE DEF n, f
<1>14. PICK c \in Tasks : c = g.task
  BY <1>1
<1>15. \A x \in Kids(c) : x \in Tasks /\ FreshBelow(x)
  <2>1. PICK v \in Workers : \E j \in 1 .. Len(deque[v]) : deque[v][j] = c
    BY <1>1, <1>14 DEF InDeque
  <2>2. PICK j \in 1 .. Len(deque[v]) : deque[v][j] = c
    BY <2>1
  <2>. QED
    BY <1>1, <1>14, <2>2, KidsAreTasks DEF IInv, Unspawned
<1>16. ASSUME NEW d \in Tasks, Framed(d)
       PROVE  c \notin Lineage[d]
  <2>1. SUFFICES ASSUME c \in Lineage[d] PROVE FALSE
    OBVIOUS
  <2>2. d # c
    BY <1>1, <1>14, <1>16
  <2>3. PICK x \in Kids(c) : x \in Lineage[d]
    BY <2>1, <2>2, LineageDown
  <2>. QED
    BY <1>15, <1>16, <2>3 DEF FreshBelow, Fresh
<1>17. NoCycle'
  BY <1>1, <1>14, <1>16, PushedNoCycle
<1>18. Inline'
  BY <1>1, <1>5, PushedInline DEF n, f
<1>19. Covered'
  <2> SUFFICES ASSUME NEW v \in Workers, NEW j \in 1 .. Len(deque'[v])
               PROVE  \E k \in 1 .. Len(frames'[v]) : Owns(v, k, j)'
    BY DEF Covered
  <2>1. PICK k \in 1 .. Len(frames[v]) : Owns(v, k, j)
    BY <1>3 DEF IInv, Covered
  <2>2. Owns(v, k, j)' /\ k \in 1 .. Len(frames'[v])
    BY <1>6, <1>8, <2>1
  <2>. QED
    BY <2>2
<1>20. Stages'
  <2> SUFFICES ASSUME NEW v \in Workers, NEW k \in 1 .. Len(frames'[v])
               PROVE  LET h == frames'[v][k] IN
                      /\ h.spawned <= Len(Children[h.task])
                      /\ h.mode = "start" => h.spawned = 0
                      /\ h.mode \in {"start", "catch", "mark", "check"} => h.stolen
                      /\ h.mode \in {"start", "mark", "check"} => Upper(v, k)' = h.base
                      /\ k = 1 /\ ~h.stolen => h.task = Root
    BY DEF Stages
  <2>1. CASE k \in 1 .. Len(frames[v])
    <3>1. LET h == frames[v][k] IN
          /\ h.spawned <= Len(Children[h.task])
          /\ h.mode = "start" => h.spawned = 0
          /\ h.mode \in {"start", "catch", "mark", "check"} => h.stolen
          /\ h.mode \in {"start", "mark", "check"} => Upper(v, k) = h.base
          /\ k = 1 /\ ~h.stolen => h.task = Root
      BY <2>1 DEF IInv, Stages
    <3>2. frames'[v][k] = frames[v][k]
      BY <1>6, <2>1
    <3>3. CASE v # w \/ k # n
      BY <1>9, <2>1, <3>1, <3>2, <3>3
    <3>4. CASE v = w /\ k = n
      <4>1. f.mode \notin {"start", "mark", "check"}
        <5>1. n # 0
          BY <2>1, <3>4
        <5>. QED
          BY <1>5, <5>1
      <4>. QED
        BY <3>1, <3>2, <3>4, <4>1 DEF f
    <3>. QED
      BY <3>3, <3>4
  <2>2. CASE v = w /\ k = n + 1 /\ frames'[v][k] = g
    <3>1. Upper(v, k)' = g.base
      BY <1>1, <1>10, <2>2
    <3>2. 0 <= Len(Children[g.task])
      BY <1>1, KidsAreTasks
    <3>3. ~g.stolen => k # 1
      BY <1>5, <1>12, <2>2 DEF n
    <3>. QED
      BY <1>1, <2>2, <3>1, <3>2, <3>3
  <2>. QED
    BY <1>6, <2>1, <2>2
<1>21. Nesting'
  <2> SUFFICES ASSUME NEW v \in Workers, NEW k \in 1 .. Len(frames'[v]) - 1
               PROVE  LET h == frames'[v][k]
                          d == frames'[v][k + 1] IN
                      /\ h.mode \in {"run", "destroy"}
                      /\ d.stolen <=> h.wait # "no"
                      /\ ~d.stolen => h.mode = "run" /\ d.task \in Kids(h.task)
    BY DEF Nesting
  <2>1. CASE v # w \/ k # n
    <3>1. k \in 1 .. Len(frames[v]) - 1
      BY <1>6, <1>12, <2>1 DEF n
    <3>2. k \in 1 .. Len(frames[v]) /\ k + 1 \in 1 .. Len(frames[v])
      BY <1>12, <3>1
    <3>3. frames'[v][k] = frames[v][k] /\ frames'[v][k + 1] = frames[v][k + 1]
      BY <1>6, <3>2
    <3>. QED
      BY <3>1, <3>3 DEF IInv, Nesting
  <2>2. CASE v = w /\ k = n
    <3>1. n \in 1 .. Len(frames[w]) /\ n # 0
      BY <1>12, <2>2 DEF n
    <3>2. frames'[v][k] = f /\ frames'[v][k + 1] = g
      BY <1>6, <2>2, <3>1 DEF f
    <3>. QED
      BY <1>5, <3>1, <3>2
  <2>. QED
    BY <2>1, <2>2
<1>22. Waits'
  <2> SUFFICES ASSUME NEW v \in Workers, NEW k \in 1 .. Len(frames'[v]), frames'[v][k].wait # "no"
               PROVE  /\ frames'[v][k].mode \in {"run", "destroy", "catch"}
                      /\ frames'[v][k].base < Upper(v, k)'
                      /\ thief'[deque'[v][Upper(v, k)']] # None
                      /\ frames'[v][k].mode = "catch" => frames'[v][k].wait \notin {"leapfrog", "yield"}
    BY DEF Waits
  <2>1. k \in 1 .. Len(frames[v]) /\ frames'[v][k] = frames[v][k]
    BY <1>1, <1>6
  <2>2. /\ frames[v][k].mode \in {"run", "destroy", "catch"}
        /\ frames[v][k].base < Upper(v, k)
        /\ thief[deque[v][Upper(v, k)]] # None
        /\ frames[v][k].mode = "catch" => frames[v][k].wait \notin {"leapfrog", "yield"}
    BY <2>1 DEF IInv, Waits
  <2>3. Upper(v, k)' = Upper(v, k) /\ Upper(v, k) <= Len(deque'[v])
    <3>1. CASE v # w \/ k # n
      BY <1>9, <2>1, <3>1
    <3>2. CASE v = w /\ k = n
      <4>1. n # 0 /\ f.wait # "no"
        BY <2>1, <3>2 DEF f
      <4>2. Len(deque'[w]) = Len(deque[w])
        BY <1>3, <1>5, <4>1
      <4>3. Upper(v, k) = Len(deque[w])
        BY <3>2 DEF Upper, n
      <4>4. Upper(v, k)' = Len(deque'[w])
        BY <1>9, <2>1, <3>2
      <4>. QED
        BY <1>12, <3>2, <4>2, <4>3, <4>4
    <3>. QED
      BY <3>1, <3>2
  <2>4. Upper(v, k) \in 1 .. Len(deque'[v])
    BY <1>12, <1>13, <2>1, <2>2, <2>3, UpperBounds
  <2>5. PICK i \in 1 .. Len(deque'[v]) : i = Upper(v, k)
    BY <2>4
  <2>6. PICK t \in Tasks : t = deque'[v][i] /\ t = deque[v][i]
    BY <1>3, TypedNext
  <2>7. thief'[t] # None
    <3>1. thief[t] # None /\ w # None
      BY <2>2, <2>5, <2>6, TreeAssumption
    <3>. QED
      BY <1>2, <3>1
  <2>. QED
    BY <2>1, <2>2, <2>3, <2>5, <2>6, <2>7
<1>23. Segments'
  <2> SUFFICES ASSUME NEW v \in Workers, NEW k \in 1 .. Len(frames'[v]), NEW j \in 1 .. Len(deque'[v]),
                      Owns(v, k, j)'
               PROVE  LET h == frames'[v][k]
                          t == deque'[v][j] IN
                      /\ t # h.task /\ h.task \in Lineage[t]
                      /\ h.mode = "run" => t \in Kids(h.task)
                      /\ h.mode \in {"destroy", "catch"} => t \in cancelled
                      /\ h.mode = "catch" => h.task \notin Spawning
                      /\ \A p \in Tasks : t \in Kids(p) =>
                           p = h.task \/ (p \notin Spawning /\ Lineage[p] \cap cancelled # {})
    BY <1>1 DEF Segments
  <2>1. k \in 1 .. Len(frames[v]) /\ frames'[v][k] = frames[v][k]
    BY <1>6, <1>10
  <2>2. Owns(v, k, j) /\ deque'[v][j] = deque[v][j] /\ j \in 1 .. Len(deque[v])
    BY <1>3, <1>8, <2>1
  <2>3. LET h == frames[v][k]
            t == deque[v][j] IN
        /\ t # h.task /\ h.task \in Lineage[t]
        /\ h.mode = "run" => t \in Kids(h.task)
        /\ h.mode \in {"destroy", "catch"} => t \in cancelled
        /\ h.mode = "catch" => h.task \notin Spawning
        /\ \A p \in Tasks : t \in Kids(p) =>
             p = h.task \/ (p \notin Spawning /\ Lineage[p] \cap cancelled # {})
    BY <2>1, <2>2, SegmentTask
  <2>. QED
    BY <2>1, <2>2, <2>3
<1>24. Once'
  <2>1. ASSUME NEW u \in Workers, NEW v \in Workers,
               NEW i \in 1 .. Len(frames'[u]), NEW j \in 1 .. Len(frames'[v]),
               frames'[u][i].task = frames'[v][j].task
        PROVE  u = v /\ i = j
    <3>1. (i \in 1 .. Len(frames[u]) /\ frames'[u][i] = frames[u][i])
            \/ (u = w /\ i = n + 1 /\ frames'[u][i] = g)
      BY <1>6
    <3>2. (j \in 1 .. Len(frames[v]) /\ frames'[v][j] = frames[v][j])
            \/ (v = w /\ j = n + 1 /\ frames'[v][j] = g)
      BY <1>6
    <3>3. CASE i \in 1 .. Len(frames[u]) /\ j \in 1 .. Len(frames[v])
                 /\ frames'[u][i] = frames[u][i] /\ frames'[v][j] = frames[v][j]
      BY <2>1, <3>3 DEF IInv, Once
    <3>. QED
      BY <1>13, <2>1, <3>1, <3>2, <3>3
  <2>. QED
    BY <1>3, <2>1 DEF Once
<1>25. Queued'
  <2> SUFFICES ASSUME NEW v \in Workers, NEW j \in 1 .. Len(deque'[v]),
                      NEW t \in Tasks, t = deque'[v][j]
               PROVE  /\ thief'[t] = None => ~Framed(t)'
                      /\ thief'[t] # None /\ word[t] # "finished" => Framed(t)'
    BY <1>1, TypedNext DEF Queued
  <2>1. j \in 1 .. Len(deque[v]) /\ t = deque[v][j]
    BY <1>3
  <2>2. /\ thief[t] = None => ~Framed(t)
        /\ thief[t] # None /\ word[t] # "finished" => Framed(t)
    BY <2>1 DEF IInv, Queued
  <2>3. InDeque(t)'
    BY DEF InDeque
  <2>4. t # g.task => thief'[t] = thief[t]
    BY <1>2
  <2>5. CASE t # g.task
    BY <1>7, <2>2, <2>4, <2>5
  <2>6. CASE t = g.task
    <3>1. g.stolen /\ thief'[t] = w
      BY <1>2, <1>4, <2>3, <2>6
    <3>2. Framed(t)'
      BY <1>7, <2>6
    <3>. QED
      BY <3>1, <3>2, TreeAssumption
  <2>. QED
    BY <2>5, <2>6
<1>26. Words'
  <2>1. ASSUME NEW v \in Workers, NEW k \in 1 .. Len(frames'[v])
        PROVE  LET h == frames'[v][k] IN
               /\ h.stolen => /\ thief'[h.task] = v
                              /\ word[h.task] = "finished" <=> h.mode = "check"
                              /\ h.mode # "check" =>
                                   InDeque(h.task) /\ (g.stolen \/ h.task # g.task)
               /\ ~h.stolen => /\ thief'[h.task] = None
                               /\ ~(InDeque(h.task) /\ (g.stolen \/ h.task # g.task))
               /\ h.mode = "mark" => h.task \in complete \cup cancelled
               /\ h.mode = "catch" => h.task \in cancelled
    <3>1. CASE k \in 1 .. Len(frames[v])
      <4>1. LET h == frames[v][k] IN
            /\ h.stolen => /\ thief[h.task] = v
                           /\ word[h.task] = "finished" <=> h.mode = "check"
                           /\ h.mode # "check" => InDeque(h.task)
            /\ ~h.stolen => thief[h.task] = None /\ ~InDeque(h.task)
            /\ h.mode = "mark" => h.task \in complete \cup cancelled
            /\ h.mode = "catch" => h.task \in cancelled
        BY <3>1 DEF IInv, Words
      <4>2. frames'[v][k] = frames[v][k]
        BY <1>6, <3>1
      <4>3. PICK t \in Tasks : t = frames[v][k].task /\ t # g.task
        BY <1>13, <3>1
      <4>4. thief'[t] = thief[t]
        BY <1>2, <4>3
      <4>. QED
        BY <4>1, <4>2, <4>3, <4>4
    <3>2. CASE v = w /\ k = n + 1 /\ frames'[v][k] = g
      <4>1. word[g.task] # "finished"
        BY <1>1 DEF IInv, Words
      <4>2. thief'[g.task] = IF g.stolen THEN w ELSE None
        BY <1>1, <1>2
      <4>. QED
        BY <1>1, <3>2, <4>1, <4>2
    <3>. QED
      BY <1>6, <3>1, <3>2
  <2>2. \A t \in Tasks : /\ thief'[t] = None => word[t] # "finished"
                         /\ word[t] = "finished" => t \in complete \cup cancelled
    <3>1. w # None
      BY TreeAssumption
    <3>2. \A t \in Tasks : /\ thief[t] = None => word[t] # "finished"
                           /\ word[t] = "finished" => t \in complete \cup cancelled
      BY DEF IInv, Words
    <3>. QED
      BY <1>2, <3>1, <3>2
  <2>3. \A v \in Workers : \A k \in 1 .. Len(frames'[v]) :
          frames'[v][k].task \in Tasks /\ frames'[v][k].stolen \in BOOLEAN
    BY TypedNext
  <2>. QED
    BY <1>1, <1>4, <2>1, <2>2, <2>3 DEF Words
<1>27. Interrupts'
  <2> SUFFICES ASSUME NEW v \in Workers, NEW k \in 1 .. Len(frames'[v]),
                      frames'[v][k].mode = "throw"
                        \/ (frames'[v][k].mode = "destroy" /\ frames'[v][k].raised)
               PROVE  Interrupted(v, k)'
    BY DEF Interrupts
  <2>1. k \in 1 .. Len(frames[v]) /\ frames'[v][k] = frames[v][k]
    BY <1>1, <1>6
  <2>2. Interrupted(v, k)
    BY <2>1 DEF IInv, Interrupts
  <2>3. PICK i \in 1 .. k : /\ frames[v][i].stolen /\ frames[v][i].task \in cancelled
                            /\ \A j \in i + 1 .. k : ~frames[v][j].stolen
    BY <2>2 DEF Interrupted
  <2>4. \A j \in i .. k : j \in 1 .. Len(frames[v])
    BY <1>12, <2>1
  <2>5. \A j \in i .. k : frames'[v][j] = frames[v][j]
    BY <1>6, <2>4
  <2>6. i \in i .. k /\ \A j \in i + 1 .. k : j \in i .. k
    OBVIOUS
  <2>. QED
    BY <1>1, <2>3, <2>5, <2>6 DEF Interrupted
<1>28. ASSUME NEW x \in Tasks, FreshBelow(x)
       PROVE  FreshBelow(x)'
  <2> SUFFICES ASSUME NEW d \in Tasks, x \in Lineage[d]
               PROVE  Fresh(d)'
    BY DEF FreshBelow
  <2>1. Fresh(d)
    BY <1>28 DEF FreshBelow
  <2>2. d # g.task
    BY <1>1, <2>1 DEF Fresh
  <2>. QED
    BY <1>2, <1>4, <1>7, <2>1, <2>2 DEF Fresh
<1>29. Unspawned'
  <2>1. ASSUME NEW v \in Workers, NEW k \in 1 .. Len(frames'[v]),
               NEW i \in frames'[v][k].spawned + 1 .. Len(Children[frames'[v][k].task]),
               NEW x \in Tasks, x = Children[frames'[v][k].task][i]
        PROVE  FreshBelow(x)'
    <3>1. CASE k \in 1 .. Len(frames[v])
      <4>1. frames'[v][k] = frames[v][k]
        BY <1>6, <3>1
      <4>2. FreshBelow(x)
        BY <2>1, <3>1, <4>1 DEF IInv, Unspawned
      <4>. QED
        BY <1>28, <4>2
    <3>2. CASE v = w /\ k = n + 1 /\ frames'[v][k] = g
      <4>1. i \in 1 .. Len(Children[c]) /\ x = Children[c][i]
        BY <1>1, <1>14, <2>1, <3>2
      <4>2. x \in Kids(c)
        BY <4>1, KidsAreTasks
      <4>. QED
        BY <1>15, <1>28, <4>2
    <3>. QED
      BY <1>6, <3>1, <3>2
  <2>2. ASSUME NEW v \in Workers, NEW j \in 1 .. Len(deque'[v]), NEW t \in Tasks,
               t = deque'[v][j], thief'[t] = None, NEW x \in Kids(t)
        PROVE  FreshBelow(x)'
    <3>1. x \in Tasks
      BY KidsAreTasks
    <3>2. j \in 1 .. Len(deque[v]) /\ t = deque[v][j]
      BY <1>3, <2>2
    <3>3. thief[t] = None
      BY <1>1, <1>2, <2>2
    <3>4. FreshBelow(x)
      BY <3>2, <3>3 DEF IInv, Unspawned
    <3>. QED
      BY <1>28, <3>1, <3>4
  <2>. QED
    BY <2>1, <2>2, TypedNext DEF Unspawned
<1>30. Synced'
  <2>1. ASSUME NEW v \in Workers, NEW k \in 1 .. Len(frames'[v]), frames'[v][k].mode = "run",
               NEW i \in 1 .. frames'[v][k].spawned,
               NEW x \in Tasks, x = Children[frames'[v][k].task][i]
        PROVE  \/ \E j \in 1 .. Len(deque'[v]) : Owns(v, k, j)' /\ deque'[v][j] = x
               \/ k < Len(frames'[v]) /\ ~frames'[v][k + 1].stolen /\ frames'[v][k + 1].task = x
               \/ Over(x)'
    <3>1. k \in 1 .. Len(frames[v]) /\ frames'[v][k] = frames[v][k]
      <4>1. frames'[v][k] # g
        BY <1>1, <2>1
      <4>. QED
        BY <1>6, <4>1
    <3>2. \/ \E j \in 1 .. Len(deque[v]) : Owns(v, k, j) /\ deque[v][j] = x
          \/ k < Len(frames[v]) /\ ~frames[v][k + 1].stolen /\ frames[v][k + 1].task = x
          \/ Over(x)
      BY <2>1, <3>1 DEF IInv, Synced
    <3>3. ASSUME k < Len(frames[v]), ~frames[v][k + 1].stolen, frames[v][k + 1].task = x
          PROVE  k < Len(frames'[v]) /\ ~frames'[v][k + 1].stolen /\ frames'[v][k + 1].task = x
      <4>1. k + 1 \in 1 .. Len(frames[v])
        BY <1>12, <3>1, <3>3
      <4>2. frames'[v][k + 1] = frames[v][k + 1] /\ k + 1 \in 1 .. Len(frames'[v])
        BY <1>6, <4>1
      <4>. QED
        BY <1>12, <3>3, <4>2
    <3>4. Over(x) => Over(x)'
      BY <1>1, <1>4, <1>7 DEF Over
    <3>5. ASSUME NEW j \in 1 .. Len(deque[v]), Owns(v, k, j), deque[v][j] = x
          PROVE  \/ \E l \in 1 .. Len(deque'[v]) : Owns(v, k, l)' /\ deque'[v][l] = x
                 \/ k < Len(frames'[v]) /\ ~frames'[v][k + 1].stolen /\ frames'[v][k + 1].task = x
      <4>1. CASE j \in 1 .. Len(deque'[v])
        BY <1>3, <1>8, <3>1, <3>5, <4>1
      <4>2. CASE ~g.stolen /\ v = w /\ x = g.task
        <5>1. x \in Kids(frames[v][k].task)
          BY <2>1, <3>1, <3>5, SegmentTask
        <5>2. n \in 1 .. Len(frames[w]) /\ f = frames[w][n] /\ x \in Kids(f.task)
          BY <1>5, <1>12, <4>2 DEF n, f
        <5>3. frames[v][k].task = f.task
          BY <1>13, <3>1, <5>1, <5>2, OneParent
        <5>4. k = n
          BY <3>1, <4>2, <5>2, <5>3 DEF IInv, Once
        <5>. QED
          BY <1>6, <1>12, <4>2, <5>4 DEF n
      <4>. QED
        BY <1>3, <3>5, <4>1, <4>2
    <3>. QED
      BY <3>2, <3>3, <3>4, <3>5
  <2>. QED
    BY <1>20, <2>1, SpawnedAreTasksNext DEF Synced
<1>. QED
  BY <1>11, <1>17, <1>18, <1>19, <1>20, <1>21, <1>22, <1>23, <1>24, <1>25, <1>26, <1>27, <1>29, <1>30
     DEF IInv

(* What the end of the innermost frame leaves of the stacks, when its task    *)
(* has ended or an exception leaves it.                                      *)
LEMMA LeftFrames ==
  ASSUME IInv, Types', NEW w \in Workers, Ends(w) \/ \E g \in Frame : Throws(w, g)
  PROVE  /\ UNCHANGED <<deque, thief, word>>
         /\ cancelled \subseteq cancelled' /\ complete \subseteq complete'
         /\ Len(frames[w]) \in Nat \ {0}
         /\ \A v \in Workers : Len(frames'[v]) = IF v = w THEN Len(frames[w]) - 1 ELSE Len(frames[v])
         /\ \A v \in Workers : \A k \in 1 .. Len(frames'[v]) :
              /\ k \in 1 .. Len(frames[v]) /\ (v = w => k # Len(frames[w]))
              /\ frames'[v][k].task = frames[v][k].task
              /\ frames'[v][k].stolen = frames[v][k].stolen
              /\ frames'[v][k].base = frames[v][k].base
              /\ frames'[v][k].spawned = frames[v][k].spawned
         /\ \A v \in Workers : \A k \in 1 .. Len(frames[v]) :
              k \in 1 .. Len(frames'[v]) \/ (v = w /\ k = Len(frames[w]))
         /\ \A v \in Workers : \A k \in 1 .. Len(frames'[v]) :
              Ends(w) \/ v # w \/ k # Len(frames[w]) - 1 => frames'[v][k] = frames[v][k]
<1> DEFINE n == Len(frames[w])
<1>1. \A v \in Workers : Len(frames[v]) \in Nat
  BY Typed DEF IInv
<1>2. CASE Ends(w)
  <2>1. /\ n # 0 /\ UNCHANGED <<deque, thief, word>> /\ Len(frames'[w]) = n - 1
        /\ cancelled \subseteq cancelled' /\ complete \subseteq complete'
        /\ \A v \in Workers \ {w} : frames'[v] = frames[v]
        /\ \A k \in 1 .. n - 1 : frames'[w][k] = frames[w][k]
    BY <1>2 DEF Ends, PopsFrame, OtherFrames, Grows
  <2>2. \A v \in Workers : Len(frames'[v]) = IF v = w THEN n - 1 ELSE Len(frames[v])
    BY <2>1
  <2>3. ASSUME NEW v \in Workers, NEW k \in 1 .. Len(frames'[v])
        PROVE  /\ k \in 1 .. Len(frames[v]) /\ (v = w => k # n)
               /\ frames'[v][k] = frames[v][k]
    BY <1>1, <2>1
  <2>4. ASSUME NEW v \in Workers, NEW k \in 1 .. Len(frames[v])
        PROVE  k \in 1 .. Len(frames'[v]) \/ (v = w /\ k = n)
    BY <1>1, <2>1
  <2>. QED
    BY <1>1, <2>1, <2>2, <2>3, <2>4
<1>3. ASSUME NEW g \in Frame, Throws(w, g), ~Ends(w)
      PROVE  /\ UNCHANGED <<deque, thief, word>>
             /\ cancelled \subseteq cancelled' /\ complete \subseteq complete'
             /\ n \in Nat \ {0}
             /\ \A v \in Workers : Len(frames'[v]) = IF v = w THEN n - 1 ELSE Len(frames[v])
             /\ \A v \in Workers : \A k \in 1 .. Len(frames'[v]) :
                  /\ k \in 1 .. Len(frames[v]) /\ (v = w => k # n)
                  /\ frames'[v][k].task = frames[v][k].task
                  /\ frames'[v][k].stolen = frames[v][k].stolen
                  /\ frames'[v][k].base = frames[v][k].base
                  /\ frames'[v][k].spawned = frames[v][k].spawned
             /\ \A v \in Workers : \A k \in 1 .. Len(frames[v]) :
                  k \in 1 .. Len(frames'[v]) \/ (v = w /\ k = n)
             /\ \A v \in Workers : \A k \in 1 .. Len(frames'[v]) :
                  v # w \/ k # n - 1 => frames'[v][k] = frames[v][k]
  <2>1. /\ n >= 2 /\ UNCHANGED <<deque, thief, word, cancelled, complete>> /\ Len(frames'[w]) = n - 1
        /\ \A v \in Workers \ {w} : frames'[v] = frames[v]
        /\ \A k \in 1 .. n - 2 : frames'[w][k] = frames[w][k]
        /\ frames'[w][n - 1] = g /\ SameFrame(g, frames[w][n - 1]) /\ g.spawned = frames[w][n - 1].spawned
    BY <1>3 DEF Throws, UncoversFrame, OtherFrames
  <2>2. \A v \in Workers : Len(frames'[v]) = IF v = w THEN n - 1 ELSE Len(frames[v])
    BY <2>1
  <2>3. ASSUME NEW v \in Workers, NEW k \in 1 .. Len(frames'[v])
        PROVE  /\ k \in 1 .. Len(frames[v]) /\ (v = w => k # n)
               /\ v # w \/ k # n - 1 => frames'[v][k] = frames[v][k]
    <3>1. CASE v # w
      BY <2>1, <3>1
    <3>2. CASE v = w
      <4>1. k \in 1 .. n - 1 /\ k \in 1 .. n /\ k # n /\ (k # n - 1 => k \in 1 .. n - 2)
        BY <1>1, <2>1, <3>2
      <4>. QED
        BY <2>1, <3>2, <4>1
    <3>. QED
      BY <3>1, <3>2
  <2>4. ASSUME NEW v \in Workers, NEW k \in 1 .. Len(frames'[v])
        PROVE  /\ frames'[v][k].task = frames[v][k].task
               /\ frames'[v][k].stolen = frames[v][k].stolen
               /\ frames'[v][k].base = frames[v][k].base
               /\ frames'[v][k].spawned = frames[v][k].spawned
    BY <2>1, <2>3 DEF SameFrame
  <2>5. ASSUME NEW v \in Workers, NEW k \in 1 .. Len(frames[v])
        PROVE  k \in 1 .. Len(frames'[v]) \/ (v = w /\ k = n)
    BY <1>1, <2>1
  <2>. QED
    BY <1>1, <2>1, <2>2, <2>3, <2>4, <2>5
<1>. QED
  BY <1>2, <1>3

(* What the invariant says of the stacks, when the innermost frame is left.   *)
LEMMA LeftStacks ==
  ASSUME IInv, Types', NEW w \in Workers, Ends(w) \/ \E g \in Frame : Throws(w, g)
  PROVE  /\ \A t \in Tasks : Framed(t)' <=> Framed(t) /\ t # frames[w][Len(frames[w])].task
         /\ \A v \in Workers : \A k \in 1 .. Len(frames'[v]) : Interrupted(v, k) => Interrupted(v, k)'
         /\ Bases' /\ Once' /\ Inline' /\ NoCycle'
<1> DEFINE n == Len(frames[w])
           f == frames[w][n]
<1>1. /\ UNCHANGED <<deque, thief, word>> /\ cancelled \subseteq cancelled'
      /\ n \in Nat \ {0}
  BY LeftFrames
<1>2. \A v \in Workers : \A k \in 1 .. Len(frames'[v]) :
        /\ k \in 1 .. Len(frames[v]) /\ (v = w => k # n)
        /\ frames'[v][k].task = frames[v][k].task
        /\ frames'[v][k].stolen = frames[v][k].stolen
        /\ frames'[v][k].base = frames[v][k].base
  BY LeftFrames
<1>3. \A v \in Workers : \A k \in 1 .. Len(frames[v]) :
        k \in 1 .. Len(frames'[v]) \/ (v = w /\ k = n)
  BY LeftFrames
<1>4. \A v \in Workers : Len(frames[v]) \in Nat /\ Len(frames'[v]) \in Nat
  BY Typed, TypedNext DEF IInv
<1>5. \A u, v \in Workers : \A i \in 1 .. Len(frames[u]), j \in 1 .. Len(frames[v]) :
        frames[u][i].task = frames[v][j].task => u = v /\ i = j
  BY DEF IInv, Once
<1>6. n \in 1 .. Len(frames[w]) /\ f = frames[w][n]
  BY <1>1
<1>. HIDE DEF n, f
<1>7. ASSUME NEW t \in Tasks
      PROVE  Framed(t)' <=> Framed(t) /\ t # f.task
  <2>1. ASSUME Framed(t)' PROVE Framed(t) /\ t # f.task
    <3>1. PICK v \in Workers : \E k \in 1 .. Len(frames'[v]) : frames'[v][k].task = t
      BY <2>1 DEF Framed
    <3>2. PICK k \in 1 .. Len(frames'[v]) : frames'[v][k].task = t
      BY <3>1
    <3>3. k \in 1 .. Len(frames[v]) /\ frames[v][k].task = t /\ (v = w => k # n)
      BY <1>2, <3>2
    <3>. QED
      BY <1>5, <1>6, <3>3 DEF Framed
  <2>2. ASSUME Framed(t), t # f.task PROVE Framed(t)'
    <3>1. PICK v \in Workers : \E k \in 1 .. Len(frames[v]) : frames[v][k].task = t
      BY <2>2 DEF Framed
    <3>2. PICK k \in 1 .. Len(frames[v]) : frames[v][k].task = t
      BY <3>1
    <3>3. k \in 1 .. Len(frames'[v])
      BY <1>3, <1>6, <2>2, <3>2
    <3>4. frames'[v][k].task = t
      BY <1>2, <3>2, <3>3
    <3>. QED
      BY <3>3, <3>4 DEF Framed
  <2>. QED
    BY <2>1, <2>2
<1>8. ASSUME NEW v \in Workers, NEW k \in 1 .. Len(frames'[v]), Interrupted(v, k)
      PROVE  Interrupted(v, k)'
  <2>1. PICK i \in 1 .. k : /\ frames[v][i].stolen /\ frames[v][i].task \in cancelled
                            /\ \A j \in i + 1 .. k : ~frames[v][j].stolen
    BY <1>8 DEF Interrupted
  <2>2. i \in 1 .. Len(frames'[v]) /\ \A j \in i + 1 .. k : j \in 1 .. Len(frames'[v])
    BY <1>4
  <2>3. /\ frames'[v][i].stolen /\ frames'[v][i].task \in cancelled'
        /\ \A j \in i + 1 .. k : ~frames'[v][j].stolen
    BY <1>1, <1>2, <2>1, <2>2
  <2>. QED
    BY <2>3 DEF Interrupted
<1>9. Bases'
  <2>1. \A v \in Workers : \A k \in 1 .. Len(frames'[v]) : \A i \in 1 .. k : i \in 1 .. Len(frames'[v])
    BY <1>4
  <2>2. \A v \in Workers : \A k \in 1 .. Len(frames'[v]) :
          k \in 1 .. Len(frames[v]) /\ frames'[v][k].base = frames[v][k].base
    BY <1>2
  <2>. QED
    BY <1>1, <2>1, <2>2 DEF IInv, Bases
<1>10. Once'
  <2>1. \A u, v \in Workers : \A i \in 1 .. Len(frames'[u]), j \in 1 .. Len(frames'[v]) :
          frames'[u][i].task = frames'[v][j].task => u = v /\ i = j
    BY <1>2, <1>5
  <2>. QED
    BY <1>1, <2>1 DEF IInv, Once
<1>11. Inline'
  <2> SUFFICES ASSUME NEW v \in Workers, NEW k \in 1 .. Len(frames'[v]), NEW i \in 1 .. k,
                      \A j \in i + 1 .. k : ~frames'[v][j].stolen
               PROVE  frames'[v][i].task \in Lineage[frames'[v][k].task]
    BY DEF Inline
  <2>1. i \in 1 .. Len(frames'[v]) /\ \A j \in i + 1 .. k : j \in 1 .. Len(frames'[v])
    BY <1>4
  <2>2. \A j \in i + 1 .. k : ~frames[v][j].stolen
    BY <1>2, <2>1
  <2>3. k \in 1 .. Len(frames[v])
    BY <1>2
  <2>4. frames[v][i].task \in Lineage[frames[v][k].task]
    BY <2>2, <2>3 DEF IInv, Inline
  <2>. QED
    BY <1>2, <2>1, <2>4
<1>12. ASSUME NEW t \in Tasks, NEW u \in Tasks, Above(t, u)'
       PROVE  Above(t, u)
  <2>1. PICK v \in Workers : \E k \in 1 .. Len(frames'[v]) : \E i \in 1 .. k - 1 :
          frames'[v][i].task = t /\ frames'[v][k].task = u
    BY <1>12 DEF Above
  <2>2. PICK k \in 1 .. Len(frames'[v]) : \E i \in 1 .. k - 1 :
          frames'[v][i].task = t /\ frames'[v][k].task = u
    BY <2>1
  <2>3. PICK i \in 1 .. k - 1 : frames'[v][i].task = t /\ frames'[v][k].task = u
    BY <2>2
  <2>4. i \in 1 .. Len(frames'[v])
    BY <1>4
  <2>5. k \in 1 .. Len(frames[v]) /\ frames[v][i].task = t /\ frames[v][k].task = u
    BY <1>2, <2>3, <2>4
  <2>. QED
    BY <2>5 DEF Above
<1>13. NoCycle'
  <2> SUFFICES ASSUME NEW S \in SUBSET Tasks, S # {}, \A t \in S : Framed(t)'
               PROVE  \E t \in S : \A u \in S \ {t} : t \notin Lineage[u] /\ ~Above(t, u)'
    BY DEF NoCycle
  <2>1. \A t \in S : Framed(t)
    BY <1>7
  <2>2. PICK t \in S : \A u \in S \ {t} : t \notin Lineage[u] /\ ~Above(t, u)
    BY <2>1 DEF IInv, NoCycle
  <2>. QED
    BY <1>12, <2>2
<1>. QED
  BY <1>7, <1>8, <1>9, <1>10, <1>11, <1>13 DEF f, n

(* What it leaves of the division of the deques: an exception leaves what the *)
(* innermost frame has to the frame below.                                   *)
LEMMA LeftParts ==
  ASSUME IInv, Types', NEW w \in Workers, Ends(w) \/ \E g \in Frame : Throws(w, g)
  PROVE  /\ \A v \in Workers : \A k \in 1 .. Len(frames'[v]) : \A j \in 1 .. Len(deque[v]) :
              Owns(v, k, j) => Owns(v, k, j)'
         /\ \A v \in Workers : \A k \in 1 .. Len(frames'[v]) :
              Ends(w) \/ v # w \/ k # Len(frames[w]) - 1 => Upper(v, k)' = Upper(v, k)
         /\ \A v \in Workers : \A k \in 1 .. Len(frames'[v]) : \A j \in 1 .. Len(deque[v]) :
              Owns(v, k, j)' => \/ Owns(v, k, j)
                                \/ /\ ~Ends(w) /\ v = w /\ k = Len(frames[w]) - 1
                                   /\ Owns(w, Len(frames[w]), j)
         /\ Covered'
<1> DEFINE n == Len(frames[w])
           s == Len(deque[w])
           b == frames[w][n].base
<1>1. /\ \A v \in Workers : Len(frames[v]) \in Nat /\ Len(deque[v]) \in Nat
      /\ n \in Nat \ {0} /\ deque' = deque
  BY LeftFrames, Typed DEF IInv
<1>2. \A v \in Workers : Len(frames'[v]) = IF v = w THEN n - 1 ELSE Len(frames[v])
  BY LeftFrames
<1>3. \A v \in Workers : \A k \in 1 .. Len(frames'[v]) :
        k \in 1 .. Len(frames[v]) /\ (v = w => k # n) /\ frames'[v][k].base = frames[v][k].base
  BY LeftFrames
<1>4. \A v \in Workers : \A k \in 1 .. Len(frames[v]) : k \in 1 .. Len(frames'[v]) \/ (v = w /\ k = n)
  BY LeftFrames
<1>5. b \in Nat /\ b <= s /\ s \in Nat /\ n \in 1 .. Len(frames[w])
  <2>1. n \in 1 .. Len(frames[w])
    BY <1>1
  <2>2. b \in Nat /\ b <= s
    BY <2>1, Typed DEF IInv, Bases
  <2>. QED
    BY <1>1, <2>1, <2>2
<1>6. Ends(w) => b = s
  BY DEF Ends
<1>7. \A v \in Workers : \A k \in 1 .. Len(frames[v]) : frames[v][k].base \in Nat
  BY Typed DEF IInv
<1>. HIDE DEF n, s, b
<1>8. ASSUME NEW v \in Workers, NEW k \in 1 .. Len(frames'[v])
      PROVE  /\ v # w \/ k # n - 1 => Upper(v, k)' = Upper(v, k)
             /\ v = w /\ k = n - 1 => Upper(v, k)' = s /\ Upper(v, k) = b
  <2>1. CASE v # w
    <3>1. CASE k = Len(frames[v])
      BY <1>1, <1>2, <2>1, <3>1 DEF Upper
    <3>2. CASE k # Len(frames[v])
      <4>1. k + 1 \in 1 .. Len(frames'[v])
        BY <1>1, <1>2, <2>1, <3>2
      <4>. QED
        BY <1>2, <1>3, <2>1, <3>2, <4>1 DEF Upper
    <3>. QED
      BY <2>1, <3>1, <3>2
  <2>2. CASE v = w /\ k # n - 1
    <3>1. k + 1 \in 1 .. Len(frames'[v]) /\ k # Len(frames[w]) /\ k # Len(frames'[w])
      BY <1>1, <1>2, <2>2 DEF n
    <3>. QED
      BY <1>3, <2>2, <3>1 DEF Upper
  <2>3. CASE v = w /\ k = n - 1
    <3>1. k + 1 = n /\ k # n
      BY <1>1, <2>3
    <3>. QED
      BY <1>1, <1>2, <2>3, <3>1 DEF Upper, n, s, b
  <2>. QED
    BY <2>1, <2>2, <2>3
<1>9. ASSUME NEW v \in Workers, NEW k \in 1 .. Len(frames'[v]), NEW j \in 1 .. Len(deque[v]), Owns(v, k, j)
      PROVE  Owns(v, k, j)'
  <2>1. CASE v # w \/ k # n - 1
    BY <1>3, <1>8, <1>9, <2>1 DEF Owns
  <2>2. CASE v = w /\ k = n - 1
    <3>1. j <= s
      BY <1>1, <2>2 DEF s
    <3>. QED
      BY <1>3, <1>8, <1>9, <2>2, <3>1 DEF Owns
  <2>. QED
    BY <2>1, <2>2
<1>10. ASSUME NEW v \in Workers, NEW k \in 1 .. Len(frames'[v]), NEW j \in 1 .. Len(deque[v]), Owns(v, k, j)'
       PROVE  Owns(v, k, j) \/ (~Ends(w) /\ v = w /\ k = n - 1 /\ Owns(w, n, j))
  <2>1. CASE v # w \/ k # n - 1
    BY <1>3, <1>8, <1>10, <2>1 DEF Owns
  <2>2. CASE v = w /\ k = n - 1
    <3>1. frames[v][k].base < j /\ j <= s /\ Upper(v, k) = b
      BY <1>3, <1>8, <1>10, <2>2 DEF Owns
    <3>2. CASE j <= b
      BY <3>1, <3>2 DEF Owns
    <3>3. CASE ~(j <= b)
      <4>1. b < j /\ b # s
        BY <1>1, <1>5, <3>1, <3>3
      <4>2. Upper(w, n) = s
        BY DEF Upper, n, s
      <4>. QED
        BY <1>6, <2>2, <3>1, <4>1, <4>2 DEF Owns, b
    <3>. QED
      BY <3>2, <3>3
  <2>. QED
    BY <2>1, <2>2
<1>11. ASSUME NEW v \in Workers, NEW j \in 1 .. Len(deque[v])
       PROVE  \E k \in 1 .. Len(frames'[v]) : Owns(v, k, j)'
  <2>1. PICK k \in 1 .. Len(frames[v]) : Owns(v, k, j)
    BY DEF IInv, Covered
  <2>2. CASE k \in 1 .. Len(frames'[v])
    BY <1>9, <2>1, <2>2
  <2>3. CASE v = w /\ k = n
    <3>1. b < j /\ j <= s
      BY <2>1, <2>3 DEF Owns, Upper, b, n, s
    <3>2. ~Ends(w)
      <4>1. b # s
        BY <1>1, <1>5, <3>1
      <4>. QED
        BY <1>6, <4>1
    <3>3. n >= 2
      BY <3>2 DEF Throws, n
    <3>4. PICK i \in 1 .. Len(frames'[w]) : i = n - 1
      BY <1>1, <1>2, <3>3
    <3>5. frames'[w][i].base = frames[w][i].base /\ Upper(w, i)' = s /\ frames[w][i].base <= b
          /\ frames[w][i].base \in Nat
      <4>1. i \in 1 .. n /\ i \in 1 .. Len(frames[w])
        BY <1>1, <1>3, <3>4
      <4>. QED
        BY <1>3, <1>5, <1>7, <1>8, <3>4, <4>1 DEF IInv, Bases, b
    <3>6. frames[w][i].base < j
      BY <1>5, <2>3, <3>1, <3>5
    <3>7. Owns(w, i, j)'
      BY <3>1, <3>5, <3>6 DEF Owns
    <3>. QED
      BY <2>3, <3>7
  <2>. QED
    BY <1>4, <2>1, <2>2, <2>3
<1>12. Covered'
  BY <1>1, <1>11 DEF Covered
<1>13. \A v \in Workers : \A k \in 1 .. Len(frames'[v]) : Ends(w) \/ v # w \/ k # n - 1 =>
         Upper(v, k)' = Upper(v, k)
  BY <1>6, <1>8
<1>. QED
  BY <1>9, <1>10, <1>12, <1>13 DEF n

(* The end of a task, and of one that an exception leaves.                   *)
LEMMA LeavesStep ==
  ASSUME IInv, Types', NEW w \in Workers, Ends(w) \/ \E g \in Frame : Throws(w, g)
  PROVE  IInv'
<1> DEFINE n == Len(frames[w])
           f == frames[w][n]
           h == frames[w][n - 1]
<1>1. /\ UNCHANGED <<deque, thief, word>>
      /\ cancelled \subseteq cancelled' /\ complete \subseteq complete'
      /\ n \in Nat \ {0}
  BY LeftFrames
<1>2. /\ \A v \in Workers : Len(frames'[v]) = IF v = w THEN n - 1 ELSE Len(frames[v])
      /\ \A v \in Workers : \A k \in 1 .. Len(frames[v]) :
           k \in 1 .. Len(frames'[v]) \/ (v = w /\ k = n)
  BY LeftFrames
<1>3. \A v \in Workers : \A k \in 1 .. Len(frames'[v]) :
        /\ k \in 1 .. Len(frames[v]) /\ (v = w => k # n)
        /\ frames'[v][k].task = frames[v][k].task
        /\ frames'[v][k].stolen = frames[v][k].stolen
        /\ frames'[v][k].base = frames[v][k].base
        /\ frames'[v][k].spawned = frames[v][k].spawned
  BY LeftFrames
<1>4. \A v \in Workers : \A k \in 1 .. Len(frames'[v]) :
        Ends(w) \/ v # w \/ k # n - 1 => frames'[v][k] = frames[v][k]
  BY LeftFrames
<1>5. /\ \A t \in Tasks : Framed(t)' <=> Framed(t) /\ t # f.task
      /\ \A v \in Workers : \A k \in 1 .. Len(frames'[v]) : Interrupted(v, k) => Interrupted(v, k)'
      /\ Bases' /\ Once' /\ Inline' /\ NoCycle'
  BY LeftStacks
<1>6. /\ \A v \in Workers : \A k \in 1 .. Len(frames'[v]) : \A j \in 1 .. Len(deque[v]) :
           Owns(v, k, j) => Owns(v, k, j)'
      /\ Covered'
  BY LeftParts
<1>7. /\ \A v \in Workers : \A k \in 1 .. Len(frames'[v]) :
           Ends(w) \/ v # w \/ k # n - 1 => Upper(v, k)' = Upper(v, k)
      /\ \A v \in Workers : \A k \in 1 .. Len(frames'[v]) : \A j \in 1 .. Len(deque[v]) :
           Owns(v, k, j)' => Owns(v, k, j) \/ (~Ends(w) /\ v = w /\ k = n - 1 /\ Owns(w, n, j))
  BY LeftParts
<1>8. /\ \A v \in Workers : Len(frames[v]) \in Nat /\ Len(deque[v]) \in Nat
      /\ \A v \in Workers : \A k \in 1 .. Len(frames[v]) :
           frames[v][k].task \in Tasks /\ frames[v][k].stolen \in BOOLEAN
      /\ n \in 1 .. Len(frames[w]) /\ f.task \in Tasks /\ f.stolen \in BOOLEAN
  <2>1. n \in 1 .. Len(frames[w])
    BY <1>1
  <2>2. \A v \in Workers : \A k \in 1 .. Len(frames[v]) :
          frames[v][k].task \in Tasks /\ frames[v][k].stolen \in BOOLEAN
    BY Typed DEF IInv
  <2>3. \A v \in Workers : Len(frames[v]) \in Nat /\ Len(deque[v]) \in Nat
    BY Typed DEF IInv
  <2>. QED
    BY <2>1, <2>2, <2>3
<1>9. ASSUME ~Ends(w)
      PROVE  LET g == frames'[w][n - 1] IN
             /\ n - 1 \in 1 .. Len(frames[w]) /\ n - 1 \in 1 .. n /\ n - 1 \in 1 .. Len(frames[w]) - 1
             /\ g.task = h.task /\ g.stolen = h.stolen /\ g.raised = h.raised
             /\ g.wait = "no" /\ g.mode \in {"throw", "destroy"}
             /\ g.mode = "throw" => Interrupted(w, n - 1)
             /\ g.mode = "destroy" => h.mode = "destroy"
             /\ IF f.stolen THEN f.mode = "check" /\ f.base = Len(deque[w])
                ELSE g.mode = "throw" /\ (f.base = Len(deque[w]) \/ f.task \notin Spawning)
             /\ h.mode \in {"run", "destroy"} /\ h.task \in Tasks
             /\ ~f.stolen => f.task \in Kids(h.task)
  <2>1. PICK g \in Frame : Throws(w, g)
    BY <1>9
  <2>2. /\ n >= 2 /\ g = frames'[w][n - 1] /\ SameFrame(g, h) /\ g.raised = h.raised
        /\ g.wait = "no" /\ g.mode \in {"throw", "destroy"}
        /\ g.mode = "throw" => Interrupted(w, n - 1)
        /\ g.mode = "destroy" => h.mode = "destroy"
        /\ IF f.stolen THEN f.mode = "check" /\ f.base = Len(deque[w])
           ELSE g.mode = "throw" /\ (f.base = Len(deque[w]) \/ f.task \notin Spawning)
    BY <2>1 DEF Throws, UncoversFrame
  <2>3. n - 1 \in 1 .. Len(frames[w]) /\ n - 1 \in 1 .. n /\ n - 1 \in 1 .. Len(frames[w]) - 1
        /\ (n - 1) + 1 = n
    BY <1>1, <2>2
  <2>4. h.mode \in {"run", "destroy"} /\ (~f.stolen => f.task \in Kids(h.task))
    BY <2>3 DEF IInv, Nesting
  <2>5. h.task \in Tasks
    BY <1>8, <2>3
  <2>. QED
    BY <2>2, <2>3, <2>4, <2>5 DEF SameFrame
<1>10. ASSUME NEW v \in Workers, NEW k \in 1 .. Len(frames'[v])
       PROVE  \/ frames'[v][k] = frames[v][k] /\ Upper(v, k)' = Upper(v, k)
              \/ /\ ~Ends(w) /\ v = w /\ k = n - 1 /\ frames[v][k] = h
                 /\ frames'[v][k].mode \in {"throw", "destroy"} /\ frames'[v][k].wait = "no"
  BY <1>4, <1>7, <1>9
<1>11. /\ f.stolen => thief[f.task] = w /\ (word[f.task] = "finished" <=> f.mode = "check")
       /\ ~f.stolen => thief[f.task] = None /\ ~InDeque(f.task)
  BY <1>8 DEF IInv, Words
<1>12. f.stolen => f.mode = "check"
  BY <1>9 DEF Ends
<1>13. ASSUME ~Ends(w)
       PROVE  (n - 1) + 1 = n /\ n - 1 < n
  BY <1>1
<1>. HIDE DEF n, f, h
<1>14. \A t \in Tasks : InDeque(t)' <=> InDeque(t)
  BY <1>1 DEF InDeque
<1>15. Stages'
  <2> SUFFICES ASSUME NEW v \in Workers, NEW k \in 1 .. Len(frames'[v])
               PROVE  LET d == frames'[v][k] IN
                      /\ d.spawned <= Len(Children[d.task])
                      /\ d.mode = "start" => d.spawned = 0
                      /\ d.mode \in {"start", "catch", "mark", "check"} => d.stolen
                      /\ d.mode \in {"start", "mark", "check"} => Upper(v, k)' = d.base
                      /\ k = 1 /\ ~d.stolen => d.task = Root
    BY DEF Stages
  <2>1. k \in 1 .. Len(frames[v])
    BY <1>3
  <2>2. LET d == frames[v][k] IN
        /\ d.spawned <= Len(Children[d.task])
        /\ d.mode = "start" => d.spawned = 0
        /\ d.mode \in {"start", "catch", "mark", "check"} => d.stolen
        /\ d.mode \in {"start", "mark", "check"} => Upper(v, k) = d.base
        /\ k = 1 /\ ~d.stolen => d.task = Root
    BY <2>1 DEF IInv, Stages
  <2>3. /\ frames'[v][k].task = frames[v][k].task /\ frames'[v][k].stolen = frames[v][k].stolen
        /\ frames'[v][k].base = frames[v][k].base /\ frames'[v][k].spawned = frames[v][k].spawned
    BY <1>3
  <2>4. CASE frames'[v][k] = frames[v][k] /\ Upper(v, k)' = Upper(v, k)
    BY <2>2, <2>4
  <2>5. CASE frames'[v][k].mode \in {"throw", "destroy"}
    BY <2>2, <2>3, <2>5
  <2>. QED
    BY <1>10, <2>4, <2>5
<1>16. Nesting'
  <2> SUFFICES ASSUME NEW v \in Workers, NEW k \in 1 .. Len(frames'[v]) - 1
               PROVE  LET d == frames'[v][k]
                          e == frames'[v][k + 1] IN
                      /\ d.mode \in {"run", "destroy"}
                      /\ e.stolen <=> d.wait # "no"
                      /\ ~e.stolen => d.mode = "run" /\ e.task \in Kids(d.task)
    BY DEF Nesting
  <2>1. /\ k \in 1 .. Len(frames'[v]) /\ k + 1 \in 1 .. Len(frames'[v])
        /\ k \in 1 .. Len(frames[v]) - 1
        /\ v = w => k # n - 1
    BY <1>1, <1>2, <1>8
  <2>2. frames'[v][k] = frames[v][k]
    BY <1>4, <2>1
  <2>3. frames'[v][k + 1].stolen = frames[v][k + 1].stolen /\ frames'[v][k + 1].task = frames[v][k + 1].task
    BY <1>3, <2>1
  <2>4. LET d == frames[v][k]
            e == frames[v][k + 1] IN
        /\ d.mode \in {"run", "destroy"}
        /\ e.stolen <=> d.wait # "no"
        /\ ~e.stolen => d.mode = "run" /\ e.task \in Kids(d.task)
    BY <2>1 DEF IInv, Nesting
  <2>. QED
    BY <2>2, <2>3, <2>4
<1>17. Waits'
  <2> SUFFICES ASSUME NEW v \in Workers, NEW k \in 1 .. Len(frames'[v]), frames'[v][k].wait # "no"
               PROVE  /\ frames'[v][k].mode \in {"run", "destroy", "catch"}
                      /\ frames'[v][k].base < Upper(v, k)'
                      /\ thief[deque[v][Upper(v, k)']] # None
                      /\ frames'[v][k].mode = "catch" => frames'[v][k].wait \notin {"leapfrog", "yield"}
    BY <1>1 DEF Waits
  <2>1. frames'[v][k] = frames[v][k] /\ Upper(v, k)' = Upper(v, k) /\ k \in 1 .. Len(frames[v])
    BY <1>3, <1>10
  <2>2. /\ frames[v][k].mode \in {"run", "destroy", "catch"}
        /\ frames[v][k].base < Upper(v, k)
        /\ thief[deque[v][Upper(v, k)]] # None
        /\ frames[v][k].mode = "catch" => frames[v][k].wait \notin {"leapfrog", "yield"}
    BY <2>1 DEF IInv, Waits
  <2>. QED
    BY <2>1, <2>2
<1>18. Segments'
  <2> SUFFICES ASSUME NEW v \in Workers, NEW k \in 1 .. Len(frames'[v]), NEW j \in 1 .. Len(deque[v]),
                      Owns(v, k, j)'
               PROVE  LET d == frames'[v][k]
                          t == deque[v][j] IN
                      /\ t # d.task /\ d.task \in Lineage[t]
                      /\ d.mode = "run" => t \in Kids(d.task)
                      /\ d.mode \in {"destroy", "catch"} => t \in cancelled'
                      /\ d.mode = "catch" => d.task \notin Spawning
                      /\ \A p \in Tasks : t \in Kids(p) =>
                           p = d.task \/ (p \notin Spawning /\ Lineage[p] \cap cancelled' # {})
    BY <1>1 DEF Segments
  <2>1. PICK t \in Tasks : t = deque[v][j]
    BY Typed DEF IInv
  <2>2. k \in 1 .. Len(frames[v]) /\ frames'[v][k].task = frames[v][k].task
    BY <1>3
  <2>3. CASE Owns(v, k, j)
    <3>1. LET d == frames[v][k] IN
          /\ t # d.task /\ d.task \in Lineage[t]
          /\ d.mode = "run" => t \in Kids(d.task)
          /\ d.mode \in {"destroy", "catch"} => t \in cancelled
          /\ d.mode = "catch" => d.task \notin Spawning
          /\ \A p \in Tasks : t \in Kids(p) =>
               p = d.task \/ (p \notin Spawning /\ Lineage[p] \cap cancelled # {})
      BY <2>1, <2>2, <2>3, SegmentTask
    <3>2. \A p \in Tasks : t \in Kids(p) =>
            p = frames[v][k].task \/ (p \notin Spawning /\ Lineage[p] \cap cancelled' # {})
      BY <1>1, <3>1
    <3>3. CASE frames'[v][k] = frames[v][k]
      BY <1>1, <2>1, <3>1, <3>2, <3>3
    <3>4. CASE ~Ends(w) /\ v = w /\ k = n - 1 /\ frames[v][k] = h
      <4>1. /\ frames'[v][k].mode \in {"throw", "destroy"}
            /\ frames'[v][k].mode = "destroy" => h.mode = "destroy"
        BY <1>9, <3>4
      <4>. QED
        BY <1>1, <2>1, <2>2, <3>1, <3>2, <3>4, <4>1
    <3>. QED
      BY <1>10, <3>3, <3>4
  <2>4. CASE ~Ends(w) /\ v = w /\ k = n - 1 /\ Owns(w, n, j)
    <3>1. /\ t # f.task /\ f.task \in Lineage[t]
          /\ \A p \in Tasks : t \in Kids(p) =>
               p = f.task \/ (p \notin Spawning /\ Lineage[p] \cap cancelled # {})
      BY <1>8, <2>1, <2>4, SegmentTask DEF f
    <3>2. f.base # Len(deque[w])
      <4>1. f.base < j /\ j <= Len(deque[w]) /\ f.base \in Nat
        BY <1>8, <2>4, Typed DEF Owns, f, IInv
      <4>. QED
        BY <1>8, <2>4, <4>1
    <3>3. /\ ~f.stolen /\ frames'[w][n - 1].mode = "throw" /\ f.task \notin Spawning
          /\ Interrupted(w, n - 1) /\ h.task \in Tasks /\ f.task \in Kids(h.task)
          /\ frames'[w][n - 1].task = h.task /\ n - 1 \in 1 .. n
      BY <1>9, <2>4, <3>2
    <3>4. h.task \in Lineage[t]
      BY <3>1, <3>3, LineageUp
    <3>5. t # h.task
      BY <3>1, <3>3, LineageKept
    <3>6. Lineage[f.task] \cap cancelled # {}
      <4>1. PICK i \in 1 .. n - 1 : /\ frames[w][i].stolen /\ frames[w][i].task \in cancelled
                                    /\ \A l \in i + 1 .. n - 1 : ~frames[w][l].stolen
        BY <3>3 DEF Interrupted
      <4>2. i \in 1 .. n /\ \A l \in i + 1 .. n : l = n \/ l \in i + 1 .. n - 1
        BY <1>1
      <4>3. \A l \in i + 1 .. n : ~frames[w][l].stolen
        BY <3>3, <4>1, <4>2 DEF f
      <4>4. frames[w][i].task \in Lineage[f.task]
        BY <1>8, <4>2, <4>3 DEF IInv, Inline, f
      <4>. QED
        BY <4>1, <4>4
    <3>7. \A p \in Tasks : t \in Kids(p) =>
            p = h.task \/ (p \notin Spawning /\ Lineage[p] \cap cancelled' # {})
      BY <1>1, <3>1, <3>3, <3>6
    <3>. QED
      BY <2>1, <2>4, <3>3, <3>4, <3>5, <3>7
  <2>. QED
    BY <1>7, <2>3, <2>4
<1>19. Queued'
  <2> SUFFICES ASSUME NEW v \in Workers, NEW j \in 1 .. Len(deque[v]),
                      NEW t \in Tasks, t = deque[v][j]
               PROVE  /\ thief[t] = None => ~Framed(t)'
                      /\ thief[t] # None /\ word[t] # "finished" => Framed(t)'
    BY <1>1, Typed DEF Queued, IInv
  <2>1. /\ thief[t] = None => ~Framed(t)
        /\ thief[t] # None /\ word[t] # "finished" => Framed(t)
    BY DEF IInv, Queued
  <2>2. InDeque(t)
    BY DEF InDeque
  <2>. QED
    BY <1>5, <1>11, <1>12, <2>1, <2>2
<1>20. \A v \in Workers : \A k \in 1 .. Len(frames'[v]) :
         /\ frames'[v][k].mode = "check" <=> frames[v][k].mode = "check"
         /\ frames'[v][k].mode \in {"mark", "catch", "run"} => frames'[v][k] = frames[v][k]
  <2> TAKE v \in Workers
  <2> TAKE k \in 1 .. Len(frames'[v])
  <2>1. CASE frames'[v][k] = frames[v][k]
    BY <2>1
  <2>2. CASE ~Ends(w) /\ frames[v][k] = h /\ frames'[v][k].mode \in {"throw", "destroy"}
    <3>1. h.mode \in {"run", "destroy"}
      BY <1>9, <2>2
    <3>. QED
      BY <2>2, <3>1
  <2>. QED
    BY <1>10, <2>1, <2>2
<1>21. Words'
  <2>1. ASSUME NEW v \in Workers, NEW k \in 1 .. Len(frames'[v])
        PROVE  LET d == frames'[v][k] IN
               /\ d.stolen => /\ thief[d.task] = v
                              /\ word[d.task] = "finished" <=> d.mode = "check"
                              /\ d.mode # "check" => InDeque(d.task)
               /\ ~d.stolen => thief[d.task] = None /\ ~InDeque(d.task)
               /\ d.mode = "mark" => d.task \in complete' \cup cancelled'
               /\ d.mode = "catch" => d.task \in cancelled'
    <3>1. LET d == frames[v][k] IN
          /\ d.stolen => /\ thief[d.task] = v
                         /\ word[d.task] = "finished" <=> d.mode = "check"
                         /\ d.mode # "check" => InDeque(d.task)
          /\ ~d.stolen => thief[d.task] = None /\ ~InDeque(d.task)
          /\ d.mode = "mark" => d.task \in complete' \cup cancelled'
          /\ d.mode = "catch" => d.task \in cancelled'
      BY <1>1, <1>3 DEF IInv, Words
    <3>2. /\ frames'[v][k].task = frames[v][k].task /\ frames'[v][k].stolen = frames[v][k].stolen
          /\ frames'[v][k].mode = "check" <=> frames[v][k].mode = "check"
          /\ frames'[v][k].mode \in {"mark", "catch"} => frames'[v][k] = frames[v][k]
      BY <1>3, <1>20
    <3>. QED
      BY <3>1, <3>2
  <2>2. \A t \in Tasks : /\ thief[t] = None => word[t] # "finished"
                         /\ word[t] = "finished" => t \in complete' \cup cancelled'
    BY <1>1 DEF IInv, Words
  <2>3. \A v \in Workers : \A k \in 1 .. Len(frames'[v]) :
          frames'[v][k].task \in Tasks /\ frames'[v][k].stolen \in BOOLEAN
    BY TypedNext
  <2>. QED
    BY <1>1, <1>14, <2>1, <2>2, <2>3 DEF Words
<1>22. Interrupts'
  <2> SUFFICES ASSUME NEW v \in Workers, NEW k \in 1 .. Len(frames'[v]),
                      frames'[v][k].mode = "throw"
                        \/ (frames'[v][k].mode = "destroy" /\ frames'[v][k].raised)
               PROVE  Interrupted(v, k)'
    BY DEF Interrupts
  <2>1. CASE frames'[v][k] = frames[v][k]
    BY <1>3, <1>5, <2>1 DEF IInv, Interrupts
  <2>2. CASE ~Ends(w) /\ v = w /\ k = n - 1 /\ frames[v][k] = h
    <3>1. /\ frames'[v][k].mode = "throw" => Interrupted(v, k)
          /\ frames'[v][k].mode = "destroy" => h.mode = "destroy"
          /\ frames'[v][k].raised = h.raised
      BY <1>9, <2>2
    <3>2. Interrupted(v, k)
      BY <1>3, <2>2, <3>1 DEF IInv, Interrupts
    <3>. QED
      BY <1>5, <3>2
  <2>. QED
    BY <1>10, <2>1, <2>2
<1>23. Unspawned'
  <2>1. \A x \in Tasks : FreshBelow(x) => FreshBelow(x)'
    BY <1>1, <1>5, <1>14 DEF Fresh, FreshBelow
  <2>2. ASSUME NEW v \in Workers, NEW k \in 1 .. Len(frames'[v]),
               NEW i \in frames'[v][k].spawned + 1 .. Len(Children[frames'[v][k].task]),
               NEW x \in Tasks, x = Children[frames'[v][k].task][i]
        PROVE  FreshBelow(x)'
    <3>1. FreshBelow(x)
      <4>1. k \in 1 .. Len(frames[v]) /\ frames'[v][k].task = frames[v][k].task
            /\ frames'[v][k].spawned = frames[v][k].spawned
        BY <1>3, <2>2
      <4>. QED
        BY <2>2, <4>1 DEF IInv, Unspawned
    <3>. QED
      BY <2>1, <3>1
  <2>3. ASSUME NEW v \in Workers, NEW j \in 1 .. Len(deque[v]), NEW t \in Tasks,
               t = deque[v][j], thief[t] = None, NEW x \in Kids(t)
        PROVE  FreshBelow(x)'
    <3>1. x \in Tasks
      BY KidsAreTasks
    <3>2. FreshBelow(x)
      BY <2>3 DEF IInv, Unspawned
    <3>. QED
      BY <2>1, <3>1, <3>2
  <2>. QED
    BY <1>1, <2>2, <2>3, TypedNext DEF Unspawned
<1>24. \A x \in Tasks : InFrame(x, Active)' => InFrame(x, Active) /\ Framed(x)'
  <2> TAKE x \in Tasks
  <2>1. SUFFICES ASSUME InFrame(x, Active)' PROVE InFrame(x, Active) /\ Framed(x)'
    OBVIOUS
  <2>2. PICK v \in Workers : \E k \in 1 .. Len(frames'[v]) :
          frames'[v][k].task = x /\ frames'[v][k].mode \in Active
    BY <2>1 DEF InFrame
  <2>3. PICK k \in 1 .. Len(frames'[v]) : frames'[v][k].task = x /\ frames'[v][k].mode \in Active
    BY <2>2
  <2>4. Framed(x)'
    BY <2>3 DEF Framed
  <2>5. frames[v][k].mode # "check"
    BY <1>20, <2>3 DEF Active
  <2>6. k \in 1 .. Len(frames[v]) /\ frames[v][k].task = x
    BY <1>3, <2>3
  <2>7. frames[v][k].mode \in Active
    BY <2>5, <2>6, Typed DEF IInv, Active
  <2>. QED
    BY <2>4, <2>6, <2>7 DEF InFrame
<1>25. Synced'
  <2>1. ASSUME NEW v \in Workers, NEW k \in 1 .. Len(frames'[v]), frames'[v][k].mode = "run",
               NEW i \in 1 .. frames'[v][k].spawned,
               NEW x \in Tasks, x = Children[frames'[v][k].task][i]
        PROVE  \/ \E j \in 1 .. Len(deque'[v]) : Owns(v, k, j)' /\ deque'[v][j] = x
               \/ k < Len(frames'[v]) /\ ~frames'[v][k + 1].stolen /\ frames'[v][k + 1].task = x
               \/ Over(x)'
    <3>1. k \in 1 .. Len(frames[v]) /\ frames'[v][k] = frames[v][k] /\ (v = w => k # n)
      BY <1>3, <1>20, <2>1
    <3>2. \/ \E j \in 1 .. Len(deque[v]) : Owns(v, k, j) /\ deque[v][j] = x
          \/ k < Len(frames[v]) /\ ~frames[v][k + 1].stolen /\ frames[v][k + 1].task = x
          \/ Over(x)
      BY <2>1, <3>1 DEF IInv, Synced
    <3>3. CASE \E j \in 1 .. Len(deque[v]) : Owns(v, k, j) /\ deque[v][j] = x
      BY <1>1, <1>6, <3>3
    <3>4. CASE Over(x)
      BY <1>1, <1>14, <1>24, <3>4 DEF Over
    <3>5. CASE k < Len(frames[v]) /\ ~frames[v][k + 1].stolen /\ frames[v][k + 1].task = x
      <4>1. k + 1 \in 1 .. Len(frames[v])
        BY <1>8, <3>1, <3>5
      <4>2. CASE k + 1 \in 1 .. Len(frames'[v])
        <5>1. k < Len(frames'[v])
          BY <1>1, <1>2, <1>8, <4>2
        <5>. QED
          BY <1>3, <3>5, <4>2, <5>1
      <4>3. CASE v = w /\ k + 1 = n
        <5>1. f.task = x /\ ~f.stolen
          BY <3>5, <4>3 DEF f
        <5>2. Ends(w)
          <6>1. SUFFICES ASSUME ~Ends(w) PROVE FALSE
            OBVIOUS
          <6>2. k = n - 1
            BY <1>1, <4>3
          <6>. QED
            BY <1>9, <2>1, <4>3, <5>1, <6>1, <6>2
        <5>3. f.task \in complete'
          BY <5>1, <5>2 DEF Ends, f, n
        <5>4. ~InFrame(x, Active)'
          BY <1>5, <1>24, <5>1
        <5>. QED
          BY <1>11, <1>14, <5>1, <5>3, <5>4 DEF Over
      <4>. QED
        BY <1>2, <4>1, <4>2, <4>3
    <3>. QED
      BY <3>2, <3>3, <3>4, <3>5
  <2>. QED
    BY <1>15, <2>1, SpawnedAreTasksNext DEF Synced
<1>. QED
  BY <1>5, <1>6, <1>15, <1>16, <1>17, <1>18, <1>19, <1>21, <1>22, <1>23, <1>25 DEF IInv

-----------------------------------------------------------------------------
(* Main starts with Root, and nothing else has begun.                        *)
LEMMA InvInit ==
  ASSUME Init
  PROVE  IInv
<1> DEFINE r == Call(Root, FALSE, 0, "run")
<1>1. /\ r \in Frame /\ r.task = Root /\ ~r.stolen /\ r.base = 0 /\ r.spawned = 0
      /\ r.mode = "run" /\ ~r.raised /\ r.wait = "no"
  BY TreeAssumption DEF Call, Frame, Modes
<1>. HIDE DEF r
<1>2. /\ deque = [w \in Workers |-> <<>>]
      /\ frames = [w \in Workers |-> IF w = Main THEN <<r>> ELSE <<>>]
      /\ thief = [t \in Tasks |-> None] /\ word = [t \in Tasks |-> "new"]
      /\ cancelled = {} /\ complete = {} /\ terminated = FALSE
  BY DEF Init, r
<1>3. \A w \in Workers : Len(deque[w]) = 0 /\ deque[w] = <<>>
  BY <1>2
<1>4. ASSUME NEW w \in Workers, NEW k \in 1 .. Len(frames[w])
      PROVE  w = Main /\ k = 1 /\ frames[w][k] = r /\ Len(frames[w]) = 1
  <2>1. CASE w = Main
    <3>1. frames[w] = <<r>>
      BY <1>2, <2>1
    <3>. QED
      BY <2>1, <3>1
  <2>2. CASE w # Main
    <3>1. frames[w] = <<>>
      BY <1>2, <2>2
    <3>. QED
      BY <3>1
  <2>. QED
    BY <2>1, <2>2
<1>5. \A w \in Workers : \A j \in 1 .. Len(deque[w]) : FALSE
  BY <1>3
<1>6. Types
  <2>1. \A w \in Workers : frames[w] \in Seq(Frame) /\ deque[w] \in Seq(Tasks)
    <3>1. <<r>> \in Seq(Frame) /\ <<>> \in Seq(Frame) /\ <<>> \in Seq(Tasks)
      BY <1>1
    <3>2. \A w \in Workers : (frames[w] = <<r>> \/ frames[w] = <<>>) /\ deque[w] = <<>>
      BY <1>2
    <3>. QED
      BY <3>1, <3>2
  <2>2. frames \in [Workers -> Seq(Frame)] /\ deque \in [Workers -> Seq(Tasks)]
    BY <1>2, <2>1
  <2>. QED
    BY <1>2, <2>2 DEF Types
<1>7. Bases
  BY <1>1, <1>3, <1>4 DEF Bases
<1>8. Covered
  BY <1>5 DEF Covered
<1>9. Stages
  <2> SUFFICES ASSUME NEW w \in Workers, NEW k \in 1 .. Len(frames[w])
               PROVE  LET f == frames[w][k] IN
                      /\ f.spawned <= Len(Children[f.task])
                      /\ f.mode = "start" => f.spawned = 0
                      /\ f.mode \in {"start", "catch", "mark", "check"} => f.stolen
                      /\ f.mode \in {"start", "mark", "check"} => Upper(w, k) = f.base
                      /\ k = 1 /\ ~f.stolen => f.task = Root
    BY DEF Stages
  <2>1. 0 <= Len(Children[Root])
    BY TreeAssumption, KidsAreTasks
  <2>. QED
    BY <1>1, <1>4, <2>1
<1>10. Nesting
  <2>1. \A w \in Workers : \A k \in 1 .. Len(frames[w]) - 1 : FALSE
    <3> TAKE w \in Workers
    <3> TAKE k \in 1 .. Len(frames[w]) - 1
    <3>1. Len(frames[w]) \in Nat
      BY <1>6, Typed
    <3>2. k \in 1 .. Len(frames[w]) /\ k # Len(frames[w])
      BY <3>1
    <3>. QED
      BY <1>4, <3>2
  <2>. QED
    BY <2>1 DEF Nesting
<1>11. Waits
  BY <1>1, <1>4 DEF Waits
<1>12. Segments
  BY <1>5 DEF Segments
<1>13. Once
  BY <1>4, <1>5 DEF Once
<1>14. Queued
  BY <1>5 DEF Queued
<1>15. \A t \in Tasks : ~InDeque(t) /\ (Framed(t) => t = Root) /\ thief[t] = None /\ word[t] = "new"
  BY <1>1, <1>2, <1>4, <1>5 DEF InDeque, Framed
<1>16. Words
  <2>1. Root \in Tasks
    BY TreeAssumption
  <2>. QED
    BY <1>1, <1>4, <1>15, <2>1 DEF Words
<1>17. Interrupts
  BY <1>1, <1>4 DEF Interrupts
<1>18. Inline
  <2> SUFFICES ASSUME NEW w \in Workers, NEW k \in 1 .. Len(frames[w]), NEW i \in 1 .. k
               PROVE  frames[w][i].task \in Lineage[frames[w][k].task]
    BY DEF Inline
  <2>1. i = k /\ frames[w][k].task = Root
    BY <1>1, <1>4
  <2>. QED
    BY <2>1, LineageOfSelf, TreeAssumption
<1>19. Unspawned
  <2>1. ASSUME NEW w \in Workers, NEW k \in 1 .. Len(frames[w]),
               NEW i \in frames[w][k].spawned + 1 .. Len(Children[frames[w][k].task])
        PROVE  FreshBelow(Children[frames[w][k].task][i])
    <3>1. Root \in Tasks /\ i \in 1 .. Len(Children[Root]) /\ frames[w][k].task = Root
      BY <1>1, <1>4, <2>1, TreeAssumption
    <3>2. PICK c \in Kids(Root) : c = Children[Root][i]
      BY <3>1, KidsAreTasks
    <3>3. c \notin Lineage[Root]
      BY <3>1, LineageKept
    <3>4. FreshBelow(c)
      BY <1>15, <3>3 DEF FreshBelow, Fresh
    <3>. QED
      BY <3>1, <3>2, <3>4
  <2>. QED
    BY <1>5, <2>1 DEF Unspawned
<1>20. Synced
  <2>1. \A w \in Workers : \A k \in 1 .. Len(frames[w]) : 1 .. frames[w][k].spawned = {}
    BY <1>1, <1>4
  <2>. QED
    BY <2>1 DEF Synced
<1>21. NoCycle
  BY <1>15 DEF NoCycle
<1>. QED
  BY <1>6, <1>7, <1>8, <1>9, <1>10, <1>11, <1>12, <1>13, <1>14, <1>16, <1>17, <1>18, <1>19, <1>20,
     <1>21 DEF IInv

(* Every step keeps the invariant.                                            *)
LEMMA InvNext ==
  ASSUME IInv, [Next]_vars
  PROVE  IInv'
<1>1. Types'
  BY StepKind
<1>2. CASE Rests
  BY <1>1, <1>2, RestsStep
<1>3. ASSUME NEW w \in Workers, Ends(w)
      PROVE  IInv'
  BY <1>1, <1>3, LeavesStep
<1>4. ASSUME NEW w \in Workers, NEW g \in Frame, Renews(w, g)
      PROVE  IInv'
  BY <1>1, <1>4, RenewsStep
<1>5. ASSUME NEW w \in Workers, NEW g \in Frame, Spawns(w, g)
      PROVE  IInv'
  BY <1>1, <1>5, SpawnsStep
<1>6. ASSUME NEW w \in Workers, NEW g \in Frame, Discards(w, g)
      PROVE  IInv'
  BY <1>1, <1>6, DiscardsStep
<1>7. ASSUME NEW w \in Workers, NEW g \in Frame, Calls(w, g) \/ Takes(w, g)
      PROVE  IInv'
  BY <1>1, <1>7, BeginsStep
<1>8. ASSUME NEW w \in Workers, NEW g \in Frame, Throws(w, g)
      PROVE  IInv'
  BY <1>1, <1>8, LeavesStep
<1>. QED
  BY <1>2, <1>3, <1>4, <1>5, <1>6, <1>7, <1>8, StepKind

(* The stacks, the deques and the words of the tasks fit each other in all    *)
(* states of the scheduler.                                                  *)
THEOREM SchedulerInvariant == Spec => []IInv
<1>1. Init => IInv
  BY InvInit
<1>2. IInv /\ [Next]_vars => IInv'
  BY InvNext
<1>. QED
  BY <1>1, <1>2, PTL DEF Spec

(* The variables have their types, and a frame in sync()'s wait has a stolen  *)
(* task to wait for.                                                         *)
THEOREM TypeCorrect == Spec => []TypeOK
<1>1. ASSUME IInv
      PROVE  TypeOK
  <2>1. ASSUME NEW w \in Workers, frames[w] # <<>>
        PROVE  /\ Top(w).base <= Len(deque[w])
               /\ Top(w).wait # "no" => Pending(w) # {} /\ thief[Popped(w)] # None
    <3>1. Types /\ Bases
      BY <1>1 DEF IInv
    <3>2. Len(frames[w]) # 0
      BY <2>1, <3>1, Lengths DEF Types
    <3>3. Top(w) = frames[w][Len(frames[w])] /\ Top(w).base \in Nat /\ Top(w).base <= Len(deque[w])
      BY <3>1, <3>2, TopFrame
    <3>4. ASSUME Top(w).wait # "no"
          PROVE  Pending(w) # {} /\ thief[Popped(w)] # None
      <4>1. Top(w).base < Len(deque[w]) /\ thief[deque[w][Len(deque[w])]] # None
        BY <1>1, <3>2, <3>3, <3>4, TopFacts
      <4>2. Pending(w) # {}
        BY <3>1, <3>2, <3>3, <4>1, TopFrame
      <4>. QED
        BY <3>1, <3>2, <4>1, <4>2, TopFrame
    <3>. QED
      BY <3>3, <3>4
  <2>. QED
    BY <1>1, <2>1 DEF TypeOK, IInv, Types
<1>. QED
  BY <1>1, SchedulerInvariant, PTL

(* sync() takes the last task of the calling code.                           *)
THEOREM SyncsOwnTaskHolds == Spec => []SyncsOwnTask
<1>1. ASSUME IInv
      PROVE  SyncsOwnTask
  <2> SUFFICES ASSUME NEW w \in Workers, Alive(w), Top(w).mode = "run", Pending(w) # {}
               PROVE  Parent(Popped(w)) = {Top(w).task}
    BY DEF SyncsOwnTask
  <2>1. Types /\ Bases /\ Len(frames[w]) # 0
    BY <1>1, Lengths DEF IInv, Types, Alive
  <2>2. /\ Top(w) = frames[w][Len(frames[w])] /\ Top(w).task \in Tasks /\ Top(w).base \in Nat
        /\ Popped(w) = deque[w][Len(deque[w])] /\ Top(w).base < Len(deque[w])
        /\ Len(frames[w]) \in Nat \ {0} /\ Len(deque[w]) \in Nat
    BY <2>1, TopFrame
  <2>3. /\ Len(deque[w]) \in 1 .. Len(deque[w]) /\ Len(deque[w]) \in Top(w).base + 1 .. Len(deque[w])
        /\ Len(frames[w]) \in 1 .. Len(frames[w])
    BY <2>2
  <2>4. Owns(w, Len(frames[w]), Len(deque[w]))
    BY <1>1, <2>1, <2>2, <2>3, TopFacts
  <2>5. Popped(w) \in Kids(Top(w).task)
    BY <1>1, <2>2, <2>3, <2>4, SegmentTask
  <2>6. \A p \in Tasks : Popped(w) \in Kids(p) => p = Top(w).task
    BY <2>2, <2>5, OneParent
  <2>. QED
    BY <2>2, <2>5, <2>6 DEF Parent
<1>. QED
  BY <1>1, SchedulerInvariant, PTL

(* What a task has synced is over when its code goes on.                     *)
THEOREM SyncMeansDoneHolds == Spec => []SyncMeansDone
<1>1. ASSUME IInv
      PROVE  SyncMeansDone
  <2> SUFFICES ASSUME NEW w \in Workers, InCode(w), NEW i \in 1 .. Top(w).spawned,
                      Children[Top(w).task][i] \notin Pending(w)
               PROVE  Over(Children[Top(w).task][i])
    BY DEF SyncMeansDone, Over
  <2> DEFINE c == Children[Top(w).task][i]
             n == Len(frames[w])
  <2>1. Types /\ Bases /\ n # 0 /\ Top(w).mode = "run"
    BY <1>1, Lengths DEF IInv, Types, Alive, InCode
  <2>2. /\ Top(w) = frames[w][n] /\ n \in Nat \ {0} /\ Len(deque[w]) \in Nat /\ Top(w).base \in Nat
        /\ \A j \in Top(w).base + 1 .. Len(deque[w]) : deque[w][j] \in Pending(w)
    BY <2>1, TopFrame
  <2>3. n \in 1 .. Len(frames[w])
    BY <2>2
  <2>4. \/ \E j \in 1 .. Len(deque[w]) : Owns(w, n, j) /\ deque[w][j] = c
        \/ Over(c)
    <3>1. \/ \E j \in 1 .. Len(deque[w]) : Owns(w, n, j) /\ deque[w][j] = c
          \/ n < Len(frames[w]) /\ ~frames[w][n + 1].stolen /\ frames[w][n + 1].task = c
          \/ Over(c)
      BY <1>1, <2>1, <2>2, <2>3 DEF IInv, Synced
    <3>2. ~(n < Len(frames[w]))
      BY <2>2
    <3>. QED
      BY <3>1, <3>2
  <2>5. ASSUME NEW j \in 1 .. Len(deque[w]), Owns(w, n, j)
        PROVE  deque[w][j] \in Pending(w)
    <3>1. j \in Top(w).base + 1 .. Len(deque[w])
      BY <2>2, <2>5 DEF Owns
    <3>. QED
      BY <2>2, <3>1
  <2>. QED
    BY <2>4, <2>5
<1>. QED
  BY <1>1, SchedulerInvariant, PTL

(* Code that others' variables live in is there as long as they need it.     *)
THEOREM ParentIsAliveHolds == Spec => []ParentIsAlive
<1>1. ASSUME IInv
      PROVE  ParentIsAlive
  <2> SUFFICES ASSUME NEW p \in Tasks,
                      p \in Spawning \/ Lineage[p] \cap cancelled = {},
                      NEW i \in 1 .. Len(Children[p]),
                      InDeque(Children[p][i]) \/ InFrame(Children[p][i], Active)
               PROVE  InFrame(p, {"run", "throw", "destroy"})
    BY DEF ParentIsAlive, Spawning
  <2>1. PICK c \in Kids(p) : c = Children[p][i] /\ c \in Tasks
    BY KidsAreTasks
  <2>2. Types
    BY <1>1 DEF IInv
  <2>3. ASSUME InDeque(c)
        PROVE  InFrame(p, {"run", "throw", "destroy"})
    <3>1. PICK v \in Workers : \E j \in 1 .. Len(deque[v]) : deque[v][j] = c
      BY <2>3 DEF InDeque
    <3>2. PICK j \in 1 .. Len(deque[v]) : deque[v][j] = c
      BY <3>1
    <3>3. PICK k \in 1 .. Len(frames[v]) : Owns(v, k, j)
      BY <1>1 DEF IInv, Covered
    <3>4. /\ frames[v][k].mode = "catch" => frames[v][k].task \notin Spawning
          /\ frames[v][k].task = p
      BY <1>1, <2>1, <3>2, <3>3, SegmentTask
    <3>5. frames[v][k].mode \notin {"start", "mark", "check"}
      <4>1. Upper(v, k) # frames[v][k].base
        <5>1. PICK b \in Nat : b = frames[v][k].base
          BY <2>2, Typed
        <5>2. b < j /\ j <= Upper(v, k) /\ j \in Nat
          BY <3>3, <5>1 DEF Owns
        <5>. QED
          BY <5>1, <5>2
      <4>. QED
        BY <1>1, <4>1 DEF IInv, Stages
    <3>6. frames[v][k].mode # "catch"
      <4>1. SUFFICES ASSUME frames[v][k].mode = "catch" PROVE FALSE
        OBVIOUS
      <4>2. p \in cancelled /\ p \notin Spawning
        BY <1>1, <3>4, <4>1 DEF IInv, Words
      <4>. QED
        BY <4>2, LineageOfSelf
    <3>7. frames[v][k].mode \in {"run", "throw", "destroy"}
      BY <2>2, <3>5, <3>6, Typed DEF Modes
    <3>. QED
      BY <3>4, <3>7 DEF InFrame
  <2>4. ASSUME InFrame(c, Active)
        PROVE  InFrame(p, {"run", "throw", "destroy"})
    <3>1. PICK v \in Workers : \E k \in 1 .. Len(frames[v]) :
            frames[v][k].task = c /\ frames[v][k].mode \in Active
      BY <2>4 DEF InFrame
    <3>2. PICK k \in 1 .. Len(frames[v]) : frames[v][k].task = c /\ frames[v][k].mode \in Active
      BY <3>1
    <3>3. CASE frames[v][k].stolen
      <4>1. frames[v][k].mode # "check"
        BY <3>2 DEF Active
      <4>2. InDeque(c)
        BY <1>1, <3>2, <3>3, <4>1 DEF IInv, Words
      <4>. QED
        BY <2>3, <4>2
    <3>4. CASE ~frames[v][k].stolen
      <4>1. k # 1
        <5>1. c # Root
          BY <2>1, TreeAssumption
        <5>. QED
          BY <1>1, <3>2, <3>4, <5>1 DEF IInv, Stages
      <4>2. PICK l \in 1 .. Len(frames[v]) - 1 : l + 1 = k /\ l \in 1 .. Len(frames[v])
        <5>1. Len(frames[v]) \in Nat
          BY <2>2, Typed
        <5>2. k - 1 \in 1 .. Len(frames[v]) - 1 /\ (k - 1) + 1 = k /\ k - 1 \in 1 .. Len(frames[v])
          BY <4>1, <5>1
        <5>. QED
          BY <5>2
      <4>3. frames[v][l].mode = "run" /\ c \in Kids(frames[v][l].task)
        BY <1>1, <3>2, <3>4, <4>2 DEF IInv, Nesting
      <4>4. frames[v][l].task = p
        BY <2>1, <2>2, <4>2, <4>3, OneParent, Typed
      <4>. QED
        BY <4>2, <4>3, <4>4 DEF InFrame
    <3>. QED
      BY <3>3, <3>4
  <2>. QED
    BY <2>1, <2>3, <2>4
<1>. QED
  BY <1>1, SchedulerInvariant, PTL

(* The waits of sync() never close a cycle.                                  *)
THEOREM SomeoneGoesOnHolds == Spec => []SomeoneGoesOn
<1>1. ASSUME IInv
      PROVE  SomeoneGoesOn
  <2> SUFFICES ASSUME NEW z \in Workers, Alive(z), \A w \in Workers : Alive(w) => Blocked(w)
               PROVE  FALSE
    BY DEF SomeoneGoesOn
  <2>1. Types /\ Bases /\ \A w \in Workers : Len(frames[w]) \in Nat /\ (frames[w] # <<>> <=> Len(frames[w]) # 0)
    BY <1>1, Lengths DEF IInv, Types
  <2> DEFINE S == {t \in Tasks : Framed(t)}
  <2>2. S # {}
    <3>1. 1 \in 1 .. Len(frames[z])
      BY <2>1 DEF Alive
    <3>2. frames[z][1].task \in Tasks /\ Framed(frames[z][1].task)
      BY <2>1, <3>1, Typed DEF Framed
    <3>. QED
      BY <3>2
  <2>3. PICK t \in S : \A u \in S \ {t} : t \notin Lineage[u] /\ ~Above(t, u)
    <3>1. S \in SUBSET Tasks /\ \A t \in S : Framed(t)
      OBVIOUS
    <3>. QED
      BY <1>1, <2>2, <3>1 DEF IInv, NoCycle
  <2>4. PICK v \in Workers : \E k \in 1 .. Len(frames[v]) : frames[v][k].task = t
    BY DEF Framed
  <2>5. PICK k \in 1 .. Len(frames[v]) : frames[v][k].task = t
    BY <2>4
  <2>6. Alive(v) /\ Len(frames[v]) # 0
    BY <2>1 DEF Alive
  <2>7. k = Len(frames[v])
    <3>1. SUFFICES ASSUME k # Len(frames[v]) PROVE FALSE
      OBVIOUS
    <3>2. Len(frames[v]) \in 1 .. Len(frames[v]) /\ k \in 1 .. Len(frames[v]) - 1
      BY <2>1, <3>1
    <3>3. PICK u \in Tasks : u = frames[v][Len(frames[v])].task
      BY <2>1, <3>2, Typed
    <3>4. u # t
      BY <1>1, <2>5, <3>1, <3>2, <3>3 DEF IInv, Once
    <3>5. Framed(u)
      BY <3>2, <3>3 DEF Framed
    <3>6. Above(t, u)
      BY <2>5, <3>2, <3>3 DEF Above
    <3>. QED
      BY <2>3, <3>4, <3>5, <3>6
  <2>8. Top(v).wait # "no" /\ word[Popped(v)] # "finished"
    BY <2>6 DEF Blocked
  <2> DEFINE s == Len(deque[v])
  <2>9. /\ Top(v) = frames[v][k] /\ Top(v).base \in Nat /\ s \in Nat
        /\ Top(v).base < s /\ thief[deque[v][s]] # None
        /\ \A j \in Top(v).base + 1 .. s : Owns(v, k, j)
    <3>1. Top(v) = frames[v][k] /\ Top(v).base \in Nat /\ s \in Nat
      BY <2>1, <2>6, <2>7, TopFrame
    <3>. QED
      BY <1>1, <2>6, <2>7, <2>8, <3>1, TopFacts
  <2>10. s \in 1 .. Len(deque[v]) /\ s \in Top(v).base + 1 .. s
    BY <2>9
  <2>11. Popped(v) = deque[v][s]
    BY DEF Popped, Newest
  <2>12. PICK x \in Tasks : x = deque[v][s]
    BY <2>1, <2>10, Typed
  <2>13. x # t /\ t \in Lineage[x]
    <3>1. Owns(v, k, s)
      BY <2>9, <2>10
    <3>. QED
      BY <1>1, <2>5, <2>10, <2>12, <3>1, SegmentTask
  <2>14. Framed(x)
    BY <1>1, <2>8, <2>9, <2>10, <2>11, <2>12 DEF IInv, Queued
  <2>. QED
    BY <2>3, <2>13, <2>14
<1>. QED
  BY <1>1, SchedulerInvariant, PTL
=============================================================================
