--------------------------- MODULE MipSolverProofs ---------------------------
(***************************************************************************)
(* Proofs about MipSolver, for every set of cells, their costs, the bounds   *)
(* that LPs may yield, the gap, and any number of restarts and calls.        *)
(***************************************************************************)
EXTENDS MipSolver, TLAPS

-----------------------------------------------------------------------------
(* What replacing, dropping and appending a last element does.               *)
LEMMA NotEmpty ==
  ASSUME NEW S, NEW s \in Seq(S)
  PROVE  /\ Len(s) \in Nat /\ (s /= <<>> <=> Len(s) \in Nat \ {0})
         /\ s /= <<>> => s[Len(s)] \in S
         /\ \A i \in 1..Len(s) : s[i] \in S
  OBVIOUS

LEMMA ReplaceLast ==
  ASSUME NEW S, NEW s \in Seq(S), s /= <<>>, NEW x \in S
  PROVE  LET t == [s EXCEPT ![Len(s)] = x] IN
         /\ t \in Seq(S) /\ Len(t) = Len(s) /\ t /= <<>> /\ t[Len(t)] = x
         /\ \A i \in 1..(Len(s) - 1) : t[i] = s[i]
  <1> DEFINE t == [s EXCEPT ![Len(s)] = x]
  <1>1. Len(s) \in Nat \ {0}
    BY NotEmpty
  <1>2. t \in Seq(S) /\ Len(t) = Len(s)
    BY <1>1
  <1>3. t /= <<>>
    BY <1>1, <1>2, NotEmpty
  <1>4. t[Len(s)] = x /\ \A i \in 1..(Len(s) - 1) : t[i] = s[i]
    BY <1>1
  <1> QED
    BY <1>2, <1>3, <1>4

LEMMA DropLast ==
  ASSUME NEW S, NEW s \in Seq(S), s /= <<>>
  PROVE  /\ SubSeq(s, 1, Len(s) - 1) \in Seq(S)
         /\ Len(SubSeq(s, 1, Len(s) - 1)) = Len(s) - 1
         /\ \A i \in 1..(Len(s) - 1) : SubSeq(s, 1, Len(s) - 1)[i] = s[i]
  <1>1. Len(s) \in Nat \ {0}
    BY NotEmpty
  <1> DEFINE n == Len(s) - 1
  <1>2. n \in Nat /\ n <= Len(s) /\ 1..n \subseteq 1..Len(s)
    BY <1>1
  <1> HIDE DEF n
  <1>3. Len(SubSeq(s, 1, n)) = n /\ \A i \in 1..n : SubSeq(s, 1, n)[i] = s[i]
    BY <1>2
  <1>4. SubSeq(s, 1, n) \in Seq(S)
    BY <1>2
  <1> QED
    BY <1>3, <1>4 DEF n

LEMMA AppendLast ==
  ASSUME NEW S, NEW s \in Seq(S), NEW x \in S
  PROVE  LET t == Append(s, x) IN
         /\ t \in Seq(S) /\ Len(t) = Len(s) + 1 /\ t /= <<>> /\ t[Len(t)] = x
         /\ \A i \in 1..Len(s) : t[i] = s[i]
  <1> DEFINE t == Append(s, x)
  <1>1. t \in Seq(S) /\ Len(t) = Len(s) + 1 /\ Len(s) \in Nat
    OBVIOUS
  <1>2. t /= <<>>
    BY <1>1, NotEmpty
  <1> QED
    BY <1>1, <1>2

-----------------------------------------------------------------------------
(* The operators of the node queue.                                          *)
Value == 0..Infinity

LEMMA ValueIsNat == Value \subseteq Nat /\ Infinity \in Value /\ 0 \in Value
  BY BoundsAssumption DEF Value

LEMMA LimitsFall ==
  ASSUME NEW ub \in Value, NEW new \in Value, new <= ub
  PROVE  /\ UpperLimit(new) <= UpperLimit(ub)
         /\ OptimalityLimit(new) <= OptimalityLimit(ub)
         /\ OptimalityLimit(ub) <= UpperLimit(ub) /\ UpperLimit(ub) <= ub
         /\ UpperLimit(ub) \in Int /\ OptimalityLimit(ub) \in Int
  BY BoundsAssumption DEF UpperLimit, OptimalityLimit, Value

LEMMA UsefulShrinks ==
  ASSUME NEW ub \in Value, NEW new \in Value, new <= ub,
         NEW region \in SUBSET Cells, NEW smaller \in SUBSET region
  PROVE  /\ Useful(smaller, new) \subseteq Useful(region, ub)
         /\ \A b \in Int : IsBound(b, region, ub) => IsBound(b, smaller, new)
  <1>0. new <= new
    BY ValueIsNat
  <1>1. UpperLimit(new) <= UpperLimit(ub) /\ UpperLimit(ub) \in Int
          /\ UpperLimit(new) \in Int
    BY <1>0, LimitsFall
  <1>2. Cost \in [Cells -> Value] /\ Value \subseteq Nat
    BY BoundsAssumption, ValueIsNat DEF Value
  <1>3. Useful(smaller, new) \subseteq Useful(region, ub)
    <2> SUFFICES ASSUME NEW c \in smaller, Cost[c] < UpperLimit(new)
                 PROVE  Cost[c] < UpperLimit(ub)
      BY DEF Useful
    <2>1. Cost[c] \in Nat
      BY <1>2
    <2> QED
      BY <1>1, <2>1
  <1> QED
    BY <1>3 DEF IsBound

LEMMA RaisedIs ==
  ASSUME NEW lb \in Value, NEW region \in SUBSET Cells, NEW ub \in Value,
         NEW new \in Raised(lb, region, ub)
  PROVE  /\ new \in Value /\ lb <= new
         /\ IsBound(lb, region, ub) => IsBound(new, region, ub)
  BY BoundsAssumption DEF Raised, Higher, IsBound, Value

LEMMA LeastIs ==
  ASSUME NEW values \in SUBSET Value, NEW v \in LeastOf(values)
  PROVE  v \in Value /\ v \in values /\ \A w \in values : v <= w
  BY DEF LeastOf

LEMMA PropagationsAre ==
  ASSUME NEW region \in SUBSET Cells, NEW ub \in Value,
         NEW smaller \in Propagations(region, ub)
  PROVE  smaller \subseteq region /\ smaller \in SUBSET Cells
         /\ Useful(region, ub) \subseteq smaller
         /\ Useful(region, ub) = Useful(smaller, ub)
  BY DEF Propagations, Useful

LEMMA EmplaceIs ==
  ASSUME NEW queue \in SUBSET Nodes, NEW region \in SUBSET Cells,
         NEW lb \in Value, NEW ub
  PROVE  Emplace(queue, region, lb, ub) \subseteq Nodes
  <1> DEFINE new(b) == [region |-> region, lb |-> lb, suboptimal |-> b]
  <1>1. \A b \in BOOLEAN : new(b) \in Nodes
    BY DEF Nodes, Value
  <1>2. (lb > OptimalityLimit(ub)) = TRUE \/ (lb > OptimalityLimit(ub)) = FALSE
    OBVIOUS
  <1>3. new(lb > OptimalityLimit(ub)) \in Nodes
    <2> HIDE DEF new
    <2> QED
      BY <1>1, <1>2, Zenon
  <1> QED
    BY <1>3, Zenon DEF Emplace

LEMMA BoundingIs ==
  ASSUME NEW queue \in SUBSET Nodes, NEW ub
  PROVE  PerformBounding(queue, ub) \subseteq Nodes
  <1>1. \A n \in Nodes : [n EXCEPT !.suboptimal =
                            n.suboptimal \/ n.lb >= OptimalityLimit(ub)] \in Nodes
    BY DEF Nodes
  <1> QED
    BY <1>1 DEF PerformBounding

LEMMA LowerBoundsAre ==
  ASSUME NEW queue \in SUBSET Nodes
  PROVE  LowerBounds(queue) \subseteq Value
  BY DEF LowerBounds, Nodes, Value

LEMMA NodeIs ==
  ASSUME NEW region \in SUBSET Cells, NEW lb \in Value
  PROVE  /\ Node(region, lb) \in StackNodes
         /\ Node(region, lb).region = region /\ Node(region, lb).lb = lb
         /\ Node(region, lb).other = lb /\ Node(region, lb).open = 2
  BY DEF Node, StackNodes, Value

-----------------------------------------------------------------------------
(* Types, and the shape of the search stack at each place: it is empty       *)
(* between two plunges, and holds one node in the install loop; a node is    *)
(* only branched on when it is open; the queue is empty until the root node  *)
(* is done.                                                                  *)
Between == {"search", "stored", "install"}
Plunging == {"plunge", "dive", "leaf", "heuristics", "branch", "branched",
             "backtrack"}
Single == {"installed", "pruned", "separate"}
Opened == {"installed", "branch", "branched", "separate", "heuristics"}

Shape ==
  /\ pc \in RootPlaces \cup Between => nodestack = <<>>
  /\ pc \in RootPlaces => nodequeue = {}
  /\ pc \in Plunging => nodestack /= <<>>
  /\ pc \in Single => Len(nodestack) = 1 /\ nodestack /= <<>>
  /\ pc \in Opened => top.open = 2
  /\ pc = "pruned" => top.open = 0
  /\ running + answered <= MaxCalls

TInv == TypeOK /\ Shape

USE DEF Value

LEMMA TopIs ==
  ASSUME TypeOK, nodestack /= <<>>
  PROVE  /\ Len(nodestack) \in Nat \ {0}
         /\ top \in StackNodes /\ top.region \in SUBSET Cells
         /\ top.lb \in Value /\ top.other \in Value /\ top.open \in 0..2
  <1>1. Len(nodestack) \in Nat \ {0} /\ top \in StackNodes
    BY NotEmpty DEF TypeOK, top
  <1> QED
    BY <1>1 DEF StackNodes

LEMMA ReplacedIs ==
  ASSUME TypeOK, nodestack /= <<>>, NEW node \in StackNodes
  PROVE  /\ Replaced(node) \in Seq(StackNodes) /\ Replaced(node) /= <<>>
         /\ Len(Replaced(node)) = Len(nodestack)
         /\ Replaced(node)[Len(nodestack)] = node
         /\ \A i \in 1..(Len(nodestack) - 1) : Replaced(node)[i] = nodestack[i]
  BY ReplaceLast DEF TypeOK, Replaced

LEMMA ClosedIs ==
  ASSUME TypeOK, nodestack /= <<>>
  PROVE  /\ [top EXCEPT !.open = 0] \in StackNodes
         /\ [top EXCEPT !.open = 0].open = 0
         /\ [top EXCEPT !.open = 0].region = top.region
         /\ [top EXCEPT !.open = 0].lb = top.lb
         /\ [top EXCEPT !.open = 0].other = top.other
  BY TopIs DEF StackNodes

LEMMA CutoffIs ==
  ASSUME TypeOK, nodestack /= <<>>
  PROVE  /\ Cutoff \in Seq(StackNodes) /\ Cutoff /= <<>>
         /\ Len(Cutoff) = Len(nodestack)
         /\ Cutoff[Len(nodestack)].open = 0
         /\ Cutoff[Len(nodestack)].region = top.region
         /\ Cutoff[Len(nodestack)].lb = top.lb
         /\ Cutoff[Len(nodestack)].other = top.other
         /\ \A i \in 1..(Len(nodestack) - 1) : Cutoff[i] = nodestack[i]
  BY ClosedIs, ReplacedIs DEF Cutoff

LEMMA PoppedIs ==
  ASSUME TypeOK, nodestack /= <<>>
  PROVE  /\ Popped \in Seq(StackNodes) /\ Len(Popped) = Len(nodestack) - 1
         /\ \A i \in 1..(Len(nodestack) - 1) : Popped[i] = nodestack[i]
  BY DropLast DEF TypeOK, Popped

LEMMA PushIs ==
  ASSUME TypeOK, nodestack /= <<>>,
         NEW parent \in StackNodes, NEW child \in StackNodes
  PROVE  /\ Push(parent, child) \in Seq(StackNodes)
         /\ Push(parent, child) /= <<>>
         /\ Len(Push(parent, child)) = Len(nodestack) + 1
         /\ Push(parent, child)[Len(nodestack) + 1] = child
         /\ Push(parent, child)[Len(nodestack)] = parent
         /\ \A i \in 1..(Len(nodestack) - 1) :
              Push(parent, child)[i] = nodestack[i]
  <1>1. Len(nodestack) \in Nat \ {0}
    BY TopIs
  <1> QED
    BY <1>1, ReplacedIs, AppendLast DEF Push

LEMMA SingleIs ==
  ASSUME NEW node \in StackNodes
  PROVE  /\ <<node>> \in Seq(StackNodes) /\ Len(<<node>>) = 1
         /\ <<node>>[1] = node /\ <<node>> /= <<>>
  OBVIOUS

LEMMA NewIncumbentIs ==
  ASSUME TypeOK, NEW c \in Cells, NewIncumbent(c)
  PROVE  /\ upper_bound' \in Value /\ upper_bound' = Cost[c]
         /\ upper_bound' < upper_bound
         /\ domain' \in SUBSET Cells /\ BoundedQueue \subseteq Nodes
         /\ nodequeue = {} => BoundedQueue = {}
  <1>1. Cost[c] \in Value /\ upper_bound' = Cost[c] /\ Cost[c] < upper_bound
    BY BoundsAssumption DEF NewIncumbent, Improves
  <1>2. domain' \in SUBSET Cells
    BY <1>1 DEF NewIncumbent, TypeOK, Propagations
  <1>3. BoundedQueue \subseteq Nodes
    BY BoundingIs DEF BoundedQueue, TypeOK
  <1>4. nodequeue = {} => BoundedQueue = {}
    BY DEF BoundedQueue, PerformBounding, Active
  <1> QED
    BY <1>1, <1>2, <1>3, <1>4

LEMMA AddIncumbentIs ==
  ASSUME TypeOK, NEW c \in Cells, AddIncumbent(c)
  PROVE  /\ upper_bound' \in Value /\ upper_bound' = Cost[c]
         /\ upper_bound' < upper_bound
         /\ domain' \in SUBSET Cells /\ nodequeue' \subseteq Nodes
         /\ nodequeue = {} => nodequeue' = {}
  BY NewIncumbentIs DEF AddIncumbent

LEMMA ContinueIs ==
  ASSUME TypeOK, pc \in Evaluations,
         NEW result \in {"suboptimal", "pruned", "open"}, Continue(result)
  PROVE  /\ pc' \in {"store", "dive", "leaf", "heuristics", "branch",
                     "pruned", "separate"}
         /\ pc' \in {"pruned", "separate"} <=> pc = "installed"
         /\ pc' \in {"heuristics", "branch", "separate"} => result = "open"
         /\ result = "open" => pc' /= "pruned"
         /\ limited' \in BOOLEAN /\ (limited => limited')
  <1> USE DEF TypeOK, Evaluations, Continue, CheckLimits
  <1>1. CASE pc = "plunge"
    BY <1>1
  <1>2. CASE pc = "dive"
    <2>1. PICK reached \in BOOLEAN :
            /\ CheckLimits(reached)
            /\ pc' = [suboptimal |-> "store", pruned |-> "leaf",
                      open |-> IF reached THEN "leaf" ELSE "branch"][result]
      BY <1>2
    <2>2. limited' \in BOOLEAN /\ (limited => limited')
      BY <2>1
    <2>3. CASE result = "open"
      BY <1>2, <2>1, <2>2, <2>3
    <2>4. CASE result /= "open"
      BY <1>2, <2>1, <2>2, <2>4
    <2> QED
      BY <2>3, <2>4
  <1>3. CASE pc = "branched"
    BY <1>3
  <1>4. CASE pc = "installed"
    BY <1>4
  <1> QED
    BY <1>1, <1>2, <1>3, <1>4

LEMMA EvaluateIs ==
  ASSUME TInv, Evaluate
  PROVE  /\ nodestack /= <<>> /\ top.open = 2 /\ pc \in Evaluations
         /\ pc = "installed" => Len(nodestack) = 1
         /\ UNCHANGED <<lower_bound, limit_reached, numRestarts, running,
                        answered>>
  BY DEF TInv, Shape, Evaluate, Evaluations, Plunging, Single, calls

(* The places after an evaluation fit the stack that it leaves.              *)
LEMMA EvaluatedFits ==
  ASSUME TInv, Evaluate,
         NEW result \in {"suboptimal", "pruned", "open"}, Continue(result),
         nodestack' \in Seq(StackNodes), nodestack' /= <<>>,
         Len(nodestack') = Len(nodestack),
         result = "open" => nodestack'[Len(nodestack)].open = 2,
         (result = "pruned" \/ (pc = "installed" /\ result /= "open")) =>
           nodestack'[Len(nodestack)].open = 0,
         upper_bound' \in Value, domain' \in SUBSET Cells,
         nodequeue' \subseteq Nodes
  PROVE  TInv'
  <1>1. /\ pc' \in {"store", "dive", "leaf", "heuristics", "branch",
                    "pruned", "separate"}
        /\ pc' \in {"pruned", "separate"} <=> pc = "installed"
        /\ pc' \in {"heuristics", "branch", "separate"} => result = "open"
        /\ result = "open" => pc' /= "pruned"
        /\ limited' \in BOOLEAN
    BY EvaluateIs, ContinueIs DEF TInv
  <1>2. TypeOK'
    BY <1>1, EvaluateIs DEF TInv, TypeOK, PC, RootPlaces, Evaluations
  <1>3. Shape'
    BY <1>1, EvaluateIs
    DEF TInv, Shape, top, RootPlaces, Between, Plunging, Single, Opened
  <1> QED
    BY <1>2, <1>3 DEF TInv

LEMMA OpenIs ==
  ASSUME NEW region \in SUBSET Cells, NEW lb \in Value, NEW other \in Value
  PROVE  [region |-> region, lb |-> lb, open |-> 1, other |-> other] \in StackNodes
  BY DEF StackNodes

LEMMA OtherIs ==
  ASSUME TypeOK, nodestack /= <<>>
  PROVE  OtherLb \in Value /\ top.lb <= OtherLb /\ top.other <= OtherLb
  BY TopIs, ValueIsNat DEF OtherLb, Higher

LEMMA InstallIs ==
  ASSUME TypeOK, NEW n \in nodequeue, NEW next, Install(n, next)
  PROVE  /\ nodequeue' \subseteq Nodes /\ pc' = next
         /\ nodestack' \in Seq(StackNodes) /\ Len(nodestack') = 1
         /\ nodestack' /= <<>> /\ nodestack'[1].open = 2
  <1>1. Node(n.region \cap domain, n.lb) \in StackNodes
          /\ Node(n.region \cap domain, n.lb).open = 2
    BY NodeIs DEF TypeOK, Nodes
  <1> QED
    BY <1>1, SingleIs DEF Install, TypeOK

LEMMA PrunedIs ==
  ASSUME TypeOK, PruneInfeasibleNodes
  PROVE  domain' \in SUBSET Cells /\ nodequeue' \subseteq Nodes
  BY DEF PruneInfeasibleNodes, Meeting, TypeOK

LEMMA UpdatedIs ==
  ASSUME TypeOK, nodequeue' \subseteq Nodes, UpdateLowerBound
  PROVE  lower_bound' \in Value
  BY LowerBoundsAre, LeastIs DEF UpdateLowerBound, TypeOK

(* The same for the places between which the search branches and backtracks. *)
LEMMA StackFits ==
  ASSUME TInv, pc \notin RootPlaces,
         pc' \in {"branched", "dive", "leaf", "backtrack", "store"},
         nodestack' \in Seq(StackNodes), nodestack' /= <<>> \/ pc' = "store",
         pc' = "branched" => nodestack'[Len(nodestack')].open = 2,
         upper_bound' \in Value, domain' \in SUBSET Cells,
         nodequeue' \subseteq Nodes,
         UNCHANGED <<lower_bound, limits, numRestarts, calls>>
  PROVE  TInv'
  <1>1. TypeOK'
    BY DEF TInv, TypeOK, PC, Evaluations, limits, calls
  <1>2. Shape'
    BY DEF TInv, Shape, top, RootPlaces, Between, Plunging, Single, Opened, calls
  <1> QED
    BY <1>1, <1>2 DEF TInv

LEMMA StaysOpenTypes ==
  ASSUME TInv, StaysOpen
  PROVE  TInv'
  <1>1. Evaluate /\ nodestack /= <<>> /\ top.open = 2 /\ TypeOK
    BY EvaluateIs DEF StaysOpen, TInv
  <1>2. /\ upper_bound' \in Value /\ domain' \in SUBSET Cells
        /\ nodequeue' \subseteq Nodes
    <2>1. CASE NoIncumbent
      BY <2>1, <1>1 DEF NoIncumbent, TypeOK
    <2>2. CASE \E c \in Cells : AddIncumbent(c)
      BY <1>1, <2>2, AddIncumbentIs
    <2>3. top.region \in SUBSET Cells
      BY <1>1, TopIs
    <2> QED
      BY <2>1, <2>2, <2>3 DEF StaysOpen
  <1>3. PICK region \in Propagations(top.region, upper_bound') \ {{}},
             lb \in Raised(top.lb, top.region, upper_bound') :
          /\ nodestack' = Replaced(Node(region, lb))
          /\ IF lb > OptimalityLimit(upper_bound')
             THEN pc /= "installed" /\ Continue("suboptimal")
             ELSE Continue("open")
    BY DEF StaysOpen
  <1>4. top.region \in SUBSET Cells /\ top.lb \in Value
    BY <1>1, TopIs
  <1>5. region \in SUBSET Cells
    BY <1>2, <1>4, PropagationsAre
  <1>6. lb \in Value
    BY <1>2, <1>4, RaisedIs
  <1>7. Node(region, lb) \in StackNodes /\ Node(region, lb).open = 2
    BY <1>5, <1>6, NodeIs
  <1>8. /\ nodestack' \in Seq(StackNodes) /\ nodestack' /= <<>>
        /\ Len(nodestack') = Len(nodestack)
        /\ nodestack'[Len(nodestack)].open = 2
    BY <1>1, <1>3, <1>7, ReplacedIs
  <1>9. PICK result \in {"suboptimal", "open"} :
          Continue(result) /\ (pc = "installed" => result = "open")
    BY <1>3
  <1> QED
    BY <1>1, <1>2, <1>8, <1>9, EvaluatedFits

LEMMA BranchingIs ==
  ASSUME TInv, Branching
  PROVE  /\ pc = "branch" /\ pc \notin RootPlaces /\ TypeOK
         /\ nodestack /= <<>> /\ top.open = 2
         /\ top.region \in SUBSET Cells /\ top.lb \in Value
         /\ UNCHANGED <<lower_bound, limits, numRestarts, calls>>
  <1>1. pc = "branch" /\ TypeOK /\ nodestack /= <<>> /\ top.open = 2
    BY DEF TInv, Shape, Branching, Plunging, Opened
  <1> QED
    BY <1>1, TopIs DEF Branching, RootPlaces

LEMMA StrongBranchTypes ==
  ASSUME TInv, StrongBranch
  PROVE  TInv'
  <1>1. Branching /\ pc' = "branched" /\ NoIncumbent
    BY DEF StrongBranch
  <1>2. PICK part \in Parts :
          LET rest == Node(top.region \ part, top.lb) IN
          \/ nodestack' = Push([top EXCEPT !.open = 0], rest)
          \/ \E bound \in Bounds :
               nodestack' = Push([region |-> part, lb |-> top.lb, open |-> 1,
                                  other |-> bound], rest)
    BY DEF StrongBranch
  <1> DEFINE rest == Node(top.region \ part, top.lb)
  <1>3. part \in SUBSET Cells /\ rest \in StackNodes /\ rest.open = 2
    BY <1>1, BranchingIs, NodeIs DEF Parts
  <1> HIDE DEF rest
  <1>4. PICK parent \in StackNodes : nodestack' = Push(parent, rest)
    <2>1. CASE nodestack' = Push([top EXCEPT !.open = 0], rest)
      BY <1>1, <2>1, BranchingIs, ClosedIs
    <2>2. CASE \E bound \in Bounds :
                 nodestack' = Push([region |-> part, lb |-> top.lb, open |-> 1,
                                    other |-> bound], rest)
      <3>1. PICK bound \in Bounds :
              nodestack' = Push([region |-> part, lb |-> top.lb, open |-> 1,
                                 other |-> bound], rest)
        BY <2>2
      <3>2. bound \in Value
        BY BoundsAssumption
      <3> QED
        BY <1>1, <1>3, <3>1, <3>2, BranchingIs, OpenIs
    <2> QED
      BY <1>2, <2>1, <2>2 DEF rest
  <1>5. /\ nodestack' \in Seq(StackNodes) /\ nodestack' /= <<>>
        /\ Len(nodestack') = Len(nodestack) + 1
        /\ nodestack'[Len(nodestack) + 1] = rest
    BY <1>1, <1>3, <1>4, BranchingIs, PushIs
  <1>6. nodestack'[Len(nodestack')].open = 2
    BY <1>3, <1>5
  <1> QED
    BY <1>1, <1>5, <1>6, BranchingIs, StackFits DEF NoIncumbent, TypeOK

LEMMA BranchTypes ==
  ASSUME TInv, Branch
  PROVE  TInv'
  <1>1. Branching /\ pc' = "dive" /\ NoIncumbent
    BY DEF Branch
  <1>0. PICK part \in Parts :
          \E lb \in Raised(top.lb, part, upper_bound),
             other \in Raised(top.lb, top.region \ part, upper_bound) :
            nodestack' = Push([region |-> top.region \ part, lb |-> top.lb,
                               open |-> 1, other |-> other],
                              Node(part, lb))
    BY DEF Branch
  <1>2. PICK lb \in Raised(top.lb, part, upper_bound),
             other \in Raised(top.lb, top.region \ part, upper_bound) :
          nodestack' = Push([region |-> top.region \ part, lb |-> top.lb,
                             open |-> 1, other |-> other],
                            Node(part, lb))
    BY <1>0
  <1>3. /\ part \in SUBSET Cells /\ top.region \ part \in SUBSET Cells
        /\ top.lb \in Value /\ upper_bound \in Value
    BY <1>1, BranchingIs DEF Parts, TypeOK
  <1>4. lb \in Value /\ other \in Value
    BY <1>3, RaisedIs
  <1>5. Node(part, lb) \in StackNodes
          /\ [region |-> top.region \ part, lb |-> top.lb, open |-> 1,
              other |-> other] \in StackNodes
    BY <1>3, <1>4, NodeIs, OpenIs
  <1>6. nodestack' \in Seq(StackNodes) /\ nodestack' /= <<>>
    BY <1>1, <1>2, <1>5, BranchingIs, PushIs
  <1> QED
    BY <1>1, <1>6, BranchingIs, StackFits DEF NoIncumbent, TypeOK

LEMMA BacktrackingIs ==
  ASSUME TInv, Backtracking
  PROVE  /\ pc \in {"backtrack", "store"} /\ pc \notin RootPlaces /\ TypeOK
         /\ nodestack /= <<>> /\ upper_bound \in Value
         /\ top.region \in SUBSET Cells /\ top.lb \in Value
         /\ OtherLb \in Value
         /\ UNCHANGED <<domain, bounds, limits, numRestarts, calls>>
  <1>1. pc \in {"backtrack", "store"} /\ TypeOK /\ nodestack /= <<>>
    BY DEF TInv, Backtracking
  <1> QED
    BY <1>1, TopIs, OtherIs DEF Backtracking, RootPlaces, TypeOK

LEMMA AncestorIs ==
  ASSUME NEW parent \in StackNodes, NEW region \in SUBSET Cells
  PROVE  LET node == [parent EXCEPT !.region = region,
                                    !.open = IF region = {} THEN 0 ELSE @] IN
         /\ node \in StackNodes /\ node.region = region
         /\ node.lb = parent.lb /\ node.other = parent.other
         /\ node.open = IF region = {} THEN 0 ELSE parent.open
  <1> DEFINE open == IF region = {} THEN 0 ELSE parent.open
             node == [parent EXCEPT !.region = region, !.open = open]
  <1>1. open \in 0..2
    BY DEF StackNodes
  <1> HIDE DEF open
  <1>2. /\ node \in StackNodes /\ node.region = region
        /\ node.lb = parent.lb /\ node.other = parent.other
        /\ node.open = open
    BY <1>1 DEF StackNodes
  <1> QED
    BY <1>2 DEF open

LEMMA BacktrackTypes ==
  ASSUME TInv, Backtrack
  PROVE  TInv'
  <1>1. Backtracking /\ pc' = IF nodestack' = <<>> THEN "store" ELSE pc
    BY DEF Backtrack
  <1>2. nodestack' \in Seq(StackNodes)
    <2>1. CASE Len(Popped) = 0
      BY <1>1, <2>1 DEF Backtrack
    <2>2. CASE Len(Popped) /= 0
      <3> DEFINE parent == Popped[Len(Popped)]
      <3>1. Popped \in Seq(StackNodes) /\ Popped /= <<>> /\ parent \in StackNodes
        BY <1>1, <2>2, BacktrackingIs, PoppedIs, NotEmpty
      <3>2. parent.region \in SUBSET Cells
        BY <3>1 DEF StackNodes
      <3> DEFINE node(region) == [parent EXCEPT !.region = region,
                                    !.open = IF region = {} THEN 0 ELSE @]
      <3>3. PICK region \in Propagations(parent.region, upper_bound) :
              nodestack' = [Popped EXCEPT ![Len(Popped)] = node(region)]
        BY <2>2 DEF Backtrack
      <3>4. region \in SUBSET Cells
        BY <1>1, <3>2, BacktrackingIs, PropagationsAre
      <3>5. node(region) \in StackNodes
        BY <3>1, <3>4, AncestorIs
      <3> HIDE DEF node
      <3> QED
        BY <3>1, <3>3, <3>5, ReplaceLast
    <2> QED
      BY <2>1, <2>2
  <1> QED
    BY <1>1, <1>2, BacktrackingIs, StackFits DEF Backtrack, bounds, TypeOK

LEMMA QueueChildTypes ==
  ASSUME TInv, QueueChild
  PROVE  TInv'
  <1>1. Backtracking /\ nodestack' = Cutoff /\ UNCHANGED pc
    BY DEF QueueChild
  <1>2. PICK region \in Propagations(top.region, upper_bound) \ {{}},
             lb \in Raised(OtherLb, top.region, upper_bound) :
          nodequeue' = Emplace(nodequeue, region, lb, upper_bound)
    BY DEF QueueChild
  <1>3. region \in SUBSET Cells /\ lb \in Value
    <2>1. /\ top.region \in SUBSET Cells /\ OtherLb \in Value
          /\ upper_bound \in Value
      BY <1>1, BacktrackingIs
    <2>2. region \in SUBSET Cells
      BY <2>1, PropagationsAre
    <2>3. lb \in Value
      BY <2>1, RaisedIs
    <2> QED
      BY <2>2, <2>3
  <1>4. nodequeue' \subseteq Nodes
    BY <1>1, <1>2, <1>3, BacktrackingIs, EmplaceIs DEF TypeOK
  <1> QED
    BY <1>1, <1>4, BacktrackingIs, CutoffIs, StackFits DEF bounds, TypeOK

LEMMA PushChildTypes ==
  ASSUME TInv, PushChild
  PROVE  TInv'
  <1>1. /\ Backtracking /\ pc' = IF pc = "store" THEN "store" ELSE "dive"
        /\ UNCHANGED nodequeue
    BY DEF PushChild
  <1>2. PICK region \in Propagations(top.region, upper_bound) \ {{}},
             lb \in IF pc = "store" THEN {OtherLb}
                    ELSE Raised(OtherLb, top.region, upper_bound) :
          nodestack' = Push([top EXCEPT !.open = 0], Node(region, lb))
    BY DEF PushChild
  <1>3. region \in SUBSET Cells
    BY <1>1, BacktrackingIs, PropagationsAre
  <1>4. lb \in Value
    BY <1>1, <1>2, BacktrackingIs, RaisedIs
  <1>5. Node(region, lb) \in StackNodes /\ [top EXCEPT !.open = 0] \in StackNodes
    BY <1>1, <1>3, <1>4, BacktrackingIs, NodeIs, ClosedIs
  <1>6. nodestack' \in Seq(StackNodes) /\ nodestack' /= <<>>
    BY <1>1, <1>2, <1>5, BacktrackingIs, PushIs
  <1> QED
    BY <1>1, <1>6, BacktrackingIs, StackFits DEF bounds, TypeOK

LEMMA StoreTypes ==
  ASSUME TInv, Store
  PROVE  TInv'
  <1>1. /\ pc = "store" /\ pc' = "store" /\ nodestack /= <<>>
        /\ nodestack' = Cutoff /\ TypeOK
        /\ UNCHANGED <<domain, upper_bound, lower_bound, limits, numRestarts, calls>>
    BY DEF Store, TInv, bounds
  <1>2. nodequeue' \subseteq Nodes
    <2>1. CASE UNCHANGED nodequeue
      BY <1>1, <2>1 DEF TypeOK
    <2>2. CASE \E region \in Propagations(top.region, upper_bound) \ {{}},
                  lb \in Raised(top.lb, top.region, upper_bound) :
                 nodequeue' = Emplace(nodequeue, region, lb, upper_bound)
      <3>1. PICK region \in Propagations(top.region, upper_bound) \ {{}},
                 lb \in Raised(top.lb, top.region, upper_bound) :
              nodequeue' = Emplace(nodequeue, region, lb, upper_bound)
        BY <2>2
      <3>2. /\ top.region \in SUBSET Cells /\ top.lb \in Value
            /\ upper_bound \in Value
        BY <1>1, TopIs DEF TypeOK
      <3>3. region \in SUBSET Cells
        BY <3>2, PropagationsAre
      <3>4. lb \in Value
        BY <3>2, RaisedIs
      <3> QED
        BY <1>1, <3>1, <3>3, <3>4, EmplaceIs DEF TypeOK
    <2> QED
      BY <2>1, <2>2 DEF Store
  <1> QED
    BY <1>1, <1>2, CutoffIs, StackFits DEF TypeOK, RootPlaces

LEMMA RestartTypes ==
  ASSUME TInv, Restart
  PROVE  TInv'
  <1>1. /\ pc = "stored" /\ numRestarts' \in 0..MaxRestarts
        /\ pc' \in {"setup", "done"} /\ nodequeue' = {}
        /\ UNCHANGED <<nodestack, limited, limit_reached, running, answered>>
    BY LimitsAssumption DEF Restart, limits, calls, TInv, TypeOK
  <1>2. PICK d \in SUBSET domain :
          \/ /\ domain' \in Propagations(d, upper_bound)
             /\ lower_bound' \in
                  LeastOf({upper_bound} \cup LowerBounds(Meeting(nodequeue, d)))
             /\ UNCHANGED upper_bound
          \/ domain' = d /\ lower_bound' = upper_bound /\ UNCHANGED upper_bound
          \/ \E c \in d : domain' = d /\ upper_bound' = Cost[c]
                         /\ lower_bound' = Cost[c]
    BY DEF Restart
  <1>3. /\ LowerBounds(Meeting(nodequeue, d)) \subseteq Value
        /\ d \in SUBSET Cells /\ upper_bound \in Value
    BY LowerBoundsAre DEF Meeting, TInv, TypeOK
  <1>4. /\ domain' \in SUBSET Cells /\ lower_bound' \in Value
        /\ upper_bound' \in Value
    <2>1. CASE /\ domain' \in Propagations(d, upper_bound)
               /\ lower_bound' \in
                    LeastOf({upper_bound} \cup LowerBounds(Meeting(nodequeue, d)))
               /\ UNCHANGED upper_bound
      <3>1. {upper_bound} \cup LowerBounds(Meeting(nodequeue, d)) \in SUBSET Value
        BY <1>3
      <3> QED
        BY <1>3, <2>1, <3>1, PropagationsAre, LeastIs
    <2>2. CASE domain' = d /\ lower_bound' = upper_bound /\ UNCHANGED upper_bound
      BY <1>3, <2>2
    <2>3. CASE \E c \in d : domain' = d /\ upper_bound' = Cost[c]
                           /\ lower_bound' = Cost[c]
      BY <1>3, <2>3, BoundsAssumption
    <2> QED
      BY <1>2, <2>1, <2>2, <2>3
  <1>5. TypeOK'
    BY <1>1, <1>4 DEF TInv, TypeOK, PC, RootPlaces
  <1>6. Shape'
    BY <1>1 DEF TInv, Shape, top, RootPlaces, Between, Plunging, Single, Opened
  <1> QED
    BY <1>5, <1>6 DEF TInv

LEMMA TypeStep ==
  ASSUME TInv, [Next]_vars
  PROVE  TInv'
  <1> USE TInv, LimitsAssumption
          DEF TInv, TypeOK, Shape, top, PC, RootPlaces, Evaluations, Between,
              Plunging, Single, Opened
  <1>1. CASE Heuristic
    <2>1. PICK c \in Cells : AddIncumbent(c)
      BY <1>1 DEF Heuristic
    <2> QED
      BY <1>1, <2>1, AddIncumbentIs DEF Heuristic, limits, calls
  <1>2. CASE Harvest
    <2>1. /\ upper_bound' \in Value /\ domain' \in SUBSET Cells
          /\ nodequeue' \subseteq Nodes /\ (nodequeue = {} => nodequeue' = {})
      <3>1. CASE NoIncumbent
        BY <3>1 DEF NoIncumbent
      <3>2. CASE \E c \in Cells : AddIncumbent(c)
        BY <3>2, AddIncumbentIs
      <3> QED
        BY <1>2, <3>1, <3>2 DEF Harvest, MayAddIncumbent
    <2> QED
      BY <1>2, <2>1 DEF Harvest, limits
  <1>3. CASE LeaveHeuristics
    <2>1. /\ answered = 0 /\ answered' = 0
          /\ running' = running \/ (running < MaxCalls /\ running' = running + 1)
      <3>1. CASE running < MaxCalls
        BY <1>3, <3>1 DEF LeaveHeuristics
      <3>2. CASE ~(running < MaxCalls)
        BY <1>3, <3>2 DEF LeaveHeuristics
      <3> QED
        BY <3>1, <3>2
    <2>2. running' \in 0..MaxCalls /\ running' + answered' <= MaxCalls
      BY <2>1
    <2> QED
      BY <1>3, <2>2 DEF LeaveHeuristics, bounds, limits
  <1>4. CASE Interrupt
    BY <1>4 DEF Interrupt, FinishSearch, bounds, calls
  <1>5. CASE RootLp
    <2>1. domain' \in SUBSET Cells /\ lower_bound' \in Value
      BY <1>5, PropagationsAre, RaisedIs DEF RootLp
    <2> QED
      BY <1>5, <2>1 DEF RootLp, limits, calls
  <1>6. CASE RootInfeasible
    BY <1>6 DEF RootInfeasible, FinishSearch, limits, calls
  <1>7. CASE RootIntegral
    <2>1. PICK c \in Cells : AddIncumbent(c) /\ lower_bound' = Cost[c]
      BY <1>7 DEF RootIntegral
    <2> QED
      BY <1>7, <2>1, AddIncumbentIs DEF RootIntegral, FinishSearch, limits, calls
  <1>8. CASE RootCutoff
    BY <1>8 DEF RootCutoff, FinishSearch, bounds, limits, calls
  <1>9. CASE RootQueue
    BY <1>9, EmplaceIs DEF RootQueue, bounds, limits, calls
  <1>10. CASE StartSearch
    <2>1. pc = "search" /\ limited' \in BOOLEAN
            /\ UNCHANGED <<domain, upper_bound, limit_reached, numRestarts,
                           running, answered>>
      BY <1>10 DEF StartSearch, CheckLimits, calls
    <2>2. CASE pc' = "done" /\ UNCHANGED <<nodestack, nodequeue, lower_bound>>
      BY <2>1, <2>2
    <2>3. CASE /\ lower_bound' \in LeastOf(LowerBounds(nodequeue))
               /\ \E n \in nodequeue : Install(n, "plunge")
      <3>1. lower_bound' \in Value
        BY <2>3, LowerBoundsAre, LeastIs
      <3> QED
        BY <2>1, <2>3, <3>1, InstallIs
    <2> QED
      BY <1>10, <2>2, <2>3 DEF StartSearch, Active
  <1>11. CASE SkipHeuristics
    BY <1>11 DEF SkipHeuristics, bounds, limits, calls
  <1>12. CASE DiveEnds
    BY <1>12 DEF DiveEnds, bounds, limits, calls
  <1>13. CASE Suboptimal
    <2>1. /\ Evaluate /\ Continue("suboptimal") /\ nodestack /= <<>>
          /\ UNCHANGED <<upper_bound, domain>>
      BY <1>13, EvaluateIs DEF Suboptimal
    <2>2. CASE pc = "installed"
      <3>1. nodestack' = Cutoff
        BY <1>13, <2>2 DEF Suboptimal
      <3>2. nodequeue' \subseteq Nodes
        BY <1>13, <2>1, <2>2, TopIs, RaisedIs, EmplaceIs DEF Suboptimal
      <3> QED
        BY <2>1, <2>2, <3>1, <3>2, CutoffIs, EvaluatedFits
    <2>3. CASE pc /= "installed"
      <3>1. UNCHANGED <<nodestack, nodequeue>>
        BY <1>13, <2>3 DEF Suboptimal
      <3> QED
        BY <2>1, <2>3, <3>1, EvaluatedFits
    <2> QED
      BY <2>2, <2>3
  <1>14. CASE Infeasible
    <2>1. /\ Evaluate /\ Continue("pruned") /\ nodestack /= <<>>
          /\ UNCHANGED <<upper_bound, domain, nodequeue>> /\ nodestack' = Cutoff
      BY <1>14, EvaluateIs DEF Infeasible, NoIncumbent
    <2> QED
      BY <2>1, CutoffIs, EvaluatedFits
  <1>15. CASE Integral
    <2>1. /\ Evaluate /\ Continue("pruned") /\ nodestack /= <<>>
          /\ nodestack' = Cutoff
      BY <1>15, EvaluateIs DEF Integral
    <2>2. PICK c \in Cells : AddIncumbent(c)
      BY <1>15, <2>1, TopIs DEF Integral
    <2> QED
      BY <2>1, <2>2, CutoffIs, AddIncumbentIs, EvaluatedFits
  <1>16. CASE StaysOpen
    BY <1>16, StaysOpenTypes
  <1>17. CASE BecomesSuboptimal
    <2>1. /\ Evaluate /\ Continue("suboptimal") /\ nodestack /= <<>>
          /\ nodestack' = Cutoff
      BY <1>17, EvaluateIs DEF BecomesSuboptimal
    <2>2. PICK queue \in SUBSET Nodes :
            /\ upper_bound' \in Value /\ domain' \in SUBSET Cells
            /\ RequeueTop(queue)
      <3>1. CASE UNCHANGED <<upper_bound, domain>> /\ RequeueTop(nodequeue)
        BY <3>1 DEF TInv, TypeOK
      <3>2. CASE (\E c \in top.region : NewIncumbent(c)) /\ RequeueTop(BoundedQueue)
        BY <2>1, <3>2, TopIs, NewIncumbentIs
      <3> QED
        BY <1>17, <3>1, <3>2 DEF BecomesSuboptimal
    <2>3. nodequeue' \subseteq Nodes
      BY <2>1, <2>2, TopIs, RaisedIs, EmplaceIs DEF RequeueTop
    <2> QED
      BY <2>1, <2>2, <2>3, CutoffIs, EvaluatedFits
  <1>18. CASE StrongBranchSolution
    <2>1. PICK c \in Cells : AddIncumbent(c)
      BY <1>18, TopIs DEF StrongBranchSolution, Branching
    <2> QED
      BY <1>18, <2>1, AddIncumbentIs
      DEF StrongBranchSolution, Branching, limits, calls
  <1>19. CASE StrongBranch
    BY <1>19, StrongBranchTypes
  <1>20. CASE BranchTightens
    <2>1. /\ pc = "branch" /\ pc' = "branched" /\ nodestack /= <<>>
          /\ UNCHANGED <<upper_bound, domain, nodequeue, lower_bound, limited,
                         limit_reached, numRestarts, running, answered>>
      BY <1>20 DEF BranchTightens, Branching, NoIncumbent, limits, calls
    <2>2. PICK region \in SUBSET Cells : nodestack' = Replaced(Node(region, top.lb))
      BY <1>20, <2>1, TopIs, PropagationsAre DEF BranchTightens
    <2>3. Node(region, top.lb) \in StackNodes /\ Node(region, top.lb).open = 2
      BY <2>1, TopIs, NodeIs
    <2> QED
      BY <2>1, <2>2, <2>3, ReplacedIs
  <1>21. CASE Branch
    BY <1>21, BranchTypes
  <1>22. CASE BranchFixed
    <2>1. /\ pc = "branch" /\ pc' = "leaf" /\ nodestack /= <<>>
          /\ nodestack' = Cutoff
          /\ UNCHANGED <<lower_bound, limited, limit_reached, numRestarts,
                         running, answered>>
      BY <1>22 DEF BranchFixed, Branching, limits, calls
    <2>2. /\ upper_bound' \in Value /\ domain' \in SUBSET Cells
          /\ nodequeue' \subseteq Nodes
      <3>1. CASE NoIncumbent
        BY <3>1 DEF NoIncumbent
      <3>2. CASE \E c \in Cells : AddIncumbent(c)
        BY <3>2, AddIncumbentIs
      <3> QED
        BY <1>22, <2>1, <3>1, <3>2, TopIs DEF BranchFixed, MayAddIncumbent
    <2> QED
      BY <2>1, <2>2, CutoffIs
  <1>23. CASE Leaf
    BY <1>23 DEF Leaf, CheckLimits, bounds, calls
  <1>24. CASE Backtrack
    BY <1>24, BacktrackTypes
  <1>25. CASE PruneChild
    <2>1. /\ pc \in {"backtrack", "store"} /\ nodestack /= <<>>
          /\ nodestack' = Cutoff
          /\ UNCHANGED <<pc, upper_bound, domain, nodequeue, lower_bound,
                         limited, limit_reached, numRestarts, running, answered>>
      BY <1>25 DEF PruneChild, Backtracking, bounds, limits, calls
    <2> QED
      BY <2>1, CutoffIs
  <1>26. CASE QueueChild
    BY <1>26, QueueChildTypes
  <1>27. CASE PushChild
    BY <1>27, PushChildTypes
  <1>28. CASE Store
    BY <1>28, StoreTypes
  <1>29. CASE EndStore
    <2>1. lower_bound' \in Value
      BY <1>29, LowerBoundsAre, LeastIs DEF EndStore
    <2> QED
      BY <1>29, <2>1 DEF EndStore, limits, calls
  <1>30. CASE NextNode
    <2>1. /\ domain' \in SUBSET Cells /\ nodequeue' \subseteq Nodes
          /\ lower_bound' \in Value
      BY <1>30, PrunedIs, UpdatedIs DEF NextNode
    <2> QED
      BY <1>30, <2>1 DEF NextNode, limits, calls
  <1>31. CASE Restart
    BY <1>31, RestartTypes
  <1>32. CASE InstallNode
    <2>1. /\ pc = "install"
          /\ UNCHANGED <<domain, upper_bound, lower_bound, limited,
                         limit_reached, numRestarts, running, answered>>
      BY <1>32 DEF InstallNode, bounds, limits, calls
    <2>2. CASE pc' = "done" /\ UNCHANGED <<nodestack, nodequeue>>
      BY <2>1, <2>2
    <2>3. CASE \E n \in nodequeue : Install(n, "installed")
      BY <2>1, <2>3, InstallIs
    <2> QED
      BY <1>32, <2>2, <2>3 DEF InstallNode, Active
  <1>33. CASE Stall
    BY <1>33 DEF Stall, FinishSearch, bounds, calls
  <1>34. CASE NodePruned
    <2>1. /\ pc = "pruned" /\ nodestack' = <<>>
          /\ PruneInfeasibleNodes
          /\ pc' \in {"done", "install"}
          /\ limited' \in BOOLEAN /\ limit_reached' \in BOOLEAN
          /\ lower_bound' \in {upper_bound, lower_bound} \/ UpdateLowerBound
          /\ UNCHANGED <<upper_bound, numRestarts, running, answered>>
      BY <1>34 DEF NodePruned, CheckLimits, limits, calls
    <2>2. domain' \in SUBSET Cells /\ nodequeue' \subseteq Nodes
      BY <2>1, PrunedIs
    <2>3. lower_bound' \in Value
      BY <2>1, <2>2, UpdatedIs
    <2> QED
      BY <2>1, <2>2, <2>3
  <1>35. CASE Separate
    <2>1. /\ pc = "separate" /\ nodestack /= <<>>
          /\ UNCHANGED <<limited, limit_reached, numRestarts, running, answered>>
      BY <1>35 DEF Separate, limits, calls
    <2>2. /\ upper_bound' \in Value /\ domain' \in SUBSET Cells
          /\ nodequeue' \subseteq Nodes
      <3>1. CASE \E c \in Cells : AddIncumbent(c)
        BY <3>1, AddIncumbentIs
      <3>2. CASE /\ domain' \in Propagations(domain, upper_bound)
                 /\ nodequeue' = IF domain' = {} THEN {} ELSE nodequeue
                 /\ UNCHANGED upper_bound
        BY <3>2, PropagationsAre
      <3> QED
        BY <1>35, <3>1, <3>2 DEF Separate
    <2>3. CASE domain' = {}
      BY <1>35, <2>1, <2>2, <2>3 DEF Separate
    <2>4. CASE domain' /= {}
      <3>1. PICK region \in SUBSET Cells : nodestack' = Replaced(Node(region, top.lb))
        BY <1>35, <2>1, <2>2, <2>4, TopIs, PropagationsAre DEF Separate
      <3>2. pc' = "plunge" /\ UNCHANGED lower_bound
        BY <1>35, <2>4 DEF Separate
      <3> QED
        BY <2>1, <2>2, <3>1, <3>2, TopIs, NodeIs, ReplacedIs
    <2> QED
      BY <2>3, <2>4
  <1>36. CASE Destroy
    BY <1>36 DEF Destroy, bounds, limits
  <1>37. CASE Answer
    BY <1>37 DEF Answer, bounds, limits
  <1>38. CASE UNCHANGED vars
    BY <1>38 DEF vars, bounds, limits, calls
  <1> QED
    BY <1>1, <1>2, <1>3, <1>4, <1>5, <1>6, <1>7, <1>8, <1>9, <1>10, <1>11, <1>12, <1>13, <1>14, <1>15, <1>16, <1>17, <1>18, <1>19, <1>20, <1>21, <1>22, <1>23, <1>24, <1>25, <1>26, <1>27, <1>28, <1>29, <1>30, <1>31, <1>32, <1>33, <1>34, <1>35, <1>36, <1>37, <1>38 DEF Next, Solve, Done

LEMMA TypeInit ==
  ASSUME Init
  PROVE  TInv
  <1>1. TypeOK
    <2>1. <<>> \in Seq(StackNodes)
      OBVIOUS
    <2>2. 0 \in 0..MaxRestarts /\ 0 \in 0..MaxCalls
      BY LimitsAssumption
    <2> QED
      BY ValueIsNat, <2>1, <2>2 DEF Init, TypeOK, PC, RootPlaces
  <1>2. Shape
    BY LimitsAssumption
    DEF Init, Shape, RootPlaces, Between, Plunging, Single, Opened
  <1> QED
    BY <1>1, <1>2 DEF TInv

(* The state variables have their types, in every instance.                  *)
THEOREM TypeCorrect == Spec => []TypeOK
  <1>1. Init => TInv
    BY TypeInit
  <1>2. TInv /\ [Next]_vars => TInv'
    BY TypeStep
  <1>3. TInv => TypeOK
    BY DEF TInv
  <1> QED
    BY <1>1, <1>2, <1>3, PTL DEF Spec
(* What the bounds and nodes of the search are true of.  An upper bound is   *)
(* the cost of a cell, so that a cell is useful exactly when it is better;   *)
(* the bounds of a node hold for its useful cells and are no lower than the  *)
(* dual bound; suboptimal nodes have no cell that beats the gap.             *)
Ends == {"done", "returned"}

Fits(node, ub, d) ==
  node.open /= 0 =>
    /\ IsBound(node.lb, node.region, ub) /\ IsBound(node.other, node.region, ub)
    /\ node.lb >= d

Queued(n, ub, d) ==
  /\ IsBound(n.lb, n.region, ub) /\ n.lb >= d
  /\ n.suboptimal => n.lb >= OptimalityLimit(ub)

Waits(c, queue) == \E n \in queue : c \in n.region
Stands(c, stack) ==
  \E i \in 1..Len(stack) : stack[i].open /= 0 /\ c \in stack[i].region

Real(ub) == ub = Infinity \/ \E c \in Cells : ub = Cost[c]
AllQueued(queue, ub, d) == \A n \in queue : Queued(n, ub, d)
AllFit(stack, ub, d) == \A i \in 1..Len(stack) : Fits(stack[i], ub, d)
Below(d) == \A c \in Cells : d <= Cost[c]

Kept ==
  pc \notin Ends =>
    \A c \in Useful(Cells, upper_bound) :
      /\ c \in domain
      /\ pc \notin RootPlaces => Waits(c, nodequeue) \/ Stands(c, nodestack)

Proved ==
  pc \in Ends /\ ~limited =>
    \A c \in Cells : Cost[c] >= OptimalityLimit(upper_bound)

IInv ==
  /\ TInv
  /\ Real(upper_bound) /\ Below(DualBound)
  /\ AllQueued(nodequeue, upper_bound, DualBound)
  /\ AllFit(nodestack, upper_bound, DualBound)
  /\ Kept /\ Proved
  /\ limit_reached => limited

-----------------------------------------------------------------------------
(* Bounds and costs.                                                         *)
LEMMA CostIs == \A c \in Cells : Cost[c] \in Value /\ Cost[c] \in Nat
  BY BoundsAssumption

LEMMA LowerIs ==
  ASSUME NEW low \in Value, NEW ub \in Value
  PROVE  /\ Lower(low, ub) \in Value /\ Lower(low, ub) <= low
         /\ Lower(low, ub) <= ub
         /\ Lower(low, ub) = low \/ Lower(low, ub) = ub
  BY ValueIsNat DEF Lower

LEMMA UsefulIsBetter ==
  ASSUME NEW ub \in Value, Real(ub), NEW c \in Cells
  PROVE  Cost[c] < UpperLimit(ub) <=> Cost[c] < ub
  <1>1. Cost[c] \in Nat /\ ub \in Nat
    BY CostIs, ValueIsNat
  <1>2. CASE ub = Infinity
    BY <1>2 DEF UpperLimit
  <1>3. CASE ub /= Infinity
    <2>1. PICK e \in Cells : ub = Cost[e]
      BY <1>3 DEF Real
    <2>2. Cost[c] < ub => Cost[c] + 1 < ub
      BY <2>1, CostsApart
    <2> QED
      BY <1>1, <1>3, <2>2 DEF UpperLimit
  <1> QED
    BY <1>2, <1>3

(* When no cell is useful, the upper bound is the optimum.                   *)
LEMMA NothingUseful ==
  ASSUME NEW ub \in Value, Real(ub), NEW low \in Value, Useful(Cells, ub) = {}
  PROVE  /\ \A c \in Cells : Cost[c] >= ub
         /\ \A c \in Cells : Cost[c] >= OptimalityLimit(ub)
         /\ Below(Lower(low, ub)) /\ Below(ub)
  <1>0. /\ ub \in Int /\ OptimalityLimit(ub) \in Int
        /\ OptimalityLimit(ub) <= ub
        /\ Lower(low, ub) \in Int /\ Lower(low, ub) <= ub
    <2>1. ub \in Nat /\ ub <= ub
      BY ValueIsNat
    <2>2. /\ OptimalityLimit(ub) <= UpperLimit(ub) /\ UpperLimit(ub) <= ub
          /\ OptimalityLimit(ub) \in Int /\ UpperLimit(ub) \in Int
      BY <2>1, LimitsFall
    <2> QED
      BY <2>1, <2>2, LowerIs
  <1>1. ASSUME NEW c \in Cells
        PROVE  /\ Cost[c] \in Nat /\ Cost[c] >= ub
               /\ Cost[c] >= OptimalityLimit(ub) /\ Cost[c] >= Lower(low, ub)
    <2>1. ~(Cost[c] < UpperLimit(ub)) /\ Cost[c] \in Nat
      BY CostIs DEF Useful
    <2>2. ~(Cost[c] < ub)
      BY <2>1, UsefulIsBetter
    <2> QED
      BY <1>0, <2>1, <2>2
  <1>2. \A c \in Cells : Cost[c] >= OptimalityLimit(ub)
    BY <1>1
  <1>3. Below(ub)
    BY <1>0, <1>1 DEF Below
  <1>4. Below(Lower(low, ub))
    BY <1>0, <1>1 DEF Below
  <1> QED
    BY <1>1, <1>2, <1>3, <1>4

LEMMA BoundOfNothing ==
  ASSUME NEW b \in Value, NEW ub \in Value, NEW region \in SUBSET Cells,
         IsBound(b, region, ub), b > UpperLimit(ub) \/ b >= UpperLimit(ub)
  PROVE  Useful(region, ub) = {}
  <1>1. UpperLimit(ub) \in Int
    BY LimitsFall, ValueIsNat
  <1> QED
    BY <1>1, CostIs, ValueIsNat DEF Useful, IsBound

LEMMA FitsLater ==
  ASSUME NEW node \in StackNodes, NEW d \in Value, NEW ub \in Value,
         NEW new \in Value, new <= ub, Fits(node, ub, d)
  PROVE  Fits(node, new, d)
  <1>1. /\ node.region \in SUBSET Cells /\ node.region \in SUBSET node.region
        /\ node.lb \in Int /\ node.other \in Int
    BY ValueIsNat DEF StackNodes
  <1>2. \A b \in Int : IsBound(b, node.region, ub) => IsBound(b, node.region, new)
    BY <1>1, UsefulShrinks
  <1> QED
    BY <1>1, <1>2 DEF Fits

LEMMA QueuedLater ==
  ASSUME NEW n \in Nodes, NEW d \in Value, NEW ub \in Value,
         NEW new \in Value, new <= ub, Queued(n, ub, d)
  PROVE  Queued(n, new, d)
  <1>1. /\ n.region \in SUBSET Cells /\ n.region \in SUBSET n.region
        /\ n.lb \in Int
    BY ValueIsNat DEF Nodes
  <1>2. \A b \in Int : IsBound(b, n.region, ub) => IsBound(b, n.region, new)
    BY <1>1, UsefulShrinks
  <1>3. /\ OptimalityLimit(new) <= OptimalityLimit(ub)
        /\ OptimalityLimit(new) \in Int /\ OptimalityLimit(ub) \in Int
    <2>1. new <= new
      BY ValueIsNat
    <2> QED
      BY <2>1, LimitsFall
  <1> QED
    BY <1>1, <1>2, <1>3 DEF Queued

LEMMA NodeFits ==
  ASSUME NEW region \in SUBSET Cells, NEW lb \in Value, NEW ub, NEW d,
         IsBound(lb, region, ub), lb >= d
  PROVE  Fits(Node(region, lb), ub, d)
  BY NodeIs DEF Fits

-----------------------------------------------------------------------------
(* The queue.                                                                *)
LEMMA EmplaceKeeps ==
  ASSUME NEW queue \in SUBSET Nodes, NEW region \in SUBSET Cells,
         NEW lb \in Value, NEW ub \in Value, NEW d \in Value,
         AllQueued(queue, ub, d), IsBound(lb, region, ub), lb >= d
  PROVE  /\ AllQueued(Emplace(queue, region, lb, ub), ub, d)
         /\ \A c \in region : Waits(c, Emplace(queue, region, lb, ub))
         /\ \A c : Waits(c, queue) => Waits(c, Emplace(queue, region, lb, ub))
  <1> DEFINE new == [region |-> region, lb |-> lb,
                     suboptimal |-> lb > OptimalityLimit(ub)]
  <1>1. Emplace(queue, region, lb, ub) = queue \cup {new}
    BY DEF Emplace
  <1>2. new.region = region /\ new.lb = lb
          /\ new.suboptimal = (lb > OptimalityLimit(ub))
    OBVIOUS
  <1> HIDE DEF new
  <1>3. OptimalityLimit(ub) \in Int
    BY LimitsFall, ValueIsNat
  <1>4. new.suboptimal => new.lb >= OptimalityLimit(ub)
    <2>1. CASE lb > OptimalityLimit(ub)
      BY <1>2, <1>3, <2>1
    <2>2. CASE ~(lb > OptimalityLimit(ub))
      BY <1>2, <2>2
    <2> QED
      BY <2>1, <2>2
  <1>5. Queued(new, ub, d)
    BY <1>2, <1>4 DEF Queued
  <1> QED
    BY <1>1, <1>2, <1>5 DEF AllQueued, Waits

(* Bounding drops no useful cell.                                            *)
LEMMA BoundingKeeps ==
  ASSUME NEW queue \in SUBSET Nodes, NEW ub \in Value, NEW d \in Value,
         AllQueued(queue, ub, d)
  PROVE  /\ AllQueued(PerformBounding(queue, ub), ub, d)
         /\ \A c \in Useful(Cells, ub) :
              Waits(c, queue) => Waits(c, PerformBounding(queue, ub))
  <1>1. CASE Active(queue) = {}
    BY <1>1 DEF PerformBounding
  <1>2. CASE Active(queue) /= {}
    <2> DEFINE Marked(n) == [n EXCEPT !.suboptimal =
                               n.suboptimal \/ n.lb >= OptimalityLimit(ub)]
    <2>1. PerformBounding(queue, ub) =
            {Marked(n) : n \in {n \in queue : n.lb < UpperLimit(ub)}}
      BY <1>2 DEF PerformBounding
    <2>2. \A n \in queue :
            /\ Marked(n).region = n.region /\ Marked(n).lb = n.lb
            /\ Marked(n).suboptimal = (n.suboptimal \/ n.lb >= OptimalityLimit(ub))
      BY DEF Nodes
    <2> HIDE DEF Marked
    <2>3. \A n \in queue : Queued(Marked(n), ub, d)
      BY <2>2 DEF Queued, AllQueued
    <2>4. ASSUME NEW c \in Useful(Cells, ub), NEW n \in queue, c \in n.region
          PROVE  n.lb < UpperLimit(ub)
      <3>1. c \in Useful(n.region, ub) /\ n.lb \in Value /\ c \in Cells
        BY <2>4 DEF Useful, Nodes
      <3>2. n.lb <= Cost[c] /\ Cost[c] < UpperLimit(ub)
        BY <3>1 DEF AllQueued, Queued, IsBound, Useful
      <3>3. UpperLimit(ub) \in Int
        BY LimitsFall, ValueIsNat
      <3> QED
        BY <3>1, <3>2, <3>3, CostIs, ValueIsNat
    <2>5. ASSUME NEW c \in Useful(Cells, ub), Waits(c, queue)
          PROVE  Waits(c, PerformBounding(queue, ub))
      BY <2>1, <2>2, <2>4, <2>5 DEF Waits
    <2> QED
      BY <2>1, <2>3, <2>5 DEF AllQueued
  <1> QED
    BY <1>1, <1>2

-----------------------------------------------------------------------------
(* The stack.                                                                *)
Standing(c, node) == node.open /= 0 /\ c \in node.region
Under(c, s) == \E i \in 1..(Len(s) - 1) : Standing(c, s[i])

LEMMA StackIs ==
  ASSUME NEW s \in Seq(StackNodes), s /= <<>>
  PROVE  /\ \A c : Stands(c, s) <=> Under(c, s) \/ Standing(c, s[Len(s)])
         /\ \A ub, d : AllFit(s, ub, d) <=>
                         /\ \A i \in 1..(Len(s) - 1) : Fits(s[i], ub, d)
                         /\ Fits(s[Len(s)], ub, d)
  <1>1. Len(s) \in Nat \ {0}
    BY NotEmpty
  <1>2. 1..Len(s) = (1..(Len(s) - 1)) \cup {Len(s)}
    BY <1>1
  <1> QED
    BY <1>2 DEF Stands, Under, Standing, AllFit

LEMMA ReplacingKeeps ==
  ASSUME NEW s \in Seq(StackNodes), s /= <<>>, NEW node \in StackNodes
  PROVE  LET t == [s EXCEPT ![Len(s)] = node] IN
         /\ \A c : Stands(c, t) <=> Under(c, s) \/ Standing(c, node)
         /\ \A ub, d : AllFit(s, ub, d) /\ Fits(node, ub, d) => AllFit(t, ub, d)
  <1> DEFINE t == [s EXCEPT ![Len(s)] = node]
  <1>1. /\ t \in Seq(StackNodes) /\ Len(t) = Len(s) /\ t /= <<>>
        /\ t[Len(t)] = node /\ \A i \in 1..(Len(s) - 1) : t[i] = s[i]
    BY ReplaceLast
  <1> HIDE DEF t
  <1>2. \A c : Under(c, t) <=> Under(c, s)
    BY <1>1 DEF Under
  <1>3. \A c : Stands(c, t) <=> Under(c, t) \/ Standing(c, t[Len(t)])
    BY <1>1, StackIs
  <1>4. \A ub, d : AllFit(s, ub, d) /\ Fits(node, ub, d) => AllFit(t, ub, d)
    BY <1>1, StackIs
  <1> QED
    BY <1>1, <1>2, <1>3, <1>4 DEF t

LEMMA AppendingKeeps ==
  ASSUME NEW s \in Seq(StackNodes), NEW node \in StackNodes
  PROVE  /\ \A c : Stands(c, Append(s, node)) <=>
                     Stands(c, s) \/ Standing(c, node)
         /\ \A ub, d : AllFit(s, ub, d) /\ Fits(node, ub, d)
                         => AllFit(Append(s, node), ub, d)
  <1> DEFINE t == Append(s, node)
  <1>1. /\ t \in Seq(StackNodes) /\ Len(t) = Len(s) + 1 /\ t /= <<>>
        /\ t[Len(t)] = node /\ \A i \in 1..Len(s) : t[i] = s[i]
        /\ Len(s) \in Nat
    BY AppendLast
  <1> HIDE DEF t
  <1>2. Len(t) - 1 = Len(s)
    BY <1>1
  <1>3. \A c : Under(c, t) <=> Stands(c, s)
    BY <1>1, <1>2 DEF Under, Stands, Standing
  <1>4. \A c : Stands(c, t) <=> Under(c, t) \/ Standing(c, t[Len(t)])
    BY <1>1, StackIs
  <1>5. \A ub, d : AllFit(s, ub, d) /\ Fits(node, ub, d) => AllFit(t, ub, d)
    BY <1>1, <1>2, StackIs DEF AllFit
  <1> QED
    BY <1>1, <1>3, <1>4, <1>5 DEF t
-----------------------------------------------------------------------------
(* A step that leaves the lower bound alone makes progress: the upper bound  *)
(* may fall, and no cell that is still useful leaves the global domain or    *)
(* the queue.                                                                *)
Progress ==
  /\ Real(upper_bound') /\ upper_bound' <= upper_bound
  /\ Below(DualBound') /\ DualBound' = DualBound
  /\ AllQueued(nodequeue', upper_bound', DualBound')
  /\ \A c \in Useful(Cells, upper_bound') :
       /\ c \in Useful(Cells, upper_bound)
       /\ c \in domain => c \in domain'
       /\ c \in domain /\ Waits(c, nodequeue) => Waits(c, nodequeue')

LEMMA InvariantIs ==
  ASSUME IInv
  PROVE  /\ TInv /\ TypeOK
         /\ upper_bound \in Value /\ lower_bound \in Value /\ DualBound \in Value
         /\ domain \in SUBSET Cells /\ nodequeue \in SUBSET Nodes
         /\ Real(upper_bound) /\ Below(DualBound)
         /\ AllQueued(nodequeue, upper_bound, DualBound)
         /\ AllFit(nodestack, upper_bound, DualBound)
         /\ DualBound <= upper_bound /\ DualBound <= lower_bound
  BY LowerIs DEF IInv, TInv, TypeOK, DualBound

LEMMA Holds ==
  ASSUME TInv', Real(upper_bound'), Below(DualBound'),
         AllQueued(nodequeue', upper_bound', DualBound'),
         AllFit(nodestack', upper_bound', DualBound'),
         pc' \notin Ends =>
           \A c \in Useful(Cells, upper_bound') :
             /\ c \in domain'
             /\ pc' \notin RootPlaces =>
                  Waits(c, nodequeue') \/ Stands(c, nodestack'),
         pc' \in Ends /\ ~limited' =>
           \A c \in Cells : Cost[c] >= OptimalityLimit(upper_bound'),
         limit_reached' => limited'
  PROVE  IInv'
  BY DEF IInv, Kept, Proved

(* The lower bound holds for all useful cells.                               *)
LEMMA LowerBoundHolds ==
  ASSUME IInv, NEW region \in SUBSET Cells
  PROVE  IsBound(lower_bound, region, upper_bound)
  <1> SUFFICES ASSUME NEW c \in region, Cost[c] < UpperLimit(upper_bound)
               PROVE  lower_bound <= Cost[c]
    BY DEF IsBound, Useful
  <1>1. c \in Cells /\ Cost[c] \in Nat
    BY CostIs
  <1>2. Cost[c] < upper_bound
    BY <1>1, InvariantIs, UsefulIsBetter
  <1>3. DualBound <= Cost[c]
    BY <1>1, InvariantIs DEF Below
  <1>4. /\ lower_bound \in Nat /\ upper_bound \in Nat
        /\ DualBound = lower_bound \/ DualBound = upper_bound
    BY InvariantIs, ValueIsNat, LowerIs DEF DualBound
  <1> QED
    BY <1>1, <1>2, <1>3, <1>4

LEMMA QuietProgress ==
  ASSUME IInv, UNCHANGED <<bounds, domain, nodequeue>>
  PROVE  Progress
  BY InvariantIs, ValueIsNat DEF Progress, bounds, DualBound

LEMMA IncumbentBounds ==
  ASSUME IInv, NEW c \in Cells, NewIncumbent(c), UNCHANGED lower_bound
  PROVE  /\ upper_bound' \in Value /\ upper_bound' = Cost[c]
         /\ upper_bound' < upper_bound
         /\ Real(upper_bound') /\ Below(DualBound') /\ DualBound' = DualBound
         /\ AllQueued(BoundedQueue, upper_bound', DualBound')
         /\ \A e \in Useful(Cells, upper_bound') :
              /\ e \in Useful(Cells, upper_bound)
              /\ e \in domain => e \in domain'
              /\ e \in domain /\ Waits(e, nodequeue) => Waits(e, BoundedQueue)
  <1>1. /\ upper_bound' \in Value /\ upper_bound' = Cost[c]
        /\ upper_bound' < upper_bound
    BY InvariantIs, NewIncumbentIs
  <1>2. Real(upper_bound') /\ upper_bound' <= upper_bound
    BY <1>1, InvariantIs, ValueIsNat DEF Real
  <1>3. DualBound' = DualBound
    <2>1. DualBound <= Cost[c]
      BY InvariantIs DEF Below
    <2>2. DualBound' = Lower(lower_bound, upper_bound')
      BY DEF DualBound
    <2> QED
      BY <1>1, <2>1, <2>2, InvariantIs, ValueIsNat DEF DualBound, Lower
  <1>4. Below(DualBound')
    BY <1>3, InvariantIs
  <1>5. AllQueued(nodequeue, upper_bound', DualBound)
    BY <1>1, <1>2, InvariantIs, QueuedLater DEF AllQueued
  <1>6. \A e \in Useful(Cells, upper_bound') : e \in Useful(Cells, upper_bound)
    BY <1>1, <1>2, InvariantIs, UsefulShrinks
  <1>7. \A e \in Useful(Cells, upper_bound') : e \in domain => e \in domain'
    BY <1>1 DEF NewIncumbent, Propagations, Useful
  <1>8. CASE domain' = {}
    <2>1. BoundedQueue = {}
      BY <1>8 DEF BoundedQueue
    <2>2. AllQueued(BoundedQueue, upper_bound', DualBound')
      BY <2>1 DEF AllQueued
    <2>3. \A e \in Useful(Cells, upper_bound') : e \notin domain
      BY <1>7, <1>8
    <2> QED
      BY <1>1, <1>2, <1>3, <1>4, <1>6, <1>7, <2>2, <2>3
  <1>9. CASE domain' /= {}
    <2>1. BoundedQueue = PerformBounding(nodequeue, upper_bound')
      BY <1>9 DEF BoundedQueue
    <2>2. AllQueued(BoundedQueue, upper_bound', DualBound')
      BY <1>1, <1>3, <1>5, <2>1, InvariantIs, BoundingKeeps
    <2>3. \A e \in Useful(Cells, upper_bound') :
            Waits(e, nodequeue) => Waits(e, BoundedQueue)
      BY <1>1, <1>5, <2>1, InvariantIs, BoundingKeeps
    <2> QED
      BY <1>1, <1>2, <1>3, <1>4, <1>6, <1>7, <2>2, <2>3
  <1> QED
    BY <1>8, <1>9

LEMMA IncumbentProgress ==
  ASSUME IInv, NEW c \in Cells, AddIncumbent(c), UNCHANGED lower_bound
  PROVE  Progress /\ upper_bound' = Cost[c] /\ upper_bound' < upper_bound
  <1>1. NewIncumbent(c) /\ nodequeue' = BoundedQueue
    BY DEF AddIncumbent
  <1>2. upper_bound' <= upper_bound
    BY <1>1, IncumbentBounds, InvariantIs, ValueIsNat
  <1> QED
    BY <1>1, <1>2, IncumbentBounds DEF Progress

(* What a step has to keep when it does not end the search, ...              *)
Better == IInv' /\ DualBound' >= DualBound

LEMMA ProgressFits ==
  ASSUME IInv, TInv', Progress
  PROVE  /\ \A node \in StackNodes : Fits(node, upper_bound, DualBound)
                                       => Fits(node, upper_bound', DualBound')
         /\ AllFit(nodestack, upper_bound', DualBound')
         /\ DualBound' >= DualBound
  <1>1. /\ upper_bound \in Value /\ DualBound \in Value /\ upper_bound' \in Value
        /\ upper_bound' <= upper_bound /\ DualBound' = DualBound
        /\ nodestack \in Seq(StackNodes)
    BY InvariantIs DEF Progress, TInv, TypeOK
  <1>2. \A node \in StackNodes : Fits(node, upper_bound, DualBound)
                                   => Fits(node, upper_bound', DualBound')
    BY <1>1, FitsLater
  <1>3. AllFit(nodestack, upper_bound', DualBound')
    BY <1>1, <1>2, InvariantIs, NotEmpty DEF AllFit
  <1> QED
    BY <1>1, <1>2, <1>3, ValueIsNat

LEMMA Carries ==
  ASSUME IInv, TInv', Progress, pc \notin Ends, pc' \notin Ends,
         pc \in RootPlaces => pc' \in RootPlaces,
         AllFit(nodestack', upper_bound', DualBound'),
         \A c \in Useful(Cells, upper_bound') :
           Stands(c, nodestack) => Waits(c, nodequeue') \/ Stands(c, nodestack'),
         limit_reached' => limited'
  PROVE  Better
  <1>1. \A c \in Useful(Cells, upper_bound') :
          /\ c \in domain'
          /\ pc' \notin RootPlaces =>
               Waits(c, nodequeue') \/ Stands(c, nodestack')
    BY DEF Progress, IInv, Kept
  <1>2. IInv'
    BY <1>1, Holds DEF Progress
  <1> QED
    BY <1>2, ProgressFits DEF Better

(* ... and when it does.                                                     *)
LEMMA Concludes ==
  ASSUME IInv, TInv', Progress, pc' \in Ends,
         AllFit(nodestack', upper_bound', DualBound'),
         limited' \/ \A c \in Cells : Cost[c] >= OptimalityLimit(upper_bound'),
         limit_reached' => limited'
  PROVE  Better
  <1>1. IInv'
    BY Holds DEF Progress
  <1> QED
    BY <1>1, ProgressFits DEF Better

LEMMA Evaluated ==
  ASSUME IInv, TInv', Evaluate, Progress,
         NEW result \in {"suboptimal", "pruned", "open"}, Continue(result),
         AllFit(nodestack', upper_bound', DualBound'),
         \A c \in Useful(Cells, upper_bound') :
           Stands(c, nodestack) => Waits(c, nodequeue') \/ Stands(c, nodestack')
  PROVE  Better
  <1>1. pc \in Evaluations /\ UNCHANGED limit_reached /\ TypeOK
    BY InvariantIs, EvaluateIs
  <1>2. /\ pc' \in {"store", "dive", "leaf", "heuristics", "branch",
                    "pruned", "separate"}
        /\ limited => limited'
    BY <1>1, ContinueIs
  <1>3. limit_reached' => limited'
    BY <1>1, <1>2 DEF IInv
  <1>4. pc \notin Ends /\ pc' \notin Ends /\ pc \notin RootPlaces
    BY <1>1, <1>2 DEF Ends, Evaluations, RootPlaces
  <1> QED
    BY <1>3, <1>4, Carries

(* A step that replaces the top node, when the useful cells of its open      *)
(* subtree stay in the new one or are in the queue.                          *)
LEMMA ReplacedKeeps ==
  ASSUME IInv, TInv', Progress, nodestack /= <<>>,
         NEW node \in StackNodes, nodestack' = Replaced(node),
         Fits(node, upper_bound', DualBound'),
         \A c \in Useful(top.region, upper_bound') :
           top.open /= 0 => Standing(c, node) \/ Waits(c, nodequeue')
  PROVE  /\ AllFit(nodestack', upper_bound', DualBound')
         /\ \A c \in Useful(Cells, upper_bound') :
              Stands(c, nodestack) =>
                Waits(c, nodequeue') \/ Stands(c, nodestack')
  <1>1. nodestack \in Seq(StackNodes)
    BY InvariantIs DEF TypeOK
  <1>2. AllFit(nodestack, upper_bound', DualBound')
    BY ProgressFits
  <1>3. AllFit(nodestack', upper_bound', DualBound')
    BY <1>1, <1>2, ReplacingKeeps DEF Replaced
  <1>4. ASSUME NEW c \in Useful(Cells, upper_bound'), Stands(c, nodestack)
        PROVE  Waits(c, nodequeue') \/ Stands(c, nodestack')
    <2>1. Under(c, nodestack) \/ Standing(c, top)
      BY <1>1, <1>4, StackIs DEF top
    <2>2. Stands(c, nodestack') <=> Under(c, nodestack) \/ Standing(c, node)
      BY <1>1, ReplacingKeeps DEF Replaced
    <2>3. Standing(c, top) => c \in Useful(top.region, upper_bound')
                                /\ top.open /= 0
      BY DEF Standing, Useful
    <2> QED
      BY <2>1, <2>2, <2>3
  <1> QED
    BY <1>3, <1>4

LEMMA ClosedFits ==
  ASSUME TypeOK, nodestack /= <<>>
  PROVE  \A ub, d : Fits([top EXCEPT !.open = 0], ub, d)
  BY ClosedIs DEF Fits

LEMMA CutoffKeeps ==
  ASSUME IInv, TInv', Progress, nodestack /= <<>>, nodestack' = Cutoff,
         \A c \in Useful(top.region, upper_bound') :
           top.open /= 0 => Waits(c, nodequeue')
  PROVE  /\ AllFit(nodestack', upper_bound', DualBound')
         /\ \A c \in Useful(Cells, upper_bound') :
              Stands(c, nodestack) =>
                Waits(c, nodequeue') \/ Stands(c, nodestack')
  <1>1. [top EXCEPT !.open = 0] \in StackNodes /\ TypeOK
    BY InvariantIs, ClosedIs
  <1>2. Fits([top EXCEPT !.open = 0], upper_bound', DualBound')
    BY <1>1, ClosedFits
  <1> QED
    BY <1>1, <1>2, ReplacedKeeps DEF Cutoff

(* A step that pushes a child.                                               *)
LEMMA PushKeeps ==
  ASSUME IInv, TInv', Progress, nodestack /= <<>>,
         NEW parent \in StackNodes, NEW child \in StackNodes,
         nodestack' = Push(parent, child),
         Fits(parent, upper_bound', DualBound'),
         Fits(child, upper_bound', DualBound'),
         \A c \in Useful(top.region, upper_bound') :
           top.open /= 0 => Standing(c, parent) \/ Standing(c, child)
  PROVE  /\ AllFit(nodestack', upper_bound', DualBound')
         /\ \A c \in Useful(Cells, upper_bound') :
              Stands(c, nodestack) =>
                Waits(c, nodequeue') \/ Stands(c, nodestack')
  <1>1. nodestack \in Seq(StackNodes) /\ Replaced(parent) \in Seq(StackNodes)
    BY InvariantIs, ReplacedIs DEF TypeOK
  <1>2. AllFit(nodestack, upper_bound', DualBound')
    BY ProgressFits
  <1>3. AllFit(Replaced(parent), upper_bound', DualBound')
    BY <1>1, <1>2, ReplacingKeeps DEF Replaced
  <1>4. AllFit(nodestack', upper_bound', DualBound')
    BY <1>1, <1>3, AppendingKeeps DEF Push
  <1>5. ASSUME NEW c \in Useful(Cells, upper_bound'), Stands(c, nodestack)
        PROVE  Stands(c, nodestack')
    <2>1. Under(c, nodestack) \/ Standing(c, top)
      BY <1>1, <1>5, StackIs DEF top
    <2>2. Stands(c, Replaced(parent)) <=>
            Under(c, nodestack) \/ Standing(c, parent)
      BY <1>1, ReplacingKeeps DEF Replaced
    <2>3. Stands(c, nodestack') <=>
            Stands(c, Replaced(parent)) \/ Standing(c, child)
      BY <1>1, AppendingKeeps DEF Push
    <2>4. Standing(c, top) => c \in Useful(top.region, upper_bound')
                                /\ top.open /= 0
      BY DEF Standing, Useful
    <2> QED
      BY <2>1, <2>2, <2>3, <2>4
  <1> QED
    BY <1>4, <1>5

(* The top node, and what may be found for it.                               *)
LEMMA TopFits ==
  ASSUME IInv, nodestack /= <<>>
  PROVE  /\ top \in StackNodes /\ top.region \in SUBSET Cells /\ top.lb \in Value
         /\ top.other \in Value /\ OtherLb \in Value
         /\ Fits(top, upper_bound, DualBound)
         /\ top.open /= 0 =>
              /\ IsBound(top.lb, top.region, upper_bound) /\ top.lb >= DualBound
              /\ IsBound(OtherLb, top.region, upper_bound)
              /\ OtherLb >= DualBound
  <1>1. /\ top \in StackNodes /\ top.region \in SUBSET Cells
        /\ top.lb \in Value /\ top.other \in Value /\ OtherLb \in Value
        /\ top.lb <= OtherLb
    BY InvariantIs, TopIs, OtherIs
  <1>2. Fits(top, upper_bound, DualBound)
    BY InvariantIs, StackIs DEF top, TypeOK
  <1>3. OtherLb = top.lb \/ OtherLb = top.other
    BY DEF OtherLb, Higher
  <1> QED
    BY <1>1, <1>2, <1>3, InvariantIs, ValueIsNat DEF Fits

LEMMA RaisedFits ==
  ASSUME NEW lb \in Value, NEW region \in SUBSET Cells, NEW ub \in Value,
         NEW d \in Value, IsBound(lb, region, ub), lb >= d,
         NEW new \in Raised(lb, region, ub),
         NEW smaller \in Propagations(region, ub)
  PROVE  /\ new \in Value /\ smaller \in SUBSET Cells /\ new >= d
         /\ IsBound(new, smaller, ub) /\ IsBound(new, region, ub)
         /\ Node(smaller, new) \in StackNodes /\ Fits(Node(smaller, new), ub, d)
         /\ \A c \in Useful(region, ub) : c \in smaller
         /\ \A c \in Useful(region, ub) : Standing(c, Node(smaller, new))
  <1>1. new \in Value /\ lb <= new /\ IsBound(new, region, ub)
    BY RaisedIs
  <1>2. /\ smaller \in SUBSET Cells
        /\ Useful(region, ub) \subseteq smaller
        /\ Useful(region, ub) = Useful(smaller, ub)
    BY PropagationsAre
  <1>3. new >= d
    BY <1>1, ValueIsNat
  <1>4. IsBound(new, smaller, ub)
    BY <1>1, <1>2 DEF IsBound
  <1>5. /\ Node(smaller, new) \in StackNodes
        /\ Node(smaller, new).region = smaller /\ Node(smaller, new).open = 2
    BY <1>1, <1>2, NodeIs
  <1>6. Fits(Node(smaller, new), ub, d)
    BY <1>1, <1>2, <1>3, <1>4, NodeFits
  <1>7. \A c \in Useful(region, ub) : Standing(c, Node(smaller, new))
    BY <1>2, <1>5 DEF Standing
  <1> QED
    BY <1>1, <1>2, <1>3, <1>4, <1>5, <1>6, <1>7

LEMMA Itself ==
  ASSUME NEW region \in SUBSET Cells, NEW ub
  PROVE  region \in Propagations(region, ub)
  BY DEF Propagations, Useful

(* A step that queues a node makes progress, and its useful cells wait.      *)
LEMMA EmplaceProgress ==
  ASSUME IInv, TInv', UNCHANGED <<bounds, domain>>,
         NEW region \in SUBSET Cells, NEW lb \in Value,
         IsBound(lb, region, upper_bound), lb >= DualBound,
         nodequeue' = Emplace(nodequeue, region, lb, upper_bound)
  PROVE  Progress /\ \A c \in region : Waits(c, nodequeue')
  <1>1. /\ AllQueued(nodequeue', upper_bound, DualBound)
        /\ \A c \in region : Waits(c, nodequeue')
        /\ \A c : Waits(c, nodequeue) => Waits(c, nodequeue')
    BY InvariantIs, EmplaceKeeps
  <1>2. UNCHANGED upper_bound /\ DualBound' = DualBound
    BY DEF bounds, DualBound
  <1> QED
    BY <1>1, <1>2, InvariantIs, ValueIsNat DEF Progress

(* ... also when a solution has been found before.                           *)
LEMMA IncumbentEmplaceProgress ==
  ASSUME IInv, TInv', NEW c \in Cells, NewIncumbent(c), UNCHANGED lower_bound,
         NEW region \in SUBSET Cells, NEW lb \in Value,
         IsBound(lb, region, upper_bound'), lb >= DualBound,
         nodequeue' = Emplace(BoundedQueue, region, lb, upper_bound')
  PROVE  Progress /\ \A e \in region : Waits(e, nodequeue')
  <1>1. BoundedQueue \in SUBSET Nodes
    BY InvariantIs, NewIncumbentIs
  <1>2. /\ upper_bound' \in Value /\ DualBound' = DualBound
        /\ AllQueued(BoundedQueue, upper_bound', DualBound)
        /\ upper_bound' <= upper_bound
    BY IncumbentBounds, InvariantIs, ValueIsNat
  <1>3. /\ AllQueued(nodequeue', upper_bound', DualBound)
        /\ \A e \in region : Waits(e, nodequeue')
        /\ \A e : Waits(e, BoundedQueue) => Waits(e, nodequeue')
    BY <1>1, <1>2, InvariantIs, EmplaceKeeps
  <1> QED
    BY <1>2, <1>3, IncumbentBounds DEF Progress

(* A solution may be found, or not.                                          *)
LEMMA MayProgress ==
  ASSUME IInv, UNCHANGED lower_bound,
         NoIncumbent \/ \E c \in Cells : AddIncumbent(c)
  PROVE  Progress /\ upper_bound' <= upper_bound
  <1>1. CASE NoIncumbent
    BY <1>1, QuietProgress DEF NoIncumbent, Progress, bounds
  <1>2. CASE \E c \in Cells : AddIncumbent(c)
    BY <1>2, IncumbentProgress DEF Progress
  <1> QED
    BY <1>1, <1>2
-----------------------------------------------------------------------------
(* The actions, outside the tree ...                                         *)
LEMMA HeuristicKeeps ==
  ASSUME IInv, TInv', Heuristic \/ Harvest \/ LeaveHeuristics
  PROVE  Better
  <1>1. /\ UNCHANGED <<nodestack, lower_bound, limits>>
        /\ pc \in RootPlaces \cup {"heuristics"}
        /\ pc' \in RootPlaces \cup {"heuristics", "dive"}
        /\ pc \in RootPlaces <=> pc' \in RootPlaces
    BY DEF Heuristic, Harvest, LeaveHeuristics, RootPlaces, bounds
  <1>2. NoIncumbent \/ \E c \in Cells : AddIncumbent(c)
    BY DEF Heuristic, Harvest, LeaveHeuristics, MayAddIncumbent, NoIncumbent,
           bounds
  <1>3. Progress
    BY <1>1, <1>2, MayProgress
  <1>4. AllFit(nodestack', upper_bound', DualBound')
    BY <1>1, <1>3, ProgressFits
  <1>5. limit_reached' => limited'
    BY <1>1 DEF limits, IInv
  <1>6. pc \notin Ends /\ pc' \notin Ends
    BY <1>1 DEF RootPlaces, Ends
  <1> QED
    BY <1>1, <1>3, <1>4, <1>5, <1>6, Carries

LEMMA InterruptKeeps ==
  ASSUME IInv, TInv', Interrupt \/ Stall
  PROVE  Better
  <1>1. /\ UNCHANGED <<nodestack, nodequeue, domain, bounds>>
        /\ limited' /\ pc' \in Ends
    BY DEF Interrupt, Stall, FinishSearch, Ends
  <1>2. Progress
    BY <1>1, QuietProgress
  <1> QED
    BY <1>1, <1>2, ProgressFits, Concludes

(* The root node's only domain is the global one.                            *)
LEMMA RootIs ==
  ASSUME IInv, pc \in RootPlaces
  PROVE  /\ nodestack = <<>> /\ nodequeue = {} /\ pc \notin Ends
         /\ \A c \in Useful(Cells, upper_bound) :
              c \in domain /\ c \in Useful(domain, upper_bound)
         /\ \A ub, d : AllFit(nodestack, ub, d) /\ AllQueued(nodequeue, ub, d)
         /\ UNCHANGED limits => (limit_reached' => limited')
  <1>1. nodestack = <<>> /\ nodequeue = {} /\ pc \notin Ends
    BY DEF IInv, TInv, Shape, RootPlaces, Ends
  <1>2. \A c \in Useful(Cells, upper_bound) :
          c \in domain /\ c \in Useful(domain, upper_bound)
    BY <1>1 DEF IInv, Kept, Useful
  <1>3. \A ub, d : AllFit(nodestack, ub, d) /\ AllQueued(nodequeue, ub, d)
    BY <1>1 DEF AllFit, AllQueued
  <1> QED
    BY <1>1, <1>2, <1>3 DEF IInv, limits

LEMMA RootLpKeeps ==
  ASSUME IInv, TInv', RootLp
  PROVE  Better
  <1>1. /\ pc \in RootPlaces /\ pc' = pc
        /\ UNCHANGED <<nodestack, nodequeue, upper_bound, limits>>
    BY DEF RootLp, RootPlaces
  <1>2. /\ lower_bound' \in Value /\ lower_bound <= lower_bound'
        /\ IsBound(lower_bound', domain, upper_bound)
    BY InvariantIs, RaisedIs, LowerBoundHolds DEF RootLp
  <1>3. DualBound' >= DualBound /\ DualBound' <= upper_bound
          /\ DualBound' <= lower_bound' /\ DualBound' \in Nat
    BY <1>1, <1>2, InvariantIs, ValueIsNat DEF DualBound, Lower
  <1>4. Below(DualBound')
    <2> SUFFICES ASSUME NEW c \in Cells
                 PROVE  DualBound' <= Cost[c]
      BY DEF Below
    <2>1. /\ Cost[c] \in Nat /\ upper_bound \in Nat /\ lower_bound' \in Nat
          /\ Cost[c] < UpperLimit(upper_bound) <=> Cost[c] < upper_bound
      BY <1>2, InvariantIs, CostIs, ValueIsNat, UsefulIsBetter
    <2>2. CASE Cost[c] < upper_bound
      <3>1. c \in Useful(domain, upper_bound)
        BY <1>1, <2>1, <2>2, RootIs DEF Useful
      <3> QED
        BY <1>2, <1>3, <2>1, <3>1 DEF IsBound
    <2>3. CASE ~(Cost[c] < upper_bound)
      BY <1>3, <2>1, <2>3
    <2> QED
      BY <2>2, <2>3
  <1>5. \A c \in Useful(Cells, upper_bound') : c \in domain'
    <2>1. \A c \in Useful(domain, upper_bound) : c \in domain'
      BY InvariantIs, PropagationsAre DEF RootLp
    <2> QED
      BY <1>1, <2>1, RootIs
  <1>6. IInv'
    BY <1>1, <1>4, <1>5, InvariantIs, RootIs, Holds
  <1> QED
    BY <1>3, <1>6 DEF Better

LEMMA RootInfeasibleKeeps ==
  ASSUME IInv, TInv', RootInfeasible
  PROVE  Better
  <1>1. /\ pc \in RootPlaces /\ pc' = "done"
        /\ UNCHANGED <<nodestack, nodequeue, domain, upper_bound, limits>>
        /\ lower_bound' = upper_bound
    BY DEF RootInfeasible, FinishSearch
  <1>2. Useful(Cells, upper_bound) = {}
    BY <1>1, RootIs DEF RootInfeasible
  <1>3. DualBound' = Lower(upper_bound, upper_bound) /\ DualBound' = upper_bound
    BY <1>1, InvariantIs, ValueIsNat DEF DualBound, Lower
  <1>4. Below(upper_bound)
          /\ \A c \in Cells : Cost[c] >= OptimalityLimit(upper_bound)
    BY <1>2, InvariantIs, NothingUseful
  <1>5. IInv'
    BY <1>1, <1>3, <1>4, InvariantIs, RootIs, Holds DEF Ends
  <1> QED
    BY <1>3, <1>5, InvariantIs, ValueIsNat DEF Better

LEMMA RootCutoffKeeps ==
  ASSUME IInv, TInv', RootCutoff
  PROVE  Better
  <1>1. /\ pc \in RootPlaces /\ pc' = "done"
        /\ UNCHANGED <<nodestack, nodequeue, domain, bounds, limits>>
        /\ lower_bound > OptimalityLimit(upper_bound)
    BY DEF RootCutoff, FinishSearch, RootPlaces
  <1>2. Progress
    BY <1>1, QuietProgress
  <1>3. /\ OptimalityLimit(upper_bound) <= upper_bound
        /\ OptimalityLimit(upper_bound) \in Int
    BY InvariantIs, ValueIsNat, BoundsAssumption DEF OptimalityLimit
  <1>4. OptimalityLimit(upper_bound) <= DualBound
    BY <1>1, <1>3, InvariantIs, ValueIsNat DEF DualBound, Lower
  <1>5. \A c \in Cells : Cost[c] >= OptimalityLimit(upper_bound)
    BY <1>3, <1>4, InvariantIs, CostIs, ValueIsNat DEF Below
  <1>6. /\ upper_bound' = upper_bound /\ pc' \in Ends
        /\ limit_reached' => limited'
    BY <1>1, RootIs DEF bounds, Ends
  <1> QED
    BY <1>1, <1>2, <1>5, <1>6, ProgressFits, Concludes

LEMMA RootIntegralKeeps ==
  ASSUME IInv, TInv', RootIntegral
  PROVE  Better
  <1>1. /\ pc \in RootPlaces /\ pc' = "done"
        /\ UNCHANGED <<nodestack, limits>>
    BY DEF RootIntegral, FinishSearch, RootPlaces
  <1>2. PICK c \in Cells : /\ IsBound(Cost[c], domain, upper_bound)
                           /\ AddIncumbent(c) /\ lower_bound' = Cost[c]
    BY InvariantIs DEF RootIntegral
  <1>3. /\ upper_bound' = Cost[c] /\ Cost[c] < upper_bound
        /\ Cost[c] \in Value /\ nodequeue' = {}
    BY <1>1, <1>2, RootIs, CostIs
    DEF AddIncumbent, NewIncumbent, BoundedQueue, Improves, PerformBounding, Active
  <1>4. DualBound' = Cost[c]
    BY <1>2, <1>3, ValueIsNat DEF DualBound, Lower
  <1>5. Below(Cost[c])
    <2> SUFFICES ASSUME NEW e \in Cells
                 PROVE  Cost[c] <= Cost[e]
      BY DEF Below
    <2>1. /\ Cost[e] \in Nat /\ upper_bound \in Nat /\ Cost[c] \in Nat
          /\ Cost[e] < UpperLimit(upper_bound) <=> Cost[e] < upper_bound
      BY InvariantIs, CostIs, ValueIsNat, UsefulIsBetter
    <2>2. CASE Cost[e] < upper_bound
      <3>1. e \in Useful(domain, upper_bound)
        BY <1>1, <2>1, <2>2, RootIs DEF Useful
      <3> QED
        BY <1>2, <3>1 DEF IsBound
    <2>3. CASE ~(Cost[e] < upper_bound)
      BY <1>3, <2>1, <2>3
    <2> QED
      BY <2>2, <2>3
  <1>6. Real(upper_bound')
    BY <1>3 DEF Real
  <1>7. \A e \in Cells : Cost[e] >= OptimalityLimit(upper_bound')
    <2>1. OptimalityLimit(Cost[c]) \in Int /\ OptimalityLimit(Cost[c]) <= Cost[c]
      BY <1>3, ValueIsNat, BoundsAssumption DEF OptimalityLimit
    <2> QED
      BY <1>3, <1>5, <2>1, CostIs, ValueIsNat DEF Below
  <1>8. /\ AllQueued(nodequeue', upper_bound', DualBound')
        /\ AllFit(nodestack', upper_bound', DualBound')
    BY <1>1, <1>3, RootIs
  <1>9. IInv'
    BY <1>1, <1>4, <1>5, <1>6, <1>7, <1>8, RootIs, Holds DEF Ends
  <1>10. DualBound <= Cost[c]
    BY InvariantIs DEF Below
  <1> QED
    BY <1>3, <1>4, <1>9, <1>10, InvariantIs, ValueIsNat DEF Better

LEMMA RootQueueKeeps ==
  ASSUME IInv, TInv', RootQueue
  PROVE  Better
  <1>1. /\ pc \in RootPlaces /\ pc' = "search"
        /\ UNCHANGED <<nodestack, domain, bounds, limits>>
        /\ nodequeue' = Emplace(nodequeue, domain, lower_bound, upper_bound)
    BY DEF RootQueue, RootPlaces
  <1>2. Progress /\ \A c \in domain : Waits(c, nodequeue')
    BY <1>1, InvariantIs, ValueIsNat, LowerBoundHolds, EmplaceProgress
  <1>3. \A c \in Useful(Cells, upper_bound') : c \in domain' /\ Waits(c, nodequeue')
    BY <1>1, <1>2, RootIs DEF bounds
  <1>4. IInv'
    BY <1>1, <1>2, <1>3, RootIs, ProgressFits, Holds DEF Progress, Ends
  <1> QED
    BY <1>2, <1>4, ProgressFits DEF Better
(* ... between two plunges, where all useful cells wait in the queue, ...    *)
LEMMA AllWait ==
  ASSUME IInv, pc \notin RootPlaces, pc \notin Ends,
         nodestack = <<>> \/ (Len(nodestack) = 1 /\ top.open = 0)
  PROVE  \A c \in Useful(Cells, upper_bound) : c \in domain /\ Waits(c, nodequeue)
  <1>1. \A c : ~Stands(c, nodestack)
    BY DEF Stands, top
  <1> QED
    BY <1>1 DEF IInv, Kept

LEMMA NoActive ==
  ASSUME NEW ub \in Value, Real(ub), NEW queue \in SUBSET Nodes, NEW d,
         AllQueued(queue, ub, d), Active(queue) = {},
         \A c \in Useful(Cells, ub) : Waits(c, queue)
  PROVE  \A c \in Cells : Cost[c] >= OptimalityLimit(ub)
  <1> SUFFICES ASSUME NEW c \in Cells
               PROVE  Cost[c] >= OptimalityLimit(ub)
    OBVIOUS
  <1>1. /\ OptimalityLimit(ub) \in Int /\ OptimalityLimit(ub) <= ub
        /\ Cost[c] \in Nat /\ ub \in Nat
        /\ Cost[c] < UpperLimit(ub) <=> Cost[c] < ub
    BY ValueIsNat, BoundsAssumption, CostIs, UsefulIsBetter DEF OptimalityLimit
  <1>2. CASE Cost[c] < ub
    <2>1. c \in Useful(Cells, ub)
      BY <1>1, <1>2 DEF Useful
    <2>2. PICK n \in queue : c \in n.region
      BY <2>1 DEF Waits
    <2>3. n.suboptimal /\ n.lb \in Nat
      BY ValueIsNat DEF Active, Nodes
    <2>4. n.lb >= OptimalityLimit(ub) /\ IsBound(n.lb, n.region, ub)
      BY <2>3 DEF AllQueued, Queued
    <2>5. n.lb <= Cost[c]
      BY <2>1, <2>2, <2>4 DEF IsBound, Useful
    <2> QED
      BY <1>1, <2>3, <2>4, <2>5
  <1>3. CASE ~(Cost[c] < ub)
    BY <1>1, <1>3
  <1> QED
    BY <1>2, <1>3

(* A lower bound that is computed from the queue.                            *)
LEMMA NewBound ==
  ASSUME NEW ub \in Value, Real(ub), NEW queue \in SUBSET Nodes,
         NEW d \in Value, d <= ub, AllQueued(queue, ub, d),
         \A c \in Useful(Cells, ub) : Waits(c, queue),
         NEW v \in Value, \A n \in queue : v <= n.lb,
         v = ub \/ \E n \in queue : v = n.lb
  PROVE  /\ Below(Lower(v, ub)) /\ Lower(v, ub) >= d
         /\ AllQueued(queue, ub, Lower(v, ub))
  <1>1. /\ Lower(v, ub) \in Nat /\ Lower(v, ub) <= v /\ Lower(v, ub) <= ub
        /\ Lower(v, ub) = v \/ Lower(v, ub) = ub
        /\ v \in Nat /\ ub \in Nat /\ d \in Nat
        /\ \A n \in queue : n.lb \in Nat
    BY LowerIs, ValueIsNat DEF Nodes
  <1>2. v >= d
    BY <1>1 DEF AllQueued, Queued
  <1>3. Below(Lower(v, ub))
    <2> SUFFICES ASSUME NEW c \in Cells
                 PROVE  Lower(v, ub) <= Cost[c]
      BY DEF Below
    <2>1. Cost[c] \in Nat /\ (Cost[c] < UpperLimit(ub) <=> Cost[c] < ub)
      BY CostIs, UsefulIsBetter
    <2>2. CASE Cost[c] < ub
      <3>1. c \in Useful(Cells, ub)
        BY <2>1, <2>2 DEF Useful
      <3>2. PICK n \in queue : c \in n.region
        BY <3>1 DEF Waits
      <3>3. n.lb <= Cost[c]
        BY <3>1, <3>2 DEF AllQueued, Queued, IsBound, Useful
      <3> QED
        BY <1>1, <2>1, <3>3
    <2>3. CASE ~(Cost[c] < ub)
      BY <1>1, <2>1, <2>3
    <2> QED
      BY <2>2, <2>3
  <1>4. AllQueued(queue, ub, Lower(v, ub))
    BY <1>1 DEF AllQueued, Queued
  <1> QED
    BY <1>1, <1>2, <1>3, <1>4

LEMMA LeastOfQueue ==
  ASSUME NEW ub \in Value, NEW queue \in SUBSET Nodes,
         NEW v \in LeastOf({ub} \cup LowerBounds(queue))
  PROVE  /\ v \in Value /\ \A n \in queue : v <= n.lb
         /\ v = ub \/ \E n \in queue : v = n.lb
  <1>1. LowerBounds(queue) \subseteq Value
    BY LowerBoundsAre
  <1>2. /\ v \in Value /\ v \in {ub} \cup LowerBounds(queue)
        /\ \A w \in {ub} \cup LowerBounds(queue) : v <= w
    BY <1>1, LeastIs
  <1> QED
    BY <1>2 DEF LowerBounds

LEMMA InstallKeeps ==
  ASSUME IInv, pc \notin RootPlaces, pc \notin Ends, nodestack = <<>>,
         NEW n \in nodequeue, NEW next, Install(n, next), NEW d,
         AllQueued(nodequeue, upper_bound, d)
  PROVE  /\ AllQueued(nodequeue', upper_bound, d)
         /\ AllFit(nodestack', upper_bound, d)
         /\ \A c \in Useful(Cells, upper_bound) :
              Waits(c, nodequeue') \/ Stands(c, nodestack')
  <1> DEFINE region == n.region \cap domain
             node == Node(region, n.lb)
  <1>1. n.region \in SUBSET Cells /\ region \in SUBSET Cells /\ n.lb \in Value
    BY InvariantIs DEF Nodes
  <1>2. /\ node \in StackNodes /\ node.region = region /\ node.open = 2
        /\ Len(<<node>>) = 1 /\ <<node>>[1] = node
    BY <1>1, NodeIs, SingleIs
  <1>3. nodestack' = <<node>> /\ nodequeue' = nodequeue \ {n}
    BY DEF Install
  <1>4. AllQueued(nodequeue', upper_bound, d)
    BY <1>3 DEF AllQueued
  <1>5. Fits(node, upper_bound, d)
    <2>1. IsBound(n.lb, n.region, upper_bound) /\ n.lb >= d
      BY DEF AllQueued, Queued
    <2>2. IsBound(n.lb, region, upper_bound)
      BY <2>1 DEF IsBound, Useful
    <2> QED
      BY <1>1, <2>1, <2>2, NodeFits
  <1> HIDE DEF node
  <1>6. AllFit(nodestack', upper_bound, d)
    BY <1>2, <1>3, <1>5 DEF AllFit
  <1>7. ASSUME NEW c \in Useful(Cells, upper_bound)
        PROVE  Waits(c, nodequeue') \/ Stands(c, nodestack')
    <2>1. c \in domain /\ Waits(c, nodequeue)
      BY AllWait
    <2>2. PICK m \in nodequeue : c \in m.region
      BY <2>1 DEF Waits
    <2>3. CASE m = n
      BY <1>2, <1>3, <2>1, <2>2, <2>3 DEF Stands
    <2>4. CASE m /= n
      BY <1>3, <2>2, <2>4 DEF Waits
    <2> QED
      BY <2>3, <2>4
  <1> QED
    BY <1>4, <1>6, <1>7

LEMMA BetweenIs ==
  ASSUME IInv, pc \in Between
  PROVE  /\ nodestack = <<>> /\ pc \notin RootPlaces /\ pc \notin Ends
         /\ \A ub, d : AllFit(nodestack, ub, d)
         /\ \A c \in Useful(Cells, upper_bound) :
              c \in domain /\ Waits(c, nodequeue)
  <1>1. nodestack = <<>> /\ pc \notin RootPlaces /\ pc \notin Ends
    BY DEF IInv, TInv, Shape, Between, RootPlaces, Ends
  <1>2. \A ub, d : AllFit(nodestack, ub, d)
    BY <1>1 DEF AllFit
  <1> QED
    BY <1>1, <1>2, AllWait

LEMMA StartSearchKeeps ==
  ASSUME IInv, TInv', StartSearch
  PROVE  Better
  <1>1. PICK reached \in BOOLEAN :
          /\ pc = "search" /\ CheckLimits(reached)
          /\ UNCHANGED <<domain, upper_bound, limit_reached>>
          /\ IF Active(nodequeue) = {} \/ reached
             THEN /\ pc' = "done"
                  /\ UNCHANGED <<nodestack, nodequeue, lower_bound>>
             ELSE /\ lower_bound' \in LeastOf(LowerBounds(nodequeue))
                  /\ \E n \in Active(nodequeue) : Install(n, "plunge")
    BY DEF StartSearch
  <1>2. (limit_reached' => limited') /\ limited' = reached
    BY <1>1 DEF IInv, CheckLimits
  <1>3. pc \in Between
    BY <1>1 DEF Between
  <1>4. CASE Active(nodequeue) = {} \/ reached
    <2>1. Progress /\ pc' \in Ends /\ UNCHANGED nodestack
      BY <1>1, <1>4, QuietProgress DEF bounds, Ends
    <2>2. limited' \/ \A c \in Cells : Cost[c] >= OptimalityLimit(upper_bound')
      BY <1>1, <1>2, <1>3, <1>4, InvariantIs, BetweenIs, NoActive
    <2> QED
      BY <1>2, <2>1, <2>2, ProgressFits, Concludes
  <1>5. CASE ~(Active(nodequeue) = {} \/ reached)
    <2>1. PICK n \in nodequeue : Install(n, "plunge")
      BY <1>1, <1>5 DEF Active
    <2>2. LowerBounds(nodequeue) \in SUBSET Value
      BY InvariantIs, LowerBoundsAre
    <2>3. /\ lower_bound' \in Value /\ lower_bound' \in LowerBounds(nodequeue)
          /\ \A w \in LowerBounds(nodequeue) : lower_bound' <= w
      BY <1>1, <1>5, <2>2, LeastIs
    <2>4. /\ \A m \in nodequeue : lower_bound' <= m.lb
          /\ \E m \in nodequeue : lower_bound' = m.lb
      BY <2>3 DEF LowerBounds
    <2>5. DualBound' = Lower(lower_bound', upper_bound)
      BY <1>1 DEF DualBound
    <2>6. /\ Below(DualBound') /\ DualBound' >= DualBound
          /\ AllQueued(nodequeue, upper_bound, DualBound')
      BY <1>3, <2>3, <2>4, <2>5, InvariantIs, BetweenIs, NewBound
    <2>7. /\ AllQueued(nodequeue', upper_bound, DualBound')
          /\ AllFit(nodestack', upper_bound, DualBound')
          /\ \A c \in Useful(Cells, upper_bound) :
               Waits(c, nodequeue') \/ Stands(c, nodestack')
      BY <1>3, <2>1, <2>6, BetweenIs, InstallKeeps
    <2>8. pc' = "plunge"
      BY <2>1 DEF Install
    <2>9. IInv'
      BY <1>1, <1>2, <1>3, <2>6, <2>7, <2>8, InvariantIs, BetweenIs, Holds
      DEF Ends
    <2> QED
      BY <2>6, <2>9 DEF Better
  <1> QED
    BY <1>4, <1>5

LEMMA InstallNodeKeeps ==
  ASSUME IInv, TInv', InstallNode
  PROVE  Better
  <1>1. /\ pc = "install" /\ UNCHANGED <<domain, bounds, limits>>
        /\ limit_reached' => limited'
    BY DEF InstallNode, IInv, limits
  <1>2. pc \in Between
    BY <1>1 DEF Between
  <1>3. UNCHANGED upper_bound /\ DualBound' = DualBound
    BY <1>1 DEF bounds, DualBound
  <1>4. CASE Active(nodequeue) = {}
    <2>1. pc' \in Ends /\ UNCHANGED <<nodestack, nodequeue>>
      BY <1>4 DEF InstallNode, Ends
    <2>2. Progress
      BY <1>1, <2>1, QuietProgress
    <2>3. \A c \in Cells : Cost[c] >= OptimalityLimit(upper_bound')
      BY <1>2, <1>3, <1>4, InvariantIs, BetweenIs, NoActive
    <2> QED
      BY <1>1, <2>1, <2>2, <2>3, ProgressFits, Concludes
  <1>5. CASE Active(nodequeue) /= {}
    <2>1. PICK n \in nodequeue : Install(n, "installed")
      BY <1>5 DEF InstallNode, Active
    <2>2. /\ AllQueued(nodequeue', upper_bound, DualBound)
          /\ AllFit(nodestack', upper_bound, DualBound)
          /\ \A c \in Useful(Cells, upper_bound) :
               Waits(c, nodequeue') \/ Stands(c, nodestack')
      BY <1>2, <2>1, InvariantIs, BetweenIs, InstallKeeps
    <2>3. pc' = "installed"
      BY <2>1 DEF Install
    <2>4. IInv'
      BY <1>1, <1>2, <1>3, <2>2, <2>3, InvariantIs, BetweenIs, Holds DEF Ends
    <2> QED
      BY <1>3, <2>4, InvariantIs, ValueIsNat DEF Better
  <1> QED
    BY <1>4, <1>5

LEMMA EndStoreKeeps ==
  ASSUME IInv, TInv', EndStore
  PROVE  Better
  <1>1. /\ pc = "store" /\ nodestack = <<>>
        /\ UNCHANGED <<nodestack, nodequeue, domain, upper_bound, limits>>
        /\ limit_reached' => limited'
    BY DEF EndStore, IInv, limits
  <1>2. pc \notin RootPlaces /\ pc \notin Ends
    BY <1>1 DEF RootPlaces, Ends
  <1>3. CASE limit_reached
    <2>1. pc' = "done" /\ limited'
          /\ lower_bound' \in LeastOf({upper_bound} \cup LowerBounds(nodequeue))
      BY <1>1, <1>3 DEF EndStore, IInv, limits
    <2>2. DualBound' = Lower(lower_bound', upper_bound)
      BY <1>1 DEF DualBound
    <2>3. /\ lower_bound' \in Value
          /\ \A n \in nodequeue : lower_bound' <= n.lb
          /\ lower_bound' = upper_bound \/ \E n \in nodequeue : lower_bound' = n.lb
      BY <2>1, InvariantIs, LeastOfQueue
    <2>4. \A c \in Useful(Cells, upper_bound) : Waits(c, nodequeue)
      BY <1>1, <1>2, AllWait
    <2>5. /\ Below(DualBound') /\ DualBound' >= DualBound
          /\ AllQueued(nodequeue, upper_bound, DualBound')
      BY <2>2, <2>3, <2>4, InvariantIs, NewBound
    <2>6. AllFit(nodestack', upper_bound', DualBound')
      BY <1>1 DEF AllFit
    <2>7. IInv'
      BY <1>1, <2>1, <2>5, <2>6, InvariantIs, Holds DEF Ends
    <2> QED
      BY <2>5, <2>7 DEF Better
  <1>4. CASE ~limit_reached
    <2>1. pc' = "stored" /\ UNCHANGED lower_bound
      BY <1>4 DEF EndStore
    <2>2. Progress
      BY <1>1, <2>1, QuietProgress DEF bounds
    <2> QED
      BY <1>1, <1>2, <2>1, <2>2, ProgressFits, Carries DEF Ends
  <1> QED
    BY <1>3, <1>4

(* Pruning and the hull drop no useful cell.                                 *)
LEMMA HullKeeps ==
  ASSUME IInv, NEW d \in SUBSET domain,
         Useful(Hull(nodequeue, domain), upper_bound) \subseteq d,
         \A c \in Useful(Cells, upper_bound) : c \in domain /\ Waits(c, nodequeue)
  PROVE  /\ \A c \in Useful(Cells, upper_bound) :
              c \in d /\ Waits(c, Meeting(nodequeue, d))
         /\ AllQueued(Meeting(nodequeue, d), upper_bound, DualBound)
         /\ Meeting(nodequeue, d) \in SUBSET Nodes
  <1>1. ASSUME NEW c \in Useful(Cells, upper_bound)
        PROVE  c \in d /\ Waits(c, Meeting(nodequeue, d))
    <2>1. PICK n \in nodequeue : c \in n.region
      BY <1>1 DEF Waits
    <2>2. c \in Hull(nodequeue, domain)
      BY <1>1, <2>1 DEF Hull
    <2>3. c \in d
      BY <1>1, <2>2 DEF Useful
    <2> QED
      BY <2>1, <2>3 DEF Meeting, Waits
  <1>2. AllQueued(Meeting(nodequeue, d), upper_bound, DualBound)
    BY InvariantIs DEF Meeting, AllQueued
  <1> QED
    BY <1>1, <1>2, InvariantIs DEF Meeting

LEMMA PruningKeeps ==
  ASSUME IInv, PruneInfeasibleNodes, UNCHANGED upper_bound,
         \A c \in Useful(Cells, upper_bound) : c \in domain /\ Waits(c, nodequeue)
  PROVE  /\ \A c \in Useful(Cells, upper_bound) : c \in domain' /\ Waits(c, nodequeue')
         /\ AllQueued(nodequeue', upper_bound, DualBound)
         /\ nodequeue' \in SUBSET Nodes
         /\ UpdateLowerBound =>
              /\ Below(DualBound') /\ DualBound' >= DualBound
              /\ AllQueued(nodequeue', upper_bound, DualBound')
  <1>1. /\ domain' \in SUBSET domain
        /\ Useful(Hull(nodequeue, domain), upper_bound) \subseteq domain'
        /\ nodequeue' = IF domain' = {} THEN {} ELSE Meeting(nodequeue, domain')
    BY DEF PruneInfeasibleNodes
  <1>2. /\ \A c \in Useful(Cells, upper_bound) :
             c \in domain' /\ Waits(c, Meeting(nodequeue, domain'))
        /\ AllQueued(Meeting(nodequeue, domain'), upper_bound, DualBound)
        /\ Meeting(nodequeue, domain') \in SUBSET Nodes
    BY <1>1, HullKeeps
  <1>3. /\ \A c \in Useful(Cells, upper_bound) : c \in domain' /\ Waits(c, nodequeue')
        /\ AllQueued(nodequeue', upper_bound, DualBound)
        /\ nodequeue' \in SUBSET Nodes
    BY <1>1, <1>2 DEF AllQueued
  <1>4. ASSUME UpdateLowerBound
        PROVE  /\ Below(DualBound') /\ DualBound' >= DualBound
               /\ AllQueued(nodequeue', upper_bound, DualBound')
    <2>1. /\ lower_bound' \in Value
          /\ \A n \in nodequeue' : lower_bound' <= n.lb
          /\ lower_bound' = upper_bound \/ \E n \in nodequeue' : lower_bound' = n.lb
      BY <1>3, <1>4, InvariantIs, LeastOfQueue DEF UpdateLowerBound
    <2>2. DualBound' = Lower(lower_bound', upper_bound)
      BY DEF DualBound
    <2> QED
      BY <1>3, <2>1, <2>2, InvariantIs, NewBound
  <1> QED
    BY <1>3, <1>4

LEMMA NextNodeKeeps ==
  ASSUME IInv, TInv', NextNode
  PROVE  Better
  <1>1. /\ pc = "stored" /\ PruneInfeasibleNodes /\ UpdateLowerBound
        /\ pc' = IF Active(nodequeue') = {} THEN "done" ELSE "install"
        /\ UNCHANGED <<nodestack, upper_bound, limits>>
        /\ limit_reached' => limited'
    BY DEF NextNode, IInv, limits
  <1>2. pc \in Between
    BY <1>1 DEF Between
  <1>3. /\ \A c \in Useful(Cells, upper_bound) : c \in domain' /\ Waits(c, nodequeue')
        /\ nodequeue' \in SUBSET Nodes
        /\ Below(DualBound') /\ DualBound' >= DualBound
        /\ AllQueued(nodequeue', upper_bound, DualBound')
    BY <1>1, <1>2, BetweenIs, PruningKeeps
  <1>4. AllFit(nodestack', upper_bound', DualBound')
    BY <1>1, <1>2, BetweenIs
  <1>5. pc' \in Ends =>
          \A c \in Cells : Cost[c] >= OptimalityLimit(upper_bound')
    BY <1>1, <1>3, InvariantIs, NoActive DEF Ends
  <1>6. IInv'
    BY <1>1, <1>3, <1>4, <1>5, InvariantIs, Holds
  <1> QED
    BY <1>3, <1>6 DEF Better

LEMMA NodePrunedKeeps ==
  ASSUME IInv, TInv', NodePruned
  PROVE  Better
  <1>1. PICK reached \in BOOLEAN :
          /\ pc = "pruned" /\ nodestack' = <<>> /\ PruneInfeasibleNodes
          /\ UNCHANGED upper_bound
          /\ IF domain' = {}
             THEN /\ lower_bound' = upper_bound /\ pc' = "done"
                  /\ UNCHANGED limits
             ELSE /\ CheckLimits(reached)
                  /\ limit_reached' = reached
                  /\ IF reached THEN pc' = "done" /\ UNCHANGED lower_bound
                                ELSE pc' = "install" /\ UpdateLowerBound
    BY DEF NodePruned
  <1>2. \A c \in Useful(Cells, upper_bound) : c \in domain /\ Waits(c, nodequeue)
    <2>1. Len(nodestack) = 1 /\ top.open = 0
      BY <1>1 DEF IInv, TInv, Shape, Single
    <2>2. pc \notin RootPlaces /\ pc \notin Ends
      BY <1>1 DEF RootPlaces, Ends
    <2> QED
      BY <2>1, <2>2, AllWait
  <1>3. /\ \A c \in Useful(Cells, upper_bound) : c \in domain' /\ Waits(c, nodequeue')
        /\ AllQueued(nodequeue', upper_bound, DualBound)
        /\ UpdateLowerBound =>
             /\ Below(DualBound') /\ DualBound' >= DualBound
             /\ AllQueued(nodequeue', upper_bound, DualBound')
    BY <1>1, <1>2, PruningKeeps
  <1>4. limit_reached' => limited'
    BY <1>1 DEF IInv, limits, CheckLimits
  <1>5. \A ub, d : AllFit(nodestack', ub, d)
    BY <1>1 DEF AllFit
  <1>6. CASE domain' = {}
    <2>1. pc' = "done" /\ lower_bound' = upper_bound /\ nodequeue' = {}
      BY <1>1, <1>6 DEF PruneInfeasibleNodes
    <2>2. DualBound' = upper_bound /\ DualBound' >= DualBound
      BY <1>1, <2>1, InvariantIs, ValueIsNat DEF DualBound, Lower
    <2>3. Useful(Cells, upper_bound) = {}
      BY <1>3, <1>6
    <2>4. Below(upper_bound)
            /\ \A c \in Cells : Cost[c] >= OptimalityLimit(upper_bound)
      BY <2>3, InvariantIs, NothingUseful
    <2>5. AllQueued(nodequeue', upper_bound', DualBound')
      BY <2>1 DEF AllQueued
    <2>6. IInv'
      BY <1>1, <1>4, <1>5, <2>1, <2>2, <2>4, <2>5, InvariantIs, Holds DEF Ends
    <2> QED
      BY <2>2, <2>6 DEF Better
  <1>7. CASE domain' /= {} /\ reached
    <2>1. pc' = "done" /\ limited' /\ UNCHANGED lower_bound
      BY <1>1, <1>7 DEF CheckLimits
    <2>2. DualBound' = DualBound
      BY <1>1, <2>1 DEF DualBound
    <2>3. IInv'
      BY <1>1, <1>3, <1>4, <1>5, <2>1, <2>2, InvariantIs, Holds DEF Ends
    <2> QED
      BY <2>2, <2>3, InvariantIs, ValueIsNat DEF Better
  <1>8. CASE domain' /= {} /\ ~reached
    <2>1. pc' = "install" /\ UpdateLowerBound
      BY <1>1, <1>8
    <2>2. IInv'
      BY <1>1, <1>3, <1>4, <1>5, <2>1, InvariantIs, Holds DEF Ends
    <2> QED
      BY <1>3, <2>1, <2>2 DEF Better
  <1> QED
    BY <1>6, <1>7, <1>8
(* ... in the evaluation of a node, ...                                      *)
LEMMA EvaluatedTop ==
  ASSUME IInv, Evaluate
  PROVE  /\ nodestack /= <<>> /\ top.open = 2 /\ UNCHANGED lower_bound
         /\ top \in StackNodes /\ top.region \in SUBSET Cells /\ top.lb \in Value
         /\ IsBound(top.lb, top.region, upper_bound) /\ top.lb >= DualBound
  <1>1. nodestack /= <<>> /\ top.open = 2 /\ UNCHANGED lower_bound
    BY InvariantIs, EvaluateIs
  <1> QED
    BY <1>1, TopFits

LEMMA SuboptimalKeeps ==
  ASSUME IInv, TInv', Suboptimal
  PROVE  Better
  <1>1. /\ Evaluate /\ Continue("suboptimal")
        /\ UNCHANGED <<upper_bound, domain, lower_bound>> /\ nodestack /= <<>>
    BY EvaluatedTop DEF Suboptimal
  <1>2. CASE pc /= "installed"
    <2>1. UNCHANGED <<nodestack, nodequeue>>
      BY <1>2 DEF Suboptimal
    <2>2. Progress
      BY <1>1, <2>1, QuietProgress DEF bounds
    <2>3. AllFit(nodestack', upper_bound', DualBound')
      BY <2>1, <2>2, ProgressFits
    <2> QED
      BY <1>1, <2>1, <2>2, <2>3, Evaluated
  <1>3. CASE pc = "installed" /\ top.lb > UpperLimit(upper_bound)
    <2>1. nodestack' = Cutoff /\ nodequeue' = nodequeue
      BY <1>3 DEF Suboptimal
    <2>2. Progress
      BY <1>1, <2>1, QuietProgress DEF bounds
    <2>3. Useful(top.region, upper_bound') = {}
      BY <1>1, <1>3, EvaluatedTop, InvariantIs, BoundOfNothing
    <2>4. /\ AllFit(nodestack', upper_bound', DualBound')
          /\ \A c \in Useful(Cells, upper_bound') :
               Stands(c, nodestack) =>
                 Waits(c, nodequeue') \/ Stands(c, nodestack')
      BY <1>1, <2>1, <2>2, <2>3, CutoffKeeps
    <2> QED
      BY <1>1, <2>2, <2>4, Evaluated
  <1>4. CASE pc = "installed" /\ ~(top.lb > UpperLimit(upper_bound))
    <2>1. nodestack' = Cutoff
      BY <1>4 DEF Suboptimal
    <2>2. PICK lb \in Raised(top.lb, top.region, upper_bound) :
            nodequeue' = Emplace(nodequeue, top.region, lb, upper_bound)
      BY <1>4 DEF Suboptimal
    <2>3. /\ lb \in Value /\ lb >= DualBound
          /\ IsBound(lb, top.region, upper_bound)
      <3>1. /\ lb \in Value /\ top.lb <= lb
            /\ IsBound(lb, top.region, upper_bound)
        BY <1>1, EvaluatedTop, InvariantIs, RaisedIs
      <3> QED
        BY <1>1, <3>1, EvaluatedTop, InvariantIs, ValueIsNat
    <2>4. Progress /\ \A c \in top.region : Waits(c, nodequeue')
      BY <1>1, <2>2, <2>3, EvaluatedTop, EmplaceProgress DEF bounds
    <2>5. \A c \in Useful(top.region, upper_bound') : Waits(c, nodequeue')
      BY <2>4 DEF Useful
    <2>6. /\ AllFit(nodestack', upper_bound', DualBound')
          /\ \A c \in Useful(Cells, upper_bound') :
               Stands(c, nodestack) =>
                 Waits(c, nodequeue') \/ Stands(c, nodestack')
      BY <1>1, <2>1, <2>4, <2>5, CutoffKeeps
    <2> QED
      BY <1>1, <2>4, <2>6, Evaluated
  <1> QED
    BY <1>2, <1>3, <1>4

(* A node without useful cells may be cut off.                               *)
LEMMA EvaluatedEmpty ==
  ASSUME IInv, TInv', Evaluate, Continue("pruned"), Progress,
         nodestack' = Cutoff, Useful(top.region, upper_bound') = {}
  PROVE  Better
  <1>1. /\ AllFit(nodestack', upper_bound', DualBound')
        /\ \A c \in Useful(Cells, upper_bound') :
             Stands(c, nodestack) =>
               Waits(c, nodequeue') \/ Stands(c, nodestack')
    BY EvaluatedTop, CutoffKeeps
  <1> QED
    BY <1>1, Evaluated

LEMMA InfeasibleKeeps ==
  ASSUME IInv, TInv', Infeasible
  PROVE  Better
  <1>1. /\ Evaluate /\ Continue("pruned") /\ nodestack' = Cutoff
        /\ UNCHANGED <<upper_bound, domain, nodequeue, lower_bound>>
        /\ Useful(top.region, upper_bound) = {}
    BY EvaluatedTop DEF Infeasible, NoIncumbent
  <1>2. Progress
    BY <1>1, QuietProgress DEF bounds
  <1> QED
    BY <1>1, <1>2, EvaluatedEmpty

LEMMA IntegralKeeps ==
  ASSUME IInv, TInv', Integral
  PROVE  Better
  <1>1. /\ Evaluate /\ Continue("pruned") /\ nodestack' = Cutoff
        /\ UNCHANGED lower_bound /\ top.region \in SUBSET Cells
    BY EvaluatedTop DEF Integral
  <1>2. PICK c \in top.region : /\ IsBound(Cost[c], top.region, upper_bound)
                                /\ AddIncumbent(c)
    BY DEF Integral
  <1>3. c \in Cells /\ Cost[c] \in Nat
    BY <1>1, CostIs
  <1>4. Progress /\ upper_bound' = Cost[c] /\ upper_bound' < upper_bound
    BY <1>1, <1>2, <1>3, IncumbentProgress
  <1>5. Useful(top.region, upper_bound') = {}
    <2> SUFFICES ASSUME NEW e \in top.region, Cost[e] < UpperLimit(upper_bound')
                 PROVE  FALSE
      BY DEF Useful
    <2>1. e \in Cells /\ Cost[e] \in Nat
      BY <1>1, CostIs
    <2>2. upper_bound' \in Value
      BY <1>3, <1>4, CostIs
    <2>3. Cost[e] < upper_bound'
      BY <1>4, <2>1, <2>2, UsefulIsBetter DEF Progress
    <2>4. Cost[e] < UpperLimit(upper_bound)
      BY <1>3, <1>4, <2>1, <2>3, InvariantIs, UsefulIsBetter, ValueIsNat
    <2>5. Cost[c] <= Cost[e]
      BY <1>2, <2>4 DEF IsBound, Useful
    <2> QED
      BY <1>3, <1>4, <2>1, <2>3, <2>5
  <1> QED
    BY <1>1, <1>4, <1>5, EvaluatedEmpty

LEMMA StaysOpenKeeps ==
  ASSUME IInv, TInv', StaysOpen
  PROVE  Better
  <1>1. /\ Evaluate /\ UNCHANGED lower_bound /\ nodestack /= <<>>
        /\ top.region \in SUBSET Cells /\ top.lb \in Value
    BY EvaluatedTop DEF StaysOpen
  <1>2. NoIncumbent \/ \E c \in Cells : AddIncumbent(c)
    BY <1>1 DEF StaysOpen
  <1>3. Progress
    BY <1>1, <1>2, MayProgress
  <1>4. PICK region \in Propagations(top.region, upper_bound') \ {{}},
             lb \in Raised(top.lb, top.region, upper_bound') :
          /\ nodestack' = Replaced(Node(region, lb))
          /\ IF lb > OptimalityLimit(upper_bound')
             THEN pc /= "installed" /\ Continue("suboptimal")
             ELSE Continue("open")
    BY DEF StaysOpen
  <1>5. /\ upper_bound' \in Value /\ DualBound' \in Value
        /\ IsBound(top.lb, top.region, upper_bound') /\ top.lb >= DualBound'
    <2>1. upper_bound' \in Value
      BY DEF TInv, TypeOK
    <2>2. Fits(top, upper_bound', DualBound') /\ DualBound' \in Value
      BY <1>1, <1>3, TopFits, ProgressFits, InvariantIs DEF Progress
    <2>3. top.open = 2
      BY <1>1, EvaluatedTop
    <2> QED
      BY <2>1, <2>2, <2>3 DEF Fits
  <1>6. /\ Node(region, lb) \in StackNodes
        /\ Fits(Node(region, lb), upper_bound', DualBound')
        /\ \A c \in Useful(top.region, upper_bound') : Standing(c, Node(region, lb))
    BY <1>1, <1>5, RaisedFits
  <1>7. /\ AllFit(nodestack', upper_bound', DualBound')
        /\ \A c \in Useful(Cells, upper_bound') :
             Stands(c, nodestack) =>
               Waits(c, nodequeue') \/ Stands(c, nodestack')
    BY <1>1, <1>3, <1>4, <1>6, ReplacedKeeps
  <1>8. Continue("suboptimal") \/ Continue("open")
    BY <1>4
  <1> QED
    BY <1>1, <1>3, <1>7, <1>8, Evaluated

LEMMA BecomesSuboptimalKeeps ==
  ASSUME IInv, TInv', BecomesSuboptimal
  PROVE  Better
  <1>1. /\ Evaluate /\ Continue("suboptimal") /\ nodestack' = Cutoff
        /\ UNCHANGED lower_bound /\ nodestack /= <<>>
    BY EvaluatedTop DEF BecomesSuboptimal
  <1>2. top.region \in SUBSET Cells /\ top.lb \in Value
    BY <1>1, EvaluatedTop
  <1>3. upper_bound' \in Value /\ upper_bound' <= upper_bound
    <2>1. CASE UNCHANGED upper_bound
      BY <2>1, InvariantIs, ValueIsNat
    <2>2. CASE \E c \in top.region : NewIncumbent(c)
      BY <1>2, <2>2, InvariantIs, NewIncumbentIs, ValueIsNat
    <2> QED
      BY <2>1, <2>2 DEF BecomesSuboptimal
  <1>4. /\ IsBound(top.lb, top.region, upper_bound')
        /\ top.lb >= DualBound
    <2>1. Fits(top, upper_bound, DualBound) /\ top \in StackNodes /\ top.open = 2
      BY <1>1, TopFits, EvaluatedTop
    <2>2. Fits(top, upper_bound', DualBound)
      BY <1>3, <2>1, InvariantIs, FitsLater
    <2> QED
      BY <2>1, <2>2 DEF Fits
  <1>5. \A lb \in Raised(top.lb, top.region, upper_bound') :
          /\ lb \in Value /\ lb >= DualBound
          /\ IsBound(lb, top.region, upper_bound')
    <2> SUFFICES ASSUME NEW lb \in Raised(top.lb, top.region, upper_bound')
                 PROVE  /\ lb \in Value /\ lb >= DualBound
                        /\ IsBound(lb, top.region, upper_bound')
      OBVIOUS
    <2>1. /\ lb \in Value /\ top.lb <= lb
          /\ IsBound(lb, top.region, upper_bound')
      BY <1>2, <1>3, <1>4, RaisedIs
    <2> QED
      BY <1>2, <1>4, <2>1, InvariantIs, ValueIsNat
  <1>6. Progress /\ \A c \in top.region : Waits(c, nodequeue')
    <2>1. CASE UNCHANGED <<upper_bound, domain>> /\ RequeueTop(nodequeue)
      <3>1. PICK lb \in Raised(top.lb, top.region, upper_bound') :
              nodequeue' = Emplace(nodequeue, top.region, lb, upper_bound)
        BY <2>1 DEF RequeueTop
      <3>2. /\ lb \in Value /\ lb >= DualBound
            /\ IsBound(lb, top.region, upper_bound)
        BY <1>5, <2>1
      <3> QED
        BY <1>1, <1>2, <2>1, <3>1, <3>2, EmplaceProgress DEF bounds
    <2>2. CASE (\E c \in top.region : NewIncumbent(c)) /\ RequeueTop(BoundedQueue)
      <3>1. PICK lb \in Raised(top.lb, top.region, upper_bound') :
              nodequeue' = Emplace(BoundedQueue, top.region, lb, upper_bound')
        BY <2>2 DEF RequeueTop
      <3>2. PICK c \in Cells : NewIncumbent(c)
        BY <1>2, <2>2
      <3> QED
        BY <1>1, <1>2, <1>5, <3>1, <3>2, IncumbentEmplaceProgress
    <2> QED
      BY <2>1, <2>2 DEF BecomesSuboptimal
  <1>7. \A c \in Useful(top.region, upper_bound') : Waits(c, nodequeue')
    BY <1>6 DEF Useful
  <1>8. /\ AllFit(nodestack', upper_bound', DualBound')
        /\ \A c \in Useful(Cells, upper_bound') :
             Stands(c, nodestack) =>
               Waits(c, nodequeue') \/ Stands(c, nodestack')
    BY <1>1, <1>6, <1>7, CutoffKeeps
  <1> QED
    BY <1>1, <1>6, <1>8, Evaluated

(* ... in branching, ...                                                     *)
LEMMA BranchedKeeps ==
  ASSUME IInv, TInv', Branching, Progress,
         pc' \in {"branch", "branched", "dive", "leaf"},
         AllFit(nodestack', upper_bound', DualBound'),
         \A c \in Useful(Cells, upper_bound') :
           Stands(c, nodestack) => Waits(c, nodequeue') \/ Stands(c, nodestack')
  PROVE  Better
  <1>1. pc \notin Ends /\ pc' \notin Ends /\ pc \notin RootPlaces
    BY DEF Branching, Ends, RootPlaces
  <1>2. limit_reached' => limited'
    BY DEF Branching, limits, IInv
  <1> QED
    BY <1>1, <1>2, Carries

LEMMA BranchTop ==
  ASSUME IInv, Branching
  PROVE  /\ nodestack /= <<>> /\ top.open = 2 /\ UNCHANGED lower_bound
         /\ top \in StackNodes /\ top.region \in SUBSET Cells /\ top.lb \in Value
         /\ IsBound(top.lb, top.region, upper_bound) /\ top.lb >= DualBound
         /\ NoIncumbent => Progress /\ UNCHANGED upper_bound /\ DualBound' = DualBound
  <1>1. nodestack /= <<>> /\ top.open = 2 /\ UNCHANGED lower_bound
    BY InvariantIs, BranchingIs
  <1>2. NoIncumbent => Progress /\ UNCHANGED upper_bound /\ DualBound' = DualBound
    BY <1>1, QuietProgress DEF NoIncumbent, bounds, DualBound
  <1> QED
    BY <1>1, <1>2, TopFits

LEMMA StrongBranchSolutionKeeps ==
  ASSUME IInv, TInv', StrongBranchSolution
  PROVE  Better
  <1>1. /\ Branching /\ UNCHANGED <<pc, nodestack, lower_bound>>
        /\ \E c \in Cells : AddIncumbent(c)
    BY BranchTop DEF StrongBranchSolution
  <1>2. Progress
    BY <1>1, MayProgress
  <1>3. pc' = "branch"
    BY <1>1 DEF Branching
  <1> QED
    BY <1>1, <1>2, <1>3, ProgressFits, BranchedKeeps

(* The children of a node, with a part of its cells each.                    *)
LEMMA PartFits ==
  ASSUME NEW region \in SUBSET Cells, NEW part \in SUBSET region,
         NEW lb \in Value, NEW ub \in Value, NEW d \in Value,
         IsBound(lb, region, ub), lb >= d
  PROVE  /\ IsBound(lb, part, ub) /\ Fits(Node(part, lb), ub, d)
         /\ Node(part, lb) \in StackNodes
         /\ \A c \in part : Standing(c, Node(part, lb))
         /\ \A other \in Value :
              IsBound(other, part, ub) =>
                Fits([region |-> part, lb |-> lb, open |-> 1, other |-> other],
                     ub, d)
         /\ \A other \in Value : \A c \in part :
              Standing(c, [region |-> part, lb |-> lb, open |-> 1,
                           other |-> other])
  <1>1. part \in SUBSET Cells
    OBVIOUS
  <1>2. IsBound(lb, part, ub)
    BY DEF IsBound, Useful
  <1>3. Fits(Node(part, lb), ub, d)
    BY <1>1, <1>2, NodeFits
  <1>4. /\ Node(part, lb) \in StackNodes
        /\ \A c \in part : Standing(c, Node(part, lb))
    BY <1>1, NodeIs DEF Standing
  <1>5. ASSUME NEW other \in Value, IsBound(other, part, ub)
        PROVE  Fits([region |-> part, lb |-> lb, open |-> 1, other |-> other],
                    ub, d)
    BY <1>2, <1>5 DEF Fits
  <1>6. \A other \in Value : \A c \in part :
          Standing(c, [region |-> part, lb |-> lb, open |-> 1, other |-> other])
    BY DEF Standing
  <1> QED
    BY <1>2, <1>3, <1>4, <1>5, <1>6

LEMMA StrongBranchKeeps ==
  ASSUME IInv, TInv', StrongBranch
  PROVE  Better
  <1>1. /\ Branching /\ pc' = "branched" /\ NoIncumbent /\ nodestack /= <<>>
    BY BranchTop DEF StrongBranch
  <1>2. /\ Progress /\ UNCHANGED upper_bound /\ DualBound' = DualBound
        /\ top.region \in SUBSET Cells /\ top.lb \in Value
        /\ IsBound(top.lb, top.region, upper_bound) /\ top.lb >= DualBound
    BY <1>1, BranchTop
  <1>3. PICK part \in Parts :
          LET rest == Node(top.region \ part, top.lb) IN
          \/ /\ Useful(part, upper_bound) = {}
             /\ nodestack' = Push([top EXCEPT !.open = 0], rest)
          \/ \E bound \in {b \in Bounds : IsBound(b, part, upper_bound)} :
               nodestack' = Push([region |-> part, lb |-> top.lb, open |-> 1,
                                  other |-> bound], rest)
    BY DEF StrongBranch
  <1> DEFINE rest == Node(top.region \ part, top.lb)
  <1>4. /\ part \in SUBSET top.region /\ top.region \ part \in SUBSET top.region
        /\ upper_bound \in Value /\ DualBound \in Value
    BY InvariantIs DEF Parts
  <1>5. /\ rest \in StackNodes /\ Fits(rest, upper_bound, DualBound)
        /\ \A c \in top.region \ part : Standing(c, rest)
    BY <1>2, <1>4, PartFits
  <1> HIDE DEF rest
  <1>6. PICK parent \in StackNodes :
          /\ nodestack' = Push(parent, rest)
          /\ Fits(parent, upper_bound, DualBound)
          /\ \A c \in Useful(top.region, upper_bound) :
               c \in part => Standing(c, parent)
    <2>1. CASE /\ Useful(part, upper_bound) = {}
               /\ nodestack' = Push([top EXCEPT !.open = 0], rest)
      <3>1. /\ [top EXCEPT !.open = 0] \in StackNodes
            /\ Fits([top EXCEPT !.open = 0], upper_bound, DualBound)
        BY <1>1, InvariantIs, ClosedIs, ClosedFits
      <3>2. \A c \in Useful(top.region, upper_bound) : c \notin part
        BY <2>1 DEF Useful
      <3> QED
        BY <2>1, <3>1, <3>2
    <2>2. CASE \E bound \in {b \in Bounds : IsBound(b, part, upper_bound)} :
                 nodestack' = Push([region |-> part, lb |-> top.lb, open |-> 1,
                                    other |-> bound], rest)
      <3>1. PICK bound \in Bounds :
              /\ IsBound(bound, part, upper_bound)
              /\ nodestack' = Push([region |-> part, lb |-> top.lb, open |-> 1,
                                    other |-> bound], rest)
        BY <2>2
      <3> DEFINE parent == [region |-> part, lb |-> top.lb, open |-> 1,
                            other |-> bound]
      <3>2. bound \in Value /\ part \in SUBSET Cells
        BY <1>2, <1>4, BoundsAssumption
      <3>3. parent \in StackNodes
        BY <1>2, <3>2, OpenIs
      <3>4. /\ Fits(parent, upper_bound, DualBound)
            /\ \A c \in part : Standing(c, parent)
        BY <1>2, <1>4, <3>1, <3>2, PartFits
      <3> HIDE DEF parent
      <3>5. nodestack' = Push(parent, rest)
        BY <3>1 DEF parent
      <3> QED
        BY <3>3, <3>4, <3>5
    <2> QED
      BY <1>3, <2>1, <2>2 DEF rest
  <1>7. \A c \in Useful(top.region, upper_bound) :
          Standing(c, parent) \/ Standing(c, rest)
    BY <1>5, <1>6 DEF Useful
  <1>8. /\ AllFit(nodestack', upper_bound', DualBound')
        /\ \A c \in Useful(Cells, upper_bound') :
             Stands(c, nodestack) =>
               Waits(c, nodequeue') \/ Stands(c, nodestack')
    BY <1>1, <1>2, <1>5, <1>6, <1>7, PushKeeps
  <1> QED
    BY <1>1, <1>2, <1>8, BranchedKeeps

LEMMA BranchTightensKeeps ==
  ASSUME IInv, TInv', BranchTightens
  PROVE  Better
  <1>1. /\ Branching /\ pc' = "branched" /\ NoIncumbent /\ nodestack /= <<>>
    BY BranchTop DEF BranchTightens
  <1>2. /\ Progress /\ UNCHANGED upper_bound /\ DualBound' = DualBound
        /\ top.region \in SUBSET Cells /\ top.lb \in Value
        /\ IsBound(top.lb, top.region, upper_bound) /\ top.lb >= DualBound
        /\ upper_bound \in Value /\ DualBound \in Value
    BY <1>1, BranchTop, InvariantIs
  <1>3. PICK region \in Propagations(top.region, upper_bound) :
          nodestack' = Replaced(Node(region, top.lb))
    BY DEF BranchTightens
  <1>4. top.lb \in Raised(top.lb, top.region, upper_bound)
    BY DEF Raised
  <1>5. /\ Node(region, top.lb) \in StackNodes
        /\ Fits(Node(region, top.lb), upper_bound, DualBound)
        /\ \A c \in Useful(top.region, upper_bound) :
             Standing(c, Node(region, top.lb))
    BY <1>2, <1>4, RaisedFits
  <1>6. /\ AllFit(nodestack', upper_bound', DualBound')
        /\ \A c \in Useful(Cells, upper_bound') :
             Stands(c, nodestack) =>
               Waits(c, nodequeue') \/ Stands(c, nodestack')
    BY <1>1, <1>2, <1>3, <1>5, ReplacedKeeps
  <1> QED
    BY <1>1, <1>2, <1>6, BranchedKeeps

LEMMA BranchKeeps ==
  ASSUME IInv, TInv', Branch
  PROVE  Better
  <1>1. /\ Branching /\ pc' = "dive" /\ NoIncumbent /\ nodestack /= <<>>
    BY BranchTop DEF Branch
  <1>2. /\ Progress /\ UNCHANGED upper_bound /\ DualBound' = DualBound
        /\ top.region \in SUBSET Cells /\ top.lb \in Value
        /\ IsBound(top.lb, top.region, upper_bound) /\ top.lb >= DualBound
        /\ upper_bound \in Value /\ DualBound \in Value
    BY <1>1, BranchTop, InvariantIs
  <1>3. PICK part \in Parts :
          \E lb \in Raised(top.lb, part, upper_bound),
             other \in Raised(top.lb, top.region \ part, upper_bound) :
            nodestack' = Push([region |-> top.region \ part, lb |-> top.lb,
                               open |-> 1, other |-> other],
                              Node(part, lb))
    BY DEF Branch
  <1> DEFINE rest == top.region \ part
  <1>4. PICK lb \in Raised(top.lb, part, upper_bound),
             other \in Raised(top.lb, rest, upper_bound) :
          nodestack' = Push([region |-> rest, lb |-> top.lb, open |-> 1,
                             other |-> other], Node(part, lb))
    BY <1>3
  <1>5. /\ part \in SUBSET top.region /\ rest \in SUBSET top.region
        /\ part \in SUBSET Cells /\ rest \in SUBSET Cells
        /\ \A c \in top.region : c \in part \/ c \in rest
    BY <1>2 DEF Parts
  <1> HIDE DEF rest
  <1> DEFINE parent == [region |-> rest, lb |-> top.lb, open |-> 1,
                        other |-> other]
  <1>6. IsBound(top.lb, part, upper_bound) /\ IsBound(top.lb, rest, upper_bound)
    BY <1>2, <1>5, PartFits
  <1>7. /\ Node(part, lb) \in StackNodes
        /\ Fits(Node(part, lb), upper_bound, DualBound)
        /\ \A c \in Useful(part, upper_bound) : Standing(c, Node(part, lb))
    BY <1>2, <1>5, <1>6, Itself, RaisedFits
  <1>8. other \in Value /\ IsBound(other, rest, upper_bound)
    BY <1>2, <1>5, <1>6, RaisedIs
  <1>9. parent \in StackNodes
    BY <1>2, <1>5, <1>8, OpenIs
  <1>10. /\ Fits(parent, upper_bound, DualBound)
         /\ \A c \in rest : Standing(c, parent)
    BY <1>2, <1>5, <1>8, PartFits
  <1> HIDE DEF parent
  <1>11. nodestack' = Push(parent, Node(part, lb))
    BY <1>4 DEF parent
  <1>12. \A c \in Useful(top.region, upper_bound) :
           Standing(c, parent) \/ Standing(c, Node(part, lb))
    BY <1>5, <1>7, <1>10 DEF Useful
  <1>13. /\ AllFit(nodestack', upper_bound', DualBound')
         /\ \A c \in Useful(Cells, upper_bound') :
              Stands(c, nodestack) =>
                Waits(c, nodequeue') \/ Stands(c, nodestack')
    BY <1>1, <1>2, <1>7, <1>9, <1>10, <1>11, <1>12, PushKeeps
  <1> QED
    BY <1>1, <1>2, <1>13, BranchedKeeps

LEMMA BranchFixedKeeps ==
  ASSUME IInv, TInv', BranchFixed
  PROVE  Better
  <1>1. /\ Branching /\ pc' = "leaf" /\ nodestack' = Cutoff
        /\ nodestack /= <<>> /\ UNCHANGED lower_bound
        /\ top.region \in SUBSET Cells
    BY BranchTop DEF BranchFixed
  <1>2. PICK c \in top.region : top.region = {c} /\ MayAddIncumbent(c)
    BY DEF BranchFixed
  <1>3. c \in Cells /\ Cost[c] \in Nat
    BY <1>1, CostIs
  <1>4. Progress /\ upper_bound' <= Cost[c]
    <2>1. CASE Improves(c)
      BY <1>1, <1>2, <1>3, <2>1, IncumbentProgress DEF MayAddIncumbent
    <2>2. CASE ~Improves(c)
      <3>1. NoIncumbent
        BY <1>2, <2>2 DEF MayAddIncumbent
      <3> QED
        BY <1>1, <1>3, <2>2, <3>1, BranchTop, InvariantIs, ValueIsNat DEF Improves
    <2> QED
      BY <2>1, <2>2
  <1>5. Useful(top.region, upper_bound') = {}
    <2>1. upper_bound' \in Value
      BY DEF TInv, TypeOK
    <2>2. ~(Cost[c] < upper_bound')
      BY <1>3, <1>4, <2>1, ValueIsNat
    <2>3. ~(Cost[c] < UpperLimit(upper_bound'))
      BY <1>3, <1>4, <2>1, <2>2, UsefulIsBetter DEF Progress
    <2> QED
      BY <1>2, <2>3 DEF Useful
  <1>6. /\ AllFit(nodestack', upper_bound', DualBound')
        /\ \A e \in Useful(Cells, upper_bound') :
             Stands(e, nodestack) =>
               Waits(e, nodequeue') \/ Stands(e, nodestack')
    BY <1>1, <1>4, <1>5, CutoffKeeps
  <1> QED
    BY <1>1, <1>4, <1>6, BranchedKeeps
(* ... and in backtracking and the steps around it.                          *)
LEMMA DiveKeeps ==
  ASSUME IInv, TInv', SkipHeuristics \/ DiveEnds \/ Leaf
  PROVE  Better
  <1>1. /\ pc \notin Ends /\ pc' \notin Ends /\ pc \notin RootPlaces
        /\ UNCHANGED <<nodestack, nodequeue, domain, bounds>>
    BY DEF SkipHeuristics, DiveEnds, Leaf, Ends, RootPlaces
  <1>2. limit_reached' => limited'
    <2>1. CASE SkipHeuristics \/ DiveEnds
      BY <2>1 DEF SkipHeuristics, DiveEnds, limits, IInv
    <2>2. CASE Leaf
      <3>1. PICK reached \in BOOLEAN : limited' = reached /\ limit_reached' = reached
        BY <2>2 DEF Leaf, CheckLimits
      <3> QED
        BY <3>1
    <2> QED
      BY <2>1, <2>2
  <1>3. Progress
    BY <1>1, QuietProgress
  <1> QED
    BY <1>1, <1>2, <1>3, ProgressFits, Carries

LEMMA BacktrackedKeeps ==
  ASSUME IInv, TInv', Progress, pc \in {"backtrack", "store"},
         pc' \in {"backtrack", "store", "dive"}, UNCHANGED limits,
         AllFit(nodestack', upper_bound', DualBound'),
         \A c \in Useful(Cells, upper_bound') :
           Stands(c, nodestack) => Waits(c, nodequeue') \/ Stands(c, nodestack')
  PROVE  Better
  <1>1. pc \notin Ends /\ pc' \notin Ends /\ pc \notin RootPlaces
    BY DEF Ends, RootPlaces
  <1>2. limit_reached' => limited'
    BY DEF limits, IInv
  <1> QED
    BY <1>1, <1>2, Carries

LEMMA BacktrackTop ==
  ASSUME IInv, Backtracking
  PROVE  /\ nodestack /= <<>> /\ pc \in {"backtrack", "store"}
         /\ UNCHANGED <<domain, bounds, limits>> /\ UNCHANGED upper_bound
         /\ DualBound' = DualBound
         /\ upper_bound \in Value /\ DualBound \in Value
         /\ top.region \in SUBSET Cells /\ top.lb \in Value /\ OtherLb \in Value
         /\ top.open = 1 =>
              IsBound(OtherLb, top.region, upper_bound) /\ OtherLb >= DualBound
         /\ UNCHANGED nodequeue => Progress
  <1>1. /\ nodestack /= <<>> /\ pc \in {"backtrack", "store"}
        /\ UNCHANGED <<domain, bounds, limits>>
    BY DEF Backtracking
  <1>2. UNCHANGED upper_bound /\ DualBound' = DualBound
    BY <1>1 DEF bounds, DualBound
  <1>3. UNCHANGED nodequeue => Progress
    BY <1>1, QuietProgress
  <1> QED
    BY <1>1, <1>2, <1>3, TopFits, InvariantIs

LEMMA BacktrackKeeps ==
  ASSUME IInv, TInv', Backtrack
  PROVE  Better
  <1>1. /\ Backtracking /\ top.open = 0 /\ UNCHANGED nodequeue
        /\ pc' = IF nodestack' = <<>> THEN "store" ELSE pc
    BY DEF Backtrack
  <1>2. /\ nodestack /= <<>> /\ Progress /\ pc \in {"backtrack", "store"}
        /\ UNCHANGED <<limits, upper_bound>> /\ DualBound' = DualBound
        /\ nodestack \in Seq(StackNodes)
        /\ upper_bound \in Value /\ DualBound \in Value
    BY <1>1, BacktrackTop, InvariantIs DEF TypeOK
  <1>3. \A c : Stands(c, nodestack) => Under(c, nodestack)
    BY <1>1, <1>2, StackIs DEF Standing, top
  <1>4. /\ Popped \in Seq(StackNodes) /\ Len(Popped) = Len(nodestack) - 1
        /\ \A i \in 1..(Len(nodestack) - 1) : Popped[i] = nodestack[i]
    BY <1>2, InvariantIs, PoppedIs
  <1>5. \A c : Stands(c, nodestack) => Stands(c, Popped)
    BY <1>3, <1>4 DEF Under, Stands, Standing
  <1>6. AllFit(Popped, upper_bound, DualBound)
    BY <1>2, <1>4, InvariantIs, StackIs DEF AllFit
  <1>7. CASE Len(Popped) = 0
    <2>1. nodestack' = <<>>
      BY <1>7 DEF Backtrack
    <2>2. AllFit(nodestack', upper_bound', DualBound')
      BY <2>1 DEF AllFit
    <2>3. \A c : ~Stands(c, nodestack)
      BY <1>5, <1>7 DEF Stands
    <2>4. pc' \in {"backtrack", "store", "dive"}
      BY <1>1, <2>1
    <2> QED
      BY <1>2, <2>2, <2>3, <2>4, BacktrackedKeeps
  <1>8. CASE Len(Popped) /= 0
    <2> DEFINE parent == Popped[Len(Popped)]
               node(region) == [parent EXCEPT !.region = region,
                                  !.open = IF region = {} THEN 0 ELSE @]
    <2>1. Popped /= <<>> /\ parent \in StackNodes
      BY <1>4, <1>8, NotEmpty
    <2>2. /\ parent.region \in SUBSET Cells
          /\ Fits(parent, upper_bound, DualBound)
      BY <1>4, <1>6, <2>1, StackIs DEF StackNodes
    <2>3. PICK region \in Propagations(parent.region, upper_bound) :
            nodestack' = [Popped EXCEPT ![Len(Popped)] = node(region)]
      BY <1>8 DEF Backtrack
    <2>4. /\ region \in SUBSET Cells /\ region \subseteq parent.region
          /\ Useful(parent.region, upper_bound) \subseteq region
      BY <1>2, <2>2, PropagationsAre
    <2>5. /\ node(region) \in StackNodes /\ node(region).region = region
          /\ node(region).lb = parent.lb /\ node(region).other = parent.other
          /\ node(region).open = IF region = {} THEN 0 ELSE parent.open
      BY <2>1, <2>4, AncestorIs
    <2> HIDE DEF node, parent
    <2>6. Fits(node(region), upper_bound, DualBound)
      BY <2>2, <2>4, <2>5 DEF Fits, IsBound, Useful
    <2>7. /\ AllFit(nodestack', upper_bound, DualBound)
          /\ \A c : Stands(c, nodestack') <=>
                      Under(c, Popped) \/ Standing(c, node(region))
      BY <1>4, <1>6, <2>1, <2>3, <2>5, <2>6, ReplacingKeeps
    <2>8. ASSUME NEW c \in Useful(Cells, upper_bound), Stands(c, nodestack)
          PROVE  Stands(c, nodestack')
      <3>1. Under(c, Popped) \/ Standing(c, parent)
        BY <1>4, <1>5, <2>1, <2>8, StackIs DEF parent
      <3>2. Standing(c, parent) => Standing(c, node(region))
        BY <2>4, <2>5 DEF Standing, Useful
      <3> QED
        BY <2>7, <3>1, <3>2
    <2>9. pc' \in {"backtrack", "store", "dive"}
      BY <1>1, <1>2
    <2> QED
      BY <1>2, <2>7, <2>8, <2>9, BacktrackedKeeps
  <1> QED
    BY <1>7, <1>8

LEMMA BetterIsUseless ==
  ASSUME IInv, NEW lb \in Value, NEW region \in SUBSET Cells,
         IsBound(lb, region, upper_bound),
         lb > UpperLimit(upper_bound) \/ Useful(region, upper_bound) = {}
  PROVE  Useful(region, upper_bound) = {}
  BY InvariantIs, BoundOfNothing

LEMMA PruneChildKeeps ==
  ASSUME IInv, TInv', PruneChild
  PROVE  Better
  <1>1. /\ Backtracking /\ top.open = 1 /\ nodestack' = Cutoff
        /\ UNCHANGED <<pc, nodequeue>>
        /\ OtherLb > UpperLimit(upper_bound) \/ Useful(top.region, upper_bound) = {}
    BY DEF PruneChild
  <1>2. Useful(top.region, upper_bound) = {}
    BY <1>1, BacktrackTop, BetterIsUseless
  <1>3. Useful(top.region, upper_bound') = {}
    BY <1>1, <1>2, BacktrackTop
  <1>4. /\ AllFit(nodestack', upper_bound', DualBound')
        /\ \A c \in Useful(Cells, upper_bound') :
             Stands(c, nodestack) =>
               Waits(c, nodequeue') \/ Stands(c, nodestack')
    BY <1>1, <1>3, BacktrackTop, CutoffKeeps
  <1> QED
    BY <1>1, <1>4, BacktrackTop, BacktrackedKeeps

LEMMA QueueChildKeeps ==
  ASSUME IInv, TInv', QueueChild
  PROVE  Better
  <1>1. /\ Backtracking /\ top.open = 1 /\ nodestack' = Cutoff /\ UNCHANGED pc
    BY DEF QueueChild
  <1>2. PICK region \in Propagations(top.region, upper_bound) \ {{}},
             lb \in Raised(OtherLb, top.region, upper_bound) :
          nodequeue' = Emplace(nodequeue, region, lb, upper_bound)
    BY DEF QueueChild
  <1>3. /\ lb \in Value /\ region \in SUBSET Cells /\ lb >= DualBound
        /\ IsBound(lb, region, upper_bound)
        /\ \A c \in Useful(top.region, upper_bound) : c \in region
    <2>1. /\ upper_bound \in Value /\ DualBound \in Value
          /\ top.region \in SUBSET Cells /\ OtherLb \in Value
          /\ IsBound(OtherLb, top.region, upper_bound) /\ OtherLb >= DualBound
      BY <1>1, BacktrackTop
    <2>2. /\ lb \in Value /\ OtherLb <= lb
          /\ IsBound(lb, top.region, upper_bound)
      BY <1>2, <2>1, RaisedIs
    <2>3. /\ region \in SUBSET Cells
          /\ Useful(top.region, upper_bound) \subseteq region
          /\ Useful(top.region, upper_bound) = Useful(region, upper_bound)
      BY <1>2, <2>1, PropagationsAre
    <2>4. IsBound(lb, region, upper_bound)
      BY <2>2, <2>3 DEF IsBound
    <2> QED
      BY <2>1, <2>2, <2>3, <2>4, ValueIsNat
  <1>4. Progress /\ \A c \in region : Waits(c, nodequeue')
    BY <1>1, <1>2, <1>3, BacktrackTop, EmplaceProgress
  <1>5. \A c \in Useful(top.region, upper_bound') : Waits(c, nodequeue')
    BY <1>1, <1>3, <1>4, BacktrackTop
  <1>6. /\ AllFit(nodestack', upper_bound', DualBound')
        /\ \A c \in Useful(Cells, upper_bound') :
             Stands(c, nodestack) =>
               Waits(c, nodequeue') \/ Stands(c, nodestack')
    BY <1>1, <1>4, <1>5, BacktrackTop, CutoffKeeps
  <1> QED
    BY <1>1, <1>4, <1>6, BacktrackTop, BacktrackedKeeps

LEMMA PushChildKeeps ==
  ASSUME IInv, TInv', PushChild
  PROVE  Better
  <1>1. /\ Backtracking /\ top.open = 1 /\ UNCHANGED nodequeue
        /\ pc' = IF pc = "store" THEN "store" ELSE "dive"
    BY DEF PushChild
  <1>2. PICK region \in Propagations(top.region, upper_bound) \ {{}},
             lb \in IF pc = "store" THEN {OtherLb}
                    ELSE Raised(OtherLb, top.region, upper_bound) :
          nodestack' = Push([top EXCEPT !.open = 0], Node(region, lb))
    BY DEF PushChild
  <1>3. lb \in Raised(OtherLb, top.region, upper_bound)
    BY <1>2 DEF Raised
  <1>4. /\ Node(region, lb) \in StackNodes
        /\ Fits(Node(region, lb), upper_bound, DualBound)
        /\ \A c \in Useful(top.region, upper_bound) : Standing(c, Node(region, lb))
    <2>1. /\ upper_bound \in Value /\ DualBound \in Value
          /\ top.region \in SUBSET Cells /\ OtherLb \in Value
          /\ IsBound(OtherLb, top.region, upper_bound) /\ OtherLb >= DualBound
      BY <1>1, BacktrackTop
    <2>2. region \in Propagations(top.region, upper_bound)
      BY <1>2
    <2> QED
      BY <1>3, <2>1, <2>2, RaisedFits
  <1>5. /\ [top EXCEPT !.open = 0] \in StackNodes
        /\ Fits([top EXCEPT !.open = 0], upper_bound, DualBound)
    BY <1>1, BacktrackTop, InvariantIs, ClosedIs, ClosedFits
  <1>6. /\ AllFit(nodestack', upper_bound', DualBound')
        /\ \A c \in Useful(Cells, upper_bound') :
             Stands(c, nodestack) =>
               Waits(c, nodequeue') \/ Stands(c, nodestack')
    BY <1>1, <1>2, <1>4, <1>5, BacktrackTop, PushKeeps
  <1>7. pc' \in {"backtrack", "store", "dive"}
    BY <1>1
  <1> QED
    BY <1>1, <1>6, <1>7, BacktrackTop, BacktrackedKeeps

LEMMA StoreKeeps ==
  ASSUME IInv, TInv', Store
  PROVE  Better
  <1>1. /\ pc = "store" /\ UNCHANGED pc /\ nodestack /= <<>> /\ top.open = 2
        /\ nodestack' = Cutoff /\ UNCHANGED <<domain, bounds, limits>>
        /\ UNCHANGED upper_bound
    BY DEF Store, bounds
  <1>2. /\ top.region \in SUBSET Cells /\ top.lb \in Value
        /\ IsBound(top.lb, top.region, upper_bound) /\ top.lb >= DualBound
        /\ upper_bound \in Value /\ DualBound \in Value
    BY <1>1, TopFits, InvariantIs
  <1>3. Progress /\ \A c \in Useful(top.region, upper_bound') : Waits(c, nodequeue')
    <2>1. CASE /\ \/ top.lb > UpperLimit(upper_bound)
                  \/ Useful(top.region, upper_bound) = {}
               /\ UNCHANGED nodequeue
      <3>1. Useful(top.region, upper_bound) = {}
        BY <1>2, <2>1, BetterIsUseless
      <3> QED
        BY <1>1, <2>1, <3>1, QuietProgress
    <2>2. CASE \E region \in Propagations(top.region, upper_bound) \ {{}},
                  lb \in Raised(top.lb, top.region, upper_bound) :
                 nodequeue' = Emplace(nodequeue, region, lb, upper_bound)
      <3>1. PICK region \in Propagations(top.region, upper_bound) \ {{}},
                 lb \in Raised(top.lb, top.region, upper_bound) :
              nodequeue' = Emplace(nodequeue, region, lb, upper_bound)
        BY <2>2
      <3>2. /\ lb \in Value /\ region \in SUBSET Cells /\ lb >= DualBound
            /\ IsBound(lb, region, upper_bound)
            /\ \A c \in Useful(top.region, upper_bound) : c \in region
        <4>1. /\ lb \in Value /\ top.lb <= lb
              /\ IsBound(lb, top.region, upper_bound)
          BY <1>2, RaisedIs
        <4>2. /\ region \in SUBSET Cells
              /\ Useful(top.region, upper_bound) \subseteq region
              /\ Useful(top.region, upper_bound) = Useful(region, upper_bound)
          BY <1>2, <3>1, PropagationsAre
        <4>3. IsBound(lb, region, upper_bound)
          BY <4>1, <4>2 DEF IsBound
        <4> QED
          BY <1>2, <4>1, <4>2, <4>3, ValueIsNat
      <3>3. Progress /\ \A c \in region : Waits(c, nodequeue')
        BY <1>1, <3>1, <3>2, EmplaceProgress
      <3> QED
        BY <1>1, <3>2, <3>3
    <2> QED
      BY <2>1, <2>2 DEF Store
  <1>4. /\ AllFit(nodestack', upper_bound', DualBound')
        /\ \A c \in Useful(Cells, upper_bound') :
             Stands(c, nodestack) =>
               Waits(c, nodequeue') \/ Stands(c, nodestack')
    BY <1>1, <1>3, CutoffKeeps
  <1> QED
    BY <1>1, <1>3, <1>4, BacktrackedKeeps

LEMMA SeparateKeeps ==
  ASSUME IInv, TInv', Separate
  PROVE  Better
  <1>1. /\ pc = "separate" /\ UNCHANGED limits /\ (limit_reached' => limited')
        /\ pc \notin Ends /\ pc \notin RootPlaces
        /\ nodestack /= <<>> /\ top.open = 2
    BY DEF Separate, IInv, TInv, Shape, Single, Opened, limits, Ends, RootPlaces
  <1>2. /\ upper_bound' \in Value /\ upper_bound' <= upper_bound
        /\ Real(upper_bound')
        /\ \A c \in Useful(Cells, upper_bound') : c \in domain'
        /\ domain' = {} => nodequeue' = {}
        /\ UNCHANGED lower_bound => Progress
    <2>1. CASE \E c \in Cells : AddIncumbent(c)
      <3>1. PICK c \in Cells : AddIncumbent(c)
        BY <2>1
      <3>2. upper_bound' = Cost[c] /\ Cost[c] < upper_bound /\ Cost[c] \in Value
        BY <3>1, CostIs DEF AddIncumbent, NewIncumbent, Improves
      <3>3. \A e \in Useful(Cells, upper_bound') : e \in Useful(Cells, upper_bound)
        BY <3>2, InvariantIs, ValueIsNat, UsefulShrinks
      <3>4. \A e \in Useful(Cells, upper_bound') : e \in domain'
        BY <1>1, <3>1, <3>2, <3>3
        DEF AddIncumbent, NewIncumbent, Propagations, Useful, IInv, Kept
      <3>5. domain' = {} => nodequeue' = {}
        BY <3>1 DEF AddIncumbent, BoundedQueue
      <3>6. UNCHANGED lower_bound => Progress
        BY <3>1, IncumbentProgress
      <3> QED
        BY <3>2, <3>4, <3>5, <3>6, InvariantIs, ValueIsNat DEF Real
    <2>2. CASE /\ domain' \in Propagations(domain, upper_bound)
               /\ nodequeue' = IF domain' = {} THEN {} ELSE nodequeue
               /\ UNCHANGED upper_bound
      <3>1. \A e \in Useful(Cells, upper_bound') : e \in domain /\ e \in domain'
        BY <1>1, <2>2 DEF Propagations, Useful, IInv, Kept
      <3>2. AllQueued(nodequeue', upper_bound, DualBound)
        BY <2>2, InvariantIs DEF AllQueued
      <3>3. \A e \in Useful(Cells, upper_bound') :
              Waits(e, nodequeue) => Waits(e, nodequeue')
        BY <2>2, <3>1
      <3>4. UNCHANGED lower_bound => DualBound' = DualBound
        BY <2>2 DEF DualBound
      <3>5. UNCHANGED lower_bound => Progress
        BY <2>2, <3>1, <3>2, <3>3, <3>4, InvariantIs, ValueIsNat DEF Progress
      <3> QED
        BY <2>2, <3>1, <3>5, InvariantIs, ValueIsNat
    <2> QED
      BY <2>1, <2>2 DEF Separate
  <1>3. CASE domain' = {}
    <2>1. /\ pc' = "done" /\ nodestack' = <<>> /\ lower_bound' = upper_bound'
          /\ nodequeue' = {}
      BY <1>2, <1>3 DEF Separate
    <2>2. Useful(Cells, upper_bound') = {}
      BY <1>2, <1>3
    <2>3. /\ Below(upper_bound')
          /\ \A c \in Cells : Cost[c] >= OptimalityLimit(upper_bound')
      BY <1>2, <2>2, NothingUseful
    <2>4. DualBound' = upper_bound'
      BY <1>2, <2>1, ValueIsNat DEF DualBound, Lower
    <2>5. /\ AllQueued(nodequeue', upper_bound', DualBound')
          /\ AllFit(nodestack', upper_bound', DualBound')
      BY <2>1 DEF AllQueued, AllFit
    <2>6. IInv'
      BY <1>1, <1>2, <2>1, <2>3, <2>4, <2>5, Holds DEF Ends
    <2>7. DualBound <= upper_bound'
      <3>1. upper_bound' = upper_bound \/ \E c \in Cells : upper_bound' = Cost[c]
        BY DEF Separate, AddIncumbent, NewIncumbent
      <3> QED
        BY <3>1, InvariantIs DEF Below
    <2> QED
      BY <1>2, <2>4, <2>6, <2>7, InvariantIs, ValueIsNat DEF Better
  <1>4. CASE domain' /= {}
    <2>1. pc' = "plunge" /\ UNCHANGED lower_bound /\ Progress
      BY <1>2, <1>4 DEF Separate
    <2>2. PICK region \in Propagations(top.region, upper_bound') :
            nodestack' = Replaced(Node(region, top.lb))
      BY <1>4 DEF Separate
    <2>3. /\ top.region \in SUBSET Cells /\ top.lb \in Value
          /\ DualBound' \in Value /\ Fits(top, upper_bound', DualBound')
      BY <1>1, <2>1, TopFits, ProgressFits, InvariantIs DEF Progress
    <2>4. IsBound(top.lb, top.region, upper_bound') /\ top.lb >= DualBound'
      BY <1>1, <2>3 DEF Fits
    <2>5. top.lb \in Raised(top.lb, top.region, upper_bound')
      BY DEF Raised
    <2>6. /\ Node(region, top.lb) \in StackNodes
          /\ Fits(Node(region, top.lb), upper_bound', DualBound')
          /\ \A c \in Useful(top.region, upper_bound') :
               Standing(c, Node(region, top.lb))
      BY <1>2, <2>3, <2>4, <2>5, RaisedFits
    <2>7. /\ AllFit(nodestack', upper_bound', DualBound')
          /\ \A c \in Useful(Cells, upper_bound') :
               Stands(c, nodestack) =>
                 Waits(c, nodequeue') \/ Stands(c, nodestack')
      BY <1>1, <2>1, <2>2, <2>6, ReplacedKeeps
    <2> QED
      BY <1>1, <2>1, <2>7, Carries DEF Ends
  <1> QED
    BY <1>3, <1>4

LEMMA RestartKeeps ==
  ASSUME IInv, TInv', Restart
  PROVE  Better
  <1>1. /\ pc = "stored" /\ nodequeue' = {} /\ UNCHANGED <<nodestack, limits>>
        /\ limit_reached' => limited'
    BY DEF Restart, IInv, limits
  <1>2. pc \in Between
    BY <1>1 DEF Between
  <1>3. /\ \A c \in Useful(Cells, upper_bound) : c \in domain /\ Waits(c, nodequeue)
        /\ \A ub, d : AllFit(nodestack', ub, d) /\ AllQueued(nodequeue', ub, d)
    BY <1>1, <1>2, BetweenIs DEF AllQueued
  <1>4. PICK d \in SUBSET domain :
          /\ Useful(Hull(nodequeue, domain), upper_bound) \subseteq d
          /\ \/ /\ domain' \in Propagations(d, upper_bound)
                /\ lower_bound' \in
                     LeastOf({upper_bound} \cup LowerBounds(Meeting(nodequeue, d)))
                /\ pc' = "setup" /\ UNCHANGED upper_bound
             \/ /\ Useful(d, upper_bound) = {}
                /\ lower_bound' = upper_bound
                /\ pc' = "done" /\ UNCHANGED upper_bound
             \/ \E c \in d :
                  /\ Improves(c) /\ IsBound(Cost[c], d, upper_bound)
                  /\ upper_bound' = Cost[c] /\ lower_bound' = Cost[c]
                  /\ pc' = "done"
    BY DEF Restart
  <1>5. /\ \A c \in Useful(Cells, upper_bound) :
             c \in d /\ Waits(c, Meeting(nodequeue, d))
        /\ AllQueued(Meeting(nodequeue, d), upper_bound, DualBound)
        /\ Meeting(nodequeue, d) \in SUBSET Nodes
    BY <1>3, <1>4, HullKeeps
  <1>6. CASE /\ domain' \in Propagations(d, upper_bound)
             /\ lower_bound' \in
                  LeastOf({upper_bound} \cup LowerBounds(Meeting(nodequeue, d)))
             /\ pc' = "setup" /\ UNCHANGED upper_bound
    <2> DEFINE left == Meeting(nodequeue, d)
    <2>1. /\ lower_bound' \in Value
          /\ \A n \in left : lower_bound' <= n.lb
          /\ lower_bound' = upper_bound \/ \E n \in left : lower_bound' = n.lb
      BY <1>5, <1>6, InvariantIs, LeastOfQueue
    <2>2. DualBound' = Lower(lower_bound', upper_bound)
      BY <1>6 DEF DualBound
    <2>3. Below(DualBound') /\ DualBound' >= DualBound
      <3> HIDE DEF left
      <3> QED
        BY <1>5, <2>1, <2>2, InvariantIs, NewBound DEF left
    <2>4. \A c \in Useful(Cells, upper_bound) : c \in domain'
      BY <1>5, <1>6 DEF Propagations, Useful
    <2>5. IInv'
      BY <1>1, <1>3, <1>6, <2>3, <2>4, InvariantIs, Holds DEF Ends, RootPlaces
    <2> QED
      BY <2>3, <2>5 DEF Better
  <1>7. CASE /\ Useful(d, upper_bound) = {}
             /\ lower_bound' = upper_bound
             /\ pc' = "done" /\ UNCHANGED upper_bound
    <2>1. Useful(Cells, upper_bound) = {}
      BY <1>5, <1>7 DEF Useful
    <2>2. Below(upper_bound)
            /\ \A c \in Cells : Cost[c] >= OptimalityLimit(upper_bound)
      BY <2>1, InvariantIs, NothingUseful
    <2>3. DualBound' = upper_bound
      BY <1>7, InvariantIs, ValueIsNat DEF DualBound, Lower
    <2>4. IInv'
      BY <1>1, <1>3, <1>7, <2>2, <2>3, InvariantIs, Holds DEF Ends
    <2> QED
      BY <2>3, <2>4, InvariantIs, ValueIsNat DEF Better
  <1>8. CASE \E c \in d :
               /\ Improves(c) /\ IsBound(Cost[c], d, upper_bound)
               /\ upper_bound' = Cost[c] /\ lower_bound' = Cost[c]
               /\ pc' = "done"
    <2>1. PICK c \in d :
            /\ Improves(c) /\ IsBound(Cost[c], d, upper_bound)
            /\ upper_bound' = Cost[c] /\ lower_bound' = Cost[c]
            /\ pc' = "done"
      BY <1>8
    <2>2. c \in Cells /\ Cost[c] \in Value /\ Cost[c] < upper_bound
      BY <2>1, InvariantIs, CostIs DEF Improves
    <2>3. DualBound' = Cost[c]
      BY <2>1, <2>2, ValueIsNat DEF DualBound, Lower
    <2>4. Below(Cost[c])
      <3> SUFFICES ASSUME NEW e \in Cells
                   PROVE  Cost[c] <= Cost[e]
        BY DEF Below
      <3>1. /\ Cost[e] \in Nat /\ upper_bound \in Nat /\ Cost[c] \in Nat
            /\ Cost[e] < UpperLimit(upper_bound) <=> Cost[e] < upper_bound
        BY <2>2, InvariantIs, CostIs, ValueIsNat, UsefulIsBetter
      <3>2. CASE Cost[e] < upper_bound
        <4>1. e \in d
          BY <1>5, <3>1, <3>2 DEF Useful
        <4> QED
          BY <2>1, <3>1, <3>2, <4>1 DEF IsBound, Useful
      <3>3. CASE ~(Cost[e] < upper_bound)
        BY <2>2, <3>1, <3>3
      <3> QED
        BY <3>2, <3>3
    <2>5. \A e \in Cells : Cost[e] >= OptimalityLimit(upper_bound')
      <3>1. OptimalityLimit(Cost[c]) \in Int /\ OptimalityLimit(Cost[c]) <= Cost[c]
        BY <2>2, ValueIsNat, BoundsAssumption DEF OptimalityLimit
      <3> QED
        BY <2>1, <2>2, <2>4, <3>1, CostIs, ValueIsNat DEF Below
    <2>6. Real(upper_bound')
      BY <2>1, <2>2 DEF Real
    <2>7. IInv'
      BY <1>1, <1>3, <2>1, <2>3, <2>4, <2>5, <2>6, Holds DEF Ends
    <2>8. DualBound <= Cost[c]
      BY <2>2, InvariantIs DEF Below
    <2> QED
      BY <2>2, <2>3, <2>7, <2>8, InvariantIs, ValueIsNat DEF Better
  <1> QED
    BY <1>4, <1>6, <1>7, <1>8

LEMMA QuietKeeps ==
  ASSUME IInv, TInv', Destroy \/ Answer \/ UNCHANGED vars
  PROVE  Better
  <1>1. /\ UNCHANGED <<nodestack, nodequeue, domain, bounds, limits>>
        /\ pc' = pc \/ (pc = "done" /\ pc' = "returned")
    BY DEF Destroy, Answer, vars
  <1>2. Progress
    BY <1>1, QuietProgress
  <1>3. limit_reached' => limited'
    BY <1>1 DEF limits, IInv
  <1>4. CASE pc' \notin Ends
    BY <1>1, <1>2, <1>3, <1>4, ProgressFits, Carries DEF Ends
  <1>5. CASE pc' \in Ends
    <2>1. pc \in Ends
      BY <1>1, <1>5 DEF Ends
    <2>2. limited' \/ \A c \in Cells : Cost[c] >= OptimalityLimit(upper_bound')
      BY <1>1, <2>1 DEF IInv, Proved, limits, bounds
    <2> QED
      BY <1>1, <1>2, <1>3, <1>5, <2>2, ProgressFits, Concludes
  <1> QED
    BY <1>4, <1>5

LEMMA Step ==
  ASSUME IInv, [Next]_vars
  PROVE  Better
  <1>1. TInv'
    BY TypeStep DEF IInv
  <1> QED
    BY <1>1, HeuristicKeeps, InterruptKeeps, RootLpKeeps, RootInfeasibleKeeps,
       RootIntegralKeeps, RootCutoffKeeps, RootQueueKeeps, StartSearchKeeps,
       DiveKeeps, SuboptimalKeeps, InfeasibleKeeps, IntegralKeeps, StaysOpenKeeps,
       BecomesSuboptimalKeeps, StrongBranchSolutionKeeps, StrongBranchKeeps,
       BranchTightensKeeps, BranchKeeps, BranchFixedKeeps, BacktrackKeeps,
       PruneChildKeeps, QueueChildKeeps, PushChildKeeps, StoreKeeps, EndStoreKeeps,
       NextNodeKeeps, RestartKeeps, InstallNodeKeeps, NodePrunedKeeps,
       SeparateKeeps, QuietKeeps
    DEF Next, Solve, Done

-----------------------------------------------------------------------------
(* The inductive invariant of the search, in every instance.                 *)
THEOREM SearchInvariant == Spec => []IInv
  <1>1. Init => IInv
    <2> SUFFICES ASSUME Init PROVE IInv
      OBVIOUS
    <2>1. TInv
      BY TypeInit
    <2>2. /\ upper_bound = Infinity /\ lower_bound = 0 /\ pc = "setup"
          /\ nodestack = <<>> /\ nodequeue = {} /\ domain = Cells
          /\ limit_reached = FALSE
      BY DEF Init
    <2>3. DualBound = 0
      BY <2>2, ValueIsNat DEF DualBound, Lower
    <2>4. Below(DualBound)
      <3>1. ASSUME NEW c \in Cells
            PROVE  0 <= Cost[c]
        <4>1. Cost[c] \in Nat
          BY CostIs
        <4> QED
          BY <4>1
      <3> QED
        BY <2>3, <3>1 DEF Below
    <2>5. /\ AllQueued(nodequeue, upper_bound, DualBound)
          /\ AllFit(nodestack, upper_bound, DualBound) /\ Real(upper_bound)
      BY <2>2 DEF AllQueued, AllFit, Real
    <2>6. Kept /\ Proved
      BY <2>2 DEF Kept, Proved, Ends, RootPlaces, Useful
    <2> QED
      BY <2>1, <2>2, <2>4, <2>5, <2>6 DEF IInv
  <1>2. IInv /\ [Next]_vars => IInv'
    BY Step DEF Better
  <1> QED
    BY <1>1, <1>2, PTL DEF Spec

(* No solution that is better than the incumbent is lost, however domains    *)
(* shrink and nodes are cut off, moved, pruned by a hull or thrown away.     *)
THEOREM NoLostCellHolds == Spec => []NoLostCell
  <1>1. IInv => NoLostCell
    <2> SUFFICES ASSUME IInv, pc \notin Ends, NEW c \in Useful(Cells, upper_bound)
                 PROVE  /\ c \in domain
                        /\ pc \notin RootPlaces => c \in OpenCells
      BY DEF NoLostCell, Ends
    <2>1. /\ c \in domain
          /\ pc \notin RootPlaces => Waits(c, nodequeue) \/ Stands(c, nodestack)
      BY DEF IInv, Kept
    <2>2. Waits(c, nodequeue) => c \in OpenCells
      BY DEF Waits, OpenCells
    <2>3. ASSUME Stands(c, nodestack)
          PROVE  c \in OpenCells
      <3>1. PICK i \in Stacked : c \in nodestack[i].region
        BY <2>3 DEF Stands, Stacked
      <3>2. nodestack[i].region \in {nodestack[j].region : j \in Stacked}
        OBVIOUS
      <3>3. c \in UNION {nodestack[j].region : j \in Stacked}
        BY <3>1, <3>2
      <3> QED
        BY <3>3 DEF OpenCells
    <2> QED
      BY <2>1, <2>2, <2>3
  <1> QED
    BY <1>1, SearchInvariant, PTL

(* The dual bound is one at every time, and a search that ends without a     *)
(* limit has proved its incumbent optimal up to the gap.                     *)
THEOREM BoundsAreTrueHolds == Spec => []BoundsAreTrue
  <1>1. IInv => BoundsAreTrue
    BY DEF IInv, Below, Proved, Ends, BoundsAreTrue
  <1> QED
    BY <1>1, SearchInvariant, PTL

(* The dual bound never falls.                                               *)
THEOREM DualBoundRisesHolds == Spec => DualBoundRises
  <1>1. IInv /\ [Next]_vars => [DualBound' >= DualBound]_vars
    BY Step DEF Better
  <1> QED
    BY <1>1, SearchInvariant, PTL DEF Spec, DualBoundRises
=============================================================================
