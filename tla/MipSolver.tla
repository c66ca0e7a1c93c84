------------------------------ MODULE MipSolver ------------------------------
(***************************************************************************)
(* highs/mip/HighsMipSolver.cpp and HighsSearch.cpp: the search tree of the  *)
(* MIP solver.  The root node is evaluated, and then one node after another  *)
(* is taken from the queue, evaluated, cut and used as the top of a plunge:  *)
(* a stack of nodes that are branched on and left again by backtracking.     *)
(* Whenever a solution is found the upper bound falls, the global domain     *)
(* shrinks and nodes are cut off, in the queue at once and on the stack when *)
(* they are looked at.                                                       *)
(* Calls of the quantum heuristic (highs/quantum) run beside the search and  *)
(* hand in their solutions at its next visit.                                *)
(* What an LP solver, propagation or a heuristic finds is left open within   *)
(* what it may find.  Symmetry reductions and LPs that no LP solver can      *)
(* solve are left out, and limits, once reached, stay reached.               *)
(***************************************************************************)
EXTENDS MipNodeQueue, Sequences

CONSTANTS
  MaxRestarts,  \* bound on the restarts from within the tree
  MaxCalls      \* bound on quantum calls at a time, 0: the option is off

ASSUME LimitsAssumption == MaxRestarts \in Nat /\ MaxCalls \in Nat

VARIABLES
  pc,            (* the place in HighsMipSolver::run()                      *)
  nodestack,     (* HighsSearch::nodestack; in a node with one open subtree *)
                 (* region is that of the other child, and other its bound  *)
  nodequeue,     (* see MipNodeQueue                                        *)
  domain,        (* the global domain                                       *)
  upper_bound, lower_bound,
  limited,       (* modelstatus_ is that of a limit                         *)
  limit_reached, (* the main loop has noticed it                            *)
  numRestarts,
  running,       (* the quantum calls whose process runs                    *)
  answered       (* and those that are done but not yet harvested           *)

bounds == <<upper_bound, lower_bound>>
limits == <<limited, limit_reached>>
calls == <<running, answered>>
vars == <<pc, nodestack, nodequeue, domain, bounds, limits, numRestarts, calls>>

(* Where the search evaluates a node, for whom.                              *)
Evaluations == {"plunge", "dive", "branched", "installed"}
RootPlaces == {"setup", "root"}
PC == RootPlaces \cup Evaluations
        \cup {"search", "heuristics", "branch", "leaf", "backtrack", "store",
              "stored", "install", "pruned", "separate", "done", "returned"}

Node(region, lb) == [region |-> region, lb |-> lb, open |-> 2, other |-> lb]

top == nodestack[Len(nodestack)]
Replaced(node) == [nodestack EXCEPT ![Len(nodestack)] = node]
Cutoff == Replaced([top EXCEPT !.open = 0])
Popped == SubSeq(nodestack, 1, Len(nodestack) - 1)

Init ==
  /\ pc = "setup"
  /\ nodestack = <<>> /\ nodequeue = {} /\ domain = Cells
  /\ upper_bound = Infinity /\ lower_bound = 0
  /\ limited = FALSE /\ limit_reached = FALSE /\ numRestarts = 0
  /\ running = 0 /\ answered = 0

(* checkLimits().                                                            *)
CheckLimits(reached) == (limited => reached) /\ limited' = reached

(* addIncumbent() with a solution in cell c, if it is an improvement.        *)
Improves(c) == Cost[c] < upper_bound

NewIncumbent(c) ==
  /\ Improves(c)
  /\ upper_bound' = Cost[c]
  /\ domain' \in Propagations(domain, Cost[c])

(* The queue by the new upper bound and the new domain.                      *)
BoundedQueue ==
  IF domain' = {} THEN {} ELSE PerformBounding(nodequeue, upper_bound')

AddIncumbent(c) == NewIncumbent(c) /\ nodequeue' = BoundedQueue

NoIncumbent == UNCHANGED <<upper_bound, domain, nodequeue>>

MayAddIncumbent(c) ==
  IF Improves(c) THEN AddIncumbent(c) ELSE NoIncumbent

(* cleanupSolve() once nothing is left.                                      *)
FinishSearch == pc' = "done" /\ UNCHANGED <<numRestarts, calls>>

-----------------------------------------------------------------------------
(* Heuristics: before the root node, in it, and before a plunge.             *)
Heuristic ==
  /\ pc \in RootPlaces \cup {"heuristics"}
  /\ \E c \in Cells : AddIncumbent(c)
  /\ UNCHANGED <<pc, nodestack, lower_bound, limits, numRestarts, calls>>

(* harvest() takes an answered call and tries its solution: trySolution()    *)
(* verifies it, since it may be for a model from before a restart.           *)
Harvest ==
  /\ pc \in {"setup", "heuristics"} /\ answered > 0
  /\ answered' = answered - 1
  /\ \/ \E c \in Cells : MayAddIncumbent(c)
     \/ NoIncumbent
  /\ UNCHANGED <<pc, nodestack, lower_bound, limits, numRestarts, running>>

(* Nothing is left to harvest; quantumHeuristic() may dispatch another call. *)
LeaveHeuristics ==
  /\ pc \in {"setup", "heuristics"} /\ answered = 0
  /\ pc' = IF pc = "setup" THEN "root" ELSE "dive"
  /\ running' \in {running} \cup IF running < MaxCalls THEN {running + 1} ELSE {}
  /\ UNCHANGED <<nodestack, nodequeue, domain, bounds, limits, numRestarts,
                 answered>>

(* workerBody(): the last step publishes the result.                         *)
Answer ==
  /\ running > 0
  /\ running' = running - 1 /\ answered' = answered + 1
  /\ UNCHANGED <<pc, nodestack, nodequeue, domain, bounds, limits, numRestarts>>

(* A limit before or in the evaluation of the root node, or a terminator.    *)
Interrupt ==
  /\ pc \in RootPlaces \cup {"heuristics"}
  /\ limited' = TRUE
  /\ FinishSearch
  /\ UNCHANGED <<nodestack, nodequeue, domain, bounds, limit_reached>>

-----------------------------------------------------------------------------
(* evaluateRootNode(): LPs, cuts and propagation.  Restarts from the root    *)
(* are propagation too.                                                      *)
RootLp ==
  /\ pc = "root"
  /\ domain' \in Propagations(domain, upper_bound) \ {{}}
  /\ lower_bound' \in Raised(lower_bound, domain, upper_bound)
  /\ UNCHANGED <<pc, nodestack, nodequeue, upper_bound, limits, numRestarts,
                 calls>>

(* Setup, too, may find that nothing is left.                                *)
RootInfeasible ==
  /\ pc \in RootPlaces /\ Useful(domain, upper_bound) = {}
  /\ lower_bound' = upper_bound
  /\ FinishSearch
  /\ UNCHANGED <<nodestack, nodequeue, domain, upper_bound, limits>>

(* The solution of the root LP is integral.                                  *)
RootIntegral ==
  /\ pc = "root"
  /\ \E c \in domain :
       /\ IsBound(Cost[c], domain, upper_bound)
       /\ AddIncumbent(c)
       /\ lower_bound' = Cost[c]
  /\ FinishSearch
  /\ UNCHANGED <<nodestack, limits>>

RootCutoff ==
  /\ pc = "root" /\ lower_bound > OptimalityLimit(upper_bound)
  /\ FinishSearch
  /\ UNCHANGED <<nodestack, nodequeue, domain, bounds, limits>>

RootQueue ==
  /\ pc = "root" /\ lower_bound <= UpperLimit(upper_bound)
  /\ nodequeue' = Emplace(nodequeue, domain, lower_bound, upper_bound)
  /\ pc' = "search"
  /\ UNCHANGED <<nodestack, domain, bounds, limits, numRestarts, calls>>

-----------------------------------------------------------------------------
(* Mutant: a node is installed without its lower bound.                      *)
InstallMut(n, next) ==
  /\ nodequeue' = nodequeue \ {n}
  /\ nodestack' = <<Node(n.region \cap domain, 0)>>
  /\ pc' = next

(* installNode(): a node of the queue becomes the only one of the stack.     *)
Install(n, next) ==
  /\ nodequeue' = nodequeue \ {n}
  /\ nodestack' = <<Node(n.region \cap domain, n.lb)>>
  /\ pc' = next

StartSearch ==
  \E reached \in BOOLEAN :
    /\ pc = "search"
    /\ CheckLimits(reached)
    /\ IF Active(nodequeue) = {} \/ reached
       THEN /\ pc' = "done"
            /\ UNCHANGED <<nodestack, nodequeue, lower_bound>>
       ELSE /\ lower_bound' \in LeastOf(LowerBounds(nodequeue))
            /\ \E n \in Active(nodequeue) :
                 /\ n.lb \in LeastOf(LowerBounds(Active(nodequeue)))
                 /\ Install(n, "plunge")
    /\ UNCHANGED <<domain, upper_bound, limit_reached, numRestarts, calls>>

(* The plunge does without heuristics.                                       *)
SkipHeuristics ==
  /\ pc = "plunge" /\ pc' = "dive"
  /\ UNCHANGED <<nodestack, nodequeue, domain, bounds, limits, numRestarts,
                 calls>>

(* The loop that plunges looks at the global domain and at the node before   *)
(* it dives: an infeasible domain ends it, a pruned node is a leaf.          *)
DiveEnds ==
  /\ pc = "dive" /\ (domain = {} \/ top.open = 0)
  /\ pc' = IF domain = {} THEN "store" ELSE "leaf"
  /\ UNCHANGED <<nodestack, nodequeue, domain, bounds, limits, numRestarts,
                 calls>>

(* What follows evaluateNode(), by its result.  In a dive it is followed by  *)
(* checkLimits().                                                            *)
Continue(result) ==
  CASE pc = "plunge" ->
         /\ pc' = [suboptimal |-> "store", pruned |-> "dive",
                   open |-> "heuristics"][result]
         /\ UNCHANGED limited
    [] pc = "dive" ->
         \E reached \in BOOLEAN :
           /\ CheckLimits(reached)
           /\ pc' = [suboptimal |-> "store", pruned |-> "leaf",
                     open |-> IF reached THEN "leaf" ELSE "branch"][result]
    [] pc = "branched" ->
         /\ pc' = [suboptimal |-> "store", pruned |-> "leaf",
                   open |-> "branch"][result]
         /\ UNCHANGED limited
    [] pc = "installed" ->
         /\ pc' = [suboptimal |-> "pruned", pruned |-> "pruned",
                   open |-> "separate"][result]
         /\ UNCHANGED limited

Evaluate ==
  /\ pc \in Evaluations /\ top.open = 2
  /\ pc = "dive" => domain /= {}
  /\ UNCHANGED <<lower_bound, limit_reached, numRestarts, calls>>

IsSuboptimal == top.lb > OptimalityLimit(upper_bound)

(* A suboptimal node is not evaluated at all.  In the install loop it goes   *)
(* back to the queue, currentNodeToQueue().                                  *)
Suboptimal ==
  /\ Evaluate /\ IsSuboptimal
  /\ IF pc = "installed" THEN
       /\ nodestack' = Cutoff
       /\ nodequeue' \in
            IF top.lb > UpperLimit(upper_bound) THEN {nodequeue}
            ELSE {Emplace(nodequeue, top.region, lb, upper_bound) :
                    lb \in Raised(top.lb, top.region, upper_bound)}
     ELSE UNCHANGED <<nodestack, nodequeue>>
  /\ Continue("suboptimal")
  /\ UNCHANGED <<upper_bound, domain>>

(* Propagation, the LP or its bound leave nothing.                           *)
Infeasible ==
  /\ Evaluate /\ ~IsSuboptimal
  /\ Useful(top.region, upper_bound) = {}
  /\ nodestack' = Cutoff
  /\ Continue("pruned")
  /\ NoIncumbent

(* The LP has an integral solution, and is solved to dual feasibility.       *)
Integral ==
  /\ Evaluate /\ ~IsSuboptimal
  /\ \E c \in top.region :
       /\ IsBound(Cost[c], top.region, upper_bound)
       /\ AddIncumbent(c)
  /\ nodestack' = Cutoff
  /\ Continue("pruned")

(* The node stays open; a solution may have been found in it by an LP that   *)
(* is not solved to dual feasibility.                                        *)
StaysOpen ==
  /\ Evaluate /\ ~IsSuboptimal
  /\ \/ \E c \in top.region : AddIncumbent(c)
     \/ NoIncumbent
  /\ \E region \in Propagations(top.region, upper_bound') \ {{}},
        lb \in Raised(top.lb, top.region, upper_bound') :
       /\ lb <= UpperLimit(upper_bound')
       /\ nodestack' = Replaced(Node(region, lb))
       /\ IF lb > OptimalityLimit(upper_bound')
          THEN pc /= "installed" /\ Continue("suboptimal")
          ELSE Continue("open")

(* ... or has become suboptimal, by its LP or by the solution found, which in *)
(* the install loop takes it back to the queue.                              *)
RequeueTop(queue) ==
  \E lb \in Raised(top.lb, top.region, upper_bound') :
    /\ lb \in (OptimalityLimit(upper_bound') + 1)..UpperLimit(upper_bound')
    /\ nodequeue' = Emplace(queue, top.region, lb, upper_bound')

BecomesSuboptimal ==
  /\ Evaluate /\ ~IsSuboptimal /\ pc = "installed"
  /\ \/ /\ \E c \in top.region : NewIncumbent(c)
        /\ RequeueTop(BoundedQueue)
     \/ UNCHANGED <<upper_bound, domain>> /\ RequeueTop(nodequeue)
  /\ nodestack' = Cutoff
  /\ Continue("suboptimal")

-----------------------------------------------------------------------------
(* branch().  A child stands for a part of the region of its node.           *)
Parts == (SUBSET top.region) \ {{}, top.region}

Push(parent, child) == Append(Replaced(parent), child)

Branching ==
  /\ pc = "branch"
  /\ UNCHANGED <<lower_bound, limits, numRestarts, calls>>

(* Strong branching finds a solution.                                        *)
StrongBranchSolution ==
  /\ Branching
  /\ \E c \in top.region : AddIncumbent(c)
  /\ UNCHANGED <<pc, nodestack>>

(* Strong branching decides one child, and the search goes on in the other.  *)
(* A child that is only suboptimal stays an open subtree.                    *)
StrongBranch ==
  /\ Branching /\ pc' = "branched"
  /\ \E part \in Parts :
       LET rest == Node(top.region \ part, top.lb) IN
       \/ /\ Useful(part, upper_bound) = {}
          /\ nodestack' = Push([top EXCEPT !.open = 0], rest)
       \/ \E bound \in {b \in Bounds : IsBound(b, part, upper_bound)} :
            /\ bound > OptimalityLimit(upper_bound)
            /\ bound <= UpperLimit(upper_bound)
            /\ nodestack' = Push([region |-> part, lb |-> top.lb, open |-> 1,
                                  other |-> bound], rest)
  /\ NoIncumbent

(* Selecting the candidate has tightened the domain of the node.             *)
BranchTightens ==
  /\ Branching /\ pc' = "branched"
  /\ \E region \in Propagations(top.region, upper_bound) \ {{}, top.region} :
       nodestack' = Replaced(Node(region, top.lb))
  /\ NoIncumbent

Branch ==
  /\ Branching /\ pc' = "dive"
  /\ \E part \in Parts :
       \E lb \in Raised(top.lb, part, upper_bound),
          other \in Raised(top.lb, top.region \ part, upper_bound) :
         nodestack' = Push([region |-> top.region \ part, lb |-> top.lb,
                            open |-> 1, other |-> other],
                           Node(part, lb))
  /\ NoIncumbent

(* All integer columns are fixed.                                            *)
BranchFixed ==
  /\ Branching /\ pc' = "leaf"
  /\ \E c \in top.region : top.region = {c} /\ MayAddIncumbent(c)
  /\ nodestack' = Cutoff

-----------------------------------------------------------------------------
(* backtrack(), backtrackPlunge() and openNodesToQueue().                    *)

(* The main loop after a dive.  A plunge ends after 100 nodes.               *)
Leaf ==
  \E reached, long \in BOOLEAN :
    /\ pc = "leaf"
    /\ CheckLimits(reached)
    /\ limit_reached' = reached
    /\ top.open /= 0 => reached
    /\ pc' = IF reached \/ long THEN "store" ELSE "backtrack"
    /\ UNCHANGED <<nodestack, nodequeue, domain, bounds, numRestarts, calls>>

Backtracking ==
  /\ pc \in {"backtrack", "store"}
  /\ nodestack /= <<>>
  /\ UNCHANGED <<domain, bounds, limits, numRestarts, calls>>

(* A parent with an open subtree is propagated again.                        *)
Backtrack ==
  /\ Backtracking /\ top.open = 0
  /\ IF Len(Popped) = 0 THEN nodestack' = <<>>
     ELSE LET parent == Popped[Len(Popped)] IN
          \E region \in Propagations(parent.region, upper_bound) :
            nodestack' = [Popped EXCEPT ![Len(Popped)] =
              [parent EXCEPT !.region = region,
                             !.open = IF region = {} THEN 0 ELSE @]]
  /\ pc' = IF nodestack' = <<>> THEN "store" ELSE pc
  /\ UNCHANGED nodequeue

OtherLb == Higher(top.lb, top.other)

(* The other child of the top is cut off, ...                                *)
PruneChild ==
  /\ Backtracking /\ top.open = 1
  /\ OtherLb > UpperLimit(upper_bound) \/ Useful(top.region, upper_bound) = {}
  /\ nodestack' = Cutoff
  /\ UNCHANGED <<pc, nodequeue>>

(* ... or, in a plunge, queued, if it is suboptimal or an ancestor's other   *)
(* child has the better score, ...                                           *)
QueueChild ==
  /\ Backtracking /\ pc = "backtrack" /\ top.open = 1
  /\ OtherLb <= UpperLimit(upper_bound)
  /\ \E region \in Propagations(top.region, upper_bound) \ {{}},
        lb \in Raised(OtherLb, top.region, upper_bound) :
       /\ \/ lb > OptimalityLimit(upper_bound)
          \/ \E i \in 1..(Len(nodestack) - 1) : nodestack[i].open /= 0
       /\ nodequeue' = Emplace(nodequeue, region, lb, upper_bound)
  /\ nodestack' = Cutoff
  /\ UNCHANGED pc

(* ... or is the next node.                                                  *)
PushChild ==
  /\ Backtracking /\ top.open = 1
  /\ OtherLb <= UpperLimit(upper_bound)
  /\ \E region \in Propagations(top.region, upper_bound) \ {{}},
        lb \in IF pc = "store" THEN {OtherLb}
               ELSE Raised(OtherLb, top.region, upper_bound) :
       /\ pc = "backtrack" => lb <= OptimalityLimit(upper_bound)
       /\ nodestack' = Push([top EXCEPT !.open = 0], Node(region, lb))
  /\ pc' = IF pc = "store" THEN "store" ELSE "dive"
  /\ UNCHANGED nodequeue

(* Mutant: the node at which the plunge stopped is forgotten.                *)
StoreMut ==
  /\ pc = "store" /\ nodestack /= <<>> /\ top.open = 2
  /\ nodestack' = Cutoff
  /\ UNCHANGED <<pc, nodequeue, domain, bounds, limits, numRestarts, calls>>

(* openNodesToQueue() with an open node at the top.                          *)
Store ==
  /\ pc = "store" /\ nodestack /= <<>> /\ top.open = 2
  /\ \/ /\ top.lb > UpperLimit(upper_bound)
           \/ Useful(top.region, upper_bound) = {}
        /\ UNCHANGED nodequeue
     \/ /\ top.lb <= UpperLimit(upper_bound)
        /\ \E region \in Propagations(top.region, upper_bound) \ {{}},
              lb \in Raised(top.lb, top.region, upper_bound) :
             nodequeue' = Emplace(nodequeue, region, lb, upper_bound)
  /\ nodestack' = Cutoff
  /\ UNCHANGED <<pc, domain, bounds, limits, numRestarts, calls>>

-----------------------------------------------------------------------------
(* Between two plunges.                                                      *)
EndStore ==
  /\ pc = "store" /\ nodestack = <<>>
  /\ IF limit_reached
     THEN /\ pc' = "done"
          /\ lower_bound' \in LeastOf({upper_bound} \cup LowerBounds(nodequeue))
     ELSE pc' = "stored" /\ UNCHANGED lower_bound
  /\ UNCHANGED <<nodestack, nodequeue, domain, upper_bound, limits, numRestarts,
                 calls>>

(* Propagation of the global domain and pruneInfeasibleNodes().              *)
PruneInfeasibleNodes ==
  /\ domain' \in {d \in SUBSET domain :
                    Useful(Hull(nodequeue, domain), upper_bound) \subseteq d}
  /\ nodequeue' = IF domain' = {} THEN {} ELSE Meeting(nodequeue, domain')

UpdateLowerBound ==
  lower_bound' \in LeastOf({upper_bound} \cup LowerBounds(nodequeue'))

NextNode ==
  /\ pc = "stored"
  /\ PruneInfeasibleNodes
  /\ UpdateLowerBound
  /\ pc' = IF Active(nodequeue') = {} THEN "done" ELSE "install"
  /\ UNCHANGED <<nodestack, upper_bound, limits, numRestarts, calls>>

(* performRestart(): presolve leaves a smaller problem, or shows that there  *)
(* is no better solution, or finds the best one.                             *)
Restart ==
  /\ pc = "stored" /\ numRestarts < MaxRestarts
  /\ numRestarts' = numRestarts + 1
  /\ nodequeue' = {}
  /\ \E d \in {d \in SUBSET domain :
                 Useful(Hull(nodequeue, domain), upper_bound) \subseteq d} :
       /\ d /= {}
       /\ Active(Meeting(nodequeue, d)) /= {}
       /\ \/ /\ domain' \in Propagations(d, upper_bound) \ {{}}
             /\ lower_bound' \in
                  LeastOf({upper_bound} \cup LowerBounds(Meeting(nodequeue, d)))
             /\ pc' = "setup" /\ UNCHANGED upper_bound
          \/ /\ Useful(d, upper_bound) = {}
             /\ domain' = d
             /\ lower_bound' = upper_bound
             /\ pc' = "done" /\ UNCHANGED upper_bound
          \/ \E c \in d :
               /\ Improves(c) /\ IsBound(Cost[c], d, upper_bound)
               /\ domain' = d
               /\ upper_bound' = Cost[c] /\ lower_bound' = Cost[c]
               /\ pc' = "done"
  /\ UNCHANGED <<nodestack, limits, calls>>

(* The next node is installed, by its estimate or its bound.                 *)
InstallNode ==
  /\ pc = "install"
  /\ IF Active(nodequeue) = {}
     THEN pc' = "done" /\ UNCHANGED <<nodestack, nodequeue>>
     ELSE \E n \in Active(nodequeue) : Install(n, "installed")
  /\ UNCHANGED <<domain, bounds, limits, numRestarts, calls>>

(* mip_max_stall_nodes.                                                      *)
Stall ==
  /\ pc = "installed"
  /\ limited' = TRUE /\ limit_reached' = TRUE
  /\ FinishSearch
  /\ UNCHANGED <<nodestack, nodequeue, domain, bounds>>

(* The installed node was pruned, or is back in the queue.                   *)
NodePruned ==
  \E reached \in BOOLEAN :
    /\ pc = "pruned"
    /\ nodestack' = <<>>
    /\ PruneInfeasibleNodes
    /\ IF domain' = {}
       THEN /\ lower_bound' = upper_bound /\ pc' = "done"
            /\ UNCHANGED limits
       ELSE /\ CheckLimits(reached)
            /\ limit_reached' = reached
            /\ IF reached THEN pc' = "done" /\ UNCHANGED lower_bound
                          ELSE pc' = "install" /\ UpdateLowerBound
    /\ UNCHANGED <<upper_bound, numRestarts, calls>>

(* Cuts tighten the local and the global domain, before the next plunge.     *)
Separate ==
  /\ pc = "separate"
  /\ \/ \E c \in Cells : AddIncumbent(c)
     \/ /\ domain' \in Propagations(domain, upper_bound)
        /\ nodequeue' = IF domain' = {} THEN {} ELSE nodequeue
        /\ UNCHANGED upper_bound
  /\ IF domain' = {}
     THEN pc' = "done" /\ nodestack' = <<>> /\ lower_bound' = upper_bound'
     ELSE /\ pc' = "plunge" /\ UNCHANGED lower_bound
          /\ \E region \in Propagations(top.region, upper_bound') :
               nodestack' = Replaced(Node(region, top.lb))
  /\ UNCHANGED <<limits, numRestarts, calls>>

(* ~HighsQuantumHeuristic() joins the threads of all calls.                  *)
Destroy ==
  /\ pc = "done" /\ running = 0
  /\ pc' = "returned" /\ answered' = 0
  /\ UNCHANGED <<nodestack, nodequeue, domain, bounds, limits, numRestarts,
                 running>>

Done == pc = "returned" /\ UNCHANGED vars

Solve == \/ Heuristic \/ Harvest \/ LeaveHeuristics \/ Interrupt
         \/ RootLp \/ RootInfeasible \/ RootIntegral \/ RootCutoff \/ RootQueue
         \/ StartSearch \/ SkipHeuristics \/ DiveEnds
         \/ Suboptimal \/ Infeasible \/ Integral \/ StaysOpen
         \/ BecomesSuboptimal
         \/ StrongBranchSolution \/ StrongBranch \/ BranchTightens \/ Branch
         \/ BranchFixed
         \/ Leaf \/ Backtrack \/ PruneChild \/ QueueChild \/ PushChild \/ Store
         \/ EndStore \/ NextNode \/ Restart \/ InstallNode \/ Stall
         \/ NodePruned \/ Separate \/ Destroy

Next == Solve \/ Answer \/ Done

Spec == Init /\ [][Next]_vars

(* The solver's thread and the processes of the calls run; a call ends by    *)
(* its --timeout.                                                            *)
Fairness == WF_vars(Solve) /\ WF_vars(Answer)

FairSpec == Spec /\ Fairness
-----------------------------------------------------------------------------
Nodes == [region : SUBSET Cells, lb : 0..Infinity, suboptimal : BOOLEAN]
StackNodes == [region : SUBSET Cells, lb : 0..Infinity, open : 0..2,
               other : 0..Infinity]

TypeOK ==
  /\ pc \in PC
  /\ nodestack \in Seq(StackNodes)
  /\ nodequeue \subseteq Nodes
  /\ domain \subseteq Cells
  /\ upper_bound \in 0..Infinity /\ lower_bound \in 0..Infinity
  /\ limited \in BOOLEAN /\ limit_reached \in BOOLEAN
  /\ numRestarts \in 0..MaxRestarts
  /\ running \in 0..MaxCalls /\ answered \in 0..MaxCalls

(* The cells of the open nodes.                                              *)
Stacked == {i \in 1..Len(nodestack) : nodestack[i].open /= 0}
OpenCells == (UNION {n.region : n \in nodequeue})
               \cup (UNION {nodestack[i].region : i \in Stacked})

(* Until the search ends, no solution that is better than the incumbent is   *)
(* lost: it is in the global domain and, once the root node is done, in a    *)
(* node that waits in the queue or in a subtree of the stack that is still   *)
(* open.  Domains shrink, nodes are cut off, moved between stack and queue,  *)
(* cut by a hull of other nodes and thrown away by a restart, all by upper   *)
(* bounds that were current at different times.                              *)
NoLostCell ==
  pc \notin {"done", "returned"} =>
    /\ Useful(Cells, upper_bound) \subseteq domain
    /\ pc \notin RootPlaces => Useful(Cells, upper_bound) \subseteq OpenCells

(* The dual bound that is reported to callbacks and at the end is one, at    *)
(* every time; and a search that ends without reaching a limit proves its    *)
(* incumbent optimal up to the gap, or that there is no solution.            *)
DualBound == Lower(lower_bound, upper_bound)

BoundsAreTrue ==
  /\ \A c \in Cells : DualBound <= Cost[c]
  /\ pc = "returned" /\ ~limited =>
       \A c \in Cells : Cost[c] >= OptimalityLimit(upper_bound)

(* The dual bound never falls, although it is recomputed from the queue      *)
(* alone, which nodes leave and enter with bounds of their own, and also     *)
(* when the solver starts again with the root node.                          *)
DualBoundRises == [][DualBound' >= DualBound]_vars

(* The solver ends: no node goes from the queue to the stack and back for    *)
(* ever, and each call of the quantum heuristic, which ends by its timeout,  *)
(* is joined.                                                                *)
Returns == <>(pc = "returned")
=============================================================================
