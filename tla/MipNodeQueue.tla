----------------------------- MODULE MipNodeQueue -----------------------------
(***************************************************************************)
(* highs/mip/HighsNodeQueue.cpp: the open nodes of the search tree that wait *)
(* to be installed.  A node stands for the cells of its region, where a cell *)
(* is one assignment of the integer variables.  A node whose lower bound is  *)
(* within the optimality gap of the incumbent is suboptimal: it counts for   *)
(* the best lower bound, but is never installed.                             *)
(* The unit of costs and bounds is the feasibility tolerance.  Domains are   *)
(* sets of cells; that they are boxes is not used.                           *)
(***************************************************************************)
EXTENDS Integers

CONSTANTS
  Cells,      \* the assignments of the integer variables
  Infinity,   \* kHighsInf
  Cost,       \* the best objective value of a cell, Infinity if infeasible
  Bounds,     \* the lower bounds that LPs and propagation yield
  Gap         \* the larger of mip_abs_gap and mip_rel_gap * |ub|

ASSUME BoundsAssumption ==
  /\ Infinity \in Nat /\ Gap \in Nat \ {0}
  /\ Bounds \subseteq 0..(Infinity - 1)
  /\ Cost \in [Cells -> 0..Infinity]

(* Objective values that differ do so by more than the tolerance.            *)
ASSUME CostsApart ==
  \A c, d \in Cells : Cost[c] < Cost[d] => Cost[c] + 1 < Cost[d]

Lower(a, b) == IF a <= b THEN a ELSE b
Higher(a, b) == IF a <= b THEN b ELSE a

(* computeNewUpperLimit() without and with the gap.                          *)
UpperLimit(ub) == IF ub = Infinity THEN Infinity ELSE ub - 1
OptimalityLimit(ub) == IF ub = Infinity THEN Infinity ELSE ub - Gap

(* The cells of a region that improve on the upper bound.                    *)
Useful(region, ub) == {c \in region : Cost[c] < UpperLimit(ub)}

(* What propagation may leave of a region: it removes no useful cell.        *)
Propagations(region, ub) ==
  {smaller \in SUBSET region : Useful(region, ub) \subseteq smaller}

(* The bound of an LP or of an objective cut holds for all useful cells.     *)
IsBound(bound, region, ub) == \A c \in Useful(region, ub) : bound <= Cost[c]

Raised(lb, region, ub) ==
  {lb} \cup {Higher(lb, b) : b \in {b \in Bounds : IsBound(b, region, ub)}}

LeastOf(values) == {v \in values : \A w \in values : v <= w}

-----------------------------------------------------------------------------
Active(queue) == {n \in queue : ~n.suboptimal}

(* Mutant: suboptimal nodes do not count.                                    *)
LowerBoundsMut(queue) == {n.lb : n \in Active(queue)}

(* getBestLowerBound() is the least of them.                                 *)
LowerBounds(queue) == {n.lb : n \in queue}

(* Mutant: no node is ever suboptimal.                                       *)
EmplaceActiveMut(queue, region, lb, ub) ==
  queue \cup {[region |-> region, lb |-> lb, suboptimal |-> FALSE]}

(* emplaceNode() and link().                                                 *)
Emplace(queue, region, lb, ub) ==
  queue \cup {[region |-> region, lb |-> lb,
               suboptimal |-> lb > OptimalityLimit(ub)]}

(* After a new incumbent.  Without an active node nothing is done.           *)
PerformBounding(queue, ub) ==
  IF Active(queue) = {} THEN queue
  ELSE {[n EXCEPT !.suboptimal = @ \/ n.lb >= OptimalityLimit(ub)] :
          n \in {n \in queue : n.lb < UpperLimit(ub)}}

(* The cells that pruneInfeasibleNodes() keeps in the global domain: those   *)
(* of some node, as soon as there is one.                                    *)
Hull(queue, domain) ==
  IF queue = {} THEN domain ELSE domain \cap UNION {n.region : n \in queue}

(* checkGlobalBounds(), for every column.                                    *)
Meeting(queue, domain) == {n \in queue : n.region \cap domain /= {}}
=============================================================================
