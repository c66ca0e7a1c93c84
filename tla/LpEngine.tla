------------------------------- MODULE LpEngine -------------------------------
(***************************************************************************)
(* highs/lp_data and highs/simplex: what survives in a Highs object between *)
(* two calls on an LP.  The object keeps a basis, a solution and a status,   *)
(* and its simplex engine HEkk keeps a basis of its own with a factorisation,*)
(* to start the next run from.  Every modification of the LP withdraws what  *)
(* it makes wrong, at both levels, in many places of the code.               *)
(* One action per call of the Highs class; a run of the simplex solver takes *)
(* one action per rebuild and one per basis change.  What the program says   *)
(* that it has is in status and highs; what is so is in holds, which no      *)
(* action reads except where the data themselves decide.                     *)
(***************************************************************************)
EXTENDS Naturals, SimplexStatus

CONSTANT Rules   \* what the caller keeps to, see AllRules

(* "iterate": getIterate() is called for the matrix that putIterate() was     *)
(* called for and while HEkk still has a basis, and after an unbounded or     *)
(* infeasible LP the LP is modified before a call that sets a model status.   *)
(* "crossover": the interior point solver does not run on the LP itself,      *)
(* with crossover, while HEkk keeps a basis.                                  *)
AllRules == {"iterate", "crossover"}

ASSUME RulesAssumption == Rules \subseteq AllRules

VARIABLES
  pc,      (* where the object is: "idle" between two calls                 *)
  lp,      (* the LP that HEkk has data for                                 *)
  status,  (* what HEkk says that it holds, see SimplexStatus               *)
  highs,   (* what the Highs object says: "status" is a model status other  *)
           (* than kNotset, "solution" is value_valid, and "valid", "useful" *)
           (* and "alien" are those of HighsBasis                           *)
  holds,   (* which of the data are those of the LP and of the basis now    *)
  updates  (* info_.update_count, up to MaxUpdates                          *)

vars == <<pc, lp, status, highs, holds, updates>>

(* Bound: two updates stand for two or more, the code tests for <= 1.        *)
MaxUpdates == 2

PC == {"idle", "start", "rebuild", "iterate", "solved", "recovered"}

Claims == {"status", "solution", "valid", "useful", "alien"}

(*   "factor"  the factorisation is that of HEkk's basis, in its order       *)
(*   "ar"      the row-wise copy is that of the matrix and of HEkk's basis   *)
(*   "ray"     the ray record is for HEkk's basis and the data of the LP     *)
(*   "saved"   the backtracking basis was taken from HEkk's basis while this *)
(*             had a factorisation in the LP as it is, updates included      *)
(*   "inverted" that basis has been factorised itself, not only updated to   *)
(*   "iterate" the saved factorisation is that of the saved basis in the LP  *)
(*   "same"    the basis of the Highs object is that of HEkk                 *)
(*   "status"  the model status was found for the LP as it is                *)
(*   "solution" the solution has a value for each column and row of the LP,  *)
(*             and was not made before the last change of its data, unless it*)
(*             satisfies changed bounds.  Whether it is optimal, or integral, *)
(*             is left open: see ChangeIntegrality, SetSolution and          *)
(*             FeasibilityRelaxation.                                        *)
Facts == {"factor", "ar", "ray", "saved", "inverted", "iterate", "same",
          "status", "solution"}

NoBasis == {"alien"}              \* HighsBasis::invalidate()
SomeBasis == {"valid", "useful"}  \* what HEkk::getHighsBasis() returns

Init == /\ pc = "idle" /\ lp = "incumbent"
        /\ status = {} /\ highs = NoBasis
        /\ holds = {} /\ updates = 0

If(condition, set) == IF condition THEN set ELSE {}

Keeps(rule, condition) == rule \in Rules => condition

-----------------------------------------------------------------------------
(* Modifications of the LP.  The public functions clear the ray records      *)
(* first, and the model status and the info are always invalidated.          *)

Modify(action, lost) ==
  /\ pc = "idle"
  /\ status' = UpdateStatus(ClearRayRecords(status), action)
  /\ holds' = holds \ ({"ray", "status"} \cup lost)
  /\ UNCHANGED <<pc, lp, updates>>

ChangeCosts ==
  /\ Modify("NewCosts", {"solution"})
  /\ highs' = highs \ {"status", "solution"}

(* Mutant: the solution is always kept.                                      *)
ChangeBoundsMut ==
  /\ Modify("NewBounds", {"solution"})
  /\ highs' = highs \ {"status"}

(* A solution that satisfies the new bounds is kept when there is no basis.  *)
ChangeBounds ==
  \E kept \in BOOLEAN :
    /\ kept => "useful" \notin highs /\ "solution" \in highs
    /\ Modify("NewBounds", If(~kept, {"solution"}))
    /\ highs' = highs \ ({"status"} \cup If(~kept, {"solution"}))

(* A changed coefficient of a basic column makes the basis alien.            *)
ChangeCoefficient ==
  \E basic \in BOOLEAN :
    /\ Modify("NewRows", Facts)
    /\ highs' = (highs \ {"status", "solution"}) \cup If(basic, {"alien"})

AddColsOrRows ==
  /\ \E action \in {"NewCols", "NewRows"} : Modify(action, Facts)
  /\ highs' = highs \ {"status", "solution"}

(* A useful basis is no longer valid without a basic column or with one      *)
(* basic column too many, which deleting a nonbasic row leaves.              *)
DeleteColsOrRows ==
  \E broken \in BOOLEAN :
    /\ \E action \in {"DelCols", "DelRows"} : Modify(action, Facts)
    /\ highs' = highs \ ({"status", "solution"}
                           \cup If(broken /\ "useful" \in highs, {"valid"}))

(* Nothing but the model status is invalidated: solution, basis and rays are *)
(* those of the relaxation, as before.                                       *)
ChangeIntegrality ==
  /\ pc = "idle"
  /\ highs' = highs \ {"status"}
  /\ holds' = holds \ {"status"}
  /\ UNCHANGED <<pc, lp, status, updates>>

ScaleColOrRow ==
  /\ \E action \in {"ScaledCol", "ScaledRow"} : Modify(action, Facts)
  /\ highs' = highs \ {"status", "solution"}

-----------------------------------------------------------------------------
(* Calls that give, take or ask for a basis.                                 *)

Forget(basis) ==
  /\ status' = UpdateStatus(status, "NewBasis")
  /\ highs' = basis
  /\ holds' = holds \ {"same"}

(* Mutant: HEkk is not told of the new basis.                                *)
SetBasisMut ==
  /\ pc = "idle"
  /\ highs' = (highs \ NoBasis) \cup SomeBasis
  /\ holds' = holds \ {"same"}
  /\ UNCHANGED <<pc, lp, status, updates>>

(* An alien basis is checked and completed first, by a factorisation of its  *)
(* own, and is no longer alien then.                                         *)
SetBasis ==
  /\ pc = "idle"
  /\ Forget((highs \ NoBasis) \cup SomeBasis)
  /\ UNCHANGED <<pc, lp, updates>>

(* The basis read from a file stays alien if the one before it was.          *)
ReadBasis ==
  /\ pc = "idle"
  /\ Forget(highs \cup SomeBasis)
  /\ UNCHANGED <<pc, lp, updates>>

SetNoBasis ==
  /\ pc = "idle"
  /\ Forget((highs \ SomeBasis) \cup NoBasis)
  /\ UNCHANGED <<pc, lp, updates>>

PutIterate ==
  /\ pc = "idle" /\ "invert" \in status
  /\ status' = status \cup {"iterate"}
  /\ holds' = (holds \ {"iterate"}) \cup If("factor" \in holds, {"iterate"})
  /\ UNCHANGED <<pc, lp, highs, updates>>

(* Neither the ray records nor has_basis and has_nla change.                 *)
GetIterate ==
  /\ pc = "idle" /\ {"new_lp", "iterate"} \subseteq status
  /\ Keeps("iterate", "iterate" \in holds /\ {"basis", "nla"} \subseteq status)
  /\ status' = status \cup {"invert"}
  /\ highs' = SomeBasis
  /\ holds' = (holds \ {"factor", "ar", "ray", "status", "solution"})
                \cup {"same"} \cup If("iterate" \in holds, {"factor"})
  /\ UNCHANGED <<pc, lp, updates>>

(* HEkk::setBasis(basis): HEkk takes the basis of the Highs object, in an    *)
(* order of its own.                                                         *)
Given(facts) == (facts \ {"factor", "ar", "ray"}) \cup {"same"}

(* Answered from HEkk's basis, which is factorised first when there is no    *)
(* factorisation; no column may be replaced in it.  An assertion excludes an *)
(* alien basis.                                                              *)
GetBasicVariables ==
  /\ pc = "idle" /\ "valid" \in highs
  /\ \/ "invert" \in status /\ UNCHANGED vars
     \/ /\ "invert" \notin status
        /\ "alien" \notin highs
        /\ \E singular \in BOOLEAN :
             LET known == IF "basis" \in status THEN holds ELSE Given(holds) IN
             /\ status' = ComputeFactor(MoveLp(status) \cup {"basis", "nla"},
                                        singular)
             /\ holds' = IF singular THEN known \ {"factor"}
                                     ELSE known \cup {"factor"}
        /\ updates' = 0
        /\ UNCHANGED <<pc, lp, highs>>

(* A solution without primal values leaves none.                             *)
SetSolution ==
  \E primal \in BOOLEAN :
    /\ pc = "idle"
    /\ status' = Invalidate(status)
    /\ highs' = NoBasis \cup If(primal, {"solution"})
    /\ holds' = holds \cup {"solution"}
    /\ UNCHANGED <<pc, lp, updates>>

(* Highs::crossover(): a basis is made of a solution, unless it fails or     *)
(* meets its time limit.                                                     *)
Crossover ==
  \E claims \in {{"status"} \cup SomeBasis, {"status"} \cup NoBasis, NoBasis} :
    /\ pc = "idle"
    /\ status' = Invalidate(ClearRayRecords(status))
    /\ highs' = {"solution"} \cup claims
    /\ holds' = (holds \ {"same"}) \cup {"status", "solution"}
    /\ UNCHANGED <<pc, lp, updates>>

ClearSolver ==
  /\ pc = "idle"
  /\ status' = Invalidate(ClearRayRecords(status))
  /\ highs' = NoBasis
  /\ UNCHANGED <<pc, lp, holds, updates>>

PassModel ==
  /\ pc = "idle"
  /\ status' = Invalidate(ClearRayRecords(status))
  /\ highs' = NoBasis
  /\ holds' = {}
  /\ UNCHANGED <<pc, lp, updates>>
-----------------------------------------------------------------------------
(* Runs.  What a run sets once it is over, where no simplex data are left:   *)
Ends(claims) ==
  /\ pc' = "idle" /\ lp' = "incumbent"
  /\ highs' = claims
  /\ holds' = (holds \ {"same"}) \cup {"status", "solution"}

(* A run keeps to the rule when no ray of an earlier basis is recorded.      *)
MayRun == Keeps("iterate", "ray" \in status => "ray" \in holds)

(* Presolve or the bounds decide the LP, or the run fails: neither touches   *)
(* HEkk.                                                                     *)
RunDecides ==
  /\ pc = "idle" /\ MayRun
  /\ Ends(NoBasis \cup {"status"})
  /\ UNCHANGED <<status, updates>>

(* Highs::presolve() shows that the LP is infeasible.  Otherwise it changes   *)
(* nothing here.                                                             *)
Presolve ==
  /\ pc = "idle" /\ MayRun
  /\ highs' = NoBasis \cup {"status"}
  /\ holds' = holds \cup {"status"}
  /\ UNCHANGED <<pc, lp, status, updates>>

(* Highs::postsolve() of a solution of the presolved LP: with a basis the    *)
(* simplex solver starts from what postsolve makes of it, ...                *)
PostsolveBasis ==
  /\ pc = "idle" /\ pc' = "start"
  /\ status' = Invalidate(status)
  /\ highs' = SomeBasis
  /\ holds' = holds \ {"same"}
  /\ UNCHANGED <<lp, updates>>

(* ... and without one the solution is all there is.                         *)
PostsolveSolution ==
  /\ pc = "idle" /\ MayRun
  /\ highs' = NoBasis \cup {"status", "solution"}
  /\ holds' = holds \cup {"status", "solution"}
  /\ UNCHANGED <<pc, lp, status, updates>>

(* The LP is modified, run and restored.  Its model status is given back, and*)
(* the solution found is kept.                                               *)
FeasibilityRelaxation ==
  \E solved \in BOOLEAN :
    /\ pc = "idle"
    /\ status' = Clear(status)
    /\ highs' = NoBasis \cup (highs \cap {"status"}) \cup If(solved, {"solution"})
    /\ holds' = (holds \cap {"status"}) \cup {"solution"}
    /\ UNCHANGED <<pc, lp, updates>>

(* An interior point or first order solver.  The basis is that of crossover. *)
RunInterior ==
  \E crossover, reduced \in BOOLEAN :
    /\ pc = "idle" /\ MayRun
    /\ Keeps("crossover", crossover => "basis" \notin status)
    /\ ~(crossover /\ reduced)    \* see RunPresolved
    /\ Ends({"status", "solution"}
              \cup IF crossover THEN SomeBasis ELSE NoBasis)
    /\ status' = IF reduced THEN Clear(status) ELSE status
    /\ UNCHANGED updates

RunMip ==
  \E found \in BOOLEAN :
    /\ pc = "idle" /\ MayRun
    /\ Ends(NoBasis \cup {"status"} \cup If(found, {"solution"}))
    /\ status' = Invalidate(status)
    /\ UNCHANGED updates

(* The simplex solver on the LP itself.  A solution without a valid basis    *)
(* becomes a basis first.                                                    *)
RunSimplex ==
  /\ pc = "idle" /\ MayRun /\ pc' = "start"
  /\ IF "valid" \notin highs /\ "solution" \in highs
     THEN Forget((highs \ {"alien", "status"}) \cup SomeBasis)
     ELSE highs' = highs \ {"status"} /\ UNCHANGED <<status, holds>>
  /\ UNCHANGED <<lp, updates>>

(* No useful basis, and presolve leaves a smaller LP for the simplex solver. *)
RunPresolved ==
  /\ pc = "idle" /\ MayRun /\ pc' = "start" /\ lp' = "reduced"
  /\ {"useful", "solution"} \cap highs = {}
  /\ status' = Clear(status)
  /\ highs' = NoBasis
  /\ holds' = holds \cap {"iterate"}
  /\ UNCHANGED updates

(* Presolve leaves nothing, or crossover has found a basis of the smaller LP.*)
RunRecovers ==
  \E empty \in BOOLEAN :
    /\ pc = "idle" /\ MayRun /\ pc' = "recovered"
    /\ highs' = {"status", "solution"} \cup SomeBasis
    /\ IF empty THEN UNCHANGED <<status, holds>>
                ELSE /\ status' = Clear(status)
                     /\ holds' = holds \cap {"iterate"}
    /\ UNCHANGED <<lp, updates>>

(* Postsolve has made a basis of the LP, where the simplex solver starts.    *)
Postsolve ==
  /\ pc = "recovered" /\ pc' = "start" /\ lp' = "incumbent"
  /\ status' = Invalidate(status)
  /\ highs' = SomeBasis
  /\ holds' = holds \cap {"iterate"}
  /\ UNCHANGED updates

-----------------------------------------------------------------------------
(* A run of the simplex solver.                                              *)

(* solveLpSimplex() up to the main loop: HEkk starts from its own basis,     *)
(* else from that of the Highs object, else from the logical basis, which    *)
(* may turn out to be optimal at once.  The main loop begins by saving the   *)
(* basis it starts from, which a hot start has perhaps only updated.         *)
Start ==
  \E singular, optimal \in BOOLEAN :
    LET known == IF "basis" \in status THEN holds ELSE Given(holds)
        ready == InitialiseForSolve(MoveLp(status), singular)
        cold  == "invert" \notin status
        saves == ~optimal /\ "saved" \notin status
    IN
    /\ pc = "start"
    /\ singular => cold
    /\ pc' = IF optimal THEN "solved" ELSE "rebuild"
    /\ status' = IF optimal THEN ready
                            ELSE ClearRayRecords(ready) \cup {"saved"}
    /\ holds' = (known \ (If(singular, {"same"}) \cup If(saves, {"saved", "inverted"})))
                  \cup {"ar"} \cup If(cold, {"factor"})
                  \cup If(saves /\ (cold \/ "factor" \in holds), {"saved"})
                  \cup If(saves /\ cold /\ ~singular, {"inverted"})
    /\ updates' = IF cold THEN 0 ELSE updates
    /\ UNCHANGED <<lp, highs>>

(* rebuild() without an update to clear away, or without a refactorisation.  *)
Rebuild ==
  /\ pc = "rebuild" /\ pc' = "iterate"
  /\ status' = status \cup {"ar"}
  /\ holds' = IF "ar" \in status THEN holds ELSE holds \cup {"ar"}
  /\ UNCHANGED <<lp, highs, updates>>

(* getNonsingularInverse() of a nonsingular basis.                           *)
Refactor ==
  /\ pc = "rebuild" /\ pc' = "iterate"
  /\ updates > 0 /\ updates' = 0
  /\ status' = ComputeFactor(status, FALSE) \cup {"saved", "ar"}
  /\ holds' = holds \cup {"factor", "saved", "inverted"}
  /\ UNCHANGED <<lp, highs>>

(* and of a singular one: back to the basis saved last, if that is not       *)
(* singular too, and to the start of the phase.                              *)
MayBacktrack == "saved" \in status /\ updates > 1

Backtrack ==
  /\ pc = "rebuild" /\ updates > 0
  /\ MayBacktrack
  /\ status' = ComputeFactor(UpdateStatus(status, "Backtracking"), FALSE)
                 \cup {"ar"}
  /\ holds' = (holds \ {"same"}) \cup {"factor", "ar", "inverted"}
  /\ updates' = 0
  /\ UNCHANGED <<pc, lp, highs>>

(* Otherwise the run fails: for a saved basis that has been factorised the   *)
(* factorisation succeeds again.                                             *)
Fail ==
  /\ pc = "rebuild" /\ updates > 0
  /\ ~MayBacktrack \/ "inverted" \notin holds
  /\ Ends(NoBasis \cup {"status"})
  /\ status' = Clear(status)
  /\ updates' = 0

(* updatePivots(), updateFactor() and updateMatrix().                        *)
Iterate ==
  /\ pc = "iterate"
  /\ status' = (status \ {"fresh"}) \cup {"invert"}
  /\ holds' = holds \ {"same"}
  /\ updates' = IF updates < MaxUpdates THEN updates + 1 ELSE updates
  /\ UNCHANGED <<pc, lp, highs>>

RebuildAgain ==
  /\ pc = "iterate" /\ pc' = "rebuild"
  /\ UNCHANGED <<lp, status, highs, holds, updates>>

(* The solver returns, with a ray for an infeasible or unbounded LP.         *)
Return ==
  \E ray \in BOOLEAN :
    /\ pc = "iterate" /\ pc' = "solved"
    /\ status' = (status \ {"saved"}) \cup If(ray, {"ray"})
    /\ holds' = holds \cup If(ray, {"ray"})
    /\ UNCHANGED <<lp, highs, updates>>

(* The LP without the scaling is solved from the basis of the scaled one.    *)
SolveUnscaled ==
  /\ pc = "solved" /\ pc' = "start"
  /\ highs' = SomeBasis
  /\ holds' = holds \cup {"same"}
  /\ UNCHANGED <<lp, status, updates>>

Finish ==
  /\ pc = "solved" /\ lp = "incumbent" /\ pc' = "idle"
  /\ highs' = {"status", "solution"} \cup SomeBasis
  /\ holds' = holds \cup {"same", "status", "solution"}
  /\ UNCHANGED <<lp, status, updates>>

(* The smaller LP has been solved, or has been shown to have no solution.    *)
FinishReduced ==
  /\ pc = "solved" /\ lp = "reduced"
  /\ \/ /\ pc' = "recovered"
        /\ highs' = {"status", "solution"} \cup SomeBasis
        /\ UNCHANGED <<lp, status, holds>>
     \/ /\ Ends(NoBasis \cup {"status"})
        /\ status' = Clear(status)
  /\ UNCHANGED updates

Next == \/ ChangeCosts \/ ChangeBounds \/ ChangeCoefficient \/ AddColsOrRows
        \/ DeleteColsOrRows \/ ChangeIntegrality \/ ScaleColOrRow
        \/ SetBasis \/ ReadBasis \/ SetNoBasis \/ PutIterate \/ GetIterate
        \/ GetBasicVariables \/ SetSolution \/ Crossover \/ ClearSolver
        \/ PassModel
        \/ Presolve \/ PostsolveBasis \/ PostsolveSolution
        \/ FeasibilityRelaxation
        \/ RunDecides \/ RunInterior \/ RunMip \/ RunSimplex \/ RunPresolved
        \/ RunRecovers \/ Postsolve
        \/ Start \/ Rebuild \/ Refactor \/ Backtrack \/ Fail \/ Iterate
        \/ RebuildAgain \/ Return \/ SolveUnscaled \/ Finish \/ FinishReduced

Spec == Init /\ [][Next]_vars

-----------------------------------------------------------------------------
TypeOK == /\ pc \in PC /\ lp \in {"incumbent", "reduced"}
          /\ status \subseteq Flags /\ highs \subseteq Claims
          /\ holds \subseteq Facts /\ updates \in 0..MaxUpdates

(* Whenever has_invert is set the factorisation is that of the basis matrix, *)
(* and while the solver runs the row-wise copy is that of the matrix and the *)
(* backtracking basis one of the LP: no modification, basis change or        *)
(* presolve leaves a flag behind.                                            *)
SimplexDataIsCurrent ==
  /\ "invert" \in status => "factor" \in holds
  /\ pc \in {"rebuild", "iterate", "solved"} =>
       {"ar", "saved"} \cap status \subseteq holds

(* Between two calls, a factorisation is one of the basis that the Highs     *)
(* object has, if it has one: getBasicVariables() answers for that basis,    *)
(* and the next run starts from it.                                          *)
BasesAgree ==
  pc = "idle" /\ "valid" \in highs /\ "invert" \in status =>
    "same" \in holds /\ lp = "incumbent"

(* Between two calls, the model status was found for the LP as it is, the    *)
(* solution is none that a change of the LP has outdated, and getDualRay()   *)
(* and getPrimalRay() give a ray of the LP.                                  *)
ReportIsCurrent ==
  pc = "idle" =>
    /\ {"status", "solution"} \cap highs \subseteq holds
    /\ "status" \in highs /\ "ray" \in status => "ray" \in holds
=============================================================================
