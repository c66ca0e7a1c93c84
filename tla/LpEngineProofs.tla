---------------------------- MODULE LpEngineProofs ----------------------------
(***************************************************************************)
(* Proofs about LpEngine, for a caller that keeps to both rules.            *)
(***************************************************************************)
EXTENDS LpEngine, TLAPS

Solving == {"rebuild", "iterate", "solved"}

(* The flags of HEkk imply one another: a factorisation, a row-wise copy in  *)
(* a run and a ray record need a basis.                                      *)
FlagsAgree ==
  /\ "basis" \notin status => {"invert", "ray"} \cap status = {}
  /\ "fresh" \in status => "invert" \in status
  /\ pc \in Solving => {"basis", "invert", "ar"} \subseteq status

(* There is a backtracking basis in the main loop and nowhere else, and no   *)
(* ray record.                                                               *)
SavedInLoop ==
  /\ "saved" \in status <=> pc \in {"rebuild", "iterate"}
  /\ pc \in {"rebuild", "iterate"} => "ray" \notin status

(* Between two calls HEkk has a basis of the LP, which is that of the Highs  *)
(* object if this has one.                                                   *)
OneBasis ==
  pc = "idle" => /\ lp = "incumbent"
                 /\ "valid" \in highs /\ "basis" \in status => "same" \in holds

(* What is reported is current; only after getIterate() may the ray record   *)
(* be one of an earlier basis, when no model status is set.                  *)
Reported ==
  /\ pc = "idle" => {"status", "solution"} \cap highs \subseteq holds
  /\ "ray" \in status /\ "ray" \notin holds =>
       pc = "idle" /\ "status" \notin highs

IInv == /\ TypeOK /\ SimplexDataIsCurrent /\ FlagsAgree /\ SavedInLoop
        /\ OneBasis /\ Reported

(* The names in the sets are distinct strings, so every step below is set    *)
(* reasoning on what an action adds and withdraws.                           *)
LEMMA Initially == Init => IInv
  BY DEF Init, IInv, TypeOK, SimplexDataIsCurrent, FlagsAgree, SavedInLoop,
         OneBasis, Reported, Solving, NoBasis, PC, Flags, Claims, Facts,
         MaxUpdates

LEMMA Step ==
  ASSUME Rules = AllRules, IInv, [Next]_vars
  PROVE  IInv'
  <1> USE Rules = AllRules, IInv
          DEF IInv, TypeOK, SimplexDataIsCurrent, FlagsAgree, SavedInLoop,
              OneBasis, Reported, Solving, PC, Flags, Claims, Facts, MaxUpdates
  <1>1. CASE ChangeCosts
    BY <1>1 DEF ChangeCosts, Modify, UpdateStatus, ClearRayRecords,
      InvalidateBasis, InvalidateBasisMatrix, Clear, InvalidateBasisArtifacts
  <1>2. CASE ChangeBounds
    BY <1>2 DEF ChangeBounds, If, Modify, UpdateStatus, ClearRayRecords,
      InvalidateBasis, InvalidateBasisMatrix, Clear, InvalidateBasisArtifacts
  <1>3. CASE ChangeCoefficient
    BY <1>3 DEF ChangeCoefficient, If, Modify, UpdateStatus, ClearRayRecords,
      InvalidateBasis, InvalidateBasisMatrix, Clear, InvalidateBasisArtifacts
  <1>4. CASE AddColsOrRows
    BY <1>4 DEF AddColsOrRows, Modify, UpdateStatus, ClearRayRecords,
      InvalidateBasis, InvalidateBasisMatrix, Clear, InvalidateBasisArtifacts
  <1>5. CASE DeleteColsOrRows
    BY <1>5 DEF DeleteColsOrRows, If, Modify, UpdateStatus, ClearRayRecords,
      InvalidateBasis, InvalidateBasisMatrix, Clear, InvalidateBasisArtifacts
  <1>6. CASE ScaleColOrRow
    BY <1>6 DEF ScaleColOrRow, Modify, UpdateStatus, ClearRayRecords,
      InvalidateBasis, InvalidateBasisMatrix, Clear, InvalidateBasisArtifacts
  <1>7. CASE SetBasis
    BY <1>7 DEF SetBasis, NoBasis, SomeBasis, Forget, UpdateStatus,
      InvalidateBasis, InvalidateBasisMatrix, Clear,
      InvalidateBasisArtifacts, ClearRayRecords
  <1>8. CASE ReadBasis
    BY <1>8 DEF ReadBasis, SomeBasis, Forget, UpdateStatus, InvalidateBasis,
      InvalidateBasisMatrix, Clear, InvalidateBasisArtifacts, ClearRayRecords
  <1>9. CASE SetNoBasis
    BY <1>9 DEF SetNoBasis, NoBasis, SomeBasis, Forget, UpdateStatus,
      InvalidateBasis, InvalidateBasisMatrix, Clear,
      InvalidateBasisArtifacts, ClearRayRecords
  <1>10. CASE PutIterate
    BY <1>10 DEF PutIterate, If
  <1>11. CASE GetIterate
    BY <1>11 DEF GetIterate, SomeBasis, If, Keeps, AllRules
  <1>12. CASE GetBasicVariables
    <2>1. CASE "invert" \in status /\ UNCHANGED vars
      BY <2>1 DEF vars
    <2>2. CASE "invert" \notin status
      <3>1. /\ pc = "idle" /\ "valid" \in highs /\ "alien" \notin highs
            /\ updates' = 0 /\ UNCHANGED <<pc, lp, highs>>
        BY <1>12, <2>2 DEF GetBasicVariables
      <3>2. PICK singular \in BOOLEAN :
              /\ status' = ComputeFactor(MoveLp(status) \cup {"basis", "nla"},
                                         singular)
              /\ holds' = LET known == IF "basis" \in status THEN holds
                                                             ELSE Given(holds)
                          IN  IF singular THEN known \ {"factor"}
                                          ELSE known \cup {"factor"}
        BY <1>12, <2>2 DEF GetBasicVariables
      <3>3. CASE singular
        BY <2>2, <3>1, <3>2, <3>3 DEF ComputeFactor, MoveLp, Given
      <3>4. CASE ~singular
        BY <2>2, <3>1, <3>2, <3>4 DEF ComputeFactor, MoveLp, Given
      <3>5. QED
        BY <3>3, <3>4
    <2>3. QED
      BY <1>12, <2>1, <2>2 DEF GetBasicVariables
  <1>13. CASE ClearSolver
    BY <1>13 DEF ClearSolver, NoBasis, ClearRayRecords, Invalidate,
      InvalidateBasisMatrix, InvalidateBasis, InvalidateBasisArtifacts
  <1>14. CASE PassModel
    BY <1>14 DEF PassModel, NoBasis, ClearRayRecords, Invalidate,
      InvalidateBasisMatrix, InvalidateBasis, InvalidateBasisArtifacts
  <1>15. CASE RunDecides
    BY <1>15 DEF RunDecides, NoBasis, Ends, MayRun, Keeps, AllRules
  <1>16. CASE RunInterior
    BY <1>16 DEF RunInterior, NoBasis, SomeBasis, Keeps, Clear, Ends, MayRun,
      AllRules
  <1>17. CASE RunMip
    BY <1>17 DEF RunMip, NoBasis, If, Invalidate, Ends, MayRun,
      InvalidateBasisMatrix, Keeps, InvalidateBasis,
      InvalidateBasisArtifacts, ClearRayRecords, AllRules
  <1>18. CASE RunSimplex
    BY <1>18 DEF RunSimplex, SomeBasis, Forget, MayRun, UpdateStatus, Keeps,
      InvalidateBasis, InvalidateBasisMatrix, Clear,
      InvalidateBasisArtifacts, ClearRayRecords, AllRules
  <1>19. CASE RunPresolved
    BY <1>19 DEF RunPresolved, NoBasis, Clear, MayRun, Keeps, AllRules
  <1>20. CASE RunRecovers
    <2>1. /\ pc = "idle" /\ MayRun /\ pc' = "recovered"
          /\ highs' = {"status", "solution"} \cup SomeBasis
          /\ UNCHANGED <<lp, updates>>
          /\ \/ status' = status /\ holds' = holds
             \/ status' = Clear(status) /\ holds' = holds \cap {"iterate"}
      BY <1>20, Zenon DEF RunRecovers
    <2>2. CASE status' = status /\ holds' = holds
      BY <2>1, <2>2 DEF MayRun, SomeBasis, Keeps, AllRules
    <2>3. CASE status' = Clear(status) /\ holds' = holds \cap {"iterate"}
      BY <2>1, <2>3 DEF SomeBasis, Clear
    <2>4. QED
      BY <2>1, <2>2, <2>3
  <1>21. CASE Postsolve
    BY <1>21 DEF Postsolve, SomeBasis, Invalidate, InvalidateBasisMatrix,
      InvalidateBasis, InvalidateBasisArtifacts, ClearRayRecords
  <1>22. CASE Start
    BY <1>22 DEF Start, If, ClearRayRecords, MoveLp, InitialiseForSolve,
      Given, BasisAndFactor, UpdateStatus, ComputeFactor, InvalidateBasis,
      InvalidateBasisMatrix, Clear, InvalidateBasisArtifacts
  <1>23. CASE Rebuild
    BY <1>23 DEF Rebuild
  <1>24. CASE Refactor
    BY <1>24 DEF Refactor, ComputeFactor
  <1>25. CASE Backtrack
    BY <1>25 DEF Backtrack, UpdateStatus, ComputeFactor, MayBacktrack,
      InvalidateBasis, InvalidateBasisMatrix, Clear,
      InvalidateBasisArtifacts, ClearRayRecords
  <1>26. CASE Fail
    BY <1>26 DEF Fail, NoBasis, Clear, Ends
  <1>27. CASE Iterate
    BY <1>27 DEF Iterate
  <1>28. CASE RebuildAgain
    BY <1>28 DEF RebuildAgain
  <1>29. CASE Return
    BY <1>29 DEF Return, If
  <1>30. CASE SolveUnscaled
    BY <1>30 DEF SolveUnscaled, SomeBasis
  <1>31. CASE Finish
    BY <1>31 DEF Finish, SomeBasis
  <1>32. CASE FinishReduced
    BY <1>32 DEF FinishReduced, NoBasis, SomeBasis, Clear, Ends
  <1>33. CASE ChangeIntegrality
    BY <1>33 DEF ChangeIntegrality
  <1>34. CASE SetSolution
    BY <1>34 DEF SetSolution, NoBasis, If, Invalidate, InvalidateBasisMatrix,
      InvalidateBasis, InvalidateBasisArtifacts, ClearRayRecords
  <1>35. CASE Crossover
    <2>1. /\ pc = "idle" /\ UNCHANGED <<pc, lp, updates>>
          /\ status' = Invalidate(ClearRayRecords(status))
          /\ highs' \subseteq Claims
          /\ holds' = (holds \ {"same"}) \cup {"status", "solution"}
      BY <1>35 DEF Crossover, NoBasis, SomeBasis
    <2>2. QED
      BY <2>1 DEF Invalidate, InvalidateBasisMatrix, InvalidateBasis,
        InvalidateBasisArtifacts, ClearRayRecords
  <1>36. CASE Presolve
    BY <1>36 DEF Presolve, NoBasis, MayRun, Keeps, AllRules
  <1>37. CASE PostsolveBasis
    BY <1>37 DEF PostsolveBasis, SomeBasis, Invalidate, InvalidateBasisMatrix,
      InvalidateBasis, InvalidateBasisArtifacts, ClearRayRecords
  <1>38. CASE PostsolveSolution
    BY <1>38 DEF PostsolveSolution, NoBasis, MayRun, Keeps, AllRules
  <1>39. CASE FeasibilityRelaxation
    BY <1>39 DEF FeasibilityRelaxation, NoBasis, If, Clear
  <1>40. CASE UNCHANGED vars
    BY <1>40 DEF vars
  <1>41. QED
    BY <1>1, <1>2, <1>3, <1>4, <1>5, <1>6, <1>7, <1>8, <1>9, <1>10, <1>11,
       <1>12, <1>13, <1>14, <1>15, <1>16, <1>17, <1>18, <1>19, <1>20, <1>21,
       <1>22, <1>23, <1>24, <1>25, <1>26, <1>27, <1>28, <1>29, <1>30, <1>31,
       <1>32, <1>33, <1>34, <1>35, <1>36, <1>37, <1>38, <1>39, <1>40 DEF Next

LEMMA Invariance == ASSUME Rules = AllRules PROVE Spec => []IInv
  BY Initially, Step, PTL DEF Spec

(* Type correctness: no call leaves an unknown flag, claim or count.         *)
THEOREM TypeCorrect == ASSUME Rules = AllRules PROVE Spec => []TypeOK
  <1>1. IInv => TypeOK
    BY DEF IInv
  <1>2. QED
    BY <1>1, Invariance, PTL

(* Whatever sequence of calls led to it, a flag that HEkk keeps between two  *)
(* calls, or uses in the simplex loop, is about the LP and the basis that    *)
(* HEkk has now.                                                             *)
THEOREM DataStayCurrent ==
  ASSUME Rules = AllRules PROVE Spec => []SimplexDataIsCurrent
  <1>1. IInv => SimplexDataIsCurrent
    BY DEF IInv
  <1>2. QED
    BY <1>1, Invariance, PTL

(* Between two calls the factorisation is of the basis of the Highs object.  *)
THEOREM OneBasisBetweenCalls ==
  ASSUME Rules = AllRules PROVE Spec => []BasesAgree
  <1>1. IInv => BasesAgree
    BY DEF IInv, OneBasis, FlagsAgree, BasesAgree
  <1>2. QED
    BY <1>1, Invariance, PTL

(* Between two calls no status, solution or ray of an earlier LP is reported.*)
THEOREM ReportsStayCurrent ==
  ASSUME Rules = AllRules PROVE Spec => []ReportIsCurrent
  <1>1. IInv => ReportIsCurrent
    BY DEF IInv, Reported, ReportIsCurrent
  <1>2. QED
    BY <1>1, Invariance, PTL

=============================================================================
