---------------------------- MODULE SimplexStatus ----------------------------
(***************************************************************************)
(* highs/simplex/HEkk.cpp: what the simplex engine says that it holds, as a *)
(* set of names, and the functions that withdraw some of it.  The flags of  *)
(* HighsSimplexStatus that say whether objective values, edge weights and a *)
(* rebuild are up to date are left out.                                     *)
(*   "new_lp"   initialised_for_new_lp                                      *)
(*   "basis"    has_basis: basis_ is a basis of the LP                      *)
(*   "nla"      has_nla: the numerical linear algebra is set up             *)
(*   "ar"       has_ar_matrix: there is a row-wise copy of the matrix,      *)
(*              partitioned by basis_ into nonbasic and basic columns       *)
(*   "invert"   has_invert: there is a factorisation of the basis matrix    *)
(*   "fresh"    has_fresh_invert: and no update has been applied to it      *)
(*   "ray"      the index of dual_ray_record_ or primal_ray_record_ is set  *)
(*   "saved"    info_.valid_backtracking_basis_                             *)
(*   "iterate"  simplex_nla_.simplex_iterate_.valid_                        *)
(***************************************************************************)

Flags == {"new_lp", "basis", "nla", "ar", "invert", "fresh", "ray", "saved",
          "iterate"}

ClearRayRecords(status) == status \ {"ray"}

InvalidateBasisArtifacts(status) ==
  ClearRayRecords(status \ {"ar", "invert", "fresh"})

InvalidateBasis(status) == InvalidateBasisArtifacts(status \ {"basis"})

InvalidateBasisMatrix(status) == InvalidateBasis(status \ {"nla"})

Invalidate(status) == InvalidateBasisMatrix(status \ {"new_lp"})

(* clear() forgets everything but the iterate that putIterate() has saved.   *)
Clear(status) == status \cap {"iterate"}

(* Mutant: a scaled column leaves the factorisation behind.                  *)
UpdateStatusMut(status, action) ==
  CASE action \in {"NewCosts", "NewBounds"} -> status
    [] action = "NewBasis" -> InvalidateBasis(status)
    [] action \in {"ScaledCol", "ScaledRow"} -> status \ {"ar"}
    [] action \in {"NewCols", "NewRows", "DelCols", "DelRows"} -> Clear(status)
    [] action = "Backtracking" -> status \ {"ar"}

(* updateStatus(), for the actions that the callers pass.                    *)
UpdateStatus(status, action) ==
  CASE action \in {"NewCosts", "NewBounds"} -> status
    [] action = "NewBasis" -> InvalidateBasis(status)
    [] action \in {"ScaledCol", "ScaledRow"} -> InvalidateBasisMatrix(status)
    [] action \in {"NewCols", "NewRows", "DelCols", "DelRows"} -> Clear(status)
    [] action = "Backtracking" -> status \ {"ar"}

MoveLp(status) == (status \ {"ar"}) \cup {"new_lp"}

ComputeFactor(status, singular) ==
  IF singular THEN status \ {"invert", "fresh"}
              ELSE status \cup {"invert", "fresh"}

(* initialiseSimplexLpBasisAndFactor(): a basis that turns out to be singular*)
(* has its dependent columns replaced by logicals, which makes it a new one. *)
BasisAndFactor(status, singular) ==
  LET ready == status \cup {"basis", "nla"} IN
  IF "invert" \in status THEN ready
  ELSE IF singular
       THEN UpdateStatus(ComputeFactor(ready, TRUE), "NewBasis")
              \cup {"basis", "invert", "fresh"}
       ELSE ComputeFactor(ready, FALSE)

(* initialisePartitionedRowwiseMatrix() is the last step of initialiseForSolve.*)
InitialiseForSolve(status, singular) == BasisAndFactor(status, singular) \cup {"ar"}
=============================================================================
