---------------------------- MODULE MCMipSolver ----------------------------
(* Cells with different costs, and one that is infeasible.                   *)
EXTENDS MipSolver

MCCells == 1..3
MCCost == <<2, 4, Infinity>>
MCBounds == {2}
=============================================================================
