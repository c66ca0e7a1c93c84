---------------------------- MODULE MCSleeperStack ----------------------------
(* Model-checking instance of SleeperStack. *)
EXTENDS SleeperStack, TLC

WorkerSymmetry == Permutations(Workers \ {Main})
==============================================================================
