---------------------------- MODULE MCSplitDeque ----------------------------
(* Model-checking instance of SplitDeque. *)
EXTENDS SplitDeque, TLC

ThiefSymmetry == Permutations(Thieves)
==============================================================================
