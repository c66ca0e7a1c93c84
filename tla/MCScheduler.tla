---------------------------- MODULE MCScheduler ----------------------------
(* Model-checking instance of Scheduler: two trees of four tasks, three       *)
(* levels deep, one for the program's own properties and one for what an      *)
(* Interrupt does to a plain task group.                                      *)
EXTENDS Scheduler, TLC

CONSTANTS main, w1, w2, root, a, b, c, e

MCChildren == (root :> <<a, b>>) @@ (a :> <<c>>) @@ (c :> <<e>>) @@ (b :> <<>>) @@ (e :> <<>>)

MCChain == (root :> <<a>>) @@ (a :> <<c, b>>) @@ (c :> <<e>>) @@ (b :> <<>>) @@ (e :> <<>>)

ThiefSymmetry == Permutations(Workers \ {Main})
==============================================================================
