--------------------------- MODULE MCTaskHandshake ---------------------------
(* Model-checking instance of TaskHandshake: the owner's address and one      *)
(* thief's are the two halves of the other thief's.                           *)
EXTENDS TaskHandshake, TLC

CONSTANTS w1, w2

MCAddress == (Owner :> {1}) @@ (w1 :> {2}) @@ (w2 :> {1, 2})
==============================================================================
