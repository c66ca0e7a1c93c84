-------------------------- MODULE AbstractSemaphore --------------------------
(***************************************************************************)
(* What HighsBinarySemaphore promises to the worker that owns it: a token  *)
(* that any thread may set and that a call of acquire() takes.  Setting it *)
(* twice before it is taken is the same as setting it once.                *)
(***************************************************************************)
EXTENDS Naturals

VARIABLES
  token,      (* 1 if a release has not been taken yet, else 0             *)
  acquiring   (* is the owner inside acquire()?                            *)

absVars == <<token, acquiring>>

Init == /\ token = 0
        /\ acquiring = FALSE

Release == /\ token' = 1
           /\ UNCHANGED acquiring

StartAcquire == /\ ~acquiring
                /\ acquiring' = TRUE
                /\ UNCHANGED token

Acquire == /\ acquiring
           /\ token = 1
           /\ token' = 0
           /\ acquiring' = FALSE

Next == Release \/ StartAcquire \/ Acquire

Spec == Init /\ [][Next]_absVars
==============================================================================
