------------------------------ MODULE TaskStack ------------------------------
(***************************************************************************)
(* What a HighsSplitDeque promises to its owner's spawn() and sync(): a     *)
(* stack of tasks.  The owner adds and takes at the top, thieves take the   *)
(* oldest queued task, and a stolen task stays until it is done.            *)
(***************************************************************************)
EXTENDS Integers

CONSTANTS N,       (* tasks the stack can queue; more are run when added     *)
          MaxHead  (* bound on the number of tasks added and not yet removed *)

VARIABLES head,    (* number of tasks added and not yet removed              *)
          state    (* the state of the task in each slot                     *)

stackVars == <<head, state>>

Init == /\ head = 0
        /\ state = [i \in 0 .. N - 1 |-> "free"]

Push == /\ head < N /\ head < MaxHead
        /\ head' = head + 1
        /\ state' = [state EXCEPT ![head] = "queued"]

PushOverflow == /\ head >= N /\ head < MaxHead
                /\ head' = head + 1
                /\ UNCHANGED state

PopOverflown == /\ head > N
                /\ head' = head - 1
                /\ UNCHANGED state

(* The owner takes the task on top to run it.                                *)
Pop == /\ head \in 1 .. N
       /\ state[head - 1] = "queued"
       /\ head' = head - 1
       /\ state' = [state EXCEPT ![head - 1] = "free"]

(* The task on top is stolen: it leaves when its thief is done with it.      *)
PopStolen == /\ head \in 1 .. N
             /\ state[head - 1] = "done"
             /\ head' = head - 1
             /\ state' = [state EXCEPT ![head - 1] = "free"]

Steal(i) == /\ state[i] = "queued"
            /\ \A j \in 0 .. N - 1 : j < i => state[j] # "queued"
            /\ state' = [state EXCEPT ![i] = "stolen"]
            /\ UNCHANGED head

Finish(i) == /\ state[i] = "stolen"
             /\ state' = [state EXCEPT ![i] = "done"]
             /\ UNCHANGED head

Next == \/ Push \/ PushOverflow \/ PopOverflown \/ Pop \/ PopStolen
        \/ \E i \in 0 .. N - 1 : Steal(i) \/ Finish(i)

Spec == Init /\ [][Next]_stackVars
==============================================================================
