----------------------------- MODULE SleeperPool -----------------------------
(***************************************************************************)
(* What WorkerBunk's sleeper stack promises to waitForNewTask() and         *)
(* publishWork(): a pool of sleeping workers from which a publisher takes   *)
(* one for itself, to wake it or to put it back.                            *)
(***************************************************************************)
CONSTANT Workers

VARIABLE place   (* "awake", "pool", or the worker that has taken the sleeper *)

Init == place = [d \in Workers |-> "awake"]

Move(d, from, to) == /\ place[d] = from
                     /\ place' = [place EXCEPT ![d] = to]

Enter(d)      == Move(d, "awake", "pool")
Take(w, d)    == place[w] = "awake" /\ Move(d, "pool", w)
PutBack(w, d) == place[w] = "awake" /\ Move(d, w, "pool")
Wake(w, d)    == place[w] = "awake" /\ Move(d, w, "awake")

Next == \E d \in Workers :
          \/ Enter(d)
          \/ \E w \in Workers : Take(w, d) \/ PutBack(w, d) \/ Wake(w, d)

Spec == Init /\ [][Next]_place
==============================================================================
