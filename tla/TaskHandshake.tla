---------------------------- MODULE TaskHandshake ----------------------------
(***************************************************************************)
(* highs/parallel/HighsTask.h: the word through which the owner of a stolen *)
(* task and its stealer agree on who is waiting and what is finished, and   *)
(* its users in HighsSplitDeque.h and HighsTaskExecutor.h.  One slot of one *)
(* deque is modelled, round after round, with the owner's semaphore.        *)
(*                                                                          *)
(* The word is a set of bits: two flags and the address of a deque, itself  *)
(* a set of bits, so that fetch_or is a union and fetch_xor a symmetric     *)
(* difference.                                                              *)
(***************************************************************************)
EXTENDS Integers

CONSTANTS
  Owner,     (* the deque with the task slot                                *)
  Thieves,   (* the deques of the other workers                             *)
  Bits,      (* the address bits, kPtrMask                                  *)
  Address,   (* the bits of the address of each deque                       *)
  Finished,  (* kFinishedFlag                                               *)
  Cancelled, (* kCancelFlag                                                 *)
  NoOne      (* nobody has taken the task                                   *)

Deques == Thieves \cup {Owner}
Flags  == {Finished, Cancelled}

ASSUME AddressAssumption ==
  /\ Owner \notin Thieves /\ NoOne \notin Deques
  /\ Finished # Cancelled /\ Flags \cap Bits = {}
  /\ Address \in [Deques -> (SUBSET Bits) \ {{}}]
  /\ \A d, e \in Deques : Address[d] = Address[e] => d = e

VARIABLES
  word,      (* Metadata::stealer                                           *)
  opc,       (* where the owner is between spawn and the end of sync        *)
  stealer,   (* the owner's local stealer                                   *)
  thief,     (* the worker that took the task, by the deque's word          *)
  tpc,       (* where each thief is                                         *)
  waiting,   (* each thief's local waitingOwner, an address                 *)
  token,     (* the owner's semaphore, see AbstractSemaphore                *)
  complete,  (* history: the task's code ran to its end                     *)
  cancelled  (* history: cancel() was called on the task                    *)

histories == <<complete, cancelled>>
vars == <<word, opc, stealer, thief, tpc, waiting, token, histories>>

Sem == INSTANCE AbstractSemaphore WITH acquiring <- opc = "acquire"

OwnerPC == {"idle", "spawned", "getStealer", "poll", "request", "acquire",
            "finished"}
ThiefPC == {"idle", "taken", "call", "mark", "notify"}

Init == /\ word = {} /\ opc = "idle" /\ stealer = {}
        /\ thief = NoOne
        /\ tpc = [w \in Thieves |-> "idle"]
        /\ waiting = [w \in Thieves |-> {}]
        /\ token = 0
        /\ complete = FALSE /\ cancelled = FALSE

Xor(a, b) == (a \ b) \cup (b \ a)

Goto(from, to) == opc = from /\ opc' = to

------------------------------------------------------------------------------
(* The owner                                                                 *)

SetTaskData ==
  /\ Goto("idle", "spawned")
  /\ word' = {}
  /\ thief' = NoOne
  /\ complete' = FALSE /\ cancelled' = FALSE
  /\ UNCHANGED <<stealer, tpc, waiting, token>>

(* A store of the flag in place of fetch_or.                                 *)
CancelMut ==
  /\ opc = "spawned" /\ UNCHANGED opc
  /\ word' = {Cancelled}
  /\ cancelled' = TRUE
  /\ UNCHANGED <<stealer, thief, tpc, waiting, token, complete>>

(* TaskGroup::cancel(), before the task group is synced.                     *)
Cancel ==
  /\ opc = "spawned" /\ UNCHANGED opc
  /\ word' = word \cup {Cancelled}
  /\ cancelled' = TRUE
  /\ UNCHANGED <<stealer, thief, tpc, waiting, token, complete>>

(* pop() answers kWork, as nobody has taken the task: run() it, if it is not *)
(* cancelled.                                                                *)
RunOwn ==
  /\ Goto("spawned", "idle")
  /\ thief = NoOne
  /\ complete' = (word = {})
  /\ UNCHANGED <<word, stealer, thief, tpc, waiting, token, cancelled>>

(* pop() answers kStolen.                                                    *)
SyncStolen ==
  /\ Goto("spawned", "getStealer")
  /\ thief # NoOne
  /\ UNCHANGED <<word, stealer, thief, tpc, waiting, token, histories>>

(* Not waiting for the thief: no address is taken for finished.              *)
GetStealerMut ==
  /\ Goto("getStealer", IF word \ Flags = {} THEN "finished" ELSE "poll")
  /\ stealer' = word \ Flags
  /\ UNCHANGED <<word, thief, tpc, waiting, token, histories>>

(* getStealerIfUnfinished(): spin until the thief has started the task.      *)
SpinForStealer ==
  /\ opc = "getStealer"
  /\ word \ {Cancelled} = {}
  /\ UNCHANGED vars

GetStealer ==
  /\ Goto("getStealer", IF Finished \in word THEN "finished" ELSE "poll")
  /\ word \ {Cancelled} # {}
  /\ stealer' = IF Finished \in word THEN {} ELSE word \ Flags
  /\ UNCHANGED <<word, thief, tpc, waiting, token, histories>>

(* Testing for any flag where kFinishedFlag is meant.                        *)
PollFinishedMut ==
  /\ Goto("poll", "finished")
  /\ word \cap Flags # {}
  /\ UNCHANGED <<word, stealer, thief, tpc, waiting, token, histories>>

(* isFinished() in the loops that steal from the stealer or spin.            *)
PollFinished ==
  /\ Goto("poll", "finished")
  /\ Finished \in word
  /\ UNCHANGED <<word, stealer, thief, tpc, waiting, token, histories>>

(* The loops have taken too long: ask for a notification.                    *)
StopPolling ==
  /\ Goto("poll", "request")
  /\ Finished \notin word
  /\ UNCHANGED <<word, stealer, thief, tpc, waiting, token, histories>>

(* A task that the owner stole meanwhile ends with checkInterrupt(): the     *)
(* exception leaves sync(), and what handles it, runStolenTask() or a task   *)
(* group's destructor, cancels the task and waits for it again.              *)
Unwind ==
  /\ Goto("poll", "getStealer")
  /\ word' = word \cup {Cancelled}
  /\ cancelled' = TRUE
  /\ UNCHANGED <<stealer, thief, tpc, waiting, token, complete>>

(* Waiting even if the task was finished before the request.                 *)
WaitAnywayMut ==
  /\ Goto("request", "acquire")
  /\ word' = Xor(word, Xor(Address[Owner], stealer))
  /\ UNCHANGED <<stealer, thief, tpc, waiting, token, histories>>

(* requestNotifyWhenFinished(), by an owner that holds its semaphore's mutex *)
(* until acquire() has announced it.                                         *)
RequestNotify ==
  /\ Goto("request", IF Finished \in word THEN "finished" ELSE "acquire")
  /\ word' = Xor(word, Xor(Address[Owner], stealer))
  /\ UNCHANGED <<stealer, thief, tpc, waiting, token, histories>>

Acquire ==
  /\ Goto("acquire", "finished")
  /\ Sem!Acquire
  /\ UNCHANGED <<word, stealer, thief, tpc, waiting, histories>>

(* popStolen(): the slot is free.                                            *)
PopStolen ==
  /\ Goto("finished", "idle")
  /\ UNCHANGED <<word, stealer, thief, tpc, waiting, token, histories>>

------------------------------------------------------------------------------
(* A thief                                                                   *)

ThiefStep(w, from, to) == /\ tpc[w] = from
                          /\ tpc' = [tpc EXCEPT ![w] = to]
                          /\ UNCHANGED <<opc, stealer>>

(* The deque's word lets one worker take the task, before the owner pops it. *)
Steal(w) ==
  /\ ThiefStep(w, "idle", "taken")
  /\ opc = "spawned"
  /\ thief = NoOne
  /\ thief' = w
  /\ UNCHANGED <<word, waiting, token, histories>>

(* run(stealer): a task that is cancelled already is not run.                *)
Run(w) ==
  /\ ThiefStep(w, "taken", IF word = {} THEN "call" ELSE "mark")
  /\ word' = word \cup Address[w]
  /\ UNCHANGED <<thief, waiting, token, histories>>

(* The task's code returns ...                                               *)
Call(w) ==
  /\ ThiefStep(w, "call", "mark")
  /\ complete' = TRUE
  /\ UNCHANGED <<word, thief, waiting, token, cancelled>>

(* ... or meets checkInterrupt() when it is cancelled; runStolenTask() then  *)
(* unwinds.                                                                  *)
Interrupt(w) ==
  /\ ThiefStep(w, "call", "mark")
  /\ Cancelled \in word
  /\ UNCHANGED <<word, thief, waiting, token, histories>>

(* Taking the word for an address without masking the cancel flag.           *)
MarkAsFinishedMut(w) ==
  /\ ThiefStep(w, "mark", IF word \ {Finished} = Address[w] THEN "idle"
                                                            ELSE "notify")
  /\ word' = {Finished}
  /\ waiting' = [waiting EXCEPT ![w] = word \ {Finished}]
  /\ UNCHANGED <<thief, token, histories>>

(* markAsFinished(): exchange the word, and learn whether the owner waits.   *)
MarkAsFinished(w) ==
  /\ ThiefStep(w, "mark", IF word \ Flags = Address[w] THEN "idle"
                                                       ELSE "notify")
  /\ word' = {Finished}
  /\ waiting' = [waiting EXCEPT ![w] = word \ Flags]
  /\ UNCHANGED <<thief, token, histories>>

(* owner->notify(): the semaphore of the deque at that address.              *)
Notify(w) ==
  /\ ThiefStep(w, "notify", "idle")
  /\ IF waiting[w] = Address[Owner] THEN Sem!Release ELSE UNCHANGED token
  /\ UNCHANGED <<word, thief, waiting, histories>>

Syncs == \/ GetStealer \/ PollFinished \/ StopPolling \/ RequestNotify
         \/ Acquire \/ PopStolen
Runs(w) == Run(w) \/ Call(w) \/ Interrupt(w) \/ MarkAsFinished(w) \/ Notify(w)

Next == \/ SetTaskData \/ Cancel \/ RunOwn \/ SyncStolen \/ SpinForStealer \/ Unwind
        \/ Syncs
        \/ \E w \in Thieves : Steal(w) \/ Runs(w)

Spec == Init /\ [][Next]_vars

(* An owner in sync() and a thief that has taken a task go on; the task's    *)
(* code ends.  Nobody has to spawn, cancel, sync or steal.                   *)
FairSpec == /\ Spec
            /\ WF_vars(Syncs)
            /\ \A w \in Thieves : WF_vars(Runs(w))

------------------------------------------------------------------------------
(* The variables have their types: the stealer word holds nothing but an     *)
(* address and flags, and at most one token.                                 *)
TypeOK == /\ word \subseteq Bits \cup Flags
          /\ opc \in OwnerPC
          /\ stealer \subseteq Bits
          /\ thief \in Thieves \cup {NoOne}
          /\ tpc \in [Thieves -> ThiefPC]
          /\ waiting \in [Thieves -> SUBSET Bits]
          /\ token \in {0, 1}
          /\ complete \in BOOLEAN /\ cancelled \in BOOLEAN

(* sync() returns only when the stolen task has run to its end, or was       *)
(* cancelled: the caller uses its results from then on.                      *)
SyncMeansDone == opc = "finished" => complete \/ cancelled

(* The slot is free only when its thief is done with it: push() overwrites   *)
(* the word that markAsFinished() exchanges (HighsTask.h:71, 98).            *)
FreeSlotIsLeft == opc \in {"idle", "finished"} => \A w \in Thieves : tpc[w] = "idle"

(* Only a waiting owner is notified, and by nobody but the thief of its      *)
(* task: no stray token makes a later acquire() of this worker return early, *)
(* on which waitForTaskToFinish() and waitForNewTask() rely.                 *)
NoStrayToken ==
  /\ token = 1 => opc = "acquire"
  /\ \A w \in Thieves : tpc[w] = "notify" =>
       opc = "acquire" /\ w = thief /\ waiting[w] = Address[Owner] /\ token = 0

(* An owner that sleeps on its semaphore is told when the task is finished,  *)
(* however the request and markAsFinished() race.                            *)
SleeperIsTold ==
  opc = "acquire" =>
    \/ token = 1
    \/ tpc[thief] = "notify"
    \/ tpc[thief] \in {"call", "mark"} /\ word \ Flags = Address[Owner]

(* sync() of a stolen task returns.                                          *)
SyncEnds == (opc \notin {"idle", "spawned"}) ~> (opc = "idle")
------------------------------------------------------------------------------
(* The inductive invariant behind the properties above.                      *)

InRound == {"spawned", "getStealer", "poll", "request", "acquire"}

(* Only the thief of this round's task is at work, until it has notified the *)
(* owner, and the owner knows its address from the time it polls.            *)
PlaceInv ==
  /\ \A w \in Thieves : tpc[w] # "idle" => w = thief /\ opc \in InRound
  /\ opc \notin {"idle", "spawned"} => thief # NoOne
  /\ opc \in {"poll", "request", "acquire"} =>
       tpc[thief] # "taken" /\ stealer = Address[thief]
  /\ token = 1 => \A w \in Thieves : tpc[w] = "idle"

(* What the word says while the task is in the deque: no address before the  *)
(* thief starts, then the thief's or, once the owner waits, the owner's, and *)
(* at the end the flag.                                                      *)
WordInv ==
  opc \in InRound =>
    /\ Cancelled \in word => cancelled
    /\ thief = NoOne \/ tpc[thief] = "taken" => word \subseteq {Cancelled}
    /\ thief # NoOne /\ tpc[thief] \in {"call", "mark"} =>
         /\ Finished \notin word
         /\ word \ Flags = Address[IF opc = "acquire" THEN Owner ELSE thief]
    /\ thief # NoOne /\ tpc[thief] \in {"idle", "notify"} => Finished \in word

(* The task has its outcome before the thief marks it as finished.           *)
OutcomeInv ==
  /\ opc \in InRound /\ thief # NoOne /\ tpc[thief] \in {"mark", "idle", "notify"}
       => complete \/ cancelled
  /\ SyncMeansDone

IInv == /\ TypeOK /\ PlaceInv /\ WordInv /\ OutcomeInv /\ NoStrayToken
        /\ SleeperIsTold
==============================================================================
