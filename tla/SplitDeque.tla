------------------------------ MODULE SplitDeque ------------------------------
(***************************************************************************)
(* highs/parallel/HighsSplitDeque.h: the work-stealing deque of one worker, *)
(* its owner, and the other workers, the thieves, that steal from it.       *)
(* The slots 0..Tasks-1 hold the queued tasks.  The word ts packs the first *)
(* slot that is not stolen (tail) and the end of the part thieves may take  *)
(* (split).  An action is one access to a variable that both sides use,     *)
(* with the owner's local work that goes with it.                           *)
(***************************************************************************)
EXTENDS Integers

CONSTANTS
  N,        (* kTaskArraySize                                               *)
  MaxHead,  (* bound on the number of tasks spawned and not yet synced      *)
  Thieves,  (* the other workers                                            *)
  NoOne,    (* no stealer yet                                               *)
  Finished  (* HighsTask::kFinishedFlag: a thief has run the task           *)

ASSUME DequeAssumption ==
  /\ N \in Nat \ {0}
  /\ MaxHead \in Nat
  /\ NoOne \notin Thieves /\ Finished \notin Thieves /\ NoOne # Finished

VARIABLES
  head,           (* OwnerData::head: tasks spawned and not yet synced      *)
  splitCopy,      (* OwnerData::splitCopy                                   *)
  allStolenCopy,  (* OwnerData::allStolenCopy                               *)
  waiting,        (* slots whose stealer the owner waits for, nested frames *)
  opc,            (* where the owner is in push() or pop()                  *)
  caller,         (* what runs again when growShared() returns              *)
  cur,            (* the owner's local t                                    *)
  sleeper,        (* publishWork()'s local sleeper                          *)
  tail, split,    (* StealerData::ts                                        *)
  allStolen,      (* StealerData::allStolen                                 *)
  splitRequest,   (* HighsSplitDeque::splitRequest                          *)
  jobs,           (* what this deque adds to WorkerBunk::haveJobs           *)
  stealer,        (* HighsTask's stealer word of each slot                  *)
  takes,          (* history: how often the task in a slot was taken        *)
  tpc,            (* where each thief is                                    *)
  seen,           (* the (tail, split) each thief has loaded                *)
  listChanged     (* has another worker changed the list of sleepers since  *)
                  (* the owner loaded its word?                             *)

ownerVars == <<head, splitCopy, allStolenCopy, waiting, caller, cur>>
wordVars  == <<tail, split>>
flagVars  == <<allStolen, splitRequest, jobs>>
taskVars  == <<stealer, takes>>
thiefVars == <<tpc, seen, listChanged>>
vars == <<head, splitCopy, allStolenCopy, waiting, opc, caller, cur, sleeper,
          tail, split, allStolen, splitRequest, jobs, stealer, takes, tpc, seen,
          listChanged>>

Slots == 0 .. N - 1

(* The number of tasks that are in the array: those past it have been run by *)
(* push() itself.                                                            *)
Live == IF head < N THEN head ELSE N

NoWord == [t |-> 0, s |-> 0]

Init == /\ head = 0 /\ splitCopy = 0 /\ allStolenCopy = TRUE
        /\ waiting = {} /\ opc = "idle" /\ caller = "push" /\ cur = 0
        /\ sleeper = NoOne
        /\ tail = 0 /\ split = 0 /\ allStolen = TRUE /\ splitRequest = FALSE
        /\ jobs = 0
        /\ stealer = [i \in Slots |-> NoOne]
        /\ takes = [i \in Slots |-> 0]
        /\ tpc = [w \in Thieves |-> "idle"]
        /\ seen = [w \in Thieves |-> NoWord]
        /\ listChanged = FALSE

Taken(i) == takes' = [takes EXCEPT ![i] = @ + 1]

Goto(from, to) == opc = from /\ opc' = to

------------------------------------------------------------------------------
(* push()                                                                    *)

NewTask == /\ stealer' = [stealer EXCEPT ![head] = NoOne]
           /\ takes' = [takes EXCEPT ![head] = 0]

(* Every queued task is stolen: the new one is the whole shared part.  The   *)
(* owner's copies change with the store that publishes the task.             *)
PushToEmpty ==
  /\ Goto("idle", "clearAllStolen")
  /\ head < MaxHead /\ head < N
  /\ allStolenCopy
  /\ NewTask
  /\ head' = head + 1
  /\ tail' = head /\ split' = head + 1
  /\ splitCopy' = head + 1 /\ allStolenCopy' = FALSE
  /\ caller' = "push"
  /\ UNCHANGED <<waiting, cur, sleeper, flagVars, thiefVars>>

(* Leaving the thieves under the belief that there is nothing to steal.      *)
ClearAllStolenMut ==
  /\ Goto("clearAllStolen", "addJob")
  /\ UNCHANGED <<ownerVars, sleeper, wordVars, flagVars, taskVars, thiefVars>>

ClearAllStolen ==
  /\ Goto("clearAllStolen", "addJob")
  /\ allStolen' = FALSE
  /\ UNCHANGED <<ownerVars, sleeper, wordVars, splitRequest, jobs, taskVars,
                 thiefVars>>

(* The split request is answered, the deque is counted in haveJobs, and work *)
(* is published when some worker has none: that depends on other deques.     *)
AddJob ==
  /\ Goto("addJob", "idle") \/ Goto("addJob", "popSleeper")
  /\ splitRequest' = FALSE
  /\ jobs' = jobs + 1
  /\ UNCHANGED <<ownerVars, sleeper, wordVars, allStolen, taskVars, thiefVars>>

PushToShared ==
  /\ Goto("idle", "growCheck")
  /\ head < MaxHead /\ head < N
  /\ ~allStolenCopy
  /\ NewTask
  /\ head' = head + 1
  /\ caller' = "push"
  /\ UNCHANGED <<splitCopy, allStolenCopy, waiting, cur, sleeper, wordVars,
                 flagVars, thiefVars>>

(* The array is full: share all of it, then run the task at once.            *)
PushOverflow ==
  /\ head < MaxHead /\ head >= N
  /\ IF splitCopy < N /\ ~allStolenCopy
       THEN /\ Goto("idle", "growCheck")
            /\ caller' = "overflow"
            /\ UNCHANGED head
       ELSE /\ Goto("idle", "idle")
            /\ head' = head + 1
            /\ UNCHANGED caller
  /\ UNCHANGED <<splitCopy, allStolenCopy, waiting, cur, sleeper, wordVars,
                 flagVars, taskVars, thiefVars>>

------------------------------------------------------------------------------
(* growShared() and publishWork()                                            *)

(* The end of growShared(): in push(), the overflown task is then counted.   *)
Return ==
  /\ opc' = "idle"
  /\ head' = IF caller = "overflow" THEN head + 1 ELSE head
  /\ UNCHANGED <<splitCopy, waiting, caller, cur>>

(* When every deque has jobs, whether it does depends on the others, the     *)
(* shared part grows only on request.                                        *)
GrowCheck ==
  /\ opc = "growCheck"
  /\ \E everyDequeHasJobs \in BOOLEAN :
       IF everyDequeHasJobs /\ ~splitRequest
         THEN Return
         ELSE /\ opc' = IF everyDequeHasJobs THEN "growOnRequest" ELSE "grow"
              /\ UNCHANGED <<head, splitCopy, waiting, caller, cur>>
  /\ UNCHANGED <<allStolenCopy, sleeper, wordVars, flagVars, taskVars,
                 thiefVars>>

(* ts.fetch_xor(splitCopy ^ newSplit): split becomes newSplit exactly when   *)
(* it was splitCopy.                                                         *)
Grow ==
  /\ \/ Goto("growOnRequest", "resetRequest")
     \/ Goto("grow", "popSleeper")
  /\ splitCopy' = Live
  /\ \E x \in 0 .. 2 * N : /\ x = Live <=> split = splitCopy
                           /\ split' = x
  /\ UNCHANGED <<head, allStolenCopy, waiting, caller, cur, sleeper, tail,
                 flagVars, taskVars, thiefVars>>

ResetRequest ==
  /\ opc = "resetRequest"
  /\ Return
  /\ splitRequest' = FALSE
  /\ UNCHANGED <<allStolenCopy, sleeper, wordVars, allStolen, jobs, taskVars,
                 thiefVars>>

(* The list of sleepers is one word, see SleeperStack.  The owner loads it    *)
(* and exchanges it for another, which fails when some other worker has      *)
(* changed the list in between.  (A failure of compare_exchange_weak() for   *)
(* no reason reloads the same word and is a stuttering step here.)           *)
Sleepers == {w \in Thieves : tpc[w] = "asleep"}

LoadList == listChanged' = FALSE
Loaded   == opc \in {"takeSleeper", "putBack"}

LoadSleepers ==
  /\ LoadList
  /\ IF Sleepers = {}
       THEN Return
       ELSE opc' = "takeSleeper" /\ UNCHANGED <<head, splitCopy, waiting, caller, cur>>
  /\ UNCHANGED <<allStolenCopy, sleeper, wordVars, flagVars, taskVars, tpc, seen>>

PopSleeper == opc = "popSleeper" /\ LoadSleepers

PopFails == opc = "takeSleeper" /\ listChanged /\ LoadSleepers

TakeSleeper ==
  /\ Goto("takeSleeper", "selfSteal")
  /\ ~listChanged
  /\ sleeper' \in Sleepers
  /\ tpc' = [tpc EXCEPT ![sleeper'] = "popped"]
  /\ UNCHANGED <<ownerVars, wordVars, flagVars, taskVars, seen, listChanged>>

(* selfStealAndGetTail(): the fetch_add may overshoot an empty shared part.  *)
SelfSteal ==
  /\ opc = "selfSteal"
  /\ IF allStolenCopy
       THEN cur' = splitCopy /\ UNCHANGED tail
       ELSE cur' = tail /\ tail' = tail + 1
  /\ IF cur' = splitCopy
       THEN /\ opc' = IF allStolenCopy THEN "giveBack" ELSE "correct"
            /\ UNCHANGED takes
       ELSE /\ opc' = "inject"
            /\ Taken(cur')
  /\ UNCHANGED <<head, splitCopy, allStolenCopy, waiting, caller, sleeper,
                 split, flagVars, stealer, thiefVars>>

(* The overshot tail is put back by a plain store.                           *)
Correct ==
  /\ Goto("correct", "giveBack")
  /\ tail' = cur /\ split' = splitCopy
  /\ UNCHANGED <<ownerVars, sleeper, flagVars, taskVars, thiefVars>>

(* The owner notes that every queued task is stolen.                         *)
NoteAllStolen == /\ allStolenCopy' = TRUE
                 /\ allStolen' = TRUE
                 /\ jobs' = jobs - 1
                 /\ UNCHANGED splitRequest

NoteIfAllStolen == IF head = splitCopy
                     THEN NoteAllStolen
                     ELSE UNCHANGED <<allStolenCopy, flagVars>>

(* Nothing left to publish: the sleeper goes back on the list.               *)
GiveBack ==
  /\ Goto("giveBack", "putBack")
  /\ NoteIfAllStolen
  /\ LoadList
  /\ UNCHANGED <<head, splitCopy, waiting, caller, cur, sleeper, wordVars,
                 taskVars, tpc, seen>>

PushFails ==
  /\ Goto("putBack", "putBack")
  /\ listChanged
  /\ LoadList
  /\ UNCHANGED <<ownerVars, sleeper, wordVars, flagVars, taskVars, tpc, seen>>

SleeperBack ==
  /\ opc = "putBack"
  /\ ~listChanged
  /\ tpc' = [tpc EXCEPT ![sleeper] = "asleep"]
  /\ sleeper' = NoOne
  /\ UNCHANGED <<wordVars, flagVars, taskVars, seen, listChanged>>

(* Looking for another sleeper although nothing is left to publish.          *)
PutBackMut ==
  /\ SleeperBack
  /\ opc' = "popSleeper"
  /\ UNCHANGED ownerVars

PutBack ==
  /\ SleeperBack
  /\ Return
  /\ UNCHANGED allStolenCopy

(* injectTaskAndNotify(): the sleeper is given the task, and the loop ends   *)
(* with the last shared task.                                                *)
Inject ==
  /\ opc = "inject"
  /\ stealer' = [stealer EXCEPT ![cur] = sleeper]
  /\ tpc' = [tpc EXCEPT ![sleeper] = "idle"]
  /\ sleeper' = NoOne
  /\ IF cur = splitCopy - 1
       THEN NoteIfAllStolen /\ Return
       ELSE /\ opc' = "popSleeper"
            /\ UNCHANGED <<ownerVars, flagVars>>
  /\ UNCHANGED <<wordVars, takes, seen, listChanged>>

------------------------------------------------------------------------------
(* pop() and popStolen().  While the owner waits for the task on top, nested *)
(* frames push and pop above it, and only popStolen() removes it.            *)

MayPop == opc = "idle" /\ head > 0 /\ (head > N \/ head - 1 \notin waiting)

PopOverflown ==
  /\ MayPop
  /\ head > N
  /\ head' = head - 1
  /\ UNCHANGED <<splitCopy, allStolenCopy, waiting, opc, caller, cur, sleeper,
                 wordVars, flagVars, taskVars, thiefVars>>

PopAllStolen ==
  /\ MayPop
  /\ head <= N
  /\ allStolenCopy
  /\ waiting' = waiting \cup {head - 1}
  /\ UNCHANGED <<head, splitCopy, allStolenCopy, opc, caller, cur, sleeper,
                 wordVars, flagVars, taskVars, thiefVars>>

(* The top task is shared exactly when the split point is at the head.       *)
PopShared ==
  /\ MayPop
  /\ head <= N
  /\ ~allStolenCopy
  /\ opc' = IF splitCopy = head THEN "shrinkLoad" ELSE "popTop"
  /\ caller' = "pop"
  /\ UNCHANGED <<head, splitCopy, allStolenCopy, waiting, cur, sleeper,
                 wordVars, flagVars, taskVars, thiefVars>>

(* shrinkShared(): the load of the tail, ...                                 *)
ShrinkLoad ==
  /\ Goto("shrinkLoad", IF tail # splitCopy THEN "shrink" ELSE "allStolen")
  /\ cur' = tail
  /\ UNCHANGED <<head, splitCopy, allStolenCopy, waiting, caller, sleeper,
                 wordVars, flagVars, taskVars, thiefVars>>

(* Forgetting to look at the tail that fetch_add answers.                    *)
ShrinkMut ==
  /\ Goto("shrink", "popTop")
  /\ splitCopy' = (cur + splitCopy) \div 2
  /\ split' = split + splitCopy' - splitCopy
  /\ cur' = tail
  /\ UNCHANGED <<head, allStolenCopy, waiting, caller, sleeper, tail, flagVars,
                 taskVars, thiefVars>>

(* Taking every tail past the new split point for all tasks stolen.          *)
ShrinkPastMut ==
  /\ splitCopy' = (cur + splitCopy) \div 2
  /\ Goto("shrink", IF tail > splitCopy' THEN "allStolen" ELSE "popTop")
  /\ split' = split + splitCopy' - splitCopy
  /\ cur' = tail
  /\ UNCHANGED <<head, allStolenCopy, waiting, caller, sleeper, tail, flagVars,
                 taskVars, thiefVars>>

(* ... the fetch_add that takes half of the shared part back, which answers  *)
(* the tail, ...                                                             *)
Shrink ==
  /\ LET middle == (cur + splitCopy) \div 2
     IN /\ splitCopy' = middle
        /\ split' = split + middle - splitCopy
        /\ Goto("shrink", IF tail = splitCopy THEN "allStolen"
                          ELSE IF tail > middle THEN "shrinkAgain"
                          ELSE "popTop")
  /\ cur' = tail
  /\ UNCHANGED <<head, allStolenCopy, waiting, caller, sleeper, tail, flagVars,
                 taskVars, thiefVars>>

(* Storing the later split point and keeping the copy of the former one.     *)
ShrinkAgainMut ==
  /\ Goto("shrinkAgain", "popTop")
  /\ tail' = cur /\ split' = (cur + head) \div 2
  /\ UNCHANGED <<ownerVars, sleeper, flagVars, taskVars, thiefVars>>

(* ... and, when thieves got past the new split point, a plain store of a    *)
(* later one.  head is still the split point shrinkShared() started from.    *)
ShrinkAgain ==
  /\ Goto("shrinkAgain", "popTop")
  /\ splitCopy' = (cur + head) \div 2
  /\ tail' = cur /\ split' = splitCopy'
  /\ UNCHANGED <<head, allStolenCopy, waiting, caller, cur, sleeper, flagVars,
                 taskVars, thiefVars>>

(* Thieves have everything: pop() answers kStolen.                           *)
ShrinkAllStolen ==
  /\ Goto("allStolen", "idle")
  /\ NoteAllStolen
  /\ waiting' = waiting \cup {head - 1}
  /\ UNCHANGED <<head, splitCopy, caller, cur, sleeper, wordVars, taskVars,
                 thiefVars>>

(* Growing the shared part even when all that is left is shared.             *)
PopTopMut ==
  /\ opc = "popTop"
  /\ Taken(head - 1)
  /\ head' = head - 1
  /\ IF head' = 0
       THEN /\ opc' = "idle"
            /\ IF allStolenCopy THEN UNCHANGED <<allStolenCopy, flagVars>>
                                ELSE NoteAllStolen
       ELSE opc' = "growCheck" /\ UNCHANGED <<allStolenCopy, flagVars>>
  /\ UNCHANGED <<splitCopy, waiting, caller, cur, sleeper, wordVars, stealer,
                 thiefVars>>

(* pop() answers kWork: the owner runs the top task.                         *)
PopTop ==
  /\ opc = "popTop"
  /\ Taken(head - 1)
  /\ head' = head - 1
  /\ IF head' = 0
       THEN /\ opc' = "idle"
            /\ IF allStolenCopy THEN UNCHANGED <<allStolenCopy, flagVars>>
                                ELSE NoteAllStolen
       ELSE /\ opc' = IF head' # splitCopy THEN "growCheck" ELSE "idle"
            /\ UNCHANGED <<allStolenCopy, flagVars>>
  /\ UNCHANGED <<splitCopy, waiting, caller, cur, sleeper, wordVars, stealer,
                 thiefVars>>

(* Removing a stolen task that its thief may still run.                      *)
PopStolenEarlyMut ==
  /\ opc = "idle"
  /\ head > 0 /\ head <= N
  /\ head - 1 \in waiting
  /\ head' = head - 1
  /\ waiting' = waiting \ {head - 1}
  /\ IF allStolenCopy THEN UNCHANGED <<allStolenCopy, flagVars>>
                      ELSE NoteAllStolen
  /\ UNCHANGED <<splitCopy, opc, caller, cur, sleeper, wordVars, taskVars,
                 thiefVars>>

(* Taking the deque out of haveJobs although that was done before.           *)
PopStolenTwiceMut ==
  /\ opc = "idle"
  /\ head > 0 /\ head <= N
  /\ head - 1 \in waiting
  /\ stealer[head - 1] = Finished
  /\ head' = head - 1
  /\ waiting' = waiting \ {head - 1}
  /\ NoteAllStolen
  /\ UNCHANGED <<splitCopy, opc, caller, cur, sleeper, wordVars, taskVars,
                 thiefVars>>

(* The awaited task on top is finished and leaves the deque.                 *)
PopStolen ==
  /\ opc = "idle"
  /\ head > 0 /\ head <= N
  /\ head - 1 \in waiting
  /\ stealer[head - 1] = Finished
  /\ head' = head - 1
  /\ waiting' = waiting \ {head - 1}
  /\ IF allStolenCopy THEN UNCHANGED <<allStolenCopy, flagVars>>
                      ELSE NoteAllStolen
  /\ UNCHANGED <<splitCopy, opc, caller, cur, sleeper, wordVars, taskVars,
                 thiefVars>>

------------------------------------------------------------------------------
(* A thief: steal() and stealWithRetryLoop().  To fall asleep, and to be     *)
(* woken, it is put on the list of sleepers and taken from it.               *)

ThiefStep(w, from, to) == /\ tpc[w] = from
                          /\ tpc' = [tpc EXCEPT ![w] = to]
                          /\ listChanged' = (listChanged \/ (Loaded /\ "asleep" \in {from, to}))
                          /\ UNCHANGED <<ownerVars, opc, sleeper, allStolen, jobs>>

CheckAllStolen(w) ==
  /\ ThiefStep(w, "idle", "load")
  /\ ~allStolen
  /\ UNCHANGED <<wordVars, splitRequest, taskVars, seen>>

Word == [t |-> tail, s |-> split]

LoadWord(w) ==
  /\ ThiefStep(w, "load", IF tail < split THEN "cas" ELSE "request")
  /\ seen' = [seen EXCEPT ![w] = Word]
  /\ UNCHANGED <<wordVars, splitRequest, taskVars>>

(* Comparing the tail alone: the owner may have shrunk the shared part.      *)
StealMut(w) ==
  /\ ThiefStep(w, "cas", "idle")
  /\ seen[w].t = tail
  /\ tail' = tail + 1
  /\ Taken(tail)
  /\ stealer' = [stealer EXCEPT ![tail] = w]
  /\ seen' = [seen EXCEPT ![w] = NoWord]
  /\ UNCHANGED <<split, splitRequest>>

(* The compare-exchange compares the whole word, tail and split.             *)
Steal(w) ==
  /\ ThiefStep(w, "cas", "idle")
  /\ seen[w] = Word
  /\ tail' = tail + 1
  /\ Taken(tail)
  /\ stealer' = [stealer EXCEPT ![tail] = w]
  /\ seen' = [seen EXCEPT ![w] = NoWord]
  /\ UNCHANGED <<split, splitRequest>>

(* It fails, perhaps spuriously, and loads the word.  steal() gives up while *)
(* tasks are left, stealWithRetryLoop() tries again.                         *)
StealFails(w) ==
  /\ \/ tail < split /\ ThiefStep(w, "cas", "cas")
     \/ tail >= split /\ ThiefStep(w, "cas", "request")
  /\ seen' = [seen EXCEPT ![w] = Word]
  /\ UNCHANGED <<wordVars, splitRequest, taskVars>>

GiveUp(w) ==
  /\ ThiefStep(w, "cas", "idle")
  /\ tail < split
  /\ seen' = [seen EXCEPT ![w] = NoWord]
  /\ UNCHANGED <<wordVars, splitRequest, taskVars>>

(* Nothing to steal: ask the owner to share more, unless all slots are gone. *)
RequestSplit(w) ==
  /\ ThiefStep(w, "request", "idle")
  /\ splitRequest' = (splitRequest \/ seen[w].t < N)
  /\ seen' = [seen EXCEPT ![w] = NoWord]
  /\ UNCHANGED <<wordVars, taskVars>>

(* HighsTask::markAsFinished() by the thief that runs the task in slot i.    *)
Finish(w, i) ==
  /\ tpc[w] = "idle"
  /\ stealer[i] = w
  /\ stealer' = [stealer EXCEPT ![i] = Finished]
  /\ UNCHANGED <<ownerVars, opc, sleeper, wordVars, flagVars, takes, thiefVars>>

(* waitForNewTask(), when the thief runs nothing.                            *)
Sleep(w) ==
  /\ ThiefStep(w, "idle", "asleep")
  /\ \A i \in Slots : stealer[i] # w
  /\ UNCHANGED <<wordVars, splitRequest, taskVars, seen>>

(* Another deque's owner injects a task into a sleeping thief.               *)
WokenElsewhere(w) ==
  /\ ThiefStep(w, "asleep", "idle")
  /\ UNCHANGED <<wordVars, splitRequest, taskVars, seen>>

Owner == \/ PushToEmpty \/ ClearAllStolen \/ AddJob \/ PushToShared
         \/ PushOverflow \/ GrowCheck \/ Grow \/ ResetRequest \/ PopSleeper
         \/ PopFails \/ TakeSleeper \/ SelfSteal \/ Correct \/ GiveBack
         \/ PushFails \/ PutBack \/ Inject
         \/ PopOverflown \/ PopAllStolen \/ PopShared \/ ShrinkLoad \/ Shrink
         \/ ShrinkAgain \/ ShrinkAllStolen \/ PopTop \/ PopStolen
Thief(w) == \/ CheckAllStolen(w) \/ LoadWord(w) \/ Steal(w) \/ StealFails(w)
            \/ GiveUp(w) \/ RequestSplit(w) \/ Sleep(w) \/ WokenElsewhere(w)
            \/ \E i \in Slots : Finish(w, i)

Next == Owner \/ \E w \in Thieves : Thief(w)

Spec == Init /\ [][Next]_vars

------------------------------------------------------------------------------
OwnerPC == {"idle", "clearAllStolen", "addJob", "growCheck", "grow",
            "growOnRequest", "resetRequest", "popSleeper", "takeSleeper",
            "selfSteal", "correct", "giveBack", "putBack", "inject",
            "shrinkLoad", "shrink", "shrinkAgain", "allStolen", "popTop"}
ThiefPC == {"idle", "load", "cas", "request", "asleep", "popped"}
Words == [t : Nat, s : Nat]

OwnerTypeOK == /\ head \in Nat /\ splitCopy \in Nat /\ cur \in Nat
               /\ opc \in OwnerPC /\ caller \in {"push", "pop", "overflow"}
               /\ waiting \subseteq Slots /\ sleeper \in Thieves \cup {NoOne}
WordTypeOK == tail \in Nat /\ split \in Nat /\ jobs \in Int
FlagTypeOK == /\ allStolenCopy \in BOOLEAN /\ allStolen \in BOOLEAN
              /\ splitRequest \in BOOLEAN
TaskTypeOK == /\ stealer \in [Slots -> Thieves \cup {NoOne, Finished}]
              /\ takes \in [Slots -> Nat]
ThiefTypeOK == /\ tpc \in [Thieves -> ThiefPC]
               /\ seen \in [Thieves -> Words]
               /\ listChanged \in BOOLEAN

(* The variables of owner and thieves have their types: no index of the      *)
(* deque is negative.                                                        *)
TypeOK == /\ OwnerTypeOK /\ WordTypeOK /\ FlagTypeOK /\ TaskTypeOK
          /\ ThiefTypeOK

(* The main promise: a spawned task is run once, by its owner or by one      *)
(* thief, however pop(), the shrinking of the shared part, steals and the    *)
(* owner's own hand-outs to sleepers interleave.                             *)
NoDoubleTake == \A i \in Slots : takes[i] <= 1

(* pop() answers kStolen only of a task that a thief really has: otherwise   *)
(* getStealerIfUnfinished() would wait for ever (HighsTask.h:152-159).       *)
AwaitedIsStolen == \A i \in waiting : i < Live /\ stealer[i] # NoOne

(* A slot is not reused while a thief still runs the task in it: push()      *)
(* resets the stealer word that the thief will exchange when it finishes.    *)
RunningIsLive == \A i \in Slots : stealer[i] \in Thieves => i < Live

(* A thief that reads allStolen = TRUE turns away from no task, but for the  *)
(* one that push() is just publishing.                                       *)
AllStolenIsTrue == allStolen /\ opc # "clearAllStolen" =>
                     \A i \in Slots : i < Live => takes[i] = 1

(* The deque adds at most one to haveJobs, one while it has a task that      *)
(* nobody has taken, but for the time push() takes to count it, and nothing  *)
(* once it is empty: no path through pop(), popStolen() and publishWork()    *)
(* takes it out twice or too early (HighsSplitDeque.h:161, 174, 264, 364,    *)
(* 377).  In between, with every task stolen and the owner not yet aware of  *)
(* it, the deque may be counted or not.                                      *)
JobsCounted ==
  /\ jobs \in {0, 1}
  /\ jobs = 0 /\ opc \notin {"clearAllStolen", "addJob"} =>
       \A i \in Slots : i < Live => takes[i] = 1
  /\ head = 0 => jobs = 0

(* fetch_xor and fetch_add update the split point relative to the owner's    *)
(* copy of it: the copy is exact whatever thieves do to the same word.       *)
SplitKnown == split = splitCopy

(* growShared()'s assertion newSplit > splitCopy (HighsSplitDeque.h:219).    *)
GrowsForward == opc \in {"grow", "growOnRequest"} => Live > splitCopy

(* The first slot that is not stolen, whatever the word says just now.       *)
Bottom == IF opc = "correct" THEN cur ELSE tail

(* A bound on the accesses that the owner has still to make if no exchange   *)
(* on the list of sleepers fails: a constant for each place in push() and    *)
(* pop(), and four for each task that publishWork() may still hand out, once *)
(* around its loop.                                                          *)
Rank == [idle |-> 0, resetRequest |-> 1, putBack |-> 2, giveBack |-> 3,
         correct |-> 4, selfSteal |-> 5, takeSleeper |-> 6, popSleeper |-> 7,
         inject |-> 8, popTop |-> 6, allStolen |-> 6, shrinkAgain |-> 7,
         shrink |-> 8, shrinkLoad |-> 9, grow |-> 8, growOnRequest |-> 8,
         growCheck |-> 9, addJob |-> 8, clearAllStolen |-> 9]
StepsLeft == 4 * (Live - Bottom) + Rank[opc]

(* Thieves do not hold the owner up: push() and pop() have no retry loop on  *)
(* the deque's own word, and the loop of publishWork(), which the code does  *)
(* not bound, ends.  Every step of the owner brings it nearer to the end,    *)
(* however thieves interleave, but for a failed exchange on the list of      *)
(* sleepers (HighsSplitDeque.h:121, 142), of which nothing bounds the number *)
(* but which each cost another worker an exchange that succeeded; and no     *)
(* step of a thief puts the end off.                                         *)
OwnerNearsEnd ==
  [][opc # "idle" =>
       \/ opc' = "idle"
       \/ opc' # opc /\ StepsLeft' < StepsLeft /\ StepsLeft > 0
       \/ opc' = opc /\ StepsLeft' <= StepsLeft /\ UNCHANGED <<ownerVars, sleeper>>]_vars

(* What the deque is for its users: a stack of tasks whose bottom thieves    *)
(* may take.                                                                 *)
SlotValue(i) == IF i >= Live THEN "free"
                ELSE IF takes[i] = 0 THEN "queued"
                ELSE IF stealer[i] = Finished THEN "done"
                ELSE "stolen"
SlotState == [i \in Slots |-> SlotValue(i)]
Abs == INSTANCE TaskStack WITH state <- SlotState

(* The deque implements the task stack: the owner takes the youngest task,   *)
(* a thief the oldest, and a stolen task leaves only when it is finished.    *)
Refinement == Abs!Spec
------------------------------------------------------------------------------
(* The inductive invariant behind the properties above, part by part.        *)

GrowPC == {"growCheck", "grow", "growOnRequest", "resetRequest", "popSleeper",
           "takeSleeper", "selfSteal", "correct", "giveBack", "putBack", "inject"}
ShrinkPC == {"shrinkLoad", "shrink", "shrinkAgain", "allStolen"}

(* Where the owner is bounds what it knows of head, split point and tail.    *)
OwnerInv ==
  /\ allStolenCopy => opc \in {"idle", "putBack"}
  /\ head = 0 => opc = "idle" /\ allStolenCopy
  /\ opc \in {"clearAllStolen", "addJob"} => caller = "push"
  /\ opc \in ShrinkPC \cup {"popTop"} => head \in 1 .. N /\ caller = "pop"
  /\ opc \in {"shrinkLoad", "shrink"} => splitCopy = head
  /\ opc = "shrink" => cur < head
  /\ opc = "shrinkAgain" => cur = tail /\ split < tail /\ tail < head
  /\ opc = "allStolen" => tail = head
  /\ opc = "popTop" => splitCopy < head
  /\ opc \in {"growCheck", "grow", "growOnRequest"} => splitCopy < Live
  /\ opc = "correct" => cur = split /\ tail = split + 1
  /\ opc = "giveBack" => tail = split
  /\ opc = "inject" => cur < tail
  /\ opc \in {"selfSteal", "correct", "giveBack", "putBack", "inject"} => sleeper # NoOne
  /\ opc \in GrowPC /\ caller = "overflow" => head >= N /\ head < MaxHead

(* The shared word: tasks below the tail are taken, those from the tail on   *)
(* are not, and thieves may take none past the split point.                  *)
WordInv ==
  /\ SplitKnown
  /\ splitCopy <= N
  /\ allStolenCopy =>
       /\ tail >= split
       /\ \A i \in Slots : i < Live => takes[i] = 1
  /\ ~allStolenCopy =>
       /\ splitCopy <= Live
       /\ opc \notin {"correct", "shrinkAgain", "allStolen"} => tail <= split
       /\ \A i \in Slots : i < Bottom => takes[i] = 1
       /\ \A i \in Slots : Bottom <= i /\ i < Live => takes[i] = 0

(* The stealer word of a slot agrees with how often its task was taken.      *)
SlotInv(i) ==
  /\ takes[i] <= 1
  /\ stealer[i] \in Thieves => i < Live
  /\ i < Live /\ takes[i] = 0 => stealer[i] = NoOne
  /\ i < Live /\ takes[i] = 1 /\ stealer[i] = NoOne => opc = "inject" /\ i = cur

TaskInv ==
  /\ \A i \in Slots : SlotInv(i)
  /\ opc = "inject" => /\ cur \in Slots /\ cur < Live
                       /\ takes[cur] = 1 /\ stealer[cur] = NoOne

(* The owner waits only for the youngest of several stolen tasks.            *)
WaitInv ==
  /\ \A i \in waiting : i < Live /\ \A j \in Slots : j <= i => takes[j] = 1
  /\ opc = "inject" => cur \notin waiting

(* The owner's copy, the flag for the thieves and the count go together.     *)
FlagInv == /\ allStolen <=> allStolenCopy \/ opc = "clearAllStolen"
           /\ jobs = IF allStolenCopy \/ opc \in {"clearAllStolen", "addJob"}
                       THEN 0 ELSE 1

ThiefInv == \A w \in Thieves : tpc[w] = "cas" => seen[w].t < seen[w].s

IInv == /\ TypeOK /\ OwnerInv /\ WordInv /\ TaskInv /\ WaitInv /\ FlagInv
        /\ ThiefInv
==============================================================================
