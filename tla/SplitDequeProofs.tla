-------------------------- MODULE SplitDequeProofs --------------------------
(* Proofs of SplitDeque's invariants, for any array size, any number of     *)
(* thieves and any bound on the number of open tasks.                       *)
EXTENDS SplitDeque, TLAPS

(* What middle shrinkShared() computes: it lies below the larger number.    *)
LEMMA MiddleBounds ==
  ASSUME NEW a \in Nat, NEW b \in Nat, a < b
  PROVE  (a + b) \div 2 \in Nat /\ a <= (a + b) \div 2 /\ (a + b) \div 2 < b
  OBVIOUS

(* The end of growShared() leaves the number of tasks in the array alone.   *)
LEMMA ReturnKeepsLive ==
  ASSUME TypeOK, OwnerInv, opc \in GrowPC \cup {"addJob"}, Return
  PROVE  Live' = Live /\ head' \in Nat /\ opc' = "idle"
  BY DequeAssumption DEF TypeOK, OwnerTypeOK, OwnerInv, Return, Live

(* Counting a take of slot i leaves the counts of the other slots alone.    *)
LEMMA TakenCounts ==
  ASSUME TaskTypeOK, NEW i \in Slots, Taken(i)
  PROVE  /\ takes' \in [Slots -> Nat]
         /\ takes'[i] = takes[i] + 1
         /\ \A j \in Slots : j # i => takes'[j] = takes[j]
  BY DEF TaskTypeOK, Taken

(* Owner steps that change neither the word nor the tasks.                  *)
Quiet == \/ ClearAllStolen \/ AddJob \/ PushOverflow \/ GrowCheck
         \/ ResetRequest \/ PopSleeper \/ PopFails \/ TakeSleeper \/ PushFails
         \/ PutBack \/ PopOverflown \/ PopShared

(* Where the owner is in the middle of a change of the word.                *)
Busy == {"correct", "giveBack", "inject", "shrinkAgain", "allStolen"}

LEMMA QuietSteps ==
  ASSUME IInv, Quiet
  PROVE  /\ UNCHANGED <<splitCopy, allStolenCopy, waiting, cur, tail, split,
                        stealer, takes>>
         /\ Live' = Live
         /\ opc \notin Busy /\ opc' \notin Busy
<1> USE DEF IInv, TypeOK, OwnerTypeOK, wordVars, taskVars, Busy
<1>1. CASE ClearAllStolen \/ AddJob \/ TakeSleeper \/ PushFails
  BY <1>1 DEF ClearAllStolen, AddJob, TakeSleeper, PushFails, Goto, ownerVars,
     Live
<1>2. CASE PushOverflow
  BY <1>2, DequeAssumption DEF PushOverflow, Goto, Live
<1>3. CASE GrowCheck
  BY <1>3, ReturnKeepsLive DEF GrowCheck, Return, GrowPC, Live
<1>4. CASE ResetRequest \/ PutBack
  BY <1>4, ReturnKeepsLive DEF ResetRequest, PutBack, SleeperBack, Return,
     GrowPC
<1>6. CASE PopSleeper \/ PopFails
  BY <1>6, ReturnKeepsLive DEF PopSleeper, PopFails, LoadSleepers, Return,
     GrowPC, Live
<1>5. CASE PopOverflown \/ PopShared
  BY <1>5, DequeAssumption DEF PopOverflown, PopShared, MayPop, Live
<1>. QED
  BY <1>1, <1>2, <1>3, <1>4, <1>5, <1>6 DEF Quiet

(* Steps of a thief that take no task.                                      *)
LEMMA ThiefQuietSteps ==
  ASSUME NEW w \in Thieves, Thief(w), ~Steal(w)
  PROVE  UNCHANGED <<head, splitCopy, allStolenCopy, waiting, opc, cur, tail,
                     split, takes>>
  BY DEF Thief, CheckAllStolen, LoadWord, StealFails, GiveUp, RequestSplit,
     Sleep, WokenElsewhere, Finish, ThiefStep, ownerVars, wordVars, taskVars

(* A compare-exchange that succeeds takes the oldest task that is not taken. *)
LEMMA StealTakesOldest ==
  ASSUME IInv, NEW w \in Thieves, Steal(w)
  PROVE  /\ ~allStolenCopy /\ tail < split
         /\ opc \notin {"correct", "giveBack", "shrinkAgain", "allStolen"}
         /\ tail \in Slots /\ tail < Live /\ takes[tail] = 0
         /\ \A i \in Slots : i < tail => takes[i] = 1
         /\ tail' = tail + 1 /\ takes' = [takes EXCEPT ![tail] = 1]
         /\ stealer' = [stealer EXCEPT ![tail] = w]
         /\ UNCHANGED <<head, splitCopy, allStolenCopy, waiting, opc, cur, split>>
<1>1. tail < split
  BY DEF IInv, Steal, ThiefStep, Word, ThiefInv, TypeOK, WordTypeOK
<1>2. ~allStolenCopy
  BY <1>1 DEF IInv, WordInv, TypeOK, WordTypeOK
<1>3. opc \notin {"correct", "giveBack", "shrinkAgain", "allStolen"}
  <2>1. tail < head
    <3>1. split = splitCopy /\ splitCopy <= Live
      BY <1>2 DEF IInv, WordInv, SplitKnown
    <3>2. Live <= head
      BY DequeAssumption DEF IInv, TypeOK, OwnerTypeOK, Live
    <3>. QED
      BY <1>1, <3>1, <3>2, DequeAssumption
         DEF IInv, TypeOK, WordTypeOK, OwnerTypeOK, Live
  <2>. QED
    BY <1>1, <2>1 DEF IInv, OwnerInv, TypeOK, WordTypeOK, OwnerTypeOK
<1>4. tail \in Slots /\ tail < Live
  BY <1>1, <1>2, DequeAssumption DEF IInv, WordInv, SplitKnown, TypeOK,
     WordTypeOK, OwnerTypeOK, Live, Slots
<1>5. takes[tail] = 0 /\ \A i \in Slots : i < tail => takes[i] = 1
  BY <1>2, <1>3, <1>4 DEF IInv, WordInv, Bottom, TypeOK, WordTypeOK, Slots
<1>6. takes' = [takes EXCEPT ![tail] = 1]
  BY <1>4, <1>5 DEF IInv, TypeOK, TaskTypeOK, Steal, Taken
<1>. QED
  BY <1>1, <1>2, <1>3, <1>4, <1>5, <1>6 DEF Steal, ThiefStep, ownerVars

------------------------------------------------------------------------------
(* Every step keeps the types.                                              *)

LEMMA FlagTypeStep == TypeOK /\ [Next]_vars => FlagTypeOK'
<1> SUFFICES ASSUME FlagTypeOK, [Next]_vars PROVE FlagTypeOK'
  BY DEF TypeOK
<1> USE DEF FlagTypeOK
<1>1. CASE UNCHANGED <<allStolenCopy, allStolen, splitRequest>>
  BY <1>1
<1>2. CASE PushToEmpty \/ ClearAllStolen \/ AddJob \/ ResetRequest
  BY <1>2 DEF PushToEmpty, ClearAllStolen, AddJob, ResetRequest, flagVars,
     ownerVars
<1>3. CASE GiveBack \/ Inject \/ ShrinkAllStolen \/ PopTop \/ PopStolen
  BY <1>3 DEF GiveBack, Inject, ShrinkAllStolen, PopTop, PopStolen,
     NoteIfAllStolen, NoteAllStolen, flagVars, ownerVars
<1>4. ASSUME NEW w \in Thieves, RequestSplit(w) PROVE FlagTypeOK'
  BY <1>4 DEF RequestSplit, ThiefStep, ownerVars
<1>5. ASSUME NEW w \in Thieves, Thief(w), ~RequestSplit(w)
      PROVE  UNCHANGED <<allStolenCopy, allStolen, splitRequest>>
  BY <1>5 DEF Thief, CheckAllStolen, LoadWord, Steal, StealFails, GiveUp,
     Sleep, WokenElsewhere, Finish, ThiefStep, ownerVars, flagVars
<1>. QED
  BY <1>1, <1>2, <1>3, <1>4, <1>5 DEF Next, Owner, PushToShared, PushOverflow,
     GrowCheck, Grow, PopSleeper, PopFails, LoadSleepers, TakeSleeper, SelfSteal,
     Correct, PushFails, PutBack, SleeperBack, PopOverflown, PopAllStolen,
     PopShared, ShrinkLoad, Shrink, ShrinkAgain, ownerVars, flagVars, vars

LEMMA TaskTypeStep == IInv /\ [Next]_vars => TaskTypeOK'
<1> SUFFICES ASSUME TypeOK, OwnerInv, WordInv, ThiefInv, [Next]_vars
             PROVE  TaskTypeOK'
  BY DEF IInv
<1> USE DequeAssumption DEF TypeOK, TaskTypeOK, OwnerTypeOK, WordTypeOK, Slots,
        taskVars
<1>1. CASE UNCHANGED taskVars
  BY <1>1
<1>2. CASE PushToEmpty \/ PushToShared
  BY <1>2 DEF PushToEmpty, PushToShared, NewTask
<1>3. CASE SelfSteal
  <2>1. CASE cur' \in Slots
    BY <1>3, <2>1, TakenCounts DEF SelfSteal
  <2>2. CASE cur' \notin Slots
    BY <1>3, <2>2 DEF SelfSteal, Taken
  <2>. QED
    BY <2>1, <2>2
<1>4. CASE Inject
  BY <1>4 DEF Inject
<1>5. CASE PopTop
  BY <1>5, TakenCounts DEF PopTop, OwnerInv
<1>6. ASSUME NEW w \in Thieves, Steal(w) PROVE TaskTypeOK'
  BY <1>6, TakenCounts DEF Steal, Word, ThiefStep, ThiefTypeOK, Words,
     ThiefInv, WordInv, SplitKnown, Live
<1>7. ASSUME NEW w \in Thieves, NEW i \in Slots, Finish(w, i) PROVE TaskTypeOK'
  BY <1>7 DEF Finish
<1>. QED
  BY <1>1, <1>2, <1>3, <1>4, <1>5, <1>6, <1>7 DEF Next, Owner, Thief,
     ClearAllStolen, AddJob, PushOverflow, GrowCheck, Grow, ResetRequest,
     PopSleeper, PopFails, LoadSleepers, TakeSleeper, Correct, GiveBack,
     PushFails, PutBack, SleeperBack, PopOverflown, PopAllStolen, PopShared,
     ShrinkLoad, Shrink, ShrinkAgain, ShrinkAllStolen, PopStolen, CheckAllStolen, LoadWord, StealFails, GiveUp, RequestSplit, Sleep,
     WokenElsewhere, vars

LEMMA ThiefTypeStep == TypeOK /\ [Next]_vars => ThiefTypeOK'
<1> SUFFICES ASSUME TypeOK, [Next]_vars PROVE ThiefTypeOK'
  OBVIOUS
<1> USE DEF TypeOK, ThiefTypeOK, WordTypeOK, ThiefPC, Words, thiefVars
<1>1. CASE UNCHANGED thiefVars
  BY <1>1
<1>2. CASE \/ PopSleeper \/ PopFails \/ TakeSleeper \/ GiveBack \/ PushFails
           \/ PutBack \/ Inject
  BY <1>2 DEF PopSleeper, PopFails, LoadSleepers, LoadList, TakeSleeper, GiveBack,
     PushFails, PutBack, SleeperBack, Inject
<1>3. ASSUME NEW w \in Thieves, Thief(w) PROVE ThiefTypeOK'
  <2>1. tpc' \in [Thieves -> ThiefPC]
    BY <1>3 DEF Thief, CheckAllStolen, LoadWord, Steal, StealFails, GiveUp,
       RequestSplit, Sleep, WokenElsewhere, Finish, ThiefStep
  <2>2. seen' \in [Thieves -> Words]
    BY <1>3 DEF Thief, CheckAllStolen, LoadWord, Steal, StealFails, GiveUp,
       RequestSplit, Sleep, WokenElsewhere, Finish, Word, NoWord
  <2>3. UNCHANGED listChanged \/ \E from, to \in ThiefPC : ThiefStep(w, from, to)
    BY <1>3 DEF Thief, CheckAllStolen, LoadWord, Steal, StealFails, GiveUp,
       RequestSplit, Sleep, WokenElsewhere, Finish
  <2>4. listChanged' \in BOOLEAN
    BY <2>3, Zenon DEF ThiefStep
  <2>. QED
    BY <2>1, <2>2, <2>4
<1>. QED
  BY <1>1, <1>2, <1>3 DEF Next, Owner, PushToEmpty, ClearAllStolen, AddJob,
     PushToShared, PushOverflow, GrowCheck, Grow, ResetRequest, SelfSteal,
     Correct, PopOverflown, PopAllStolen, PopShared, ShrinkLoad,
     Shrink, ShrinkAgain, ShrinkAllStolen, PopTop, PopStolen, vars

LEMMA WordTypeStep == IInv /\ [Next]_vars => WordTypeOK'
<1> SUFFICES ASSUME TypeOK, OwnerInv, WordInv, [Next]_vars PROVE WordTypeOK'
  BY DEF IInv
<1> USE DEF TypeOK, OwnerTypeOK, WordTypeOK, WordInv, SplitKnown
<1>1. CASE UNCHANGED <<tail, split, jobs>>
  BY <1>1
<1>2. CASE PushToEmpty \/ AddJob
  BY <1>2 DEF PushToEmpty, AddJob, flagVars, wordVars
<1>3. CASE Grow \/ Correct \/ SelfSteal
  BY <1>3, DequeAssumption DEF Grow, Correct, SelfSteal, flagVars
<1>4. CASE Shrink
  BY <1>4, MiddleBounds DEF Shrink, Goto, flagVars, OwnerInv
<1>5. CASE ShrinkAgain
  BY <1>5, MiddleBounds DEF ShrinkAgain, Goto, flagVars, OwnerInv
<1>6. CASE GiveBack \/ Inject \/ ShrinkAllStolen \/ PopTop \/ PopStolen
  BY <1>6 DEF GiveBack, Inject, ShrinkAllStolen, PopTop, PopStolen,
     NoteIfAllStolen, NoteAllStolen, flagVars, wordVars
<1>7. ASSUME NEW w \in Thieves, Thief(w) PROVE WordTypeOK'
  BY <1>7 DEF Thief, CheckAllStolen, LoadWord, Steal, StealFails, GiveUp,
     RequestSplit, Sleep, WokenElsewhere, Finish, ThiefStep, wordVars, flagVars
<1>. QED
  BY <1>1, <1>2, <1>3, <1>4, <1>5, <1>6, <1>7 DEF Next, Owner, ClearAllStolen,
     PushToShared, PushOverflow, GrowCheck, ResetRequest, PopSleeper, PopFails,
     LoadSleepers, TakeSleeper, PushFails, PutBack, SleeperBack, PopOverflown,
     PopAllStolen, PopShared, ShrinkLoad, wordVars, flagVars, vars

LEMMA OwnerTypeStep == IInv /\ [Next]_vars => OwnerTypeOK'
<1> SUFFICES ASSUME TypeOK, OwnerInv, [Next]_vars PROVE OwnerTypeOK'
  BY DEF IInv
<1> USE DEF TypeOK, OwnerTypeOK, WordTypeOK, OwnerPC, Slots
<1>0. CASE UNCHANGED <<ownerVars, opc, sleeper>>
  BY <1>0 DEF ownerVars
<1>1. CASE PushToEmpty
  BY <1>1, DequeAssumption DEF PushToEmpty, Goto
<1>2. CASE PushToShared
  BY <1>2, DequeAssumption DEF PushToShared, Goto
<1>3. CASE PushOverflow
  BY <1>3, DequeAssumption DEF PushOverflow, Goto
<1>4. CASE ClearAllStolen
  BY <1>4, DequeAssumption DEF ClearAllStolen, Goto, ownerVars
<1>5. CASE AddJob
  BY <1>5, DequeAssumption DEF AddJob, Goto, ownerVars
<1>6. CASE GrowCheck
  <2>1. opc' \in {"idle", "grow", "growOnRequest"}
    BY <1>6 DEF GrowCheck, Return
  <2>2. head' \in {head, head + 1}
    BY <1>6 DEF GrowCheck, Return
  <2>3. UNCHANGED <<splitCopy, cur, caller, waiting, sleeper>>
    BY <1>6 DEF GrowCheck, Return
  <2>. QED
    BY <2>1, <2>2, <2>3
<1>7. CASE ResetRequest
  BY <1>7, DequeAssumption DEF ResetRequest, Return
<1>8. CASE PutBack
  BY <1>8, DequeAssumption DEF PutBack, SleeperBack, Return
<1>9. CASE GiveBack \/ PushFails
  BY <1>9, DequeAssumption DEF GiveBack, PushFails, Goto, ownerVars
<1>10. CASE Grow
  BY <1>10, DequeAssumption DEF Grow, Goto, Live
<1>11. CASE TakeSleeper
  BY <1>11, DequeAssumption DEF TakeSleeper, Goto, Sleepers,
     ownerVars
<1>25. CASE PopSleeper \/ PopFails
  <2>1. opc' \in {"idle", "takeSleeper"}
    BY <1>25 DEF PopSleeper, PopFails, LoadSleepers, Return
  <2>2. head' \in {head, head + 1}
    BY <1>25 DEF PopSleeper, PopFails, LoadSleepers, Return
  <2>3. UNCHANGED <<splitCopy, cur, caller, waiting, sleeper>>
    BY <1>25 DEF PopSleeper, PopFails, LoadSleepers, Return
  <2>. QED
    BY <2>1, <2>2, <2>3
<1>12. CASE SelfSteal
  BY <1>12, DequeAssumption DEF SelfSteal
<1>13. CASE Correct
  BY <1>13, DequeAssumption DEF Correct, Goto, ownerVars
<1>14. CASE Inject
  <2>1. opc' \in {"idle", "popSleeper"}
    BY <1>14 DEF Inject, Return
  <2>2. head' \in {head, head + 1}
    BY <1>14 DEF Inject, Return, ownerVars
  <2>3. UNCHANGED <<splitCopy, cur, caller, waiting>> /\ sleeper' = NoOne
    BY <1>14 DEF Inject, Return, ownerVars
  <2>. QED
    BY <2>1, <2>2, <2>3
<1>15. CASE PopOverflown
  BY <1>15, DequeAssumption DEF PopOverflown, MayPop
<1>16. CASE PopAllStolen
  BY <1>16, DequeAssumption DEF PopAllStolen, MayPop
<1>17. CASE PopShared
  BY <1>17, DequeAssumption DEF PopShared, MayPop
<1>18. CASE ShrinkLoad
  BY <1>18, DequeAssumption DEF ShrinkLoad, Goto
<1>19. CASE ShrinkAllStolen
  BY <1>19, DequeAssumption DEF ShrinkAllStolen, Goto, OwnerInv,
     ShrinkPC
<1>20. CASE Shrink
  BY <1>20, DequeAssumption, MiddleBounds DEF Shrink, Goto, OwnerInv, ShrinkPC
<1>21. CASE ShrinkAgain
  BY <1>21, DequeAssumption, MiddleBounds DEF ShrinkAgain, Goto, OwnerInv,
     ShrinkPC
<1>22. CASE PopTop
  BY <1>22, DequeAssumption DEF PopTop, OwnerInv
<1>23. CASE PopStolen
  <2>1. /\ head > 0 /\ head' = head - 1 /\ waiting' \subseteq waiting
        /\ UNCHANGED <<splitCopy, opc, caller, cur, sleeper>>
    BY <1>23 DEF PopStolen
  <2>. QED
    BY <2>1
<1>24. ASSUME NEW w \in Thieves, Thief(w)
       PROVE  UNCHANGED <<ownerVars, opc, sleeper>>
  <2>1. CASE \E i \in Slots : Finish(w, i)
    BY <2>1 DEF Finish
  <2>2. CASE ~\E i \in Slots : Finish(w, i)
    BY <1>24, <2>2 DEF Thief, CheckAllStolen, LoadWord, Steal, StealFails,
       GiveUp, RequestSplit, Sleep, WokenElsewhere, ThiefStep
  <2>. QED
    BY <2>1, <2>2
<1>. QED
  BY <1>0, <1>1, <1>2, <1>3, <1>4, <1>5, <1>6, <1>7, <1>8, <1>9, <1>10, <1>11,
     <1>12, <1>13, <1>14, <1>15, <1>16, <1>17, <1>18, <1>19, <1>20, <1>21,
     <1>22, <1>23, <1>24, <1>25 DEF Next, Owner, ownerVars, vars

LEMMA TypeStep == IInv /\ [Next]_vars => TypeOK'
  BY FlagTypeStep, TaskTypeStep, ThiefTypeStep, WordTypeStep, OwnerTypeStep
     DEF TypeOK, IInv

------------------------------------------------------------------------------
(* Every step keeps the other parts of the invariant.                       *)

LEMMA ThiefStepInv == IInv /\ [Next]_vars => ThiefInv'
<1> SUFFICES ASSUME TypeOK, ThiefInv, [Next]_vars PROVE ThiefInv'
  BY DEF IInv
<1> USE DEF TypeOK, ThiefTypeOK, WordTypeOK, Words, ThiefInv, thiefVars
<1>1. CASE UNCHANGED thiefVars
  BY <1>1
<1>2. CASE \/ PopSleeper \/ PopFails \/ TakeSleeper \/ GiveBack \/ PushFails
           \/ PutBack \/ Inject
  BY <1>2 DEF PopSleeper, PopFails, LoadSleepers, LoadList, TakeSleeper, GiveBack,
     PushFails, PutBack, SleeperBack, Inject
<1>3. ASSUME NEW w \in Thieves, Thief(w) PROVE ThiefInv'
  BY <1>3 DEF Thief, CheckAllStolen, LoadWord, Steal, StealFails, GiveUp,
     RequestSplit, Sleep, WokenElsewhere, Finish, ThiefStep, Word, NoWord
<1>. QED
  BY <1>1, <1>2, <1>3 DEF Next, Owner, PushToEmpty, ClearAllStolen, AddJob,
     PushToShared, PushOverflow, GrowCheck, Grow, ResetRequest, SelfSteal,
     Correct, PopOverflown, PopAllStolen, PopShared, ShrinkLoad,
     Shrink, ShrinkAgain, ShrinkAllStolen, PopTop, PopStolen, vars

LEMMA FlagStepInv == IInv /\ [Next]_vars => FlagInv'
<1> SUFFICES ASSUME TypeOK, OwnerInv, FlagInv, [Next]_vars PROVE FlagInv'
  BY DEF IInv
<1> USE DEF TypeOK, WordTypeOK, FlagInv, flagVars
<1>1. CASE PushToEmpty
  BY <1>1 DEF PushToEmpty, Goto
<1>10. CASE ClearAllStolen
  BY <1>10 DEF ClearAllStolen, Goto, ownerVars, OwnerInv
<1>11. CASE AddJob
  BY <1>11 DEF AddJob, Goto, ownerVars, OwnerInv
<1>2. CASE PushToShared \/ PushOverflow \/ GrowCheck \/ Grow \/ ResetRequest
  BY <1>2 DEF PushToShared, PushOverflow, GrowCheck, Grow, ResetRequest, Goto,
     Return
<1>3. CASE PopSleeper \/ PopFails \/ TakeSleeper \/ SelfSteal \/ Correct
  BY <1>3 DEF PopSleeper, PopFails, LoadSleepers, TakeSleeper, SelfSteal,
     Correct, Goto, Return, ownerVars
<1>12. CASE PushFails \/ PutBack
  BY <1>12 DEF PushFails, PutBack, SleeperBack, Goto, Return, ownerVars
<1>4. CASE GiveBack \/ Inject
  BY <1>4 DEF GiveBack, Inject, Goto, NoteIfAllStolen, NoteAllStolen, Return,
     ownerVars, OwnerInv
<1>5. CASE PopOverflown \/ PopAllStolen \/ PopShared
  BY <1>5 DEF PopOverflown, PopAllStolen, PopShared, MayPop
<1>6. CASE ShrinkLoad \/ Shrink \/ ShrinkAgain
  BY <1>6 DEF ShrinkLoad, Shrink, ShrinkAgain, Goto
<1>7. CASE ShrinkAllStolen \/ PopTop \/ PopStolen
  BY <1>7 DEF ShrinkAllStolen, PopTop, PopStolen, NoteAllStolen, Goto, OwnerInv
<1>8. ASSUME NEW w \in Thieves, Thief(w) PROVE FlagInv'
  BY <1>8 DEF Thief, CheckAllStolen, LoadWord, Steal, StealFails, GiveUp,
     RequestSplit, Sleep, WokenElsewhere, Finish, ThiefStep, ownerVars
<1>9. CASE UNCHANGED vars
  BY <1>9 DEF vars
<1>. QED
  BY <1>1, <1>2, <1>3, <1>4, <1>5, <1>6, <1>7, <1>8, <1>9, <1>10, <1>11,
     <1>12 DEF Next, Owner

LEMMA OwnerStepInv == IInv /\ [Next]_vars => OwnerInv'
<1> SUFFICES ASSUME IInv, TypeOK, OwnerInv, WordInv, [Next]_vars
             PROVE  OwnerInv'
  BY DEF IInv
<1> USE DEF TypeOK, OwnerTypeOK, WordTypeOK, OwnerInv, GrowPC, ShrinkPC, Live
<1>1. CASE PushToEmpty \/ PushToShared \/ PushOverflow
  BY <1>1, DequeAssumption DEF PushToEmpty, PushToShared, PushOverflow, Goto,
     WordInv
<1>2. CASE ClearAllStolen \/ AddJob
  BY <1>2 DEF ClearAllStolen, AddJob, Goto, ownerVars, wordVars
<1>3. CASE GrowCheck \/ Grow \/ ResetRequest
  BY <1>3 DEF GrowCheck, Grow, ResetRequest, Goto, Return, wordVars
<1>4. CASE PopSleeper \/ PopFails
  BY <1>4, DequeAssumption DEF PopSleeper, PopFails, LoadSleepers, Return,
     wordVars
<1>15. CASE TakeSleeper
  BY <1>15, DequeAssumption DEF TakeSleeper, Goto, Sleepers, ownerVars, wordVars
<1>16. CASE PushFails \/ PutBack
  BY <1>16 DEF PushFails, PutBack, SleeperBack, Goto, Return, ownerVars, wordVars
<1>5. CASE SelfSteal \/ Correct
  BY <1>5 DEF SelfSteal, Correct, Goto, WordInv, SplitKnown, ownerVars
<1>6. CASE GiveBack \/ Inject
  BY <1>6 DEF GiveBack, Inject, Goto, NoteIfAllStolen, NoteAllStolen, Return,
     ownerVars, wordVars
<1>7. CASE PopOverflown \/ PopAllStolen \/ PopShared
  BY <1>7, DequeAssumption DEF PopOverflown, PopAllStolen, PopShared, MayPop,
     WordInv, wordVars
<1>8. CASE ShrinkLoad
  BY <1>8 DEF ShrinkLoad, Goto, WordInv, SplitKnown, wordVars
<1>9. CASE Shrink
  BY <1>9, MiddleBounds DEF Shrink, Goto, WordInv, SplitKnown
<1>10. CASE ShrinkAgain
  BY <1>10, MiddleBounds DEF ShrinkAgain, Goto
<1>11. CASE ShrinkAllStolen \/ PopTop \/ PopStolen
  BY <1>11, DequeAssumption DEF ShrinkAllStolen, PopTop, PopStolen,
     NoteAllStolen, Goto, WordInv, wordVars
<1>12. ASSUME NEW w \in Thieves, Steal(w) PROVE OwnerInv'
  <2>1. /\ tail' = tail + 1
        /\ UNCHANGED <<head, splitCopy, allStolenCopy, opc, caller, cur, sleeper,
                       split>>
    BY <1>12 DEF Steal, ThiefStep, ownerVars
  <2>2. /\ tail < split
        /\ opc \notin {"correct", "giveBack", "shrinkAgain", "allStolen"}
    BY <1>12, StealTakesOldest
  <2>. QED
    BY <2>1, <2>2
<1>13. ASSUME NEW w \in Thieves, Thief(w), ~Steal(w)
       PROVE  UNCHANGED <<ownerVars, opc, sleeper, wordVars>>
  BY <1>13 DEF Thief, CheckAllStolen, LoadWord, StealFails, GiveUp,
     RequestSplit, Sleep, WokenElsewhere, Finish, ThiefStep
<1>14. CASE UNCHANGED <<ownerVars, opc, sleeper, wordVars>>
  BY <1>14 DEF ownerVars, wordVars
<1>. QED
  BY <1>1, <1>2, <1>3, <1>4, <1>5, <1>6, <1>7, <1>8, <1>9, <1>10, <1>11, <1>12,
     <1>13, <1>14, <1>15, <1>16 DEF Next, Owner, ownerVars, wordVars, vars

(* pop() answers kWork: the owner takes the youngest task, not yet taken.   *)
LEMMA PopTopTakesYoungest ==
  ASSUME IInv, PopTop
  PROVE  /\ head \in 1 .. N /\ head' = head - 1
         /\ Live = head /\ Live' = head - 1
         /\ ~allStolenCopy /\ splitCopy < head /\ tail <= split
         /\ takes[head - 1] = 0 /\ takes' = [takes EXCEPT ![head - 1] = 1]
         /\ opc = "popTop" /\ opc' \in {"idle", "growCheck"}
         /\ allStolenCopy' => head' = 0
         /\ UNCHANGED <<splitCopy, waiting, cur, tail, split, stealer>>
<1> USE DequeAssumption DEF IInv, TypeOK, OwnerTypeOK, WordTypeOK, TaskTypeOK,
        Slots
<1>1. /\ head \in 1 .. N /\ head' = head - 1 /\ Taken(head - 1)
      /\ ~allStolenCopy /\ splitCopy < head /\ opc = "popTop"
      /\ UNCHANGED <<splitCopy, waiting, cur, tail, split, stealer>>
  BY DEF PopTop, OwnerInv, wordVars
<1>2. Live = head /\ Live' = head - 1
  BY <1>1 DEF Live
<1>3. tail <= split /\ takes[head - 1] = 0
  BY <1>1, <1>2 DEF WordInv, SplitKnown, Bottom
<1>4. takes' = [takes EXCEPT ![head - 1] = 1]
  BY <1>1, <1>3 DEF Taken
<1>5. opc' \in {"idle", "growCheck"} /\ (allStolenCopy' => head' = 0)
  BY <1>1 DEF PopTop
<1>. QED
  BY <1>1, <1>2, <1>3, <1>4, <1>5

LEMMA WordStepInv == IInv /\ [Next]_vars => WordInv'
<1> SUFFICES ASSUME IInv, TypeOK, OwnerInv, WordInv, TaskInv, WaitInv, [Next]_vars
             PROVE  WordInv'
  BY DEF IInv
<1> USE DequeAssumption DEF TypeOK, OwnerTypeOK, WordTypeOK, TaskTypeOK, WordInv,
        SplitKnown, Slots
<1>1. CASE PushToEmpty
  BY <1>1 DEF PushToEmpty, NewTask, Goto, Live, Bottom
<1>2. CASE PushToShared
  BY <1>2 DEF PushToShared, NewTask, Goto, wordVars, Live, Bottom
<1>3. CASE Quiet
  BY <1>3, QuietSteps DEF Bottom, Busy
<1>4. CASE Grow
  BY <1>4 DEF Grow, Goto, taskVars, OwnerInv, Live, Bottom
<1>5. CASE SelfSteal
  <2>1. /\ ~allStolenCopy /\ cur' = tail /\ tail' = tail + 1 /\ tail <= split
        /\ UNCHANGED <<head, splitCopy, allStolenCopy, split>>
    BY <1>5 DEF SelfSteal, OwnerInv
  <2>2. CASE tail = splitCopy
    BY <1>5, <2>1, <2>2 DEF SelfSteal, Live, Bottom
  <2>3. CASE tail # splitCopy
    <3>1. tail \in Slots /\ opc = "selfSteal" /\ opc' = "inject" /\ Taken(tail)
      BY <1>5, <2>1, <2>3 DEF SelfSteal
    <3>2. takes[tail] = 0 /\ \A i \in Slots : i < tail => takes[i] = 1
      BY <2>1, <3>1, <2>3 DEF Live, Bottom
    <3>3. Bottom' = tail + 1 /\ Bottom = tail /\ Live' = Live
      BY <2>1, <3>1 DEF Live, Bottom
    <3>4. takes' = [takes EXCEPT ![tail] = 1]
      BY <3>1, <3>2 DEF Taken
    <3>. QED
      BY <2>1, <2>3, <3>1, <3>2, <3>3, <3>4
  <2>. QED
    BY <2>2, <2>3
<1>6. CASE Correct
  BY <1>6 DEF Correct, Goto, ownerVars, taskVars, OwnerInv, Live, Bottom
<1>7. CASE GiveBack
  BY <1>7 DEF GiveBack, Goto, NoteIfAllStolen, NoteAllStolen, wordVars,
     taskVars, OwnerInv, Live, Bottom
<1>8. CASE Inject
  <2>1. UNCHANGED <<splitCopy, tail, split, takes>> /\ opc = "inject"
    BY <1>8 DEF Inject, Return, ownerVars, wordVars
  <2>2. Live' = Live /\ opc' \in {"idle", "popSleeper"}
    BY <1>8, ReturnKeepsLive DEF Inject, Return, GrowPC, ownerVars, Live
  <2>3. ~allStolenCopy /\ cur < tail
    BY <2>1 DEF OwnerInv
  <2>4. CASE allStolenCopy' = allStolenCopy
    BY <2>1, <2>2, <2>3, <2>4 DEF Bottom
  <2>5. CASE allStolenCopy' # allStolenCopy
    <3>1. head = splitCopy /\ cur = splitCopy - 1
      BY <1>8, <2>5 DEF Inject, NoteIfAllStolen, ownerVars
    <3>2. tail = split /\ tail = head
      BY <2>1, <2>3, <3>1
    <3>. QED
      BY <2>1, <2>2, <2>3, <3>1, <3>2 DEF Live, Bottom
  <2>. QED
    BY <2>4, <2>5
<1>9. CASE PopAllStolen
  BY <1>9 DEF PopAllStolen, MayPop, wordVars, taskVars, Live, Bottom
<1>10. CASE ShrinkLoad
  BY <1>10 DEF ShrinkLoad, Goto, wordVars, taskVars, Live, Bottom
<1>11. CASE Shrink
  BY <1>11, MiddleBounds DEF Shrink, Goto, taskVars, OwnerInv, Live, Bottom
<1>12. CASE ShrinkAgain
  BY <1>12, MiddleBounds DEF ShrinkAgain, Goto, taskVars, OwnerInv, ShrinkPC,
     Live, Bottom
<1>13. CASE ShrinkAllStolen
  BY <1>13 DEF ShrinkAllStolen, NoteAllStolen, Goto, wordVars, taskVars,
     OwnerInv, Live, Bottom
<1>14. CASE PopTop
  <2>1. Bottom = tail /\ Bottom' = tail
    BY <1>14, PopTopTakesYoungest DEF Bottom
  <2>2. CASE allStolenCopy'
    BY <1>14, <2>2, PopTopTakesYoungest
  <2>3. CASE ~allStolenCopy'
    BY <1>14, <2>1, <2>3, PopTopTakesYoungest
  <2>. QED
    BY <2>2, <2>3
<1>15. CASE PopStolen
  BY <1>15 DEF PopStolen, NoteAllStolen, wordVars, taskVars, OwnerInv, WaitInv,
     Live, Bottom
<1>16. ASSUME NEW w \in Thieves, Steal(w) PROVE WordInv'
  <2>1. /\ tail \in Slots /\ tail < split /\ ~allStolenCopy /\ opc # "correct"
        /\ tail' = tail + 1 /\ takes' = [takes EXCEPT ![tail] = 1]
        /\ UNCHANGED <<head, splitCopy, allStolenCopy, opc, cur, split>>
    BY <1>16, StealTakesOldest
  <2>. QED
    BY <2>1 DEF Live, Bottom
<1>17. ASSUME NEW w \in Thieves, Thief(w), ~Steal(w) PROVE WordInv'
  BY <1>17, ThiefQuietSteps DEF Live, Bottom
<1>18. CASE UNCHANGED vars
  BY <1>18 DEF vars, Live, Bottom
<1>. QED
  BY <1>1, <1>2, <1>3, <1>4, <1>5, <1>6, <1>7, <1>8, <1>9, <1>10, <1>11, <1>12,
     <1>13, <1>14, <1>15, <1>16, <1>17, <1>18 DEF Next, Owner, Quiet

LEMMA TaskStepInv == IInv /\ [Next]_vars => TaskInv'
<1> SUFFICES ASSUME IInv, TypeOK, OwnerInv, WordInv, TaskInv, [Next]_vars
             PROVE  TaskInv'
  BY DEF IInv
<1> USE DequeAssumption DEF TypeOK, OwnerTypeOK, WordTypeOK, TaskTypeOK, TaskInv,
        SlotInv, Slots
(* A new task goes into the first slot past the queued ones.                *)
<1>1. CASE PushToEmpty \/ PushToShared
  <2>1. /\ head \in Slots /\ head' = head + 1 /\ opc' # "inject"
        /\ stealer' = [stealer EXCEPT ![head] = NoOne]
        /\ takes' = [takes EXCEPT ![head] = 0]
        /\ opc = "idle"
    BY <1>1 DEF PushToEmpty, PushToShared, NewTask, Goto
  <2>2. ASSUME NEW i \in Slots PROVE SlotInv(i)'
    <3>1. CASE i = head
      BY <2>1, <3>1 DEF Live
    <3>2. CASE i # head
      <4>1. takes'[i] = takes[i] /\ stealer'[i] = stealer[i]
        BY <2>1, <3>2
      <4>2. i < Live <=> (i < Live)'
        BY <2>1, <3>2 DEF Live
      <4>. QED
        BY <2>1, <4>1, <4>2
    <3>. QED
      BY <3>1, <3>2
  <2>. QED
    BY <2>1, <2>2
<1>3. CASE Quiet
  BY <1>3, QuietSteps DEF Busy
<1>4. CASE Grow \/ Correct
  BY <1>4 DEF Grow, Correct, Goto, ownerVars, taskVars, Live
<1>5. CASE SelfSteal
  <2>1. /\ ~allStolenCopy /\ cur' = tail /\ tail <= split
        /\ UNCHANGED <<head, stealer>>
    BY <1>5 DEF SelfSteal, OwnerInv, WordInv
  <2>2. CASE tail = splitCopy
    BY <1>5, <2>1, <2>2 DEF SelfSteal, Live
  <2>3. CASE tail # splitCopy
    <3>1. tail \in Slots /\ opc = "selfSteal" /\ opc' = "inject" /\ Taken(tail)
      BY <1>5, <2>1, <2>3 DEF SelfSteal, WordInv, SplitKnown
    <3>2. tail < Live /\ takes[tail] = 0
      BY <2>1, <2>3, <3>1 DEF WordInv, SplitKnown, Bottom, Live
    <3>3. takes' = [takes EXCEPT ![tail] = 1] /\ Live' = Live
      BY <2>1, <3>1, <3>2 DEF Taken, Live
    <3>. QED
      BY <2>1, <3>1, <3>2, <3>3
  <2>. QED
    BY <2>2, <2>3
<1>6. CASE GiveBack
  BY <1>6 DEF GiveBack, Goto, taskVars, Live
<1>7. CASE Inject
  <2>1. Live' = Live /\ opc' \in {"idle", "popSleeper"} /\ takes' = takes
    BY <1>7, ReturnKeepsLive DEF Inject, Return, GrowPC, ownerVars, Live
  <2>2. /\ stealer' = [stealer EXCEPT ![cur] = sleeper] /\ opc = "inject"
        /\ sleeper \in Thieves
    BY <1>7 DEF Inject, OwnerInv
  <2>. QED
    BY <2>1, <2>2
<1>8. CASE PopAllStolen
  BY <1>8 DEF PopAllStolen, MayPop, taskVars, Live
<1>9. CASE ShrinkLoad \/ Shrink \/ ShrinkAgain \/ ShrinkAllStolen
  BY <1>9 DEF ShrinkLoad, Shrink, ShrinkAgain, ShrinkAllStolen, Goto,
     taskVars, Live
<1>10. CASE PopTop
  <2>1. /\ Live = head /\ Live' = head - 1 /\ opc # "inject" /\ opc' # "inject"
        /\ takes[head - 1] = 0 /\ UNCHANGED stealer
    BY <1>10, PopTopTakesYoungest
  <2>2. takes' = [takes EXCEPT ![head - 1] = 1]
    BY <1>10, PopTopTakesYoungest
  <2>3. ASSUME NEW i \in Slots PROVE SlotInv(i)'
    <3>1. CASE i = head - 1
      <4>1. takes'[i] = 1 /\ stealer'[i] = NoOne /\ ~(i < Live)'
        BY <2>1, <2>2, <3>1
      <4>. QED
        BY <2>1, <4>1
    <3>2. CASE i # head - 1
      <4>1. takes'[i] = takes[i] /\ stealer'[i] = stealer[i]
        BY <2>1, <2>2, <3>2
      <4>2. i < Live <=> (i < Live)'
        BY <2>1, <3>2
      <4>. QED
        BY <2>1, <4>1, <4>2
    <3>. QED
      BY <3>1, <3>2
  <2>. QED
    BY <2>1, <2>3
<1>11. CASE PopStolen
  <2>1. /\ head \in 1 .. N /\ head' = head - 1 /\ opc = "idle" /\ opc' = "idle"
        /\ stealer[head - 1] = Finished /\ UNCHANGED <<stealer, takes>>
    BY <1>11 DEF PopStolen, taskVars
  <2>2. Live = head /\ Live' = head - 1
    BY <2>1 DEF Live
  <2>3. ASSUME NEW i \in Slots PROVE SlotInv(i)'
    <3>1. CASE i = head - 1
      BY <2>1, <2>2, <3>1
    <3>2. CASE i # head - 1
      <4>1. i < Live <=> (i < Live)'
        BY <2>1, <2>2, <3>2
      <4>. QED
        BY <2>1, <4>1
    <3>. QED
      BY <3>1, <3>2
  <2>. QED
    BY <2>1, <2>3
<1>12. ASSUME NEW w \in Thieves, Steal(w) PROVE TaskInv'
  <2>1. /\ tail \in Slots /\ tail < Live /\ takes[tail] = 0 /\ Live' = Live
        /\ takes' = [takes EXCEPT ![tail] = 1]
        /\ stealer' = [stealer EXCEPT ![tail] = w]
        /\ UNCHANGED <<opc, cur>>
    BY <1>12, StealTakesOldest DEF Live
  <2>2. ASSUME NEW i \in Slots PROVE SlotInv(i)'
    <3>1. CASE i = tail
      BY <2>1, <3>1
    <3>2. CASE i # tail
      BY <2>1, <3>2
    <3>. QED
      BY <3>1, <3>2
  <2>. QED
    BY <2>1, <2>2
<1>13. ASSUME NEW w \in Thieves, NEW i \in Slots, Finish(w, i) PROVE TaskInv'
  BY <1>13 DEF Finish, ownerVars, Live
<1>14. ASSUME NEW w \in Thieves, Thief(w), ~Steal(w),
              ~\E i \in Slots : Finish(w, i)
       PROVE  UNCHANGED <<ownerVars, opc, taskVars>>
  BY <1>14 DEF Thief, CheckAllStolen, LoadWord, StealFails, GiveUp,
     RequestSplit, Sleep, WokenElsewhere, ThiefStep
<1>15. CASE UNCHANGED <<ownerVars, opc, taskVars>>
  BY <1>15 DEF ownerVars, taskVars, Live
<1>. QED
  BY <1>1, <1>3, <1>4, <1>5, <1>6, <1>7, <1>8, <1>9, <1>10, <1>11, <1>12,
     <1>13, <1>14, <1>15 DEF Next, Owner, Quiet, ownerVars, taskVars, vars

LEMMA WaitStepInv == IInv /\ [Next]_vars => WaitInv'
<1> SUFFICES ASSUME IInv, TypeOK, OwnerInv, WordInv, TaskInv, WaitInv, [Next]_vars
             PROVE  WaitInv'
  BY DEF IInv
<1>0. ASSUME UNCHANGED <<waiting, takes>>, Live' = Live,
             opc' # "inject" \/ UNCHANGED <<opc, cur>>
      PROVE  WaitInv'
  BY <1>0 DEF WaitInv
<1> USE DequeAssumption DEF OwnerTypeOK, TaskTypeOK, Slots
<1>1. CASE PushToEmpty \/ PushToShared
  <2>1. /\ head \in Slots /\ head' = head + 1 /\ opc' # "inject"
        /\ takes' = [takes EXCEPT ![head] = 0] /\ UNCHANGED waiting
    BY <1>1 DEF PushToEmpty, PushToShared, NewTask, Goto, TypeOK
  <2>. QED
    BY <2>1 DEF TypeOK, Live, WaitInv
<1>3. CASE Quiet
  BY <1>0, <1>3, QuietSteps DEF Busy
<1>4. CASE Grow \/ Correct
  BY <1>0, <1>4 DEF Grow, Correct, Goto, ownerVars, taskVars, Live
<1>5. CASE SelfSteal
  BY <1>5, TakenCounts DEF TypeOK, WordTypeOK, SelfSteal, OwnerInv, WordInv,
     Bottom, SplitKnown, Live, WaitInv
<1>6. CASE GiveBack
  BY <1>0, <1>6 DEF GiveBack, Goto, taskVars, Live
<1>7. CASE Inject
  BY <1>0, <1>7, ReturnKeepsLive DEF Inject, Return, GrowPC, ownerVars, Live
<1>8. CASE PopAllStolen
  BY <1>8 DEF TypeOK, PopAllStolen, MayPop, taskVars, WordInv, Live, WaitInv
<1>9. CASE ShrinkLoad
  BY <1>0, <1>9 DEF ShrinkLoad, Goto, taskVars, Live
<1>10. CASE Shrink \/ ShrinkAgain
  BY <1>0, <1>10 DEF Shrink, ShrinkAgain, Goto, taskVars, Live
<1>11. CASE ShrinkAllStolen
  BY <1>11 DEF TypeOK, ShrinkAllStolen, Goto, taskVars, WordInv, Bottom,
     OwnerInv, ShrinkPC, Live, WaitInv
<1>12. CASE PopTop
  <2>1. \A i \in waiting : i < head - 1 /\ i \in Slots
    BY <1>12, PopTopTakesYoungest DEF TypeOK, WaitInv
  <2>2. ASSUME NEW i \in waiting, NEW j \in Slots, j <= i PROVE takes'[j] = 1
    <3>1. takes[j] = 1
      BY <2>2 DEF WaitInv
    <3>2. j # head - 1 /\ takes' = [takes EXCEPT ![head - 1] = 1]
      BY <1>12, <2>1, <2>2, PopTopTakesYoungest
    <3>. QED
      BY <3>1, <3>2 DEF TypeOK
  <2>. QED
    BY <1>12, <2>1, <2>2, PopTopTakesYoungest DEF WaitInv
<1>13. CASE PopStolen
  BY <1>13 DEF TypeOK, PopStolen, taskVars, Live, WaitInv
<1>14. ASSUME NEW w \in Thieves, Steal(w) PROVE WaitInv'
  <2>1. /\ tail \in Slots /\ takes' = [takes EXCEPT ![tail] = 1]
        /\ UNCHANGED <<waiting, head, opc, cur>>
    BY <1>14, StealTakesOldest
  <2>. QED
    BY <2>1 DEF TypeOK, Live, WaitInv
<1>15. ASSUME NEW w \in Thieves, Thief(w), ~Steal(w) PROVE WaitInv'
  BY <1>0, <1>15, ThiefQuietSteps DEF Live
<1>16. CASE UNCHANGED vars
  BY <1>0, <1>16 DEF vars, Live
<1>. QED
  BY <1>1, <1>3, <1>4, <1>5, <1>6, <1>7, <1>8, <1>9, <1>10, <1>11, <1>12,
     <1>13, <1>14, <1>15, <1>16 DEF Next, Owner, Quiet

------------------------------------------------------------------------------
(* The invariant and what follows from it.                                  *)

LEMMA InvInit == Init => IInv
<1> SUFFICES ASSUME Init PROVE IInv
  OBVIOUS
<1> USE DequeAssumption DEF Init
<1>1. OwnerTypeOK /\ WordTypeOK
  BY DEF OwnerTypeOK, WordTypeOK, OwnerPC
<1>2. FlagTypeOK
  BY DEF FlagTypeOK
<1>3. TaskTypeOK /\ ThiefTypeOK
  BY DEF TaskTypeOK, ThiefTypeOK, ThiefPC, Words, NoWord
<1>4. OwnerInv
  BY DEF OwnerInv, GrowPC, ShrinkPC
<1>5. WordInv
  BY DEF WordInv, SplitKnown, Live, Slots
<1>6. TaskInv /\ WaitInv
  BY DEF TaskInv, WaitInv, SlotInv, Live, Slots
<1>7. FlagInv
  BY DEF FlagInv
<1>8. ThiefInv
  BY DEF ThiefInv
<1>. QED
  BY <1>1, <1>2, <1>3, <1>4, <1>5, <1>6, <1>7, <1>8 DEF IInv, TypeOK

(* The owner and any number of thieves keep the deque's invariant.          *)
THEOREM DequeInvariant == Spec => []IInv
<1>1. IInv /\ [Next]_vars => IInv'
  BY TypeStep, OwnerStepInv, WordStepInv, TaskStepInv, WaitStepInv,
     FlagStepInv, ThiefStepInv DEF IInv
<1>. QED
  BY <1>1, InvInit, PTL DEF Spec

(* Every variable keeps to the values that its declaration gives it, for    *)
(* every value of the constants.                                            *)
THEOREM TypeCorrect == Spec => []TypeOK
<1>1. IInv => TypeOK
  BY DEF IInv
<1>. QED
  BY DequeInvariant, <1>1, PTL

(* No task is run twice, by its owner, by a thief or by a worker that the   *)
(* owner wakes up for it, for any array size and any number of thieves.     *)
THEOREM NoDoubleTakeHolds == Spec => []NoDoubleTake
<1>1. IInv => NoDoubleTake
  BY DEF IInv, TaskInv, SlotInv, NoDoubleTake
<1>. QED
  BY <1>1, DequeInvariant, PTL

(* pop() answers kStolen only of a task that some thief has: a worker never *)
(* waits for a task that nobody runs.                                       *)
THEOREM AwaitedIsStolenHolds == Spec => []AwaitedIsStolen
<1>1. IInv => AwaitedIsStolen
  BY DEF IInv, TypeOK, OwnerTypeOK, TaskInv, SlotInv, WaitInv, AwaitedIsStolen,
     Slots
<1>. QED
  BY <1>1, DequeInvariant, PTL

(* push() never reuses the slot of a task that a thief is still running.    *)
THEOREM RunningIsLiveHolds == Spec => []RunningIsLive
<1>1. IInv => RunningIsLive
  BY DEF IInv, TaskInv, SlotInv, RunningIsLive
<1>. QED
  BY <1>1, DequeInvariant, PTL

(* A thief that is turned away by allStolen misses no task.                 *)
THEOREM AllStolenIsTrueHolds == Spec => []AllStolenIsTrue
<1>1. IInv => AllStolenIsTrue
  BY DEF IInv, FlagInv, WordInv, AllStolenIsTrue
<1>. QED
  BY <1>1, DequeInvariant, PTL

(* The deque is counted in haveJobs at most once, always while it has a task *)
(* that nobody has taken, and never when it is empty.                       *)
THEOREM JobsCountedHolds == Spec => []JobsCounted
<1>1. IInv => JobsCounted
  BY DEF IInv, FlagInv, WordInv, OwnerInv, JobsCounted
<1>. QED
  BY <1>1, DequeInvariant, PTL

(* The assertion newSplit > splitCopy of growShared() never fails, and the  *)
(* owner's copy of the split point is always exact.                         *)
THEOREM SplitPointHolds == Spec => [](GrowsForward /\ SplitKnown)
<1>1. IInv => GrowsForward /\ SplitKnown
  BY DEF IInv, OwnerInv, WordInv, GrowsForward
<1>. QED
  BY <1>1, DequeInvariant, PTL

------------------------------------------------------------------------------
(* push() and pop() come to an end.                                         *)

LEMMA RankValues ==
  /\ Rank["resetRequest"] = 1 /\ Rank["putBack"] = 2 /\ Rank["giveBack"] = 3
  /\ Rank["correct"] = 4 /\ Rank["selfSteal"] = 5 /\ Rank["takeSleeper"] = 6
  /\ Rank["popSleeper"] = 7 /\ Rank["inject"] = 8
  /\ Rank["popTop"] = 6 /\ Rank["allStolen"] = 6 /\ Rank["shrinkAgain"] = 7
  /\ Rank["shrink"] = 8 /\ Rank["shrinkLoad"] = 9
  /\ Rank["grow"] = 8 /\ Rank["growOnRequest"] = 8 /\ Rank["growCheck"] = 9
  /\ Rank["addJob"] = 8 /\ Rank["clearAllStolen"] = 9
  BY DEF Rank

(* In the middle of an operation no task below the split point is past the  *)
(* array's end, so that something is left to do.                            *)
LEMMA BottomIsLive ==
  ASSUME IInv, opc \notin {"idle", "putBack"}
  PROVE  /\ ~allStolenCopy
         /\ Live \in Nat /\ Bottom \in Nat /\ Bottom <= Live
         /\ Rank[opc] \in Nat /\ Rank[opc] > 0
         /\ StepsLeft > 0
<1> USE DequeAssumption DEF IInv, TypeOK, OwnerTypeOK, WordTypeOK, FlagTypeOK
<1>1. ~allStolenCopy
  BY DEF OwnerInv
<1>2. Live \in Nat /\ Bottom \in Nat
  BY DEF Live, Bottom
<1>3. Bottom <= Live
  <2>1. split <= Live
    BY <1>1 DEF WordInv, SplitKnown
  <2>2. CASE opc = "correct"
    BY <2>1, <2>2 DEF OwnerInv, Bottom
  <2>3. CASE opc \in {"shrinkAgain", "allStolen"}
    BY <2>3 DEF OwnerInv, ShrinkPC, Bottom, Live
  <2>4. CASE opc \notin {"correct", "shrinkAgain", "allStolen"}
    BY <1>1, <1>2, <2>1, <2>4 DEF WordInv, Bottom
  <2>. QED
    BY <2>2, <2>3, <2>4
<1>4. Rank[opc] \in Nat /\ Rank[opc] > 0
  BY RankValues DEF OwnerPC
<1>. QED
  BY <1>1, <1>2, <1>3, <1>4 DEF StepsLeft

(* An exchange on the list of sleepers that fails leaves the owner where it *)
(* was.                                                                     *)
LEMMA ExchangeFails ==
  ASSUME PopFails \/ PushFails, opc' # "idle"
  PROVE  opc' = opc /\ UNCHANGED <<ownerVars, sleeper, wordVars>>
  BY DEF PopFails, PushFails, LoadSleepers, Goto, Return, ownerVars

(* But for those the only way on from pushing the sleeper back is the end.   *)
LEMMA LeavesPutBack ==
  ASSUME Owner, ~PushFails, opc' # "idle"
  PROVE  opc # "putBack"
  BY DEF Owner, PushToEmpty, ClearAllStolen, AddJob, PushToShared, PushOverflow,
     GrowCheck, Grow, ResetRequest, PopSleeper, PopFails, TakeSleeper, SelfSteal,
     Correct, GiveBack, PutBack, Return, Inject, PopOverflown, PopAllStolen,
     PopShared, ShrinkLoad, Shrink, ShrinkAgain, ShrinkAllStolen, PopTop,
     PopStolen, MayPop, Goto

(* What each other step of the owner does to the tasks that it may still    *)
(* hand out and to its place in the code.                                   *)
LEMMA OwnerStepsDown ==
  ASSUME IInv, opc # "idle", Owner, ~PopFails, ~PushFails, opc' # "idle"
  PROVE  /\ opc' # opc
         /\ \/ /\ Live' - Bottom' = Live - Bottom
               /\ Rank[opc'] < Rank[opc]
            \/ /\ Live' - Bottom' = Live - Bottom - 1
               /\ Rank[opc'] < Rank[opc] + 4
<1> DEFINE Level == Live' = Live /\ Bottom' = Bottom
<1>0. /\ ~allStolenCopy /\ Live \in Nat /\ Bottom \in Nat
      /\ Live - Bottom \in Int
  BY BottomIsLive, LeavesPutBack
<1> USE RankValues
<1>1. CASE ClearAllStolen \/ AddJob
  BY <1>0, <1>1 DEF ClearAllStolen, AddJob, Goto, ownerVars, wordVars, Live,
     Bottom
<1>2. CASE GrowCheck \/ ResetRequest
  BY <1>0, <1>2 DEF GrowCheck, ResetRequest, Return, wordVars, Live, Bottom
<1>3. CASE Grow
  BY <1>0, <1>3 DEF Grow, Goto, Live, Bottom
<1>4. CASE PopSleeper \/ TakeSleeper
  BY <1>0, <1>4 DEF PopSleeper, LoadSleepers, TakeSleeper, Goto, Return,
     ownerVars, wordVars, Live, Bottom
<1>5. CASE SelfSteal
  <2>1. /\ opc = "selfSteal" /\ cur' = tail /\ tail' = tail + 1
        /\ head' = head /\ Live' = Live /\ tail \in Nat
        /\ opc' \in {"correct", "inject"}
    BY <1>0, <1>5 DEF SelfSteal, Live, IInv, TypeOK, WordTypeOK
  <2>2. CASE opc' = "correct"
    BY <1>0, <2>1, <2>2 DEF Bottom
  <2>3. CASE opc' = "inject"
    BY <1>0, <2>1, <2>3 DEF Bottom
  <2>. QED
    BY <2>1, <2>2, <2>3
<1>6. CASE Correct
  BY <1>0, <1>6 DEF Correct, Goto, ownerVars, Live, Bottom
<1>7. CASE GiveBack
  BY <1>0, <1>7 DEF GiveBack, Goto, wordVars, Live, Bottom
<1>8. CASE Inject
  BY <1>0, <1>8 DEF Inject, Return, ownerVars, wordVars, Live, Bottom
<1>9. CASE ShrinkLoad
  BY <1>0, <1>9 DEF ShrinkLoad, Goto, wordVars, Live, Bottom
<1>10. CASE Shrink
  BY <1>0, <1>10 DEF Shrink, Goto, Live, Bottom
<1>11. CASE ShrinkAgain
  BY <1>0, <1>11 DEF ShrinkAgain, Goto, Live, Bottom, IInv, OwnerInv
<1>12. CASE ShrinkAllStolen
  BY <1>12 DEF ShrinkAllStolen, Goto
<1>13. CASE PopTop
  <2>1. opc = "popTop" /\ head' = head - 1 /\ tail' = tail /\ opc' = "growCheck"
    BY <1>13 DEF PopTop, wordVars
  <2>2. head \in 1 .. N
    BY <2>1 DEF IInv, OwnerInv
  <2>3. Live = head /\ Live' = head - 1
    BY <2>1, <2>2, DequeAssumption DEF Live
  <2>. QED
    BY <1>0, <2>1, <2>2, <2>3 DEF Bottom
<1>14. ~(PutBack \/ PushToEmpty \/ PushToShared \/ PushOverflow \/ PopOverflown
         \/ PopAllStolen \/ PopShared \/ PopStolen)
  BY DEF PutBack, Return, PushToEmpty, PushToShared, PushOverflow, PopOverflown,
     PopAllStolen, PopShared, PopStolen, MayPop, Goto
<1>. QED
  BY <1>1, <1>2, <1>3, <1>4, <1>5, <1>6, <1>7, <1>8, <1>9, <1>10, <1>11,
     <1>12, <1>13, <1>14 DEF Owner

(* Every step of the owner that is no failed exchange on the list of        *)
(* sleepers lowers the bound on its way to the end of push() or pop(), and  *)
(* no thief raises it: publishWork()'s loop ends, for any number of tasks.  *)
THEOREM OwnerNearsEndHolds == Spec => OwnerNearsEnd
<1> DEFINE Waits == /\ opc' = opc /\ StepsLeft' <= StepsLeft
                    /\ UNCHANGED <<ownerVars, sleeper>>
<1>1. ASSUME IInv, IInv', [Next]_vars, opc # "idle", opc' # "idle"
      PROVE  \/ opc' # opc /\ StepsLeft' < StepsLeft /\ StepsLeft > 0
             \/ Waits
  <2>0. /\ Live \in Nat /\ Bottom \in Nat /\ Rank[opc] \in Nat
        /\ Live' \in Nat /\ Bottom' \in Nat /\ Rank[opc'] \in Nat
    <3>1. OwnerTypeOK /\ WordTypeOK /\ OwnerTypeOK' /\ WordTypeOK'
      BY <1>1 DEF IInv, TypeOK
    <3>2. Live \in Nat /\ Bottom \in Nat /\ Live' \in Nat /\ Bottom' \in Nat
      BY <3>1, DequeAssumption DEF OwnerTypeOK, WordTypeOK, Live, Bottom
    <3>3. Rank[opc] \in Nat /\ Rank[opc'] \in Nat
      BY <1>1, <3>1, RankValues DEF OwnerTypeOK, OwnerPC
    <3>. QED
      BY <3>2, <3>3
  <2>1. CASE Owner /\ ~PopFails /\ ~PushFails
    <3>1. /\ opc' # opc
          /\ \/ /\ Live' - Bottom' = Live - Bottom
                /\ Rank[opc'] < Rank[opc]
             \/ /\ Live' - Bottom' = Live - Bottom - 1
                /\ Rank[opc'] < Rank[opc] + 4
      BY <1>1, <2>1, OwnerStepsDown
    <3>2. PICK l \in Nat, b \in Nat, r \in Nat, m \in Nat, c \in Nat, q \in Nat :
            /\ Live = l /\ Bottom = b /\ Rank[opc] = r
            /\ Live' = m /\ Bottom' = c /\ Rank[opc'] = q
      BY <2>0
    <3>3. StepsLeft = 4 * (l - b) + r /\ StepsLeft' = 4 * (m - c) + q
      BY <3>2 DEF StepsLeft
    <3>4. (m - c = l - b /\ q < r) \/ (m - c = l - b - 1 /\ q < r + 4)
      BY <3>1, <3>2
    <3>5. 4 * (m - c) + q < 4 * (l - b) + r
      BY <3>4
    <3>6. StepsLeft > 0
      BY <1>1, <2>1, BottomIsLive, LeavesPutBack
    <3>. QED
      BY <3>1, <3>3, <3>5, <3>6
  <2>2. CASE PopFails \/ PushFails
    <3>1. UNCHANGED <<opc, head, cur, tail>> /\ UNCHANGED <<ownerVars, sleeper>>
      BY <1>1, <2>2, ExchangeFails DEF ownerVars, wordVars
    <3>2. Bottom' = Bottom /\ Live' = Live
      BY <3>1 DEF Bottom, Live
    <3>. QED
      BY <2>0, <3>1, <3>2 DEF StepsLeft
  <2>3. ASSUME NEW w \in Thieves, Thief(w)
        PROVE  opc' = opc /\ UNCHANGED <<ownerVars, sleeper>>
    BY <2>3 DEF Thief, CheckAllStolen, LoadWord, Steal, StealFails, GiveUp,
       RequestSplit, Sleep, WokenElsewhere, Finish, ThiefStep
  <2>4. ASSUME NEW w \in Thieves, Steal(w) PROVE Waits
    <3>1. /\ opc # "correct" /\ tail' = tail + 1 /\ opc' = opc /\ head' = head
      BY <1>1, <2>4, StealTakesOldest
    <3>2. Bottom' = Bottom + 1 /\ Live' = Live
      BY <3>1 DEF Bottom, Live
    <3>3. StepsLeft' <= StepsLeft
      BY <2>0, <3>1, <3>2 DEF StepsLeft
    <3>. QED
      BY <2>3, <2>4, <3>3 DEF Thief
  <2>5. ASSUME NEW w \in Thieves, Thief(w), ~Steal(w) PROVE Waits
    <3>1. UNCHANGED <<head, opc, cur, tail>>
      BY <2>5, ThiefQuietSteps
    <3>2. Bottom' = Bottom /\ Live' = Live
      BY <3>1 DEF Bottom, Live
    <3>3. StepsLeft' <= StepsLeft
      BY <2>0, <3>1, <3>2 DEF StepsLeft
    <3>. QED
      BY <2>3, <2>5, <3>3
  <2>6. CASE UNCHANGED vars
    <3>1. UNCHANGED <<head, opc, cur, tail>> /\ UNCHANGED <<ownerVars, sleeper>>
      BY <2>6 DEF vars, ownerVars
    <3>2. Bottom' = Bottom /\ Live' = Live
      BY <3>1 DEF Bottom, Live
    <3>. QED
      BY <2>0, <3>1, <3>2 DEF StepsLeft
  <2>. QED
    BY <1>1, <2>1, <2>2, <2>4, <2>5, <2>6 DEF Next
<1>2. IInv /\ IInv' /\ [Next]_vars
      => [opc # "idle" => \/ opc' = "idle"
                          \/ opc' # opc /\ StepsLeft' < StepsLeft
                             /\ StepsLeft > 0
                          \/ opc' = opc /\ StepsLeft' <= StepsLeft
                             /\ UNCHANGED <<ownerVars, sleeper>>]_vars
  BY <1>1
<1>. QED
  BY <1>2, DequeInvariant, PTL DEF Spec, OwnerNearsEnd

------------------------------------------------------------------------------
(* The deque implements the task stack.                                     *)

(* A step that gives one slot another value updates the abstract state.     *)
LEMMA SlotChange ==
  ASSUME NEW k \in Slots, NEW v, SlotValue(k)' = v,
         \A i \in Slots : i # k => SlotValue(i)' = SlotValue(i)
  PROVE  SlotState' = [SlotState EXCEPT ![k] = v]
  BY DEF SlotState

(* Where nothing happens to the tasks the stack stutters.                   *)
LEMMA StackStutters ==
  ASSUME UNCHANGED <<head, stealer, takes>>
  PROVE  UNCHANGED Abs!stackVars
  BY DEF Abs!stackVars, SlotState, SlotValue, Live

(* The end of growShared() counts an overflown task or changes nothing.     *)
LEMMA ReturnRefines ==
  ASSUME IInv, opc \in GrowPC, Return, UNCHANGED <<stealer, takes>>
  PROVE  [Abs!Next]_(Abs!stackVars)
<1>1. CASE caller = "overflow"
  <2>1. head >= N /\ head' = head + 1 /\ head < MaxHead
    BY <1>1 DEF IInv, OwnerInv, Return
  <2>2. SlotState' = SlotState
    BY <2>1, DequeAssumption DEF SlotState, SlotValue, Live, IInv, TypeOK,
       OwnerTypeOK, Slots
  <2>. QED
    BY <2>1, <2>2 DEF Abs!Next, Abs!PushOverflow
<1>2. CASE caller # "overflow"
  BY <1>2, StackStutters DEF Return
<1>. QED
  BY <1>1, <1>2

(* A take of the oldest queued task is a steal of the stack.                *)
LEMMA StealRefines ==
  ASSUME NEW k \in Slots, UNCHANGED head,
         SlotValue(k)' = "stolen", SlotValue(k) = "queued",
         \A i \in Slots : i # k => SlotValue(i)' = SlotValue(i),
         \A i \in Slots : i < k => takes[i] = 1
  PROVE  Abs!Steal(k)
<1>1. SlotState' = [SlotState EXCEPT ![k] = "stolen"]
  BY SlotChange
<1>2. \A j \in 0 .. N - 1 : j < k => SlotState[j] # "queued"
  BY DEF SlotState, SlotValue, Slots
<1>3. SlotState[k] = "queued"
  BY DEF SlotState
<1>. QED
  BY <1>1, <1>2, <1>3 DEF Abs!Steal

LEMMA RefinesNext == IInv /\ [Next]_vars => [Abs!Next]_(Abs!stackVars)
<1> SUFFICES ASSUME IInv, [Next]_vars PROVE [Abs!Next]_(Abs!stackVars)
  OBVIOUS
<1> USE DequeAssumption DEF IInv, TypeOK, OwnerTypeOK, WordTypeOK, TaskTypeOK, Slots
<1>1. CASE PushToEmpty \/ PushToShared
  <2>1. /\ head \in Slots /\ head < N /\ head < MaxHead /\ head' = head + 1
        /\ takes' = [takes EXCEPT ![head] = 0]
        /\ stealer' = [stealer EXCEPT ![head] = NoOne]
    BY <1>1 DEF PushToEmpty, PushToShared, NewTask
  <2> PICK k \in Slots : k = head
    BY <2>1
  <2>2. SlotValue(k)' = "queued"
    BY <2>1 DEF SlotValue, Live
  <2>3. ASSUME NEW i \in Slots, i # k PROVE SlotValue(i)' = SlotValue(i)
    BY <2>1, <2>3 DEF SlotValue, Live
  <2>4. SlotState' = [SlotState EXCEPT ![k] = "queued"]
    BY <2>2, <2>3, SlotChange
  <2>. QED
    BY <2>1, <2>4 DEF Abs!Next, Abs!Push
<1>2. CASE PushOverflow
  <2>1. CASE UNCHANGED head
    BY <1>2, <2>1, StackStutters DEF PushOverflow, taskVars
  <2>2. CASE head' = head + 1
    <3>1. SlotState' = SlotState
      BY <1>2, <2>2 DEF PushOverflow, SlotState, SlotValue, Live, taskVars
    <3>. QED
      BY <1>2, <2>2, <3>1 DEF PushOverflow, Abs!Next, Abs!PushOverflow
  <2>. QED
    BY <1>2, <2>1, <2>2 DEF PushOverflow
<1>3. CASE ResetRequest \/ PutBack
  BY <1>3, ReturnRefines DEF ResetRequest, PutBack, SleeperBack, GrowPC,
     taskVars
<1>15. CASE PopSleeper \/ PopFails
  BY <1>15, ReturnRefines, StackStutters DEF PopSleeper, PopFails, LoadSleepers,
     GrowPC, taskVars
<1>4. CASE GrowCheck
  BY <1>4, ReturnRefines, StackStutters DEF GrowCheck, GrowPC, taskVars
(* The injected task counts as stolen from the owner's fetch_add on.        *)
<1>5. CASE SelfSteal
  <2>1. CASE takes' = takes
    BY <1>5, <2>1, StackStutters DEF SelfSteal
  <2>2. CASE takes' # takes
    <3>1. /\ ~allStolenCopy /\ opc = "selfSteal" /\ tail < split /\ Taken(tail)
          /\ UNCHANGED <<head, stealer>>
      BY <1>5, <2>2 DEF SelfSteal, OwnerInv, WordInv, SplitKnown
    <3>2. tail \in Slots /\ tail < Live /\ takes[tail] = 0 /\ stealer[tail] = NoOne
      BY <3>1 DEF WordInv, SplitKnown, Bottom, Live, TaskInv, SlotInv
    <3>3. \A j \in Slots : j < tail => takes[j] = 1
      BY <3>1 DEF WordInv, Bottom
    <3> PICK k \in Slots : k = tail
      BY <3>2
    <3>4. SlotValue(k)' = "stolen" /\ SlotValue(k) = "queued"
      BY <3>1, <3>2 DEF SlotValue, Live, Taken
    <3>5. ASSUME NEW i \in Slots, i # k PROVE SlotValue(i)' = SlotValue(i)
      BY <3>1, <3>2, <3>5 DEF SlotValue, Live, Taken
    <3>6. Abs!Steal(k)
      BY <3>1, <3>3, <3>4, <3>5, StealRefines
    <3>. QED
      BY <3>6 DEF Abs!Next
  <2>. QED
    BY <2>1, <2>2
<1>6. CASE Inject
  <2>1. /\ opc = "inject"
        /\ Return \/ UNCHANGED head
        /\ stealer' = [stealer EXCEPT ![cur] = sleeper] /\ takes' = takes
        /\ sleeper \in Thieves
    BY <1>6 DEF Inject, ownerVars, OwnerInv
  <2>2. Live' = Live
    <3>1. CASE UNCHANGED head
      BY <3>1 DEF Live
    <3>2. CASE Return
      BY <3>2, <2>1, ReturnKeepsLive DEF GrowPC
    <3>. QED
      BY <2>1, <3>1, <3>2
  <2>3. cur \in Slots /\ stealer[cur] = NoOne /\ takes[cur] = 1 /\ cur < Live
    BY <2>1 DEF TaskInv
  <2>4. SlotState' = SlotState
    BY <2>1, <2>2, <2>3 DEF SlotState, SlotValue
  <2>5. CASE UNCHANGED head
    BY <2>4, <2>5 DEF Abs!stackVars
  <2>6. CASE Return
    BY <2>1, <2>4, <2>6 DEF Return, OwnerInv, GrowPC, Abs!stackVars, Abs!Next,
       Abs!PushOverflow
  <2>. QED
    BY <2>1, <2>5, <2>6
<1>7. CASE PopOverflown
  <2>1. SlotState' = SlotState
    BY <1>7 DEF PopOverflown, SlotState, SlotValue, Live, taskVars
  <2>. QED
    BY <1>7, <2>1 DEF PopOverflown, Abs!Next, Abs!PopOverflown
<1>8. CASE PopTop
  <2>1. /\ head \in 1 .. N /\ head' = head - 1 /\ UNCHANGED stealer
        /\ takes[head - 1] = 0 /\ takes' = [takes EXCEPT ![head - 1] = 1]
    BY <1>8, PopTopTakesYoungest
  <2> PICK k \in Slots : k = head - 1
    BY <2>1
  <2>2. SlotState[k] = "queued" /\ SlotValue(k)' = "free"
    BY <2>1 DEF SlotState, SlotValue, Live
  <2>3. ASSUME NEW i \in Slots, i # k PROVE SlotValue(i)' = SlotValue(i)
    BY <2>1, <2>3 DEF SlotValue, Live
  <2>4. SlotState' = [SlotState EXCEPT ![k] = "free"]
    BY <2>2, <2>3, SlotChange
  <2>. QED
    BY <2>1, <2>2, <2>4 DEF Abs!Next, Abs!Pop
<1>9. CASE PopStolen
  <2>1. /\ head \in 1 .. N /\ head' = head - 1 /\ stealer[head - 1] = Finished
        /\ takes[head - 1] = 1 /\ UNCHANGED <<stealer, takes>>
    BY <1>9 DEF PopStolen, WaitInv, taskVars
  <2> PICK k \in Slots : k = head - 1
    BY <2>1
  <2>2. SlotState[k] = "done" /\ SlotValue(k)' = "free"
    BY <2>1 DEF SlotState, SlotValue, Live
  <2>3. ASSUME NEW i \in Slots, i # k PROVE SlotValue(i)' = SlotValue(i)
    BY <2>1, <2>3 DEF SlotValue, Live
  <2>4. SlotState' = [SlotState EXCEPT ![k] = "free"]
    BY <2>2, <2>3, SlotChange
  <2>. QED
    BY <2>1, <2>2, <2>4 DEF Abs!Next, Abs!PopStolen
<1>10. CASE \/ ClearAllStolen \/ AddJob \/ Grow \/ TakeSleeper \/ Correct
            \/ GiveBack \/ PushFails \/ PopAllStolen \/ PopShared \/ ShrinkLoad \/ Shrink
            \/ ShrinkAgain \/ ShrinkAllStolen
  BY <1>10, StackStutters DEF ClearAllStolen, AddJob, Grow, TakeSleeper,
     Correct, GiveBack, PushFails, PopAllStolen, PopShared, ShrinkLoad, Shrink, ShrinkAgain,
     ShrinkAllStolen, taskVars, ownerVars
<1>11. ASSUME NEW w \in Thieves, Steal(w) PROVE Abs!Next
  <2>1. /\ tail \in Slots /\ tail < Live /\ takes[tail] = 0
        /\ \A j \in Slots : j < tail => takes[j] = 1
        /\ takes' = [takes EXCEPT ![tail] = 1]
        /\ stealer' = [stealer EXCEPT ![tail] = w] /\ UNCHANGED head
    BY <1>11, StealTakesOldest
  <2> PICK k \in Slots : k = tail
    BY <2>1
  <2>2. SlotValue(k)' = "stolen" /\ SlotValue(k) = "queued"
    BY <2>1 DEF SlotValue, Live
  <2>3. ASSUME NEW i \in Slots, i # k PROVE SlotValue(i)' = SlotValue(i)
    BY <2>1, <2>3 DEF SlotValue, Live
  <2>4. Abs!Steal(k)
    BY <2>1, <2>2, <2>3, StealRefines
  <2>. QED
    BY <2>4 DEF Abs!Next
<1>12. ASSUME NEW w \in Thieves, NEW i \in Slots, Finish(w, i) PROVE Abs!Next
  <2>1. /\ stealer[i] = w /\ stealer' = [stealer EXCEPT ![i] = Finished]
        /\ UNCHANGED <<head, takes>>
    BY <1>12 DEF Finish, ownerVars
  <2>2. i < Live /\ takes[i] = 1
    BY <2>1 DEF TaskInv, SlotInv
  <2>3. /\ SlotValue(i)' = "done" /\ SlotValue(i) = "stolen"
        /\ \A j \in Slots : j # i => SlotValue(j)' = SlotValue(j)
    BY <2>1, <2>2 DEF SlotValue, Live
  <2>4. Abs!Finish(i)
    BY <2>1, <2>3, SlotChange DEF Abs!Finish, SlotState
  <2>. QED
    BY <2>4 DEF Abs!Next
<1>13. ASSUME NEW w \in Thieves, Thief(w), ~Steal(w),
              ~\E i \in Slots : Finish(w, i)
       PROVE  UNCHANGED Abs!stackVars
  BY <1>13, StackStutters DEF Thief, CheckAllStolen, LoadWord, StealFails,
     GiveUp, RequestSplit, Sleep, WokenElsewhere, ThiefStep, taskVars,
     ownerVars
<1>14. CASE UNCHANGED vars
  BY <1>14, StackStutters DEF vars
<1>. QED
  BY <1>1, <1>2, <1>3, <1>4, <1>5, <1>6, <1>7, <1>8, <1>9, <1>10, <1>11, <1>12,
     <1>13, <1>14, <1>15 DEF Next, Owner

(* The deque implements the task stack: each task goes once to its owner,   *)
(* who takes the youngest, or to a thief, who takes the oldest, and a stolen *)
(* task leaves only when it is done.                                        *)
THEOREM DequeRefinement == Spec => Refinement
<1>1. Init => Abs!Init
  BY DequeAssumption DEF Init, Abs!Init, SlotState, SlotValue, Live, Slots
<1>. QED
  BY <1>1, RefinesNext, DequeInvariant, PTL DEF Spec, Refinement, Abs!Spec
==============================================================================
