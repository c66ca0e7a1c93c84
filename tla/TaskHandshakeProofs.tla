------------------------- MODULE TaskHandshakeProofs -------------------------
(* Proofs of TaskHandshake's invariants, for any number of thieves and any    *)
(* addresses of the deques, and of the semaphore on which the owner of a task *)
(* sleeps, for any set of threads that release it.                            *)
EXTENDS TaskHandshake, BinarySemaphore, TLAPS

(* fetch_or of an address into a word without one leaves that address.        *)
LEMMA OrSetsAddress ==
  ASSUME NEW v \in SUBSET {Cancelled}, NEW d \in Deques
  PROVE  (v \cup Address[d]) \ Flags = Address[d]
  BY AddressAssumption DEF Deques, Flags

(* fetch_xor with the two addresses puts the owner's in the thief's place and *)
(* leaves the flags alone.                                                    *)
LEMMA XorSwapsAddress ==
  ASSUME NEW v \in SUBSET (Bits \cup Flags), NEW d \in Deques,
         v \ Flags = Address[d]
  PROVE  /\ Xor(v, Xor(Address[Owner], Address[d])) \ Flags = Address[Owner]
         /\ \A f \in Flags :
              f \in Xor(v, Xor(Address[Owner], Address[d])) <=> f \in v
<1> USE AddressAssumption DEF Deques, Flags, Xor
<1>1. Address[Owner] \subseteq Bits /\ Address[d] \subseteq Bits
  OBVIOUS
<1>2. v = Address[d] \cup (v \cap Flags)
  OBVIOUS
<1>. QED
  BY <1>1, <1>2

(* Once the flag is set and the owner does not wait, the thief has left.      *)
LEMMA FinishedMeansLeft ==
  ASSUME IInv, opc \in {"getStealer", "poll", "request"}, Finished \in word
  PROVE  (\A w \in Thieves : tpc[w] = "idle") /\ (complete \/ cancelled)
<1> USE AddressAssumption DEF IInv, TypeOK, Deques
<1>1. thief \in Thieves
  BY DEF PlaceInv
<1>2. tpc[thief] \notin {"taken", "call", "mark"}
  BY <1>1 DEF WordInv, InRound
<1>3. tpc[thief] = "idle"
  BY <1>1, <1>2 DEF NoStrayToken, ThiefPC
<1>4. \A w \in Thieves : tpc[w] = "idle"
  BY <1>3 DEF PlaceInv
<1>5. complete \/ cancelled
  BY <1>1, <1>3 DEF OutcomeInv, InRound
<1>. QED
  BY <1>4, <1>5

(* Every step keeps the types.                                               *)
LEMMA TypeOKStep == IInv /\ [Next]_vars => TypeOK'
<1> SUFFICES ASSUME IInv, [Next]_vars PROVE TypeOK'
  OBVIOUS
<1> USE AddressAssumption DEF IInv
<1>1. CASE SetTaskData
  BY <1>1 DEF SetTaskData, Goto, histories, TypeOK, OwnerPC, ThiefPC, Deques,
     Flags, Xor, Sem!Acquire, Sem!Release
<1>2. CASE Cancel
  BY <1>2 DEF Cancel, Goto, histories, TypeOK, OwnerPC, ThiefPC, Deques,
     Flags, Xor, Sem!Acquire, Sem!Release
<1>3. CASE RunOwn
  BY <1>3 DEF RunOwn, Goto, histories, TypeOK, OwnerPC, ThiefPC, Deques,
     Flags, Xor, Sem!Acquire, Sem!Release
<1>4. CASE SyncStolen
  BY <1>4 DEF SyncStolen, Goto, histories, TypeOK, OwnerPC, ThiefPC, Deques,
     Flags, Xor, Sem!Acquire, Sem!Release
<1>5. CASE GetStealer
  BY <1>5 DEF GetStealer, Goto, histories, TypeOK, OwnerPC, ThiefPC, Deques,
     Flags, Xor, Sem!Acquire, Sem!Release
<1>6. CASE PollFinished
  BY <1>6 DEF PollFinished, Goto, histories, TypeOK, OwnerPC, ThiefPC, Deques,
     Flags, Xor, Sem!Acquire, Sem!Release
<1>7. CASE StopPolling
  BY <1>7 DEF StopPolling, Goto, histories, TypeOK, OwnerPC, ThiefPC, Deques,
     Flags, Xor, Sem!Acquire, Sem!Release
<1>8. CASE Unwind
  BY <1>8 DEF Unwind, Goto, histories, TypeOK, OwnerPC, ThiefPC, Deques,
     Flags, Xor, Sem!Acquire, Sem!Release
<1>9. CASE RequestNotify
  BY <1>9 DEF RequestNotify, Goto, histories, TypeOK, OwnerPC, ThiefPC,
     Deques, Flags, Xor, Sem!Acquire, Sem!Release
<1>10. CASE Acquire
  BY <1>10 DEF Acquire, Goto, histories, TypeOK, OwnerPC, ThiefPC, Deques,
     Flags, Xor, Sem!Acquire, Sem!Release
<1>11. CASE PopStolen
  BY <1>11 DEF PopStolen, Goto, histories, TypeOK, OwnerPC, ThiefPC, Deques,
     Flags, Xor, Sem!Acquire, Sem!Release
<1>12. ASSUME NEW w \in Thieves, Steal(w) PROVE TypeOK'
  BY <1>12 DEF Steal, ThiefStep, histories, TypeOK, OwnerPC, ThiefPC, Deques,
     Flags, Xor, Sem!Acquire, Sem!Release
<1>13. ASSUME NEW w \in Thieves, Run(w) PROVE TypeOK'
  BY <1>13 DEF Run, ThiefStep, histories, TypeOK, OwnerPC, ThiefPC, Deques,
     Flags, Xor, Sem!Acquire, Sem!Release
<1>14. ASSUME NEW w \in Thieves, Call(w) PROVE TypeOK'
  BY <1>14 DEF Call, ThiefStep, histories, TypeOK, OwnerPC, ThiefPC, Deques,
     Flags, Xor, Sem!Acquire, Sem!Release
<1>15. ASSUME NEW w \in Thieves, Interrupt(w) PROVE TypeOK'
  BY <1>15 DEF Interrupt, ThiefStep, histories, TypeOK, OwnerPC, ThiefPC,
     Deques, Flags, Xor, Sem!Acquire, Sem!Release
<1>16. ASSUME NEW w \in Thieves, MarkAsFinished(w) PROVE TypeOK'
  BY <1>16 DEF MarkAsFinished, ThiefStep, histories, TypeOK, OwnerPC, ThiefPC,
     Deques, Flags, Xor, Sem!Acquire, Sem!Release
<1>17. ASSUME NEW w \in Thieves, Notify(w) PROVE TypeOK'
  BY <1>17 DEF Notify, ThiefStep, histories, TypeOK, OwnerPC, ThiefPC, Deques,
     Flags, Xor, Sem!Acquire, Sem!Release
<1>18. CASE UNCHANGED vars
  BY <1>18 DEF vars, histories, TypeOK, OwnerPC, ThiefPC, Deques, Flags, Xor,
     Sem!Acquire, Sem!Release
<1>. QED
  BY <1>1, <1>2, <1>3, <1>4, <1>5, <1>6, <1>7, <1>8, <1>9, <1>10, <1>11,
     <1>12, <1>13, <1>14, <1>15, <1>16, <1>17, <1>18 DEF Next, Syncs, Runs,
     SpinForStealer

(* ... the relation of the owner's place and the thief's.                    *)
LEMMA PlaceInvStep == IInv /\ [Next]_vars => PlaceInv'
<1> SUFFICES ASSUME IInv, [Next]_vars PROVE PlaceInv'
  OBVIOUS
<1> USE AddressAssumption DEF IInv
<1>1. CASE SetTaskData
  BY <1>1 DEF SetTaskData, Goto, histories, TypeOK, PlaceInv, InRound,
     NoStrayToken, Deques, Sem!Release
<1>2. CASE Cancel
  BY <1>2 DEF Cancel, Goto, histories, TypeOK, PlaceInv, InRound,
     NoStrayToken, Deques, Sem!Release
<1>3. CASE RunOwn
  BY <1>3 DEF RunOwn, Goto, histories, TypeOK, PlaceInv, InRound,
     NoStrayToken, Deques, Sem!Release
<1>4. CASE SyncStolen
  BY <1>4 DEF SyncStolen, Goto, histories, TypeOK, PlaceInv, InRound,
     NoStrayToken, Deques, Sem!Release
<1>5. CASE GetStealer
  <2>1. CASE Finished \in word
    BY <1>5, <2>1, FinishedMeansLeft DEF GetStealer, Goto, TypeOK, PlaceInv
  <2>2. CASE Finished \notin word
    <3>1. opc = "getStealer" /\ thief \in Thieves /\ word \ {Cancelled} # {}
      BY <1>5 DEF GetStealer, Goto, PlaceInv, TypeOK
    <3>2. tpc[thief] \in {"call", "mark"}
      BY <2>2, <3>1 DEF WordInv, InRound, TypeOK, ThiefPC
    <3>3. word \ Flags = Address[thief]
      BY <2>2, <3>1, <3>2 DEF WordInv, InRound, Deques
    <3>4. /\ opc' = "poll" /\ stealer' = Address[thief]
          /\ UNCHANGED <<thief, tpc, token>>
      BY <1>5, <2>2, <3>3 DEF GetStealer, Goto
    <3>. QED
      BY <3>1, <3>2, <3>4 DEF PlaceInv, InRound
  <2>. QED
    BY <2>1, <2>2
<1>6. CASE PollFinished
  <2>1. CASE Finished \in word
    BY <1>6, <2>1, FinishedMeansLeft DEF PollFinished, Goto, TypeOK, PlaceInv
  <2>2. CASE Finished \notin word
    BY <1>6, <2>2 DEF PollFinished, Goto, TypeOK, PlaceInv, WordInv, InRound,
       Flags, Deques
  <2>. QED
    BY <2>1, <2>2
<1>7. CASE StopPolling
  BY <1>7 DEF StopPolling, Goto, histories, TypeOK, PlaceInv, InRound,
     NoStrayToken, Deques, Sem!Release
<1>8. CASE Unwind
  BY <1>8 DEF Unwind, Goto, histories, TypeOK, PlaceInv, InRound,
     NoStrayToken, Deques, Sem!Release
<1>9. CASE RequestNotify
  <2>1. CASE Finished \in word
    BY <1>9, <2>1, FinishedMeansLeft DEF RequestNotify, Goto, TypeOK, PlaceInv
  <2>2. CASE Finished \notin word
    BY <1>9, <2>2 DEF RequestNotify, Goto, TypeOK, PlaceInv, WordInv, InRound,
       Flags, Deques
  <2>. QED
    BY <2>1, <2>2
<1>10. CASE Acquire
  <2>1. opc = "acquire" /\ opc' = "finished" /\ token = 1 /\ token' = 0
        /\ UNCHANGED <<thief, tpc, stealer>>
    BY <1>10 DEF Acquire, Goto, Sem!Acquire
  <2>. QED
    BY <2>1 DEF PlaceInv, InRound
<1>11. CASE PopStolen
  BY <1>11 DEF PopStolen, Goto, histories, TypeOK, PlaceInv, InRound,
     NoStrayToken, Deques, Sem!Release
<1>12. ASSUME NEW w \in Thieves, Steal(w) PROVE PlaceInv'
  <2>1. opc = "spawned" /\ thief = NoOne /\ thief' = w
        /\ tpc' = [tpc EXCEPT ![w] = "taken"] /\ UNCHANGED <<opc, stealer, token>>
    BY <1>12 DEF Steal, ThiefStep
  <2>2. \A x \in Thieves : tpc[x] = "idle"
    BY <2>1 DEF PlaceInv, Deques
  <2>3. token = 0
    BY <2>1 DEF NoStrayToken, TypeOK
  <2>. QED
    BY <2>1, <2>2, <2>3 DEF PlaceInv, InRound, TypeOK, Deques
<1>13. ASSUME NEW w \in Thieves, Run(w) PROVE PlaceInv'
  BY <1>13 DEF Run, ThiefStep, histories, TypeOK, PlaceInv, InRound,
     NoStrayToken, Deques, Sem!Release
<1>14. ASSUME NEW w \in Thieves, Call(w) PROVE PlaceInv'
  BY <1>14 DEF Call, ThiefStep, histories, TypeOK, PlaceInv, InRound,
     NoStrayToken, Deques, Sem!Release
<1>15. ASSUME NEW w \in Thieves, Interrupt(w) PROVE PlaceInv'
  BY <1>15 DEF Interrupt, ThiefStep, histories, TypeOK, PlaceInv, InRound,
     NoStrayToken, Deques, Sem!Release
<1>16. ASSUME NEW w \in Thieves, MarkAsFinished(w) PROVE PlaceInv'
  BY <1>16 DEF MarkAsFinished, ThiefStep, histories, TypeOK, PlaceInv,
     InRound, NoStrayToken, Deques, Sem!Release
<1>17. ASSUME NEW w \in Thieves, Notify(w) PROVE PlaceInv'
  BY <1>17 DEF Notify, ThiefStep, histories, TypeOK, PlaceInv, InRound,
     NoStrayToken, Deques, Sem!Release
<1>18. CASE UNCHANGED vars
  BY <1>18 DEF vars, histories, TypeOK, PlaceInv, InRound, NoStrayToken,
     Deques, Sem!Release
<1>. QED
  BY <1>1, <1>2, <1>3, <1>4, <1>5, <1>6, <1>7, <1>8, <1>9, <1>10, <1>11,
     <1>12, <1>13, <1>14, <1>15, <1>16, <1>17, <1>18 DEF Next, Syncs, Runs,
     SpinForStealer

(* ... what the word says.                                                   *)
LEMMA WordInvStep == IInv /\ [Next]_vars => WordInv'
<1> SUFFICES ASSUME IInv, [Next]_vars PROVE WordInv'
  OBVIOUS
<1> USE AddressAssumption DEF IInv
<1>1. CASE SetTaskData
  BY <1>1 DEF SetTaskData, Goto, histories, TypeOK, PlaceInv, WordInv,
     InRound, Flags, NoStrayToken
<1>2. CASE Cancel
  BY <1>2 DEF Cancel, Goto, histories, TypeOK, PlaceInv, WordInv, InRound,
     Flags, NoStrayToken
<1>3. CASE RunOwn
  BY <1>3 DEF RunOwn, Goto, histories, TypeOK, PlaceInv, WordInv, InRound,
     Flags, NoStrayToken
<1>4. CASE SyncStolen
  BY <1>4 DEF SyncStolen, Goto, histories, TypeOK, PlaceInv, WordInv, InRound,
     Flags, NoStrayToken
<1>5. CASE GetStealer
  BY <1>5 DEF GetStealer, Goto, histories, TypeOK, PlaceInv, WordInv, InRound,
     Flags, NoStrayToken
<1>6. CASE PollFinished
  BY <1>6 DEF PollFinished, Goto, histories, TypeOK, PlaceInv, WordInv,
     InRound, Flags, NoStrayToken
<1>7. CASE StopPolling
  BY <1>7 DEF StopPolling, Goto, histories, TypeOK, PlaceInv, WordInv,
     InRound, Flags, NoStrayToken
<1>8. CASE Unwind
  BY <1>8 DEF Unwind, Goto, histories, TypeOK, PlaceInv, WordInv, InRound,
     Flags, NoStrayToken
<1>9. CASE RequestNotify
  <2>1. thief \in Thieves /\ tpc[thief] # "taken" /\ stealer = Address[thief]
        /\ opc = "request" /\ thief \in Deques
    BY <1>9 DEF RequestNotify, Goto, PlaceInv, TypeOK, Deques
  <2>2. CASE Finished \in word
    BY <1>9, <2>2 DEF RequestNotify, Goto, WordInv, InRound
  <2>3. CASE Finished \notin word
    <3>1. word \ Flags = Address[thief] /\ tpc[thief] \in {"call", "mark"}
      BY <2>1, <2>3 DEF WordInv, InRound, TypeOK, ThiefPC
    <3>2. /\ word' \ Flags = Address[Owner]
          /\ \A f \in Flags : f \in word' <=> f \in word
      BY <1>9, <2>1, <3>1, XorSwapsAddress DEF RequestNotify, TypeOK
    <3>3. opc' = "acquire" /\ UNCHANGED <<thief, tpc, cancelled>>
      BY <1>9, <2>3 DEF RequestNotify, Goto, histories
    <3>4. Finished \notin word' /\ (Cancelled \in word' => cancelled')
      BY <2>1, <2>3, <3>2, <3>3 DEF WordInv, InRound, Flags
    <3>. QED
      BY <2>1, <3>1, <3>2, <3>3, <3>4 DEF WordInv, InRound, Deques
  <2>. QED
    BY <2>2, <2>3
<1>10. CASE Acquire
  BY <1>10 DEF Acquire, Goto, histories, TypeOK, PlaceInv, WordInv, InRound,
     Flags, NoStrayToken
<1>11. CASE PopStolen
  BY <1>11 DEF PopStolen, Goto, histories, TypeOK, PlaceInv, WordInv, InRound,
     Flags, NoStrayToken
<1>12. ASSUME NEW w \in Thieves, Steal(w) PROVE WordInv'
  BY <1>12 DEF Steal, ThiefStep, histories, TypeOK, PlaceInv, WordInv,
     InRound, Flags, NoStrayToken
<1>13. ASSUME NEW w \in Thieves, Run(w) PROVE WordInv'
  <2>1. tpc[w] = "taken" /\ w = thief /\ opc \in InRound /\ w \in Deques
        /\ tpc'[w] \in {"call", "mark"} /\ word' = word \cup Address[w]
        /\ UNCHANGED <<opc, thief, cancelled>>
    BY <1>13 DEF Run, ThiefStep, PlaceInv, TypeOK, histories, Deques
  <2>2. opc # "acquire"
    BY <2>1 DEF PlaceInv
  <2>3. word \in SUBSET {Cancelled} /\ (Cancelled \in word => cancelled)
    BY <2>1 DEF WordInv
  <2>4. word' \ Flags = Address[w]
    BY <2>1, <2>3, OrSetsAddress
  <2>5. Finished \notin word' /\ (Cancelled \in word' => cancelled')
    BY <2>1, <2>3 DEF Flags, Deques
  <2>. QED
    BY <2>1, <2>2, <2>4, <2>5 DEF WordInv, Deques
<1>14. ASSUME NEW w \in Thieves, Call(w) PROVE WordInv'
  BY <1>14 DEF Call, ThiefStep, histories, TypeOK, PlaceInv, WordInv, InRound,
     Flags, NoStrayToken
<1>15. ASSUME NEW w \in Thieves, Interrupt(w) PROVE WordInv'
  BY <1>15 DEF Interrupt, ThiefStep, histories, TypeOK, PlaceInv, WordInv,
     InRound, Flags, NoStrayToken
<1>16. ASSUME NEW w \in Thieves, MarkAsFinished(w) PROVE WordInv'
  <2>1. w = thief /\ tpc'[w] \in {"idle", "notify"} /\ word' = {Finished}
        /\ UNCHANGED <<opc, thief>>
    BY <1>16 DEF MarkAsFinished, ThiefStep, PlaceInv, TypeOK
  <2>. QED
    BY <2>1 DEF WordInv, Flags, Deques
<1>17. ASSUME NEW w \in Thieves, Notify(w) PROVE WordInv'
  BY <1>17 DEF Notify, ThiefStep, histories, TypeOK, PlaceInv, WordInv,
     InRound, Flags, NoStrayToken
<1>18. CASE UNCHANGED vars
  BY <1>18 DEF vars, histories, TypeOK, PlaceInv, WordInv, InRound, Flags,
     NoStrayToken
<1>. QED
  BY <1>1, <1>2, <1>3, <1>4, <1>5, <1>6, <1>7, <1>8, <1>9, <1>10, <1>11,
     <1>12, <1>13, <1>14, <1>15, <1>16, <1>17, <1>18 DEF Next, Syncs, Runs,
     SpinForStealer

(* ... that a finished task has its outcome.                                 *)
LEMMA OutcomeInvStep == IInv /\ [Next]_vars => OutcomeInv'
<1> SUFFICES ASSUME IInv, [Next]_vars PROVE OutcomeInv'
  OBVIOUS
<1> USE AddressAssumption DEF IInv
<1>1. CASE SetTaskData
  BY <1>1 DEF SetTaskData, Goto, histories, TypeOK, PlaceInv, WordInv,
     OutcomeInv, SyncMeansDone, InRound
<1>2. CASE Cancel
  BY <1>2 DEF Cancel, Goto, histories, TypeOK, PlaceInv, WordInv, OutcomeInv,
     SyncMeansDone, InRound
<1>3. CASE RunOwn
  BY <1>3 DEF RunOwn, Goto, histories, TypeOK, PlaceInv, WordInv, OutcomeInv,
     SyncMeansDone, InRound
<1>4. CASE SyncStolen
  BY <1>4 DEF SyncStolen, Goto, histories, TypeOK, PlaceInv, WordInv,
     OutcomeInv, SyncMeansDone, InRound
<1>5. CASE GetStealer
  <2>1. CASE Finished \in word
    BY <1>5, <2>1, FinishedMeansLeft DEF GetStealer, Goto, histories,
       OutcomeInv, SyncMeansDone, InRound
  <2>2. CASE Finished \notin word
    BY <1>5, <2>2 DEF GetStealer, Goto, histories, OutcomeInv, SyncMeansDone,
       InRound
  <2>. QED
    BY <2>1, <2>2
<1>6. CASE PollFinished
  <2>1. CASE Finished \in word
    BY <1>6, <2>1, FinishedMeansLeft DEF PollFinished, Goto, histories,
       OutcomeInv, SyncMeansDone, InRound
  <2>2. CASE Finished \notin word
    BY <1>6, <2>2 DEF PollFinished, Goto, histories, OutcomeInv,
       SyncMeansDone, InRound
  <2>. QED
    BY <2>1, <2>2
<1>7. CASE StopPolling
  BY <1>7 DEF StopPolling, Goto, histories, TypeOK, PlaceInv, WordInv,
     OutcomeInv, SyncMeansDone, InRound
<1>8. CASE Unwind
  BY <1>8 DEF Unwind, Goto, histories, TypeOK, PlaceInv, WordInv, OutcomeInv,
     SyncMeansDone, InRound
<1>9. CASE RequestNotify
  <2>1. CASE Finished \in word
    BY <1>9, <2>1, FinishedMeansLeft DEF RequestNotify, Goto, histories,
       OutcomeInv, SyncMeansDone, InRound
  <2>2. CASE Finished \notin word
    BY <1>9, <2>2 DEF RequestNotify, Goto, histories, OutcomeInv,
       SyncMeansDone, InRound
  <2>. QED
    BY <2>1, <2>2
<1>10. CASE Acquire
  <2>1. opc = "acquire" /\ token = 1 /\ thief \in Thieves
    BY <1>10 DEF Acquire, Goto, Sem!Acquire, PlaceInv, TypeOK
  <2>2. complete \/ cancelled
    BY <2>1 DEF PlaceInv, OutcomeInv, InRound
  <2>. QED
    BY <1>10, <2>2 DEF Acquire, Goto, histories, OutcomeInv, SyncMeansDone,
       InRound
<1>11. CASE PopStolen
  BY <1>11 DEF PopStolen, Goto, histories, TypeOK, PlaceInv, WordInv,
     OutcomeInv, SyncMeansDone, InRound
<1>12. ASSUME NEW w \in Thieves, Steal(w) PROVE OutcomeInv'
  BY <1>12 DEF Steal, ThiefStep, histories, TypeOK, PlaceInv, WordInv,
     OutcomeInv, SyncMeansDone, InRound
<1>13. ASSUME NEW w \in Thieves, Run(w) PROVE OutcomeInv'
  BY <1>13 DEF Run, ThiefStep, histories, TypeOK, PlaceInv, WordInv,
     OutcomeInv, SyncMeansDone, InRound
<1>14. ASSUME NEW w \in Thieves, Call(w) PROVE OutcomeInv'
  BY <1>14 DEF Call, ThiefStep, histories, TypeOK, PlaceInv, WordInv,
     OutcomeInv, SyncMeansDone, InRound
<1>15. ASSUME NEW w \in Thieves, Interrupt(w) PROVE OutcomeInv'
  BY <1>15 DEF Interrupt, ThiefStep, histories, TypeOK, PlaceInv, WordInv,
     OutcomeInv, SyncMeansDone, InRound
<1>16. ASSUME NEW w \in Thieves, MarkAsFinished(w) PROVE OutcomeInv'
  BY <1>16 DEF MarkAsFinished, ThiefStep, histories, TypeOK, PlaceInv,
     WordInv, OutcomeInv, SyncMeansDone, InRound
<1>17. ASSUME NEW w \in Thieves, Notify(w) PROVE OutcomeInv'
  BY <1>17 DEF Notify, ThiefStep, histories, TypeOK, PlaceInv, WordInv,
     OutcomeInv, SyncMeansDone, InRound
<1>18. CASE UNCHANGED vars
  BY <1>18 DEF vars, histories, TypeOK, PlaceInv, WordInv, OutcomeInv,
     SyncMeansDone, InRound
<1>. QED
  BY <1>1, <1>2, <1>3, <1>4, <1>5, <1>6, <1>7, <1>8, <1>9, <1>10, <1>11,
     <1>12, <1>13, <1>14, <1>15, <1>16, <1>17, <1>18 DEF Next, Syncs, Runs,
     SpinForStealer

(* ... that a token is released to a waiting owner only.                     *)
LEMMA NoStrayTokenStep == IInv /\ [Next]_vars => NoStrayToken'
<1> SUFFICES ASSUME IInv, [Next]_vars PROVE NoStrayToken'
  OBVIOUS
<1> USE AddressAssumption DEF IInv
<1>1. CASE SetTaskData
  BY <1>1 DEF SetTaskData, Goto, histories, TypeOK, PlaceInv, WordInv,
     InRound, NoStrayToken, Sem!Acquire, Sem!Release, Deques
<1>2. CASE Cancel
  BY <1>2 DEF Cancel, Goto, histories, TypeOK, PlaceInv, WordInv, InRound,
     NoStrayToken, Sem!Acquire, Sem!Release, Deques
<1>3. CASE RunOwn
  BY <1>3 DEF RunOwn, Goto, histories, TypeOK, PlaceInv, WordInv, InRound,
     NoStrayToken, Sem!Acquire, Sem!Release, Deques
<1>4. CASE SyncStolen
  BY <1>4 DEF SyncStolen, Goto, histories, TypeOK, PlaceInv, WordInv, InRound,
     NoStrayToken, Sem!Acquire, Sem!Release, Deques
<1>5. CASE GetStealer
  BY <1>5 DEF GetStealer, Goto, histories, TypeOK, PlaceInv, WordInv, InRound,
     NoStrayToken, Sem!Acquire, Sem!Release, Deques
<1>6. CASE PollFinished
  BY <1>6 DEF PollFinished, Goto, histories, TypeOK, PlaceInv, WordInv,
     InRound, NoStrayToken, Sem!Acquire, Sem!Release, Deques
<1>7. CASE StopPolling
  BY <1>7 DEF StopPolling, Goto, histories, TypeOK, PlaceInv, WordInv,
     InRound, NoStrayToken, Sem!Acquire, Sem!Release, Deques
<1>8. CASE Unwind
  BY <1>8 DEF Unwind, Goto, histories, TypeOK, PlaceInv, WordInv, InRound,
     NoStrayToken, Sem!Acquire, Sem!Release, Deques
<1>9. CASE RequestNotify
  BY <1>9 DEF RequestNotify, Goto, histories, TypeOK, PlaceInv, WordInv,
     InRound, NoStrayToken, Sem!Acquire, Sem!Release, Deques
<1>10. CASE Acquire
  BY <1>10 DEF Acquire, Goto, histories, TypeOK, PlaceInv, WordInv, InRound,
     NoStrayToken, Sem!Acquire, Sem!Release, Deques
<1>11. CASE PopStolen
  BY <1>11 DEF PopStolen, Goto, histories, TypeOK, PlaceInv, WordInv, InRound,
     NoStrayToken, Sem!Acquire, Sem!Release, Deques
<1>12. ASSUME NEW w \in Thieves, Steal(w) PROVE NoStrayToken'
  BY <1>12 DEF Steal, ThiefStep, histories, TypeOK, PlaceInv, WordInv,
     InRound, NoStrayToken, Sem!Acquire, Sem!Release, Deques
<1>13. ASSUME NEW w \in Thieves, Run(w) PROVE NoStrayToken'
  BY <1>13 DEF Run, ThiefStep, histories, TypeOK, PlaceInv, WordInv, InRound,
     NoStrayToken, Sem!Acquire, Sem!Release, Deques
<1>14. ASSUME NEW w \in Thieves, Call(w) PROVE NoStrayToken'
  BY <1>14 DEF Call, ThiefStep, histories, TypeOK, PlaceInv, WordInv, InRound,
     NoStrayToken, Sem!Acquire, Sem!Release, Deques
<1>15. ASSUME NEW w \in Thieves, Interrupt(w) PROVE NoStrayToken'
  BY <1>15 DEF Interrupt, ThiefStep, histories, TypeOK, PlaceInv, WordInv,
     InRound, NoStrayToken, Sem!Acquire, Sem!Release, Deques
<1>16. ASSUME NEW w \in Thieves, MarkAsFinished(w) PROVE NoStrayToken'
  <2>1. tpc[w] = "mark" /\ w = thief /\ opc \in InRound
    BY <1>16 DEF MarkAsFinished, ThiefStep, PlaceInv
  <2>2. word \ Flags = Address[IF opc = "acquire" THEN Owner ELSE w]
    BY <2>1 DEF WordInv, Deques
  <2>3. token = 0
    BY <2>1 DEF PlaceInv, TypeOK
  <2>4. /\ tpc' = [tpc EXCEPT ![w] = IF word \ Flags = Address[w] THEN "idle"
                                                                  ELSE "notify"]
        /\ waiting' = [waiting EXCEPT ![w] = word \ Flags]
        /\ UNCHANGED <<opc, thief, token>>
    BY <1>16 DEF MarkAsFinished, ThiefStep
  <2>5. CASE opc = "acquire"
    BY <2>1, <2>2, <2>3, <2>4, <2>5 DEF NoStrayToken, TypeOK
  <2>6. CASE opc # "acquire"
    BY <2>1, <2>2, <2>3, <2>4, <2>6 DEF NoStrayToken, TypeOK
  <2>. QED
    BY <2>5, <2>6
<1>17. ASSUME NEW w \in Thieves, Notify(w) PROVE NoStrayToken'
  BY <1>17 DEF Notify, ThiefStep, histories, TypeOK, PlaceInv, WordInv,
     InRound, NoStrayToken, Sem!Acquire, Sem!Release, Deques
<1>18. CASE UNCHANGED vars
  BY <1>18 DEF vars, histories, TypeOK, PlaceInv, WordInv, InRound,
     NoStrayToken, Sem!Acquire, Sem!Release, Deques
<1>. QED
  BY <1>1, <1>2, <1>3, <1>4, <1>5, <1>6, <1>7, <1>8, <1>9, <1>10, <1>11,
     <1>12, <1>13, <1>14, <1>15, <1>16, <1>17, <1>18 DEF Next, Syncs, Runs,
     SpinForStealer

(* ... that a waiting owner will be told.                                    *)
LEMMA SleeperIsToldStep == IInv /\ [Next]_vars => SleeperIsTold'
<1> SUFFICES ASSUME IInv, [Next]_vars PROVE SleeperIsTold'
  OBVIOUS
<1> USE AddressAssumption DEF IInv
<1>1. CASE SetTaskData
  BY <1>1 DEF SetTaskData, Goto, histories, TypeOK, PlaceInv, WordInv,
     InRound, NoStrayToken, SleeperIsTold, Sem!Acquire, Sem!Release, Deques
<1>2. CASE Cancel
  BY <1>2 DEF Cancel, Goto, histories, TypeOK, PlaceInv, WordInv, InRound,
     NoStrayToken, SleeperIsTold, Sem!Acquire, Sem!Release, Deques
<1>3. CASE RunOwn
  BY <1>3 DEF RunOwn, Goto, histories, TypeOK, PlaceInv, WordInv, InRound,
     NoStrayToken, SleeperIsTold, Sem!Acquire, Sem!Release, Deques
<1>4. CASE SyncStolen
  BY <1>4 DEF SyncStolen, Goto, histories, TypeOK, PlaceInv, WordInv, InRound,
     NoStrayToken, SleeperIsTold, Sem!Acquire, Sem!Release, Deques
<1>5. CASE GetStealer
  BY <1>5 DEF GetStealer, Goto, histories, TypeOK, PlaceInv, WordInv, InRound,
     NoStrayToken, SleeperIsTold, Sem!Acquire, Sem!Release, Deques
<1>6. CASE PollFinished
  BY <1>6 DEF PollFinished, Goto, histories, TypeOK, PlaceInv, WordInv,
     InRound, NoStrayToken, SleeperIsTold, Sem!Acquire, Sem!Release, Deques
<1>7. CASE StopPolling
  BY <1>7 DEF StopPolling, Goto, histories, TypeOK, PlaceInv, WordInv,
     InRound, NoStrayToken, SleeperIsTold, Sem!Acquire, Sem!Release, Deques
<1>8. CASE Unwind
  BY <1>8 DEF Unwind, Goto, histories, TypeOK, PlaceInv, WordInv, InRound,
     NoStrayToken, SleeperIsTold, Sem!Acquire, Sem!Release, Deques
<1>9. CASE RequestNotify
  <2>1. CASE Finished \in word
    BY <1>9, <2>1 DEF RequestNotify, Goto, SleeperIsTold
  <2>2. CASE Finished \notin word
    <3>1. thief \in Thieves /\ tpc[thief] # "taken" /\ stealer = Address[thief]
          /\ opc = "request" /\ thief \in Deques
      BY <1>9 DEF RequestNotify, Goto, PlaceInv, TypeOK, Deques
    <3>2. word \ Flags = Address[thief] /\ tpc[thief] \in {"call", "mark"}
      BY <2>2, <3>1 DEF WordInv, InRound, TypeOK, ThiefPC
    <3>3. word' \ Flags = Address[Owner] /\ UNCHANGED <<thief, tpc>>
      BY <1>9, <3>1, <3>2, XorSwapsAddress DEF RequestNotify, TypeOK
    <3>. QED
      BY <3>2, <3>3 DEF SleeperIsTold
  <2>. QED
    BY <2>1, <2>2
<1>10. CASE Acquire
  BY <1>10 DEF Acquire, Goto, histories, TypeOK, PlaceInv, WordInv, InRound,
     NoStrayToken, SleeperIsTold, Sem!Acquire, Sem!Release, Deques
<1>11. CASE PopStolen
  BY <1>11 DEF PopStolen, Goto, histories, TypeOK, PlaceInv, WordInv, InRound,
     NoStrayToken, SleeperIsTold, Sem!Acquire, Sem!Release, Deques
<1>12. ASSUME NEW w \in Thieves, Steal(w) PROVE SleeperIsTold'
  BY <1>12 DEF Steal, ThiefStep, histories, TypeOK, PlaceInv, WordInv,
     InRound, NoStrayToken, SleeperIsTold, Sem!Acquire, Sem!Release, Deques
<1>13. ASSUME NEW w \in Thieves, Run(w) PROVE SleeperIsTold'
  BY <1>13 DEF Run, ThiefStep, histories, TypeOK, PlaceInv, WordInv, InRound,
     NoStrayToken, SleeperIsTold, Sem!Acquire, Sem!Release, Deques
<1>14. ASSUME NEW w \in Thieves, Call(w) PROVE SleeperIsTold'
  BY <1>14 DEF Call, ThiefStep, histories, TypeOK, PlaceInv, WordInv, InRound,
     NoStrayToken, SleeperIsTold, Sem!Acquire, Sem!Release, Deques
<1>15. ASSUME NEW w \in Thieves, Interrupt(w) PROVE SleeperIsTold'
  BY <1>15 DEF Interrupt, ThiefStep, histories, TypeOK, PlaceInv, WordInv,
     InRound, NoStrayToken, SleeperIsTold, Sem!Acquire, Sem!Release, Deques
<1>16. ASSUME NEW w \in Thieves, MarkAsFinished(w) PROVE SleeperIsTold'
  BY <1>16 DEF MarkAsFinished, ThiefStep, histories, TypeOK, PlaceInv,
     WordInv, InRound, NoStrayToken, SleeperIsTold, Sem!Acquire, Sem!Release,
     Deques
<1>17. ASSUME NEW w \in Thieves, Notify(w) PROVE SleeperIsTold'
  BY <1>17 DEF Notify, ThiefStep, histories, TypeOK, PlaceInv, WordInv,
     InRound, NoStrayToken, SleeperIsTold, Sem!Acquire, Sem!Release, Deques
<1>18. CASE UNCHANGED vars
  BY <1>18 DEF vars, histories, TypeOK, PlaceInv, WordInv, InRound,
     NoStrayToken, SleeperIsTold, Sem!Acquire, Sem!Release, Deques
<1>. QED
  BY <1>1, <1>2, <1>3, <1>4, <1>5, <1>6, <1>7, <1>8, <1>9, <1>10, <1>11,
     <1>12, <1>13, <1>14, <1>15, <1>16, <1>17, <1>18 DEF Next, Syncs, Runs,
     SpinForStealer

------------------------------------------------------------------------------
(* The invariant and what follows from it.                                    *)

LEMMA InvInit == Init => IInv
<1> SUFFICES ASSUME Init PROVE IInv
  OBVIOUS
<1>1. TypeOK
  BY DEF Init, TypeOK, OwnerPC, ThiefPC
<1>2. PlaceInv /\ NoStrayToken
  BY DEF Init, PlaceInv, InRound, NoStrayToken
<1>3. WordInv /\ OutcomeInv /\ SleeperIsTold
  BY DEF Init, WordInv, InRound, OutcomeInv, SyncMeansDone, SleeperIsTold
<1>. QED
  BY <1>1, <1>2, <1>3 DEF IInv

(* The inductive invariant of the handshake.                                  *)
THEOREM HandshakeInvariant == Spec => []IInv
<1>1. IInv /\ [Next]_vars => IInv'
  BY TypeOKStep, PlaceInvStep, WordInvStep, OutcomeInvStep, NoStrayTokenStep,
     SleeperIsToldStep DEF IInv
<1>. QED
  BY InvInit, <1>1, PTL DEF Spec

(* Every variable keeps to the values that its declaration gives it, for    *)
(* every value of the constants.                                            *)
THEOREM TypeCorrect == Spec => []TypeOK
<1>1. IInv => TypeOK
  BY DEF IInv
<1>. QED
  BY HandshakeInvariant, <1>1, PTL

(* sync() of a stolen task returns only when the task is complete or         *)
(* cancelled.                                                                *)
THEOREM SyncMeansDoneHolds == Spec => []SyncMeansDone
<1>1. IInv => SyncMeansDone
  BY DEF IInv, OutcomeInv
<1>. QED
  BY <1>1, HandshakeInvariant, PTL

(* When the owner may reuse the slot, no thief is at work in it.             *)
THEOREM FreeSlotIsLeftHolds == Spec => []FreeSlotIsLeft
<1>1. IInv => FreeSlotIsLeft
  BY DEF IInv, PlaceInv, InRound, FreeSlotIsLeft
<1>. QED
  BY <1>1, HandshakeInvariant, PTL

(* A notification is sent only to an owner that waits for it, and once.      *)
THEOREM NoStrayTokenHolds == Spec => []NoStrayToken
<1>1. IInv => NoStrayToken
  BY DEF IInv
<1>. QED
  BY <1>1, HandshakeInvariant, PTL

(* An owner that waits is notified or will be, by the thief of its task.     *)
THEOREM SleeperIsToldHolds == Spec => []SleeperIsTold
<1>1. IInv => SleeperIsTold
  BY DEF IInv
<1>. QED
  BY <1>1, HandshakeInvariant, PTL

------------------------------------------------------------------------------
(* BinarySemaphore.                                                          *)

(* The inductive invariant holds in the initial state and every step of a   *)
(* releaser or of the owner keeps it.                                       *)
LEMMA SemInvInit == SemInit => SemInv
<1> SUFFICES ASSUME SemInit PROVE SemInv
  OBVIOUS
<1>1. rpc \in [Releasers -> ReleaserPC]
  BY DEF SemInit, ReleaserPC
<1>2. SemTypeOK
  BY <1>1 DEF SemInit, SemTypeOK, AcquirerPC
<1>3. \A r \in Releasers : mutex = r <=> rpc[r] = "notify"
  BY ThreadsAssumption DEF SemInit
<1>4. mutex = Acquirer <=> apc \in AcquirerLocked
  BY ThreadsAssumption DEF SemInit, AcquirerLocked
<1>5. NoLostWakeup
  BY DEF SemInit, NoLostWakeup
<1>. QED
  BY <1>2, <1>3, <1>4, <1>5 DEF SemInit, SemInv, Announced

LEMMA SemInvNext == SemInv /\ [SemNext]_semVars => SemInv'
<1> SUFFICES ASSUME SemInv, [SemNext]_semVars PROVE SemInv'
  OBVIOUS
<1> USE ThreadsAssumption DEF SemInv, SemTypeOK, NoLostWakeup, AcquirerPC, ReleaserPC,
        AcquirerLocked, Announced
<1>1. CASE UNCHANGED semVars
  BY <1>1 DEF semVars
<1>2. ASSUME NEW r \in Releasers, Release(r) PROVE SemInv'
  BY <1>2 DEF Release
<1>3. ASSUME NEW r \in Releasers, ReleaseLock(r) PROVE SemInv'
  BY <1>3 DEF ReleaseLock, Lock
<1>4. ASSUME NEW r \in Releasers, ReleaseNotify(r) PROVE SemInv'
  BY <1>4 DEF ReleaseNotify, Unlock
<1>5. CASE StartAcquire
  BY <1>5 DEF StartAcquire, AcquirerStep
<1>6. CASE TryAcquire
  BY <1>6 DEF TryAcquire, AcquirerStep
<1>7. CASE SpinTimeout
  BY <1>7 DEF SpinTimeout, AcquirerStep
<1>8. CASE AcquireLock
  BY <1>8 DEF AcquireLock, AcquirerStep, Lock
<1>9. CASE LockMutexForAcquire
  BY <1>9 DEF LockMutexForAcquire, AcquirerStep, Lock
<1>10. CASE DropGuard
  BY <1>10 DEF DropGuard, AcquirerStep, Unlock
<1>11. CASE AcquireGuarded
  BY <1>11 DEF AcquireGuarded, AcquirerStep
<1>12. CASE Exchange
  BY <1>12 DEF Exchange, AcquirerStep
<1>13. CASE Wait
  BY <1>13 DEF Wait, AcquirerStep, Unlock
<1>14. CASE Wake
  BY <1>14 DEF Wake, AcquirerStep
<1>15. CASE SpuriousWake
  BY <1>15 DEF SpuriousWake, AcquirerStep
<1>16. CASE Relock
  BY <1>16 DEF Relock, AcquirerStep, Lock
<1>17. CASE Check
  BY <1>17 DEF Check, AcquirerStep
<1>18. CASE Take
  BY <1>18 DEF Take, Unlock
<1>. QED
  BY <1>1, <1>2, <1>3, <1>4, <1>5, <1>6, <1>7, <1>8, <1>9, <1>10, <1>11,
     <1>12, <1>13, <1>14, <1>15, <1>16, <1>17, <1>18
     DEF SemNext, AcquirerProgress, ReleaserProgress

(* The semaphore's invariant: types, mutex ownership, announced sleepers.   *)
THEOREM SemaphoreInvariant == SemSpec => []SemInv
  BY SemInvInit, SemInvNext, PTL DEF SemSpec

(* Every variable keeps to the values that its declaration gives it, for    *)
(* every value of the constants.                                            *)
THEOREM SemaphoreTypeCorrect == SemSpec => []SemTypeOK
<1>1. SemInv => SemTypeOK
  BY DEF SemInv
<1>. QED
  BY SemaphoreInvariant, <1>1, PTL

(* No owner sleeps over a token without a notification on its way: release() *)
(* and acquire() cannot miss each other (HighsBinarySemaphore.h:37-43,       *)
(* 75-84), for any number of releasing threads.                              *)
THEOREM NoLostWakeupHolds == SemSpec => []NoLostWakeup
<1>1. SemInv => NoLostWakeup
  BY DEF SemInv
<1>. QED
  BY <1>1, SemaphoreInvariant, PTL

(* From the exchange of -1 until it takes a token, an owner is never counted *)
(* as awake.                                                                 *)
THEOREM SleeperAnnouncedHolds == SemSpec => []SleeperAnnounced
<1>1. SemInv => SleeperAnnounced
  BY DEF SemInv, SleeperAnnounced
<1>. QED
  BY <1>1, SemaphoreInvariant, PTL

(* Each step of the detailed semaphore is a step of the one-token semaphore  *)
(* or leaves it unchanged.                                                   *)
LEMMA SemRefinesNext == SemInv /\ [SemNext]_semVars => [Abs!Next]_(Abs!absVars)
<1> SUFFICES ASSUME SemInv, [SemNext]_semVars PROVE [Abs!Next]_(Abs!absVars)
  OBVIOUS
<1> USE DEF SemInv, SemTypeOK, AcquirerLocked, Announced, Abs!Next, Abs!absVars,
        Abs!Release, Abs!StartAcquire, Abs!Acquire
<1>1. CASE UNCHANGED semVars
  BY <1>1 DEF semVars
<1>2. ASSUME NEW r \in Releasers, Release(r) \/ ReleaserProgress(r)
      PROVE [Abs!Next]_(Abs!absVars)
  BY <1>2 DEF Release, ReleaserProgress, ReleaseLock, ReleaseNotify
<1>3. CASE StartAcquire \/ AcquireGuarded
  BY <1>3 DEF StartAcquire, AcquireGuarded, AcquirerStep
<1>4. CASE LockMutexForAcquire \/ DropGuard
  BY <1>4 DEF LockMutexForAcquire, DropGuard, AcquirerStep
<1>5. CASE TryAcquire \/ Take
  BY <1>5 DEF TryAcquire, Take, AcquirerStep
<1>6. CASE Exchange \/ Check
  BY <1>6 DEF Exchange, Check, AcquirerStep
<1>7. CASE SpinTimeout \/ AcquireLock \/ Wait \/ Wake \/ SpuriousWake \/ Relock
  BY <1>7 DEF SpinTimeout, AcquireLock, Wait, Wake, SpuriousWake, Relock,
     AcquirerStep
<1>. QED
  BY <1>1, <1>2, <1>3, <1>4, <1>5, <1>6, <1>7 DEF SemNext, AcquirerProgress

(* HighsBinarySemaphore implements the one-token semaphore.                  *)
THEOREM SemaphoreRefinement == SemSpec => Refinement
<1>1. SemInit => Abs!Init
  BY DEF SemInit, Abs!Init
<1>. QED
  BY <1>1, SemRefinesNext, SemaphoreInvariant, PTL DEF SemSpec, Refinement, Abs!Spec
==============================================================================
