--------------------------- MODULE BinarySemaphore ---------------------------
(***************************************************************************)
(* highs/parallel/HighsBinarySemaphore.h: the semaphore a worker sleeps on. *)
(* One thread, the worker that owns the enclosing deque, acquires it; the   *)
(* members of Releasers call release().  An action is one access to the     *)
(* atomic counter, the mutex or the condition variable, so that every       *)
(* interleaving of those accesses is a behaviour.  A name that TaskHandshake *)
(* has too is marked Sem, so that a module may extend both.                 *)
(***************************************************************************)
EXTENDS Integers

CONSTANTS
  Releasers,  (* the threads that may call release()                        *)
  Acquirer,   (* the thread that acquires                                   *)
  NoThread    (* holder of a free mutex                                     *)

ASSUME ThreadsAssumption ==
  /\ Acquirer \notin Releasers
  /\ NoThread \notin Releasers \cup {Acquirer}

VARIABLES
  count,     (* Data::count: -1 sleeper announced, 0 no token, 1 token       *)
  mutex,     (* Data::mutex: the thread that holds it                        *)
  signalled, (* has notify_one() hit the owner while it was in the wait set? *)
  apc,       (* where the owner is in acquire()                              *)
  rpc        (* where each releaser is in release()                          *)

semVars == <<count, mutex, signalled, apc, rpc>>

AcquirerPC == {"idle", "spin", "lock", "guard", "exchange", "wait", "parked",
               "relock", "check", "take", "took"}
ReleaserPC == {"idle", "lock", "notify"}

SemInit == /\ count = 0
           /\ mutex = NoThread
           /\ signalled = FALSE
           /\ apc = "idle"
           /\ rpc = [r \in Releasers |-> "idle"]

(* Mutex operations of std::unique_lock.                                     *)
Lock(t)   == mutex = NoThread /\ mutex' = t
Unlock(t) == mutex = t /\ mutex' = NoThread

------------------------------------------------------------------------------
(* release().                                                                *)

(* A releaser that forgets to look at the previous value never notifies.     *)
ReleaseMut(r) ==
  /\ rpc[r] = "idle"
  /\ count' = 1
  /\ UNCHANGED <<mutex, signalled, apc, rpc>>

(* count.exchange(1); a negative previous value means the owner may sleep.   *)
Release(r) ==
  /\ rpc[r] = "idle"
  /\ count' = 1
  /\ rpc' = [rpc EXCEPT ![r] = IF count < 0 THEN "lock" ELSE "idle"]
  /\ UNCHANGED <<mutex, signalled, apc>>

ReleaseLock(r) ==
  /\ rpc[r] = "lock"
  /\ Lock(r)
  /\ rpc' = [rpc EXCEPT ![r] = "notify"]
  /\ UNCHANGED <<count, signalled, apc>>

(* notify_one(), then the guard goes out of scope.                           *)
ReleaseNotify(r) ==
  /\ rpc[r] = "notify"
  /\ signalled' = (signalled \/ apc = "parked")
  /\ Unlock(r)
  /\ rpc' = [rpc EXCEPT ![r] = "idle"]
  /\ UNCHANGED <<count, apc>>

------------------------------------------------------------------------------
(* acquire() and acquire(lockGuard).                                         *)

AcquirerStep(from, to) == apc = from /\ apc' = to /\ UNCHANGED rpc

StartAcquire ==
  /\ AcquirerStep("idle", "spin")
  /\ UNCHANGED <<count, mutex, signalled>>

(* try_acquire(): first attempt and spin loop alike.  A failed or spuriously *)
(* failing compare_exchange_weak changes nothing.                            *)
TryAcquire ==
  /\ AcquirerStep("spin", "idle")
  /\ count = 1
  /\ count' = 0
  /\ UNCHANGED <<mutex, signalled>>

(* kMicroSecsBeforeSleep is over.                                            *)
SpinTimeout ==
  /\ AcquirerStep("spin", "lock")
  /\ UNCHANGED <<count, mutex, signalled>>

AcquireLock ==
  /\ AcquirerStep("lock", "exchange")
  /\ Lock(Acquirer)
  /\ UNCHANGED <<count, signalled>>

(* lockMutexForAcquire(): the caller holds the mutex before it decides to    *)
(* wait ...                                                                  *)
LockMutexForAcquire ==
  /\ AcquirerStep("idle", "guard")
  /\ Lock(Acquirer)
  /\ UNCHANGED <<count, signalled>>

(* ... and either drops it, because the task is finished, ...                *)
DropGuard ==
  /\ AcquirerStep("guard", "idle")
  /\ Unlock(Acquirer)
  /\ UNCHANGED <<count, signalled>>

(* ... or hands it to acquire(lockGuard).                                    *)
AcquireGuarded ==
  /\ AcquirerStep("guard", "exchange")
  /\ UNCHANGED <<count, mutex, signalled>>

(* Going to sleep on the old value, without the test for a token.            *)
ExchangeMut ==
  /\ AcquirerStep("exchange", "wait")
  /\ count' = -1
  /\ UNCHANGED <<mutex, signalled>>

(* count.exchange(-1): a token that arrived meanwhile is taken at once.      *)
Exchange ==
  /\ AcquirerStep("exchange", IF count = 1 THEN "took" ELSE "wait")
  /\ count' = -1
  /\ UNCHANGED <<mutex, signalled>>

(* condvar.wait(lg) gives up the mutex and joins the wait set atomically.    *)
Wait ==
  /\ AcquirerStep("wait", "parked")
  /\ Unlock(Acquirer)
  /\ UNCHANGED <<count, signalled>>

Wake ==
  /\ AcquirerStep("parked", "relock")
  /\ signalled
  /\ signalled' = FALSE
  /\ UNCHANGED <<count, mutex>>

(* A condition variable may return without a notification.                   *)
SpuriousWake ==
  /\ AcquirerStep("parked", "relock")
  /\ signalled' = FALSE
  /\ UNCHANGED <<count, mutex>>

Relock ==
  /\ AcquirerStep("relock", "check")
  /\ Lock(Acquirer)
  /\ UNCHANGED <<count, signalled>>

(* A woken owner that does not look at the counter again.                    *)
CheckMut ==
  /\ AcquirerStep("check", "take")
  /\ UNCHANGED <<count, mutex, signalled>>

(* while (count.load() != 1)                                                 *)
Check ==
  /\ AcquirerStep("check", IF count = 1 THEN "take" ELSE "wait")
  /\ UNCHANGED <<count, mutex, signalled>>

(* count.store(0) and return, which unlocks: after a check that saw the token *)
(* ("take") or after an exchange that fetched it ("took").                   *)
Take ==
  /\ apc \in {"take", "took"}
  /\ apc' = "idle"
  /\ UNCHANGED rpc
  /\ count' = 0
  /\ Unlock(Acquirer)
  /\ UNCHANGED signalled

AcquirerProgress == \/ TryAcquire \/ SpinTimeout \/ AcquireLock \/ Exchange
                    \/ Wait \/ Wake \/ Relock \/ Check \/ Take
ReleaserProgress(r) == ReleaseLock(r) \/ ReleaseNotify(r)

SemNext == \/ \E r \in Releasers : Release(r) \/ ReleaserProgress(r)
           \/ StartAcquire \/ LockMutexForAcquire \/ DropGuard \/ AcquireGuarded
           \/ SpuriousWake \/ AcquirerProgress

SemSpec == SemInit /\ [][SemNext]_semVars

(* A running thread takes its next step; nobody is obliged to call release() *)
(* or acquire().  Weak fairness is enough for the mutex: while one thread    *)
(* waits for it, only finitely many others can take it.                      *)
FairSemSpec == /\ SemSpec
               /\ WF_semVars(AcquirerProgress \/ DropGuard \/ AcquireGuarded)
               /\ \A r \in Releasers : WF_semVars(ReleaserProgress(r))

------------------------------------------------------------------------------
(* The counter is one of three, and the mutex has an owner at most.          *)
SemTypeOK == /\ count \in {-1, 0, 1}
             /\ mutex \in Releasers \cup {Acquirer, NoThread}
             /\ signalled \in BOOLEAN
             /\ apc \in AcquirerPC
             /\ rpc \in [Releasers -> ReleaserPC]

(* The steps of acquire() that follow count.exchange(-1).                    *)
Announced == {"wait", "parked", "relock", "check"}

(* No lost wake-up: when a token is there and the owner is in the wait set   *)
(* or about to join it, a notification is on its way.  Broken, the owner     *)
(* sleeps for ever over a token (HighsBinarySemaphore.h:82-84, 100-102).     *)
NoLostWakeup ==
  apc \in {"wait", "parked"} /\ count = 1 =>
    signalled \/ \E r \in Releasers : rpc[r] # "idle"

(* The counter says truthfully whether the owner may be asleep: from the     *)
(* exchange on it is never 0, so no release can take it for awake.           *)
SleeperAnnounced == apc \in Announced => count # 0

(* The steps of acquire() at which the owner holds the mutex.                *)
AcquirerLocked == {"guard", "exchange", "wait", "check", "take", "took"}

(* The inductive invariant behind the two above: who holds the mutex, and    *)
(* that -1 appears only between the exchange and the final store.            *)
SemInv == /\ SemTypeOK
          /\ mutex = Acquirer <=> apc \in AcquirerLocked
          /\ \A r \in Releasers : mutex = r <=> rpc[r] = "notify"
          /\ count = 0 => apc \notin Announced \cup {"take", "took"}
          /\ count = -1 => apc \in Announced \cup {"took"}
          /\ NoLostWakeup

(* Every token released during acquire() ends that acquire().                *)
TokenIsTaken == (apc \notin {"idle", "guard"} /\ count = 1) ~> (apc = "idle")

(* The token that count.exchange(-1) fetched still counts as set until the   *)
(* final store: a release in between merges with it.                         *)
Abs == INSTANCE AbstractSemaphore
         WITH token <- IF count = 1 \/ apc = "took" THEN 1 ELSE 0,
              acquiring <- apc \notin {"idle", "guard"}

(* The semaphore implements the one-token semaphore: acquire() returns only  *)
(* by taking a released token, and no release outside acquire() is dropped.  *)
Refinement == Abs!Spec
==============================================================================
