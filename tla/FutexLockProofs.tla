-------------------------- MODULE FutexLockProofs --------------------------
(***************************************************************************)
(* Proofs about FutexLock, for any set of threads: mutual exclusion, no    *)
(* lost wake-up, and that it implements the abstract Mutex.                *)
(***************************************************************************)
EXTENDS FutexLock, TLAPS

\* The word is UNLOCKED exactly while nobody holds the lock.  With mutual
\* exclusion this is inductive: an exchange or swap that finds UNLOCKED finds
\* no holder, and unlock() leaves none.
WordTellsHolder == word = UNLOCKED <=> \A t \in Threads : pc[t] # "held"

Inv == TypeOK /\ MutualExclusion /\ WordTellsHolder

USE DEF UNLOCKED, LOCKED, CONTENDED

LEMMA InitInv == Init => Inv
  BY DEF Init, Inv, TypeOK, PC, MutualExclusion, Holders, WordTellsHolder

\* One case per action; the word and the set of holders change together.
LEMMA StepInv == Inv /\ [Next]_vars => Inv'
  <1> SUFFICES ASSUME Inv, [Next]_vars PROVE Inv'
    OBVIOUS
  <1> USE DEF Inv, TypeOK, PC, MutualExclusion, Holders, WordTellsHolder, Goto
  <1>1. ASSUME NEW t \in Threads, TryLock(t) PROVE Inv'
    BY <1>1 DEF TryLock
  <1>2. ASSUME NEW t \in Threads, Lock(t) PROVE Inv'
    BY <1>2 DEF Lock
  <1>3. ASSUME NEW t \in Threads, Spin(t) PROVE Inv'
    BY <1>3 DEF Spin, LoopEntry
  <1>4. ASSUME NEW t \in Threads, TakeUncontended(t) PROVE Inv'
    BY <1>4 DEF TakeUncontended, LoopEntry
  <1>5. ASSUME NEW t \in Threads, MarkContended(t) PROVE Inv'
    BY <1>5 DEF MarkContended
  <1>6. ASSUME NEW t \in Threads, FutexWait(t) PROVE Inv'
    BY <1>6 DEF FutexWait
  <1>7. ASSUME NEW t \in Threads, Respin(t) PROVE Inv'
    BY <1>7 DEF Respin, LoopEntry
  <1>8. ASSUME NEW t \in Threads, FutexWake(t) PROVE Inv'
    BY <1>8 DEF FutexWake, Sleepers
  <1>9. ASSUME NEW t \in Threads, Unlock(t) PROVE Inv'
    BY <1>9 DEF Unlock
  <1>10. ASSUME NEW t \in Threads, SpuriousWakeup(t) PROVE Inv'
    BY <1>10 DEF SpuriousWakeup
  <1>11. CASE UNCHANGED vars
    BY <1>11 DEF vars
  <1> QED
    BY <1>1, <1>2, <1>3, <1>4, <1>5, <1>6, <1>7, <1>8, <1>9, <1>10, <1>11
    DEF Next, Step

LEMMA Invariance == Spec => []Inv
  BY InitInv, StepInv, PTL DEF Spec

\* Mutual exclusion of lock()/unlock() for any number of threads: the promise
\* start_write builds on when it takes the buffer for itself (mod.rs:153).
THEOREM FutexLockExclusion == Spec => []MutualExclusion
  BY Invariance, PTL DEF Inv

----------------------------------------------------------------------------
\* SleepersCovered is inductive by itself: only unlock() takes CONTENDED off
\* the word, and it goes on to wake; every woken thread re-marks the word.
LEMMA StepCovered == TypeOK /\ SleepersCovered /\ [Next]_vars => SleepersCovered'
  <1> SUFFICES ASSUME TypeOK, SleepersCovered, [Next]_vars PROVE SleepersCovered'
    OBVIOUS
  <1> USE DEF TypeOK, PC, SleepersCovered, Sleepers, Goto
  <1>1. ASSUME NEW t \in Threads, TryLock(t) PROVE SleepersCovered'
    BY <1>1 DEF TryLock
  <1>2. ASSUME NEW t \in Threads, Lock(t) PROVE SleepersCovered'
    BY <1>2 DEF Lock
  <1>3. ASSUME NEW t \in Threads, Spin(t) PROVE SleepersCovered'
    BY <1>3 DEF Spin, LoopEntry
  <1>4. ASSUME NEW t \in Threads, TakeUncontended(t) PROVE SleepersCovered'
    BY <1>4 DEF TakeUncontended, LoopEntry
  <1>5. ASSUME NEW t \in Threads, MarkContended(t) PROVE SleepersCovered'
    BY <1>5 DEF MarkContended
  <1>6. ASSUME NEW t \in Threads, FutexWait(t) PROVE SleepersCovered'
    BY <1>6 DEF FutexWait
  <1>7. ASSUME NEW t \in Threads, Respin(t) PROVE SleepersCovered'
    BY <1>7 DEF Respin, LoopEntry
  <1>8. ASSUME NEW t \in Threads, FutexWake(t) PROVE SleepersCovered'
    BY <1>8 DEF FutexWake
  <1>9. ASSUME NEW t \in Threads, Unlock(t) PROVE SleepersCovered'
    BY <1>9 DEF Unlock
  <1>10. ASSUME NEW t \in Threads, SpuriousWakeup(t) PROVE SleepersCovered'
    BY <1>10 DEF SpuriousWakeup
  <1>11. CASE UNCHANGED vars
    BY <1>11 DEF vars
  <1> QED
    BY <1>1, <1>2, <1>3, <1>4, <1>5, <1>6, <1>7, <1>8, <1>9, <1>10, <1>11
    DEF Next, Step

\* No wake-up of lock_contended() is lost, for any number of threads: while
\* somebody sleeps in its futex wait, a wake-up is owed or under way.
THEOREM FutexLockCoversSleepers == Spec => []SleepersCovered
  <1>1. Init => SleepersCovered
    BY DEF Init, SleepersCovered, Sleepers
  <1>2. Inv => TypeOK
    BY DEF Inv
  <1> QED
    BY <1>1, <1>2, Invariance, StepCovered, PTL DEF Spec

----------------------------------------------------------------------------
(* Refinement of Mutex.                                                    *)

LEMMA OwnerIsHolder == ASSUME MutualExclusion, NEW t \in Holders PROVE owner = t
  BY DEF owner, MutualExclusion

\* A step that makes t the holder of a free lock is Mutex's Lock.
LEMMA AcquireRefines ==
  ASSUME NEW t \in Threads, Holders = {}, Holders' = {t}
  PROVE  Abstract!Lock(t)
  BY DEF owner, Abstract!Lock

\* A step by which the only holder leaves is Mutex's Unlock.
LEMMA ReleaseRefines ==
  ASSUME NEW t \in Holders, MutualExclusion, Holders' = {}
  PROVE  Abstract!Unlock(t)
  BY OwnerIsHolder DEF owner, Abstract!Unlock

LEMMA StepRefines == Inv /\ [Next]_vars => [Abstract!Next]_owner
  <1> SUFFICES ASSUME Inv, [Next]_vars PROVE Abstract!Next \/ owner' = owner
    OBVIOUS
  <1>a. ASSUME Holders' = Holders PROVE owner' = owner
    BY <1>a DEF owner
  <1>b. ASSUME NEW t \in Threads, word = UNLOCKED, pc' = [pc EXCEPT ![t] = "held"]
        PROVE  Abstract!Next
    <2>1. Holders = {} /\ Holders' = {t}
      BY <1>b DEF Inv, TypeOK, WordTellsHolder, Holders
    <2> QED
      BY <2>1, AcquireRefines DEF Abstract!Next
  <1> USE DEF Inv, TypeOK, Holders, Goto
  <1>1. ASSUME NEW t \in Threads, TryLock(t) PROVE Abstract!Next
    BY <1>1, <1>b DEF TryLock
  <1>2. ASSUME NEW t \in Threads, Lock(t) PROVE Abstract!Next \/ owner' = owner
    <2>1. CASE word = UNLOCKED
      BY <1>2, <2>1, <1>b DEF Lock
    <2>2. CASE word # UNLOCKED
      BY <1>2, <2>2, <1>a DEF Lock
    <2> QED
      BY <2>1, <2>2
  <1>3. ASSUME NEW t \in Threads, Spin(t) PROVE owner' = owner
    BY <1>3, <1>a DEF Spin, LoopEntry
  <1>4. ASSUME NEW t \in Threads, TakeUncontended(t)
        PROVE  Abstract!Next \/ owner' = owner
    <2>1. CASE word = UNLOCKED
      BY <1>4, <2>1, <1>b DEF TakeUncontended
    <2>2. CASE word # UNLOCKED
      BY <1>4, <2>2, <1>a DEF TakeUncontended, LoopEntry
    <2> QED
      BY <2>1, <2>2
  <1>5. ASSUME NEW t \in Threads, MarkContended(t)
        PROVE  Abstract!Next \/ owner' = owner
    <2>1. CASE word = UNLOCKED
      BY <1>5, <2>1, <1>b DEF MarkContended
    <2>2. CASE word # UNLOCKED
      BY <1>5, <2>2, <1>a DEF MarkContended
    <2> QED
      BY <2>1, <2>2
  <1>6. ASSUME NEW t \in Threads, FutexWait(t) PROVE owner' = owner
    BY <1>6, <1>a DEF FutexWait
  <1>7. ASSUME NEW t \in Threads, Respin(t) PROVE owner' = owner
    BY <1>7, <1>a DEF Respin, LoopEntry
  <1>8. ASSUME NEW t \in Threads, FutexWake(t) PROVE owner' = owner
    BY <1>8, <1>a DEF FutexWake, Sleepers
  <1>9. ASSUME NEW t \in Threads, Unlock(t) PROVE Abstract!Next
    <2>1. t \in Holders /\ Holders' = {}
      BY <1>9 DEF Unlock, MutualExclusion
    <2> QED
      BY <2>1, ReleaseRefines DEF Abstract!Next
  <1>10. ASSUME NEW t \in Threads, SpuriousWakeup(t) PROVE owner' = owner
    BY <1>10, <1>a DEF SpuriousWakeup
  <1>11. CASE UNCHANGED vars
    BY <1>11, <1>a DEF vars
  <1> QED
    BY <1>1, <1>2, <1>3, <1>4, <1>5, <1>6, <1>7, <1>8, <1>9, <1>10, <1>11
    DEF Next, Step

\* The futex lock implements the abstract Mutex that the model of
\* SharedMessage uses for writer_mutex: what is shown there of writers that
\* take turns holds with lock() and unlock() as they are coded.
THEOREM FutexLockRefinesMutex == Spec => ImplementsMutex
  <1>1. Init => Abstract!Init
    BY DEF Init, Abstract!Init, owner, Holders
  <1> QED
    BY <1>1, StepRefines, Invariance, PTL DEF Spec, ImplementsMutex, Abstract!Spec
=============================================================================
