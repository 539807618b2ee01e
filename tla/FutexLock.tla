----------------------------- MODULE FutexLock -----------------------------
(***************************************************************************)
(* The process-shared lock behind writer_mutex: sync/lock/futex_lock.rs,   *)
(* with the guard of sync/lock/mutex.rs that unlocks it when dropped.      *)
(*                                                                         *)
(* One action is one atomic access to the lock word or one futex call.     *)
(* The futex itself is the kernel's: FutexWait puts a thread to sleep only *)
(* if the word still has the expected value, in one step with that check;  *)
(* FutexWake wakes one sleeper if there is one; a sleeper may also wake    *)
(* for no reason (a signal).                                               *)
(***************************************************************************)
EXTENDS Naturals

CONSTANTS
    Threads,    \* the threads, of any process, that use the lock
    NoThread    \* the owner of a free lock in the abstract Mutex

ASSUME ThreadsAssumption == NoThread \notin Threads

VARIABLES
    word,       \* the futex word, FutexLock.0
    pc          \* where each thread is; it also fixes lock_contended's state

vars == <<word, pc>>

UNLOCKED  == 0
LOCKED    == 1
CONTENDED == 2

PC == {"idle", "spin", "take", "mark", "wait", "asleep", "respin", "held", "wake"}

Goto(t, from, to) == pc[t] = from /\ pc' = [pc EXCEPT ![t] = to]

Init ==
    /\ word = UNLOCKED
    /\ pc = [t \in Threads |-> "idle"]

\* try_lock(): the exchange succeeds, or the call returns false.
TryLock(t) ==
    /\ word = UNLOCKED
    /\ Goto(t, "idle", "held")
    /\ word' = LOCKED

\* lock(): the same exchange, with lock_contended() when it fails.
Lock(t) ==
    \/ /\ word = UNLOCKED
       /\ Goto(t, "idle", "held")
       /\ word' = LOCKED
    \/ /\ word # UNLOCKED
       /\ Goto(t, "idle", "spin")
       /\ UNCHANGED word

\* Where the loop of lock_contended() goes with the state it has just seen.
LoopEntry == IF word = CONTENDED THEN "wait" ELSE "mark"

\* spin() returns what it last loaded.  It gives up on LOCKED after 100 loads,
\* so any value the word takes can be the one it returns.
Spin(t) ==
    /\ \/ word = UNLOCKED /\ Goto(t, "spin", "take")
       \/ word # UNLOCKED /\ Goto(t, "spin", LoopEntry)
    /\ UNCHANGED word

\* The exchange after the first spin.
TakeUncontended(t) ==
    \/ /\ word = UNLOCKED
       /\ Goto(t, "take", "held")
       /\ word' = LOCKED
    \/ /\ word # UNLOCKED
       /\ Goto(t, "take", LoopEntry)
       /\ UNCHANGED word

\* Wrong variant: a thread that slept takes the free lock as uncontended.
MarkContendedPlain(t) ==
    /\ Goto(t, "mark", IF word = UNLOCKED THEN "held" ELSE "wait")
    /\ word' = IF word = UNLOCKED THEN LOCKED ELSE CONTENDED

\* Wrong variant: any value the swap returns counts as success.
MarkContendedBlind(t) ==
    /\ Goto(t, "mark", "held")
    /\ word' = CONTENDED

\* swap(CONTENDED): whoever finds UNLOCKED has the lock.
MarkContended(t) ==
    /\ Goto(t, "mark", IF word = UNLOCKED THEN "held" ELSE "wait")
    /\ word' = CONTENDED

FutexWait(t) ==
    /\ Goto(t, "wait", IF word = CONTENDED THEN "asleep" ELSE "respin")
    /\ UNCHANGED word

\* A signal, or nothing at all, ends a futex wait.
SpuriousWakeup(t) ==
    /\ Goto(t, "asleep", "respin")
    /\ UNCHANGED word

\* The spin() after a wait; its value decides the next round of the loop.
Respin(t) ==
    /\ Goto(t, "respin", LoopEntry)
    /\ UNCHANGED word

\* unlock(), from SharedMutexGuard::drop.
Unlock(t) ==
    /\ Goto(t, "held", IF word = CONTENDED THEN "wake" ELSE "idle")
    /\ word' = UNLOCKED

Sleepers == {t \in Threads : pc[t] = "asleep"}

\* Wrong variant: nobody is woken.
FutexWakeNobody(t) ==
    /\ Goto(t, "wake", "idle")
    /\ UNCHANGED word

\* futex_wake_one: one sleeper, the kernel's choice, leaves its wait.
FutexWake(t) ==
    /\ pc[t] = "wake"
    /\ \/ /\ Sleepers = {}
          /\ pc' = [pc EXCEPT ![t] = "idle"]
       \/ \E s \in Sleepers : pc' = [pc EXCEPT ![t] = "idle", ![s] = "respin"]
    /\ UNCHANGED word

\* The steps a thread takes by itself once it has called lock() or unlock().
Step(t) ==
    \/ Spin(t) \/ TakeUncontended(t) \/ MarkContended(t) \/ FutexWait(t)
    \/ Respin(t) \/ FutexWake(t)

Next == \E t \in Threads : TryLock(t) \/ Lock(t) \/ Step(t) \/ Unlock(t) \/ SpuriousWakeup(t)

Spec == Init /\ [][Next]_vars

\* The scheduler runs every thread that can run, and whoever holds the lock
\* drops the guard.  Nobody is obliged to call lock(), nor the kernel to wake
\* a sleeper unasked.
Fairness == \A t \in Threads : WF_vars(Step(t)) /\ WF_vars(Unlock(t))

FairSpec == Spec /\ Fairness

----------------------------------------------------------------------------
\* The word has one of its three values and every thread is at a step of
\* lock(), unlock() or neither.
TypeOK ==
    /\ word \in {UNLOCKED, LOCKED, CONTENDED}
    /\ pc \in [Threads -> PC]

Holders == {t \in Threads : pc[t] = "held"}

\* Two threads are never past lock() at once, however their exchanges, swaps
\* and wake-ups interleave; this is what start_write relies on to own the
\* buffer (mod.rs:153).
MutualExclusion == \A t, u \in Holders : t = u

\* No wake-up is lost (the comment in unlock(), futex_lock.rs:69-72): while a
\* thread sleeps, either the word is CONTENDED, so that the holder's unlock()
\* will wake somebody, or a thread is already on its way to wake one or to
\* mark the word contended again.
SleepersCovered ==
    Sleepers # {} =>
        \/ word = CONTENDED
        \/ \E t \in Threads : pc[t] \in {"wake", "respin", "mark", "wait"}

Waiters ==
    {t \in Threads : pc[t] \in {"spin", "take", "mark", "wait", "asleep", "respin"}}

\* The lock is never left free with threads stuck in lock_contended(): as long
\* as somebody waits, somebody gets it, even if nobody else ever calls lock().
LockProgress == Waiters # {} ~> Holders # {}

\* The owner of the abstract Mutex is the thread that is past lock().
owner == IF Holders = {} THEN NoThread ELSE CHOOSE t \in Holders : TRUE
Abstract == INSTANCE Mutex

\* FutexLock implements Mutex, the lock SharedMessage's model uses.
ImplementsMutex == Abstract!Spec
=============================================================================
