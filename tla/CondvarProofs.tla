--------------------------- MODULE CondvarProofs ---------------------------
(***************************************************************************)
(* Proofs about Condvar, for any set of threads and any modulus: no lost   *)
(* wake-up, and that it implements the abstract EventCount.                *)
(***************************************************************************)
EXTENDS Condvar, TLAPS

LEMMA NextValueType == counter \in 0..(Modulus - 1) => NextValue \in 0..(Modulus - 1)
  BY ModulusAssumption DEF NextValue

Inv == TypeOK /\ StaleSleepersCovered

LEMMA InitInv == Init => Inv
  BY ModulusAssumption DEF Init, Inv, TypeOK, PC, StaleSleepersCovered

\* A sleeper's ticket becomes stale only by an increment, after which the
\* notifier stands before its futex call; that call leaves nobody asleep.
LEMMA StepInv == Inv /\ [Next]_vars => Inv'
  <1> SUFFICES ASSUME Inv, [Next]_vars PROVE Inv'
    OBVIOUS
  <1> USE DEF Inv, TypeOK, PC, StaleSleepersCovered, Goto
  <1>1. ASSUME NEW t \in Threads, value(t) PROVE Inv'
    BY <1>1 DEF value
  <1>2. ASSUME NEW t \in Threads, wait(t) PROVE Inv'
    BY <1>2 DEF wait
  <1>3. ASSUME NEW t \in Threads, Spin(t) PROVE Inv'
    BY <1>3 DEF Spin
  <1>4. ASSUME NEW t \in Threads, FutexWait(t) PROVE Inv'
    BY <1>4 DEF FutexWait
  <1>5. ASSUME NEW t \in Threads, Return(t) PROVE Inv'
    BY <1>5 DEF Return
  <1>6. ASSUME NEW t \in Threads, FutexWakeAll(t) PROVE Inv'
    BY <1>6 DEF FutexWakeAll
  <1>7. ASSUME NEW t \in Threads, SpuriousWakeup(t) PROVE Inv'
    BY <1>7 DEF SpuriousWakeup
  <1>8. ASSUME NEW t \in Threads, Increment(t) PROVE Inv'
    BY <1>8, NextValueType DEF Increment
  <1>9. CASE UNCHANGED vars
    BY <1>9 DEF vars
  <1> QED
    BY <1>1, <1>2, <1>3, <1>4, <1>5, <1>6, <1>7, <1>8, <1>9 DEF Next, Step

LEMMA Invariance == Spec => []Inv
  BY InitInv, StepInv, PTL DEF Spec

\* No wake-up is lost between the two halves of notify_all(), for any number
\* of threads: whoever sleeps on an outdated value is about to be woken.
THEOREM CondvarCoversSleepers == Spec => []StaleSleepersCovered
  BY Invariance, PTL DEF Inv

----------------------------------------------------------------------------
(* Refinement of EventCount.                                               *)

LEMMA StepRefines == Inv /\ [Next]_vars => [Abstract!Next]_(Abstract!vars)
  <1> SUFFICES ASSUME Inv, [Next]_vars PROVE Abstract!Next \/ UNCHANGED <<fresh, waiting>>
    BY DEF Abstract!vars
  <1> USE DEF Inv, TypeOK, PC, Goto, fresh, waiting
  <1>1. ASSUME NEW t \in Threads, value(t) PROVE Abstract!TakeTicket(t)
    BY <1>1 DEF value, Abstract!TakeTicket, Abstract!Value
  <1>2. ASSUME NEW t \in Threads, wait(t) PROVE Abstract!Wait(t)
    BY <1>2 DEF wait, Abstract!Wait
  <1>3. ASSUME NEW t \in Threads, Spin(t)
        PROVE  Abstract!Return(t) \/ UNCHANGED <<fresh, waiting>>
    BY <1>3 DEF Spin, Abstract!Return
  <1>4. ASSUME NEW t \in Threads, FutexWait(t)
        PROVE  Abstract!Return(t) \/ UNCHANGED <<fresh, waiting>>
    BY <1>4 DEF FutexWait, Abstract!Return
  <1>5. ASSUME NEW t \in Threads, Return(t) PROVE Abstract!Return(t)
    BY <1>5 DEF Return, Abstract!Return
  <1>6. ASSUME NEW t \in Threads, FutexWakeAll(t) PROVE UNCHANGED <<fresh, waiting>>
    BY <1>6 DEF FutexWakeAll
  <1>7. ASSUME NEW t \in Threads, SpuriousWakeup(t) PROVE UNCHANGED <<fresh, waiting>>
    BY <1>7 DEF SpuriousWakeup
  <1>8. ASSUME NEW t \in Threads, Increment(t) PROVE Abstract!Notify
    BY <1>8 DEF Increment, Abstract!Notify, Abstract!NotifyAll
  <1>9. CASE UNCHANGED vars
    BY <1>9 DEF vars
  <1> QED
    BY <1>1, <1>2, <1>3, <1>4, <1>5, <1>6, <1>7, <1>8, <1>9
    DEF Next, Step, Abstract!Next

\* The condition variable implements EventCount, the abstraction in which the
\* model of SharedMessage states value(), wait() and notify_all(), as long as
\* the counter does not wrap around to a ticket in use.
THEOREM CondvarRefinesEventCount == Spec => ImplementsEventCount
  <1>1. Init => Abstract!Init
    BY ModulusAssumption DEF Init, Abstract!Init, fresh, waiting
  <1> QED
    BY <1>1, StepRefines, Invariance, PTL
    DEF Spec, ImplementsEventCount, Abstract!Spec
=============================================================================
