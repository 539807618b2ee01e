------------------------------ MODULE Condvar ------------------------------
(***************************************************************************)
(* The process-shared condition variable of sync/condvar.rs: a 32-bit      *)
(* counter that is also a futex.  value() hands out the counter, wait()    *)
(* sleeps while the counter still has the value handed out, notify_all()   *)
(* increments it and then wakes every sleeper.                             *)
(*                                                                         *)
(* One action is one atomic access to the counter or one futex call; the   *)
(* 1000 loads that wait() spins through are one load, since a load that    *)
(* finds the expected value changes nothing.  notify_one is not called     *)
(* anywhere and is left out.                                               *)
(***************************************************************************)
EXTENDS Naturals

CONSTANTS
    Threads,    \* the threads, of any process, that use the variable
    Modulus,    \* the counter wraps here: 2^32
    NoTicket    \* the ticket of a thread that has not called value() yet

ASSUME ModulusAssumption ==
    /\ Modulus \in Nat
    /\ Modulus > 1
    /\ NoTicket \notin Nat

VARIABLES
    counter,    \* the futex word, SharedCondvar.0
    ticket,     \* what value() last returned to each thread
    pc          \* where each thread is

vars == <<counter, ticket, pc>>

PC == {"idle", "spin", "futex", "asleep", "woken", "wake"}

Goto(t, from, to) == pc[t] = from /\ pc' = [pc EXCEPT ![t] = to]

Init ==
    /\ counter = 0
    /\ ticket = [t \in Threads |-> NoTicket]
    /\ pc = [t \in Threads |-> "idle"]

value(t) ==
    /\ pc[t] = "idle"
    /\ ticket' = [ticket EXCEPT ![t] = counter]
    /\ UNCHANGED <<counter, pc>>

\* wait() is called with the ticket the thread was given.
wait(t) ==
    /\ Goto(t, "idle", "spin")
    /\ UNCHANGED <<counter, ticket>>

\* The loads of the spin: the first one that differs ends the call.
Spin(t) ==
    /\ Goto(t, "spin", IF counter # ticket[t] THEN "idle" ELSE "futex")
    /\ UNCHANGED <<counter, ticket>>

\* futex_wait: the kernel compares and puts to sleep in one step.
FutexWait(t) ==
    /\ Goto(t, "futex", IF counter # ticket[t] THEN "idle" ELSE "asleep")
    /\ UNCHANGED <<counter, ticket>>

\* "Remember, this can wake spontaneously" (condvar.rs:17).
SpuriousWakeup(t) ==
    /\ Goto(t, "asleep", "woken")
    /\ UNCHANGED <<counter, ticket>>

\* The system call returns, and wait() with it.
Return(t) ==
    /\ Goto(t, "woken", "idle")
    /\ UNCHANGED <<counter, ticket>>

NextValue == (counter + 1) % Modulus

\* Wrong variants of notify_all: the wake is skipped; the counter may come
\* around to a ticket that is still in use, as a narrower one would.
IncrementOnly(t) ==
    /\ \A u \in Threads : ticket[u] # NextValue
    /\ pc[t] = "idle"
    /\ counter' = NextValue
    /\ UNCHANGED <<ticket, pc>>

IncrementAliasing(t) ==
    /\ Goto(t, "idle", "wake")
    /\ counter' = NextValue
    /\ UNCHANGED ticket

\* notify_all, first half.  The guard says that the counter does not come all
\* the way around to a ticket somebody still has: fewer than 2^32
\* notifications pass between a value() and the end of its wait().
Increment(t) ==
    /\ \A u \in Threads : ticket[u] # NextValue
    /\ Goto(t, "idle", "wake")
    /\ counter' = NextValue
    /\ UNCHANGED ticket

\* Wrong variant: futex_wake_one in the place of futex_wake_all.
FutexWakeOne(t) ==
    /\ pc[t] = "wake"
    /\ \/ /\ \A u \in Threads : pc[u] # "asleep"
          /\ pc' = [pc EXCEPT ![t] = "idle"]
       \/ \E u \in Threads :
            /\ pc[u] = "asleep"
            /\ pc' = [pc EXCEPT ![t] = "idle", ![u] = "woken"]
    /\ UNCHANGED <<counter, ticket>>

\* notify_all, second half: the waits of all sleepers end.
FutexWakeAll(t) ==
    /\ pc[t] = "wake"
    /\ pc' = [u \in Threads |->
                 IF u = t THEN "idle" ELSE IF pc[u] = "asleep" THEN "woken" ELSE pc[u]]
    /\ UNCHANGED <<counter, ticket>>

\* The steps a thread takes by itself once it is inside wait() or notify_all().
Step(t) == Spin(t) \/ FutexWait(t) \/ Return(t) \/ FutexWakeAll(t)

Next == \E t \in Threads : value(t) \/ wait(t) \/ Step(t) \/ SpuriousWakeup(t) \/ Increment(t)

Spec == Init /\ [][Next]_vars

\* The scheduler runs every thread that can run; nobody is obliged to call
\* wait() or notify_all(), nor the kernel to wake a sleeper unasked.
Fairness == \A t \in Threads : WF_vars(Step(t))

FairSpec == Spec /\ Fairness

----------------------------------------------------------------------------
\* The counter stays within 32 bits and tickets are values it had.
TypeOK ==
    /\ counter \in 0..(Modulus - 1)
    /\ ticket \in [Threads -> 0..(Modulus - 1) \cup {NoTicket}]
    /\ pc \in [Threads -> PC]

\* No wake-up is lost between the increment and the futex call of notify_all:
\* a thread asleep on a value the counter no longer has will be woken by a
\* notify_all that is still to make its futex call.
StaleSleepersCovered ==
    \A t \in Threads :
        pc[t] = "asleep" /\ ticket[t] # counter => \E u \in Threads : pc[u] = "wake"

\* What EventCount's state is in terms of this module's.
fresh   == {t \in Threads : ticket[t] = counter}
waiting == {t \in Threads : pc[t] \in {"spin", "futex", "asleep", "woken"}}
Abstract == INSTANCE EventCount

\* The condition variable implements EventCount, the abstraction the model of
\* SharedMessage is written with: a notification invalidates every ticket in
\* one step, taking a ticket validates only the taker's.
ImplementsEventCount == Abstract!Spec

\* EventCount's promise: wait() returns once its ticket is stale.
StaleWaiterReturns == Abstract!StaleReturns
=============================================================================
