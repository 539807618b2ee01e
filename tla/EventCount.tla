----------------------------- MODULE EventCount -----------------------------
(***************************************************************************)
(* What SharedCondvar (sync/condvar.rs) promises its callers.              *)
(* A caller takes a ticket with value(), checks its condition and calls    *)
(* wait(ticket).  Of the counter only one thing is observable: whether it  *)
(* still has the value the thread was given.  So the state is the set of   *)
(* threads whose ticket is still current; a notification empties it.       *)
(* Condvar is shown to implement this module; SharedMessage uses its       *)
(* operators for writer_condvar and reader_done_condvar.                   *)
(***************************************************************************)
CONSTANT Threads

VARIABLES
    fresh,      \* threads whose ticket equals the counter
    waiting     \* threads inside wait()

TypeOK ==
    /\ fresh \subseteq Threads
    /\ waiting \subseteq Threads

Init ==
    /\ fresh = {}
    /\ waiting = {}

\* SharedCondvar::value as seen by thread t.
Value(t) == fresh' = fresh \cup {t}

\* SharedCondvar::notify_all: every ticket handed out so far is now stale.
NotifyAll == fresh' = {}

\* The condition under which wait() may no longer keep t blocked.
Stale(t) == t \notin fresh

TakeTicket(t) ==
    /\ t \notin waiting
    /\ Value(t)
    /\ UNCHANGED waiting

Wait(t) ==
    /\ t \notin waiting
    /\ waiting' = waiting \cup {t}
    /\ UNCHANGED fresh

Notify ==
    /\ NotifyAll
    /\ UNCHANGED waiting

\* wait() returns; "this can wake spontaneously" (condvar.rs:17), so a
\* current ticket does not prevent it.
Return(t) ==
    /\ t \in waiting
    /\ waiting' = waiting \ {t}
    /\ UNCHANGED fresh

Next ==
    \/ Notify
    \/ \E t \in Threads : TakeTicket(t) \/ Wait(t) \/ Return(t)

vars == <<fresh, waiting>>

Spec == Init /\ [][Next]_vars

\* The promise that makes sleeping safe: a waiter whose ticket has become
\* stale does return from wait().
StaleReturns == \A t \in Threads : t \in waiting /\ Stale(t) ~> t \notin waiting
=============================================================================
