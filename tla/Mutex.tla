------------------------------- MODULE Mutex -------------------------------
(***************************************************************************)
(* What SharedMutex (sync/lock/mutex.rs) promises its callers: at         *)
(* most one thread holds the lock, lock() returns only when nobody does,   *)
(* and dropping the guard gives it up.  FutexLock is shown to implement    *)
(* this module; SharedMessage uses its operators for writer_mutex.         *)
(***************************************************************************)
CONSTANTS
    Threads,    \* the threads, of any process, that map the shared memory
    NoThread    \* the value of owner while nobody holds the lock

VARIABLE owner

TypeOK == owner \in Threads \cup {NoThread}

Init == owner = NoThread

\* SharedMutex::lock, and SharedMutex::try_lock when it succeeds.
Lock(t) ==
    /\ owner = NoThread
    /\ owner' = t

\* SharedMutexGuard::drop.
Unlock(t) ==
    /\ owner = t
    /\ owner' = NoThread

Next == \E t \in Threads : Lock(t) \/ Unlock(t)

Spec == Init /\ [][Next]_owner
=============================================================================
