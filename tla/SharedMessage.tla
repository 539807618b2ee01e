--------------------------- MODULE SharedMessage ---------------------------
(***************************************************************************)
(* The single-slot message in shared memory: shared_message/mod.rs and     *)
(* shared_message/guard.rs.                                                *)
(*                                                                         *)
(* One action is one atomic access to shared memory by one thread (a load, *)
(* a read-modify-write, a lock or a futex call) with the thread-local code *)
(* up to the next one.  The compare-exchange loops of update_reader_state  *)
(* and publish_write recompute a function of the word they replace, so a   *)
(* loop is one atomic update of that word.  writer_mutex is the abstract   *)
(* Mutex that FutexLock implements; the two condition variables are the    *)
(* abstract EventCount that Condvar implements.                            *)
(***************************************************************************)
EXTENDS Naturals, FiniteSets

CONSTANTS
    Writers,      \* threads that call write, write_slice, set_target_read_count
    Readers,      \* threads that call read, add_reader, remove_reader
    NoThread,     \* the owner of a free writer_mutex
    Mixed,        \* buffer contents while a write is only partly copied
    Payloads,     \* messages a writer may send; payload n is n bytes long
    Capacity,     \* payload bytes of the mapping
    SequenceMask, \* largest sequence number: 2^62 - 1 in packed.rs
    U16Max,       \* largest value of a field of readers_state: 2^16 - 1
    InitTarget,   \* target_read the segment was created with
    InitMembers,  \* readers registered before the behaviour starts
    Targets,      \* counts passed to set_target_read_count
    Ops,          \* the calls the clients of this instance make
    WriteLimit    \* bound: no write call starts at this sequence or above

Threads == Writers \cup Readers

AllOps == {"slice", "guard", "discard", "try_read", "join", "leave",
           "set_target", "stop"}

ASSUME ThreadsAssumption ==
    /\ Writers \cap Readers = {}
    /\ NoThread \notin Writers \cup Readers

ASSUME DataAssumption ==
    /\ Payloads \subseteq Nat
    /\ Mixed \notin Nat
    /\ Capacity \in Nat
    /\ WriteLimit \in Nat

\* The u16 fields of readers_state can count the threads there are.
ASSUME WordAssumption ==
    /\ SequenceMask \in Nat \ {0}
    /\ U16Max \in Nat \ {0}
    /\ IsFiniteSet(Readers)
    /\ Cardinality(Readers) <= U16Max

ASSUME ClientAssumption ==
    /\ InitTarget \in 0..U16Max
    /\ InitMembers \subseteq Readers
    /\ Targets \subseteq 0..U16Max
    /\ Ops \subseteq AllOps

VARIABLES
    sequence_and_flags,   \* SequenceState, one atomic word
    readers_state,        \* ReadersStateCount, one atomic word
    data_size,            \* length of the published message
    data,                 \* which message the buffer's bytes are
    writer_mutex,         \* the thread that holds it
    writer_condvar,       \* readers whose ticket on it is current
    reader_done_condvar,  \* writers whose ticket on it is current
    pc,                   \* where each thread is in its call
    job,                  \* what each writer was asked to write
    seen,                 \* each reader's last_seen_seq
    snap,                 \* state.sequence in read(), the guard's sequence
    block,                \* the block argument of read()
    stopCall,             \* progress of the stop() call
    members,              \* readers between add_reader and remove_reader
    published,            \* history: the last published message
    consumedBy,           \* history: readers done with that message
    discarded,            \* history: some write was dropped unpublished
    unmarked              \* history: some write gave up with the flag up

word   == <<sequence_and_flags, readers_state>>
buffer == <<data_size, data>>
sync   == <<writer_mutex, writer_condvar, reader_done_condvar>>
locals == <<job, seen, snap, block, stopCall, members>>
ghost  == <<published, consumedBy, discarded, unmarked>>
vars   == <<word, buffer, sync, pc, locals, ghost>>

WriterCv == INSTANCE EventCount WITH
    fresh <- writer_condvar, waiting <- {r \in Readers : pc[r] = "sleep"}
ReaderDoneCv == INSTANCE EventCount WITH
    fresh <- reader_done_condvar,
    waiting <- {w \in Writers : pc[w] \in {"await", "drainWait"}}
WriterMutex == INSTANCE Mutex WITH owner <- writer_mutex

----------------------------------------------------------------------------
(* packed.rs: the two words as records, u16 arithmetic that wraps.         *)

Sequence == sequence_and_flags.sequence
Stopped  == sequence_and_flags.stopped
Writing  == sequence_and_flags.writing_in_progress

SequenceState ==
    [sequence: 0..SequenceMask, stopped: BOOLEAN, writing_in_progress: BOOLEAN]
ReadersStateCount ==
    [target_read: 0..U16Max, consumers: 0..U16Max,
     active_readers: 0..U16Max, data_consumed: 0..U16Max]

Inc16(n) == IF n = U16Max THEN 0 ELSE n + 1
Dec16(n) == IF n = 0 THEN U16Max ELSE n - 1

\* Wrong variant: the mask and the skipped zero are forgotten.
NextSequenceUnmasked == Sequence + 1

\* Sequence 0 means that nothing was ever published, so it is skipped.
NextSequence == IF Sequence = SequenceMask THEN 1 ELSE Sequence + 1

get_target_consumed ==
    IF readers_state.target_read < readers_state.consumers
    THEN readers_state.target_read ELSE readers_state.consumers

Jobs  == [api: {"none", "slice", "guard"}, payload: Payloads \cup {0}]
NoJob == [api |-> "none", payload |-> 0]

Goto(t, from, to) == pc[t] = from /\ pc' = [pc EXCEPT ![t] = to]

----------------------------------------------------------------------------
(* The freshly created mapping is zeroed; the creator then sets the policy *)
(* and the first readers register.                                         *)

Init ==
    /\ sequence_and_flags =
         [sequence |-> 0, stopped |-> FALSE, writing_in_progress |-> FALSE]
    /\ readers_state =
         [target_read |-> InitTarget, consumers |-> Cardinality(InitMembers),
          active_readers |-> 0, data_consumed |-> 0]
    /\ data_size = 0
    /\ data = 0
    /\ WriterMutex!Init
    /\ writer_condvar = {}
    /\ reader_done_condvar = {}
    /\ pc = [t \in Threads |-> "idle"]
    /\ job = [w \in Writers |-> NoJob]
    /\ seen = [r \in Readers |-> 0]
    /\ snap = [r \in Readers |-> 0]
    /\ block = [r \in Readers |-> TRUE]
    /\ stopCall = "none"
    /\ members = InitMembers
    /\ published = 0
    /\ consumedBy = {}
    /\ discarded = FALSE
    /\ unmarked = FALSE

----------------------------------------------------------------------------
(* start_write (mod.rs:76-125).                                            *)

\* write() or write_slice() is called: start_write's first is_stopped check.
\* A stopped message returns None and nothing changes.
BeginWrite(w) ==
    /\ ~Stopped
    /\ Sequence < WriteLimit
    /\ Goto(w, "idle", "lock")
    /\ \E api \in {"slice", "guard"} \cap Ops, p \in Payloads :
          job' = [job EXCEPT ![w] = [api |-> api, payload |-> p]]
    /\ UNCHANGED <<word, buffer, sync, seen, snap, block, stopCall, members, ghost>>

LockWriter(w) ==
    /\ Goto(w, "lock", "snapshot")
    /\ WriterMutex!Lock(w)
    /\ UNCHANGED <<word, buffer, writer_condvar, reader_done_condvar, locals, ghost>>

\* The previous message, if any, still has readers the policy waits for.
Behind == Sequence > 0 /\ readers_state.data_consumed < get_target_consumed

\* Loads the sequence, which only the mutex holder changes, and readers_state.
Snapshot(w) ==
    /\ Goto(w, "snapshot", IF Behind THEN "ticket" ELSE "mark")
    /\ UNCHANGED <<word, buffer, sync, locals, ghost>>

\* The ticket of the policy loop is taken after readers_state was loaded.
PolicyTicket(w) ==
    /\ Goto(w, "ticket", "behind")
    /\ ReaderDoneCv!Value(w)
    /\ UNCHANGED <<word, buffer, writer_mutex, writer_condvar, locals, ghost>>

PolicyStopped(w) ==
    /\ Goto(w, "behind", IF Stopped THEN "unlock" ELSE "kick")
    /\ UNCHANGED <<word, buffer, sync, locals, ghost>>

KickReaders(w) ==
    /\ Goto(w, "kick", "await")
    /\ WriterCv!NotifyAll
    /\ UNCHANGED <<word, buffer, writer_mutex, reader_done_condvar, locals, ghost>>

AwaitConsumed(w) ==
    /\ ReaderDoneCv!Stale(w)
    /\ Goto(w, "await", "reticket")
    /\ UNCHANGED <<word, buffer, sync, locals, ghost>>

PolicyReticket(w) ==
    /\ Goto(w, "reticket", "resnapshot")
    /\ ReaderDoneCv!Value(w)
    /\ UNCHANGED <<word, buffer, writer_mutex, writer_condvar, locals, ghost>>

PolicyResnapshot(w) ==
    /\ Goto(w, "resnapshot", IF Behind THEN "behind" ELSE "mark")
    /\ UNCHANGED <<word, buffer, sync, locals, ghost>>

MarkWriting(w) ==
    /\ Goto(w, "mark", "drainTicket")
    /\ sequence_and_flags' = [sequence_and_flags EXCEPT !.writing_in_progress = TRUE]
    /\ UNCHANGED <<readers_state, buffer, sync, locals, ghost>>

DrainTicket(w) ==
    /\ Goto(w, "drainTicket", "drain")
    /\ ReaderDoneCv!Value(w)
    /\ UNCHANGED <<word, buffer, writer_mutex, writer_condvar, locals, ghost>>

\* Without active readers start_write returns and the buffer is the writer's.
DrainActive(w) ==
    /\ Goto(w, "drain",
            IF readers_state.active_readers > 0 THEN "drainStopped" ELSE "own")
    /\ UNCHANGED <<word, buffer, sync, locals, ghost>>

DrainStopped(w) ==
    /\ Goto(w, "drainStopped", IF Stopped THEN "unmark" ELSE "drainWait")
    /\ UNCHANGED <<word, buffer, sync, locals, ghost>>

\* The flag goes down again, and no reader that sleeps on it is notified.
UnmarkWriting(w) ==
    /\ Goto(w, "unmark", "unlock")
    /\ sequence_and_flags' = [sequence_and_flags EXCEPT !.writing_in_progress = FALSE]
    /\ unmarked' = TRUE
    /\ UNCHANGED <<readers_state, buffer, sync, locals, published, consumedBy, discarded>>

AwaitDrained(w) ==
    /\ ReaderDoneCv!Stale(w)
    /\ Goto(w, "drainWait", "drainTicket")
    /\ UNCHANGED <<word, buffer, sync, locals, ghost>>

----------------------------------------------------------------------------
(* The buffer is filled, then published or given up: write_slice,          *)
(* MessageWriteGuard and publish_write.                                    *)

BeginFill(w) ==
    /\ job[w].payload <= Capacity
    /\ Goto(w, "own", "filling")
    /\ data' = Mixed
    /\ UNCHANGED <<word, data_size, sync, locals, ghost>>

EndFill(w) ==
    /\ Goto(w, "filling", "filled")
    /\ data' = job[w].payload
    /\ UNCHANGED <<word, data_size, sync, locals, ghost>>

\* write_slice panics on a message larger than the buffer; unwinding drops
\* the mutex guard and nothing else.
SlicePanic(w) ==
    /\ job[w].api = "slice"
    /\ job[w].payload > Capacity
    /\ Goto(w, "own", "unlock")
    /\ discarded' = TRUE
    /\ UNCHANGED <<word, buffer, sync, locals, published, consumedBy, unmarked>>

\* publish() refuses a size above the capacity and drops the guard with it,
\* whether or not the client put bytes into the buffer first.
PublishTooLarge(w) ==
    /\ job[w].api = "guard"
    /\ job[w].payload > Capacity
    /\ Goto(w, "own", "unlock")
    /\ data' \in {data, Mixed}
    /\ discarded' = TRUE
    /\ UNCHANGED <<word, data_size, sync, locals, published, consumedBy, unmarked>>

\* Wrong variant: the destructor also clears WRITING_IN_PROGRESS.
DropWriteGuardUnmarks(w) ==
    /\ "discard" \in Ops
    /\ job[w].api = "guard"
    /\ pc[w] \in {"own", "filling", "filled"}
    /\ pc' = [pc EXCEPT ![w] = "unlock"]
    /\ sequence_and_flags' = [sequence_and_flags EXCEPT !.writing_in_progress = FALSE]
    /\ discarded' = TRUE
    /\ UNCHANGED <<readers_state, buffer, sync, locals, published, consumedBy, unmarked>>

\* A MessageWriteGuard is dropped, with or without bytes written through it:
\* the only destructor that runs is the mutex guard's.
DropWriteGuard(w) ==
    /\ "discard" \in Ops
    /\ job[w].api = "guard"
    /\ pc[w] \in {"own", "filling", "filled"}
    /\ pc' = [pc EXCEPT ![w] = "unlock"]
    /\ discarded' = TRUE
    /\ UNCHANGED <<word, buffer, sync, locals, published, consumedBy, unmarked>>

StoreSize(w) ==
    /\ Goto(w, "filled", "reset")
    /\ data_size' = job[w].payload
    /\ UNCHANGED <<word, data, sync, locals, ghost>>

ResetConsumed(w) ==
    /\ Goto(w, "reset", "publish")
    /\ readers_state' = [readers_state EXCEPT !.data_consumed = 0]
    /\ UNCHANGED <<sequence_and_flags, buffer, sync, locals, ghost>>

Publish(w) ==
    /\ Goto(w, "publish", "notify")
    /\ sequence_and_flags' = [sequence_and_flags EXCEPT
            !.sequence = NextSequence, !.writing_in_progress = FALSE]
    /\ published' = job[w].payload
    /\ consumedBy' = {}
    /\ UNCHANGED <<readers_state, buffer, sync, locals, discarded, unmarked>>

\* Wrong variant: publish_write returns without notify_all.
NotifyReadersMissing(w) ==
    /\ Goto(w, "notify", "unlock")
    /\ UNCHANGED <<word, buffer, sync, locals, ghost>>

NotifyReaders(w) ==
    /\ Goto(w, "notify", "unlock")
    /\ WriterCv!NotifyAll
    /\ UNCHANGED <<word, buffer, writer_mutex, reader_done_condvar, locals, ghost>>

\* The PayloadWriteGuard goes out of scope, and the caller gets its answer.
UnlockWriter(w) ==
    /\ Goto(w, "unlock", "idle")
    /\ WriterMutex!Unlock(w)
    /\ job' = [job EXCEPT ![w] = NoJob]
    /\ UNCHANGED <<word, buffer, writer_condvar, reader_done_condvar, seen, snap,
                   block, stopCall, members, ghost>>

----------------------------------------------------------------------------
(* set_target_read_count.                                                  *)

BeginSetTarget(w) ==
    /\ "set_target" \in Ops
    /\ Goto(w, "idle", "lockTarget")
    /\ UNCHANGED <<word, buffer, sync, locals, ghost>>

\* Wrong variant: the target changes while a write is in progress.
LockTargetSkipped(w) ==
    /\ Goto(w, "lockTarget", "setTarget")
    /\ UNCHANGED <<word, buffer, sync, locals, ghost>>

LockTarget(w) ==
    /\ Goto(w, "lockTarget", "setTarget")
    /\ WriterMutex!Lock(w)
    /\ UNCHANGED <<word, buffer, writer_condvar, reader_done_condvar, locals, ghost>>

SetTarget(w) ==
    /\ Goto(w, "setTarget", "unlock")
    /\ \E count \in Targets :
          readers_state' = [readers_state EXCEPT !.target_read = count]
    /\ UNCHANGED <<sequence_and_flags, buffer, sync, locals, ghost>>

----------------------------------------------------------------------------
(* read (mod.rs:258-297) and the guard's drop.                             *)

\* The caller passes the sequence of the last message it got.
BeginRead(r) ==
    /\ Goto(r, "idle", "take")
    /\ \E b \in {TRUE} \cup (IF "try_read" \in Ops THEN {FALSE} ELSE {}) :
          block' = [block EXCEPT ![r] = b]
    /\ UNCHANGED <<word, buffer, sync, job, seen, snap, stopCall, members, ghost>>

ReadTicket(r) ==
    /\ Goto(r, "take", "load")
    /\ WriterCv!Value(r)
    /\ UNCHANGED <<word, buffer, writer_mutex, reader_done_condvar, locals, ghost>>

\* Wrong variant: only a stop makes a read without new data return.
LoadStateBlocks(r) ==
    /\ \/ /\ Sequence = seen[r]
          /\ Goto(r, "load", IF Stopped THEN "idle" ELSE "sleep")
          /\ UNCHANGED snap
       \/ /\ Sequence # seen[r]
          /\ Goto(r, "load", IF Writing THEN "sleep" ELSE "register")
          /\ snap' = IF Writing THEN snap ELSE [snap EXCEPT ![r] = Sequence]
    /\ UNCHANGED <<word, buffer, sync, job, seen, block, stopCall, members, ghost>>

\* One load of sequence_and_flags decides: None, sleep, or register.
LoadState(r) ==
    /\ \/ /\ Sequence = seen[r]
          /\ Goto(r, "load", IF Stopped \/ ~block[r] THEN "idle" ELSE "sleep")
          /\ UNCHANGED snap
       \/ /\ Sequence # seen[r]
          /\ Writing
          /\ Goto(r, "load", "sleep")
          /\ UNCHANGED snap
       \/ /\ Sequence # seen[r]
          /\ ~Writing
          /\ Goto(r, "load", "register")
          /\ snap' = [snap EXCEPT ![r] = Sequence]
    /\ UNCHANGED <<word, buffer, sync, job, seen, block, stopCall, members, ghost>>

SleepReader(r) ==
    /\ WriterCv!Stale(r)
    /\ Goto(r, "sleep", "take")
    /\ UNCHANGED <<word, buffer, sync, locals, ghost>>

Register(r) ==
    /\ Goto(r, "register", "verify")
    /\ readers_state' = [readers_state EXCEPT !.active_readers = Inc16(@)]
    /\ UNCHANGED <<sequence_and_flags, buffer, sync, locals, ghost>>

\* Wrong variant: one half of the re-check is forgotten.
VerifyIgnoresWriting(r) ==
    /\ Goto(r, "verify", IF Sequence # snap[r] THEN "unregister" ELSE "guard")
    /\ UNCHANGED <<word, buffer, sync, locals, ghost>>

Verify(r) ==
    /\ Goto(r, "verify", IF Writing \/ Sequence # snap[r] THEN "unregister" ELSE "guard")
    /\ UNCHANGED <<word, buffer, sync, locals, ghost>>

\* Wrong variants: the retry does not notify; the retry counts as a read.
UnregisterSilent(r) ==
    /\ Goto(r, "unregister", "take")
    /\ readers_state' = [readers_state EXCEPT !.active_readers = Dec16(@)]
    /\ UNCHANGED <<sequence_and_flags, buffer, sync, locals, ghost>>

UnregisterConsumes(r) ==
    /\ Goto(r, "unregister", "retryNotify")
    /\ readers_state' = [readers_state EXCEPT
            !.active_readers = Dec16(@), !.data_consumed = Inc16(@)]
    /\ UNCHANGED <<sequence_and_flags, buffer, sync, locals, ghost>>

Unregister(r) ==
    /\ Goto(r, "unregister", "retryNotify")
    /\ readers_state' = [readers_state EXCEPT !.active_readers = Dec16(@)]
    /\ UNCHANGED <<sequence_and_flags, buffer, sync, locals, ghost>>

RetryNotify(r) ==
    /\ Goto(r, "retryNotify", "take")
    /\ ReaderDoneCv!NotifyAll
    /\ UNCHANGED <<word, buffer, writer_mutex, writer_condvar, locals, ghost>>

\* Wrong variant: the last reader to leave does not notify.
ReleaseSilent(r) ==
    /\ readers_state' = [readers_state EXCEPT
            !.active_readers = Dec16(@), !.data_consumed = Inc16(@)]
    /\ Goto(r, "guard", "idle")
    /\ seen' = [seen EXCEPT ![r] = snap[r]]
    /\ consumedBy' = consumedBy \cup {r}
    /\ UNCHANGED <<sequence_and_flags, buffer, sync, job, snap, block, stopCall,
                   members, published, discarded, unmarked>>

\* release_active_reader, called when the MessageReadGuard is dropped.
Release(r) ==
    /\ readers_state' = [readers_state EXCEPT
            !.active_readers = Dec16(@), !.data_consumed = Inc16(@)]
    /\ Goto(r, "guard",
            IF readers_state'.active_readers = 0 THEN "releaseNotify" ELSE "idle")
    /\ seen' = [seen EXCEPT ![r] = snap[r]]
    /\ consumedBy' = consumedBy \cup {r}
    /\ UNCHANGED <<sequence_and_flags, buffer, sync, job, snap, block, stopCall,
                   members, published, discarded, unmarked>>

ReleaseNotify(r) ==
    /\ Goto(r, "releaseNotify", "idle")
    /\ ReaderDoneCv!NotifyAll
    /\ UNCHANGED <<word, buffer, writer_mutex, writer_condvar, locals, ghost>>

----------------------------------------------------------------------------
(* add_reader and remove_reader; both panic, changing nothing, when the    *)
(* u16 count is at its limit.  A reader here is one handle: it registers   *)
(* when it is opened and unregisters for good when it is dropped.          *)

AddReader(r) ==
    /\ "join" \in Ops
    /\ pc[r] = "idle"
    /\ r \notin members
    /\ readers_state.consumers # U16Max
    /\ readers_state' = [readers_state EXCEPT !.consumers = @ + 1]
    /\ members' = members \cup {r}
    /\ UNCHANGED <<sequence_and_flags, buffer, sync, pc, job, seen, snap, block,
                   stopCall, ghost>>

RemoveReader(r) ==
    /\ "leave" \in Ops
    /\ Goto(r, "idle", "gone")
    /\ r \in members
    /\ readers_state.consumers # 0
    /\ readers_state' = [readers_state EXCEPT !.consumers = @ - 1]
    /\ members' = members \ {r}
    /\ UNCHANGED <<sequence_and_flags, buffer, sync, job, seen, snap, block,
                   stopCall, ghost>>

----------------------------------------------------------------------------
(* stop: one call, by a thread of its own.                                 *)

StopStep(from, to) ==
    /\ stopCall = from
    /\ stopCall' = to
    /\ UNCHANGED <<readers_state, buffer, writer_mutex, pc, job, seen, snap, block,
                   members, ghost>>

StopFlag ==
    /\ "stop" \in Ops
    /\ StopStep("none", "flagged")
    /\ sequence_and_flags' = [sequence_and_flags EXCEPT !.stopped = TRUE]
    /\ UNCHANGED <<writer_condvar, reader_done_condvar>>

\* Wrong variants: stop() raises the flag and wakes only one side.
StopNotifyReadersMissing ==
    /\ StopStep("flagged", "readersWoken")
    /\ UNCHANGED <<sequence_and_flags, writer_condvar, reader_done_condvar>>

StopNotifyWritersMissing ==
    /\ StopStep("readersWoken", "done")
    /\ UNCHANGED <<sequence_and_flags, writer_condvar, reader_done_condvar>>

StopNotifyReaders ==
    /\ StopStep("flagged", "readersWoken")
    /\ WriterCv!NotifyAll
    /\ UNCHANGED <<sequence_and_flags, reader_done_condvar>>

StopNotifyWriters ==
    /\ StopStep("readersWoken", "done")
    /\ ReaderDoneCv!NotifyAll
    /\ UNCHANGED <<sequence_and_flags, writer_condvar>>

----------------------------------------------------------------------------
\* A futex wait returns although the ticket is current (condvar.rs:17).
SpuriousWakeup(t) ==
    /\ pc[t] \in {"await", "drainWait", "sleep"}
    /\ pc' = [pc EXCEPT ![t] =
            CASE @ = "await"     -> "reticket"
              [] @ = "drainWait" -> "drainTicket"
              [] @ = "sleep"     -> "take"]
    /\ UNCHANGED <<word, buffer, sync, locals, ghost>>

\* The steps a thread takes by itself once it is inside a call.
WriterStep(w) ==
    \/ LockWriter(w) \/ Snapshot(w) \/ PolicyTicket(w) \/ PolicyStopped(w)
    \/ KickReaders(w) \/ AwaitConsumed(w) \/ PolicyReticket(w)
    \/ PolicyResnapshot(w) \/ MarkWriting(w) \/ DrainTicket(w)
    \/ DrainActive(w) \/ DrainStopped(w) \/ UnmarkWriting(w)
    \/ AwaitDrained(w) \/ BeginFill(w) \/ EndFill(w) \/ SlicePanic(w)
    \/ PublishTooLarge(w) \/ StoreSize(w) \/ ResetConsumed(w) \/ Publish(w) \/ NotifyReaders(w)
    \/ UnlockWriter(w) \/ LockTarget(w) \/ SetTarget(w)

ReaderStep(r) ==
    \/ ReadTicket(r) \/ LoadState(r) \/ SleepReader(r) \/ Register(r)
    \/ Verify(r) \/ Unregister(r) \/ RetryNotify(r) \/ Release(r)
    \/ ReleaseNotify(r)

WriterCall(w) == BeginWrite(w) \/ BeginSetTarget(w) \/ DropWriteGuard(w)
ReaderCall(r) == BeginRead(r) \/ AddReader(r) \/ RemoveReader(r)

Next ==
    \/ \E w \in Writers : WriterCall(w) \/ WriterStep(w)
    \/ \E r \in Readers : ReaderCall(r) \/ ReaderStep(r)
    \/ StopFlag \/ StopNotifyReaders \/ StopNotifyWriters
    \/ \E t \in Threads : SpuriousWakeup(t)

Spec == Init /\ [][Next]_vars

\* Every thread inside a call is scheduled; a client that holds a guard
\* eventually drops or publishes it.  Nobody is obliged to make a call.
Fairness ==
    /\ \A w \in Writers : WF_vars(WriterStep(w))
    /\ \A r \in Readers : WF_vars(ReaderStep(r))
    /\ WF_vars(StopNotifyReaders)
    /\ WF_vars(StopNotifyWriters)

FairSpec == Spec /\ Fairness

----------------------------------------------------------------------------
WriterPC ==
    {"idle", "lock", "snapshot", "ticket", "behind", "kick", "await", "reticket",
     "resnapshot", "mark", "drainTicket", "drain", "drainStopped", "drainWait",
     "unmark", "own", "filling", "filled", "reset", "publish", "notify", "unlock",
     "lockTarget", "setTarget"}
ReaderPC ==
    {"idle", "take", "load", "sleep", "register", "verify", "unregister",
     "retryNotify", "guard", "releaseNotify", "gone"}

PcOK ==
    /\ pc \in [Threads -> WriterPC \cup ReaderPC]
    /\ \A w \in Writers : pc[w] \in WriterPC
    /\ \A r \in Readers : pc[r] \in ReaderPC

\* Every field of the two packed words (packed.rs) stays within its bits, the
\* buffer holds a message or a partly copied one, and each thread is at a
\* step of the call it makes.
TypeOK ==
    /\ sequence_and_flags \in SequenceState
    /\ readers_state \in ReadersStateCount
    /\ data_size \in Payloads \cup {0}
    /\ data \in Payloads \cup {0, Mixed}
    /\ WriterMutex!TypeOK
    /\ writer_condvar \subseteq Readers
    /\ reader_done_condvar \subseteq Writers
    /\ PcOK
    /\ job \in [Writers -> Jobs]
    /\ seen \in [Readers -> 0..SequenceMask]
    /\ snap \in [Readers -> 0..SequenceMask]
    /\ block \in [Readers -> BOOLEAN]
    /\ stopCall \in {"none", "flagged", "readersWoken", "done"}
    /\ members \subseteq Readers
    /\ published \in Payloads \cup {0}
    /\ consumedBy \subseteq Readers
    /\ discarded \in BOOLEAN
    /\ unmarked \in BOOLEAN

Owning(w) == pc[w] \in {"own", "filling", "filled", "reset", "publish"}
PastPolicy(w) ==
    pc[w] \in {"mark", "drainTicket", "drain", "drainStopped", "drainWait", "unmark",
              "own", "filling", "filled", "reset", "publish"}
Draining(w) == pc[w] \in {"drainTicket", "drain", "drainStopped", "drainWait"}
Marked(w)   == Draining(w) \/ Owning(w) \/ pc[w] = "unmark"

\* WRITING_IN_PROGRESS was left up by a write that was dropped unpublished,
\* and nobody is at work on a write that would lower it.
LeftUp == Writing /\ discarded /\ \A w \in Writers : ~Marked(w)
InRead(r) ==
    pc[r] \in {"take", "load", "sleep", "register", "verify", "unregister", "retryNotify"}
Asleep(t, cv) == t \in cv /\ pc[t] \in {"await", "drainWait", "sleep"}

----------------------------------------------------------------------------
(* Safety.                                                                 *)

\* "The reference counting ensures no readers access this while being
\* written" (mod.rs:154): from the moment start_write hands the buffer to a
\* writer until publish_write swaps the sequence, no reader holds a guard.
ReadWriteExclusion ==
    \A w \in Writers, r \in Readers : Owning(w) => pc[r] # "guard"

\* What a MessageReadGuard shows (data_ref and its sequence) is exactly the
\* message last published, for as long as the guard lives, unless a write
\* was dropped unpublished and the message was stopped afterwards.
GuardIntegrity ==
    \A r \in Readers :
        pc[r] = "guard" /\ ~(Stopped /\ discarded) =>
            /\ snap[r] = Sequence
            /\ data = published
            /\ data_size = published

\* No wake-up of a reader is lost but in two cases: a reader asleep in read()
\* on a current ticket, with no publish about to notify it, has either an
\* unread message and a writer at work on the next one, or nothing to read and
\* no stop() that has notified.  In the two cases an unread message is before
\* it: its flag is that of an abandoned write (LeftUp), or was lowered without
\* a notification by a writer that gave up on stop (unmarked).
ReaderWakeup ==
    \A r \in Readers :
        Asleep(r, writer_condvar) /\ (\A w \in Writers : pc[w] # "notify") =>
            /\ Sequence # seen[r] => (\E w \in Writers : Marked(w)) \/ LeftUp \/ unmarked
            /\ Sequence = seen[r] /\ Stopped => stopCall = "flagged"

\* No wake-up of a draining writer is lost: asleep in the second loop of
\* start_write on a current ticket, it still has an active reader to wait
\* for or a reader about to notify it, and stop() is not yet through.
DrainWakeup ==
    \A w \in Writers :
        pc[w] = "drainWait" /\ Asleep(w, reader_done_condvar) =>
            /\ \/ readers_state.active_readers > 0
               \/ \E r \in Readers : pc[r] \in {"retryNotify", "releaseNotify"}
            /\ Stopped => stopCall \in {"flagged", "readersWoken"}

\* read(block = false) sleeps after all, on WRITING_IN_PROGRESS: asleep on a
\* current ticket it has a writer at work to wait for or one about to notify
\* it.  In two cases it has neither and may sleep for ever, although read is
\* documented not to block (rs_ipc.pyi:193, mod.rs:257): the flag is that of
\* an abandoned write, or its writer gave up on stop.
PollWaitsForWriter ==
    \A r \in Readers :
        ~block[r] /\ Asleep(r, writer_condvar) =>
            \/ \E w \in Writers : Marked(w) \/ pc[w] = "notify"
            \/ LeftUp
            \/ unmarked

\* A writer gets past the policy loop of start_write only when as many
\* different readers as the policy asks for are done with the previous
\* message: data_consumed counts no reader twice and no retry at all.
\* (With add_reader running later the policy may ask for more by then.)
PolicyRespected ==
    \A w \in Writers :
        PastPolicy(w) /\ Sequence > 0 => Cardinality(consumedBy) >= get_target_consumed

\* The message as its callers see it: the write takes effect when publish_write
\* swaps the sequence, the read when read() has its guard.
AbstractSlot == INSTANCE Slot WITH
    Messages <- Payloads,
    sequence <- Sequence,
    message  <- published,
    stopped  <- Stopped,
    writing  <- Writing,
    holding  <- {r \in Readers : pc[r] = "guard"},
    consumed <- Cardinality(consumedBy),
    need     <- get_target_consumed

\* SharedMessage implements Slot: for all its interleavings, writes and reads
\* look like single steps, no message is replaced under a reader or before
\* the reads the policy asks for, no reader gets a message twice or while a
\* write is announced, and a write that gives up does so on stop only.
ImplementsSlot == AbstractSlot!Spec

----------------------------------------------------------------------------
(* Liveness, under Fairness.                                               *)

\* A reader inside read() whose last_seen_seq is out of date gets a guard.
ReaderGetsMessage ==
    \A r \in Readers : InRead(r) /\ Sequence # seen[r] ~> pc[r] = "guard"

\* A writer that set WRITING_IN_PROGRESS gets the buffer or gives up on stop:
\* no reader keeps it in the second loop of start_write.
DrainCompletes ==
    \A w \in Writers : Draining(w) ~> pc[w] \in {"own", "unmark"}

\* stop() gets every writer out of its call, whatever it was waiting for.
StopReleasesWriters ==
    \A w \in Writers : stopCall = "done" ~> pc[w] = "idle"

\* stop() gets a reader that waits for new data out of read(), unless a write
\* that was already past its stop checks brings it some.
StopReleasesIdleReaders ==
    \A r \in Readers :
        stopCall = "done" /\ InRead(r) /\ Sequence = seen[r] ~>
            ~InRead(r) \/ Sequence # seen[r]

----------------------------------------------------------------------------
(* What a test says and the code does not do, checked in a run that is     *)
(* expected to fail.                                                       *)

\* tests.rs:188, "release_active_reader called, writer unblocked": a writer
\* asleep in the policy loop wakes once the policy is satisfied.
PolicyProgress ==
    \A w \in Writers : pc[w] = "await" /\ ~Behind ~> pc[w] # "await"
=============================================================================
