------------------------ MODULE SharedMessageProofs ------------------------
(***************************************************************************)
(* Proofs about SharedMessage, for any sets of writers and readers, any    *)
(* payloads and any widths of the packed words.                            *)
(***************************************************************************)
EXTENDS SharedMessage, FiniteSetTheorems, TLAPS

----------------------------------------------------------------------------
(* Types.                                                                  *)

LEMMA Inc16Type == ASSUME NEW n \in 0..U16Max PROVE Inc16(n) \in 0..U16Max
  BY WordAssumption DEF Inc16

LEMMA Dec16Type == ASSUME NEW n \in 0..U16Max PROVE Dec16(n) \in 0..U16Max
  BY WordAssumption DEF Dec16

LEMMA NextSequenceType == Sequence \in 0..SequenceMask => NextSequence \in 0..SequenceMask
  BY WordAssumption DEF NextSequence

LEMMA ZeroType == 0 \in 0..U16Max /\ 0 \in 0..SequenceMask
  BY WordAssumption

LEMMA InitType == Init => TypeOK
  <1> SUFFICES ASSUME Init PROVE TypeOK
    OBVIOUS
  <1>1. Cardinality(InitMembers) \in 0..U16Max
    BY FS_Subset, FS_CardinalityType, WordAssumption, ClientAssumption
  <1>2. readers_state \in ReadersStateCount
    BY <1>1, WordAssumption, ClientAssumption DEF Init, ReadersStateCount
  <1>3. sequence_and_flags \in SequenceState
    BY WordAssumption DEF Init, SequenceState
  <1>4. seen \in [Readers -> 0..SequenceMask] /\ snap \in [Readers -> 0..SequenceMask]
    BY WordAssumption DEF Init
  <1> QED
    BY <1>2, <1>3, <1>4, ClientAssumption
    DEF Init, TypeOK, Threads, PcOK, WriterPC, ReaderPC, Jobs, NoJob, WriterMutex!Init, WriterMutex!TypeOK

\* Where the calls and steps of each kind of thread may lead.
LEMMA WriterMoves ==
  ASSUME PcOK, NEW w \in Writers, NEW l \in WriterPC, pc' = [pc EXCEPT ![w] = l]
  PROVE  PcOK'
  BY ThreadsAssumption DEF PcOK, Threads

LEMMA ReaderMoves ==
  ASSUME PcOK, NEW r \in Readers, NEW l \in ReaderPC, pc' = [pc EXCEPT ![r] = l]
  PROVE  PcOK'
  BY ThreadsAssumption DEF PcOK, Threads

LEMMA WriterFrame ==
  ASSUME NEW w \in Writers, WriterCall(w) \/ WriterStep(w)
  PROVE  /\ \E l \in WriterPC : pc' = [pc EXCEPT ![w] = l]
         /\ UNCHANGED <<seen, snap, block, stopCall, members>>
  <1> USE DEF Goto, WriterPC, locals
  <1>1. CASE WriterCall(w)
    BY <1>1 DEF WriterCall, BeginWrite, BeginSetTarget, DropWriteGuard
  <1>2. CASE WriterStep(w)
    BY <1>2 DEF WriterStep, LockWriter, Snapshot, PolicyTicket, PolicyStopped,
       KickReaders, AwaitConsumed, PolicyReticket, PolicyResnapshot, MarkWriting,
       DrainTicket, DrainActive, DrainStopped, UnmarkWriting, AwaitDrained,
       BeginFill, EndFill, SlicePanic, PublishTooLarge, StoreSize, ResetConsumed,
       Publish, NotifyReaders, UnlockWriter, LockTarget, SetTarget
  <1> QED
    BY <1>1, <1>2

LEMMA ReaderFrame ==
  ASSUME NEW r \in Readers, ReaderCall(r) \/ ReaderStep(r), PcOK
  PROVE  /\ \E l \in ReaderPC : pc' = [pc EXCEPT ![r] = l]
         /\ UNCHANGED <<sequence_and_flags, data_size, data, writer_mutex, job,
                        stopCall, published, discarded, unmarked>>
  <1> USE DEF Goto, ReaderPC, word, buffer, sync, locals, ghost
  <1>1. CASE BeginRead(r)
    BY <1>1 DEF BeginRead
  <1>2. CASE AddReader(r) \/ RemoveReader(r)
    BY <1>2, ThreadsAssumption DEF AddReader, RemoveReader, PcOK, Threads
  <1>3. CASE ReaderStep(r)
    BY <1>3 DEF ReaderStep, ReadTicket, LoadState, SleepReader, Register, Verify,
       Unregister, RetryNotify, Release, ReleaseNotify
  <1> QED
    BY <1>1, <1>2, <1>3 DEF ReaderCall

\* The packed words keep their ranges when one field is replaced.
LEMMA WordUpdates ==
  ASSUME sequence_and_flags \in SequenceState, readers_state \in ReadersStateCount
  PROVE  /\ Sequence \in 0..SequenceMask
         /\ \A b \in BOOLEAN :
              /\ [sequence_and_flags EXCEPT !.writing_in_progress = b] \in SequenceState
              /\ [sequence_and_flags EXCEPT !.stopped = b] \in SequenceState
         /\ \A n \in 0..U16Max :
              /\ [readers_state EXCEPT !.target_read = n] \in ReadersStateCount
              /\ [readers_state EXCEPT !.consumers = n] \in ReadersStateCount
              /\ [readers_state EXCEPT !.active_readers = n] \in ReadersStateCount
              /\ [readers_state EXCEPT !.data_consumed = n] \in ReadersStateCount
         /\ \A m, n \in 0..U16Max :
              [readers_state EXCEPT !.active_readers = m, !.data_consumed = n]
                \in ReadersStateCount
         /\ \A n \in 0..SequenceMask, b \in BOOLEAN :
              [sequence_and_flags EXCEPT !.sequence = n, !.writing_in_progress = b]
                \in SequenceState
         /\ readers_state.target_read \in 0..U16Max
         /\ readers_state.consumers \in 0..U16Max
         /\ readers_state.active_readers \in 0..U16Max
         /\ readers_state.data_consumed \in 0..U16Max
  BY DEF SequenceState, ReadersStateCount, Sequence

LEMMA WriterType ==
  ASSUME TypeOK, NEW w \in Writers, WriterCall(w) \/ WriterStep(w) PROVE TypeOK'
  <1>pc. PcOK'
    BY WriterFrame, WriterMoves DEF TypeOK
  <1>frame. UNCHANGED <<seen, snap, block, stopCall, members>>
    BY WriterFrame
  <1>word. sequence_and_flags' \in SequenceState /\ readers_state' \in ReadersStateCount
    <2> USE DEF TypeOK, word
    <2>1. CASE Publish(w)
      BY <2>1, WordUpdates, NextSequenceType DEF Publish
    <2>2. CASE MarkWriting(w) \/ UnmarkWriting(w)
      BY <2>2, WordUpdates DEF MarkWriting, UnmarkWriting
    <2>3. CASE ResetConsumed(w)
      BY <2>3, WordUpdates, ZeroType DEF ResetConsumed
    <2>4. CASE SetTarget(w)
      BY <2>4, WordUpdates, ClientAssumption DEF SetTarget
    <2>5. ASSUME ~Publish(w), ~MarkWriting(w), ~UnmarkWriting(w), ~ResetConsumed(w),
                 ~SetTarget(w)
          PROVE  UNCHANGED <<sequence_and_flags, readers_state>>
      BY <2>5 DEF WriterCall, WriterStep, BeginWrite, BeginSetTarget, DropWriteGuard,
         LockWriter, Snapshot, PolicyTicket, PolicyStopped, KickReaders, AwaitConsumed,
         PolicyReticket, PolicyResnapshot, DrainTicket, DrainActive, DrainStopped,
         AwaitDrained, BeginFill, EndFill, SlicePanic, PublishTooLarge, StoreSize,
         NotifyReaders, UnlockWriter, LockTarget
    <2> QED
      BY <2>1, <2>2, <2>3, <2>4, <2>5
  <1>rest. /\ data_size' \in Payloads \cup {0}
           /\ data' \in Payloads \cup {0, Mixed}
           /\ (WriterMutex!TypeOK)'
           /\ writer_condvar' \subseteq Readers
           /\ reader_done_condvar' \subseteq Writers
           /\ job' \in [Writers -> Jobs]
           /\ published' \in Payloads \cup {0}
           /\ consumedBy' \subseteq Readers
           /\ discarded' \in BOOLEAN /\ unmarked' \in BOOLEAN
    <2> USE DEF TypeOK, buffer, sync, locals, ghost
    <2>1. CASE BeginWrite(w)
      BY <2>1 DEF BeginWrite, Jobs, WriterMutex!TypeOK
    <2>2. CASE BeginSetTarget(w) \/ DropWriteGuard(w)
      BY <2>2 DEF BeginSetTarget, DropWriteGuard, WriterMutex!TypeOK
    <2>3. CASE LockWriter(w) \/ LockTarget(w)
      BY <2>3 DEF LockWriter, LockTarget, WriterMutex!TypeOK, WriterMutex!Lock, Threads
    <2>4. CASE UnlockWriter(w)
      BY <2>4 DEF UnlockWriter, WriterMutex!TypeOK, WriterMutex!Unlock, Jobs, NoJob
    <2>5. CASE PolicyTicket(w) \/ PolicyReticket(w) \/ DrainTicket(w)
      BY <2>5 DEF PolicyTicket, PolicyReticket, DrainTicket, WriterMutex!TypeOK,
         ReaderDoneCv!Value
    <2>6. CASE KickReaders(w) \/ NotifyReaders(w)
      BY <2>6 DEF KickReaders, NotifyReaders, WriterMutex!TypeOK, WriterCv!NotifyAll
    <2>7. CASE BeginFill(w) \/ EndFill(w) \/ StoreSize(w) \/ Publish(w)
      <3>1. job[w].payload \in Payloads \cup {0}
        BY DEF Jobs
      <3> QED
        BY <2>7, <3>1 DEF BeginFill, EndFill, StoreSize, Publish, WriterMutex!TypeOK
    <2>8. CASE SlicePanic(w) \/ PublishTooLarge(w) \/ ResetConsumed(w)
      BY <2>8 DEF SlicePanic, PublishTooLarge, ResetConsumed, WriterMutex!TypeOK
    <2>9. CASE \/ Snapshot(w) \/ PolicyStopped(w) \/ AwaitConsumed(w)
               \/ PolicyResnapshot(w) \/ MarkWriting(w) \/ DrainActive(w)
               \/ DrainStopped(w) \/ UnmarkWriting(w) \/ AwaitDrained(w) \/ SetTarget(w)
      BY <2>9 DEF Snapshot, PolicyStopped, AwaitConsumed, PolicyResnapshot, MarkWriting,
         DrainActive, DrainStopped, UnmarkWriting, AwaitDrained, SetTarget,
         WriterMutex!TypeOK
    <2> QED
      BY <2>1, <2>2, <2>3, <2>4, <2>5, <2>6, <2>7, <2>8, <2>9 DEF WriterCall, WriterStep
  <1> QED
    BY <1>pc, <1>frame, <1>word, <1>rest DEF TypeOK

LEMMA ReaderType ==
  ASSUME TypeOK, NEW r \in Readers, ReaderCall(r) \/ ReaderStep(r) PROVE TypeOK'
  <1>pc. PcOK'
    BY ReaderFrame, ReaderMoves DEF TypeOK
  <1>frame. UNCHANGED <<sequence_and_flags, data_size, data, writer_mutex, job,
                        stopCall, published, discarded, unmarked>>
    BY ReaderFrame DEF TypeOK
  <1>word. readers_state' \in ReadersStateCount
    <2> USE DEF TypeOK, word
    <2>1. CASE Register(r) \/ Unregister(r)
      BY <2>1, WordUpdates, Inc16Type, Dec16Type DEF Register, Unregister
    <2>2. CASE Release(r)
      BY <2>2, WordUpdates, Inc16Type, Dec16Type DEF Release
    <2>3. CASE AddReader(r)
      <3>1. readers_state.consumers \in 0..U16Max
        BY WordUpdates
      <3>2. readers_state.consumers + 1 \in 0..U16Max
        BY <2>3, <3>1, WordAssumption DEF AddReader
      <3> QED
        BY <2>3, <3>2, WordUpdates DEF AddReader
    <2>4. CASE RemoveReader(r)
      <3>1. readers_state.consumers \in 0..U16Max
        BY WordUpdates
      <3>2. readers_state.consumers - 1 \in 0..U16Max
        BY <2>4, <3>1, WordAssumption DEF RemoveReader
      <3> QED
        BY <2>4, <3>2, WordUpdates DEF RemoveReader
    <2>5. ASSUME ~Register(r), ~Unregister(r), ~Release(r), ~AddReader(r), ~RemoveReader(r)
          PROVE  UNCHANGED readers_state
      BY <2>5 DEF ReaderCall, ReaderStep, BeginRead, ReadTicket, LoadState, SleepReader,
         Verify, RetryNotify, ReleaseNotify
    <2> QED
      BY <2>1, <2>2, <2>3, <2>4, <2>5
  <1>rest. /\ writer_condvar' \subseteq Readers
           /\ reader_done_condvar' \subseteq Writers
           /\ seen' \in [Readers -> 0..SequenceMask]
           /\ snap' \in [Readers -> 0..SequenceMask]
           /\ block' \in [Readers -> BOOLEAN]
           /\ members' \subseteq Readers
           /\ consumedBy' \subseteq Readers
    <2> USE DEF TypeOK, sync, locals, ghost, WriterCv!Value, ReaderDoneCv!NotifyAll
    <2>1. CASE ReaderCall(r)
      BY <2>1, ZeroType DEF ReaderCall, BeginRead, AddReader, RemoveReader
    <2>2. CASE ReaderStep(r)
      BY <2>2, WordUpdates DEF ReaderStep, ReadTicket, LoadState, SleepReader, Register,
         Verify, Unregister, RetryNotify, Release, ReleaseNotify
    <2> QED
      BY <2>1, <2>2
  <1> QED
    BY <1>pc, <1>frame, <1>word, <1>rest DEF TypeOK, WriterMutex!TypeOK

StopSteps == StopFlag \/ StopNotifyReaders \/ StopNotifyWriters

LEMMA StopFrame ==
  ASSUME StopSteps
  PROVE  UNCHANGED <<readers_state, data_size, data, writer_mutex, pc, job, seen, snap,
                     block, members, published, consumedBy, discarded, unmarked>>
  BY DEF StopSteps, StopFlag, StopNotifyReaders, StopNotifyWriters, StopStep, buffer, ghost

LEMMA SpuriousFrame ==
  ASSUME PcOK, NEW t \in Threads, SpuriousWakeup(t)
  PROVE  /\ PcOK'
         /\ \/ pc[t] = "await" /\ pc' = [pc EXCEPT ![t] = "reticket"]
            \/ pc[t] = "drainWait" /\ pc' = [pc EXCEPT ![t] = "drainTicket"]
            \/ pc[t] = "sleep" /\ pc' = [pc EXCEPT ![t] = "take"]
         /\ UNCHANGED <<word, buffer, sync, locals, ghost>>
  BY ThreadsAssumption DEF SpuriousWakeup, PcOK, Threads, WriterPC, ReaderPC

LEMMA StepType == TypeOK /\ [Next]_vars => TypeOK'
  <1> SUFFICES ASSUME TypeOK, [Next]_vars PROVE TypeOK'
    OBVIOUS
  <1>1. CASE StopSteps
    BY <1>1, StopFrame, WordUpdates
    DEF TypeOK, PcOK, StopSteps, StopFlag, StopNotifyReaders, StopNotifyWriters,
        StopStep, WriterCv!NotifyAll, ReaderDoneCv!NotifyAll, WriterMutex!TypeOK
  <1>2. ASSUME NEW t \in Threads, SpuriousWakeup(t) PROVE TypeOK'
    BY <1>2, SpuriousFrame
    DEF TypeOK, word, buffer, sync, locals, ghost, WriterMutex!TypeOK
  <1>3. CASE UNCHANGED vars
    BY <1>3
    DEF vars, TypeOK, PcOK, word, buffer, sync, locals, ghost, WriterMutex!TypeOK
  <1> QED
    BY <1>1, <1>2, <1>3, WriterType, ReaderType DEF Next, StopSteps

\* Every field of the packed words stays within its bits and every thread
\* stays at a step of its call, for any number of threads.
THEOREM SharedMessageTypes == Spec => []TypeOK
  BY InitType, StepType, PTL DEF Spec
----------------------------------------------------------------------------
(* Writers exclude each other, and a writer that owns the buffer excludes  *)
(* every reader.                                                           *)

\* A writer between lock() and the drop of the guard.
Holding(w) == pc[w] \notin {"idle", "lock", "lockTarget"}

\* Readers counted in active_readers.
Registered == {r \in Readers : pc[r] \in {"verify", "unregister", "guard"}}

WriterHolds   == \A w \in Writers : Holding(w) => writer_mutex = w
MarkedWriting == \A w \in Writers : Marked(w) => Writing
ActiveCount   == readers_state.active_readers = Cardinality(Registered)

\* ReadWriteExclusion needs the count to be exact and the flag to be up while
\* the writer owns the buffer: a writer gets it with no reader registered, a
\* reader gets its guard with the flag down.
ExclusionInv ==
    /\ TypeOK
    /\ WriterHolds
    /\ MarkedWriting
    /\ ActiveCount
    /\ ReadWriteExclusion

LEMMA OneHolder ==
  ASSUME WriterHolds, NEW v \in Writers, NEW w \in Writers, Holding(v), Holding(w)
  PROVE  v = w
  BY DEF WriterHolds

LEMMA MarkedHolding == \A w \in Writers : Marked(w) => Holding(w)
  BY DEF Marked, Holding, Draining, Owning

LEMMA ReadersSubset ==
  ASSUME NEW S \in SUBSET Readers
  PROVE  IsFiniteSet(S) /\ Cardinality(S) \in 0..U16Max
  BY FS_Subset, FS_CardinalityType, WordAssumption

\* A move of one thread leaves the others where they are.
LEMMA Others ==
  ASSUME PcOK, NEW t \in Threads, NEW l, pc' = [pc EXCEPT ![t] = l]
  PROVE  /\ pc'[t] = l
         /\ \A u \in Threads : u # t => pc'[u] = pc[u]
  BY DEF PcOK

LEMMA WriterKeepsRegistered ==
  ASSUME PcOK, NEW w \in Writers, NEW l, pc' = [pc EXCEPT ![w] = l]
  PROVE  Registered' = Registered
  BY Others, ThreadsAssumption DEF Registered, Threads

\* The writer mutex: only its holder moves past lock().
LEMMA StepWriterHolds == TypeOK /\ WriterHolds /\ [Next]_vars => WriterHolds'
  <1> SUFFICES ASSUME TypeOK, WriterHolds, [Next]_vars PROVE WriterHolds'
    OBVIOUS
  <1> USE DEF TypeOK, WriterHolds, Holding
  <1>1. ASSUME NEW w \in Writers, WriterCall(w) \/ WriterStep(w) PROVE WriterHolds'
    <2>1. CASE LockWriter(w) \/ LockTarget(w)
      BY <2>1, Others, ThreadsAssumption
      DEF LockWriter, LockTarget, Goto, WriterMutex!Lock, Threads
    <2>2. CASE UnlockWriter(w)
      BY <2>2, Others DEF UnlockWriter, Goto, WriterMutex!Unlock, Threads
    <2>3. CASE BeginWrite(w) \/ BeginSetTarget(w)
      <3>1. /\ pc' = [pc EXCEPT ![w] = "lock"] \/ pc' = [pc EXCEPT ![w] = "lockTarget"]
            /\ UNCHANGED writer_mutex
        BY <2>3 DEF BeginWrite, BeginSetTarget, Goto, sync
      <3> QED
        BY <3>1, Others DEF Threads
    <2>4. ASSUME ~LockWriter(w), ~LockTarget(w), ~UnlockWriter(w), ~BeginWrite(w),
                 ~BeginSetTarget(w)
          PROVE  Holding(w) /\ UNCHANGED writer_mutex
      BY <1>1, <2>4 DEF WriterCall, WriterStep, DropWriteGuard, Snapshot, PolicyTicket,
         PolicyStopped, KickReaders, AwaitConsumed, PolicyReticket, PolicyResnapshot,
         MarkWriting, DrainTicket, DrainActive, DrainStopped, UnmarkWriting,
         AwaitDrained, BeginFill, EndFill, SlicePanic, PublishTooLarge, StoreSize,
         ResetConsumed, Publish, NotifyReaders, SetTarget, Goto, sync
    <2>5. \A v \in Writers \ {w} : pc'[v] = pc[v]
      BY <1>1, WriterFrame, Others DEF Threads
    <2> QED
      BY <2>1, <2>2, <2>3, <2>4, <2>5
  <1>2. ASSUME NEW r \in Readers, ReaderCall(r) \/ ReaderStep(r) PROVE WriterHolds'
    BY SMTT(30), <1>2, ReaderFrame, Others, ThreadsAssumption DEF Threads
  <1>3. CASE StopSteps
    BY <1>3, StopFrame
  <1>4. ASSUME NEW t \in Threads, SpuriousWakeup(t) PROVE WriterHolds'
    BY SMTT(30), <1>4, SpuriousFrame, Others DEF Threads, sync
  <1>5. CASE UNCHANGED vars
    BY <1>5 DEF vars, sync
  <1> QED
    BY <1>1, <1>2, <1>3, <1>4, <1>5 DEF Next, StopSteps

\* Which steps change WRITING_IN_PROGRESS and the sequence.
LEMMA WriterKeepsFlags ==
  ASSUME NEW w \in Writers, WriterCall(w) \/ WriterStep(w),
         ~MarkWriting(w), ~UnmarkWriting(w), ~Publish(w)
  PROVE  UNCHANGED sequence_and_flags
  BY DEF WriterCall, WriterStep, BeginWrite, BeginSetTarget, DropWriteGuard,
     LockWriter, Snapshot, PolicyTicket, PolicyStopped, KickReaders, AwaitConsumed,
     PolicyReticket, PolicyResnapshot, DrainTicket, DrainActive, DrainStopped,
     AwaitDrained, BeginFill, EndFill, SlicePanic, PublishTooLarge, StoreSize,
     ResetConsumed, NotifyReaders, UnlockWriter, LockTarget, SetTarget, word

LEMMA StopKeepsWriting ==
  ASSUME TypeOK, StopSteps
  PROVE  Writing' = Writing /\ Sequence' = Sequence /\ (Stopped => Stopped')
  BY DEF TypeOK, SequenceState, StopSteps, StopFlag, StopNotifyReaders, StopNotifyWriters,
     Writing, Sequence, Stopped

LEMMA StepMarkedWriting ==
  TypeOK /\ WriterHolds /\ MarkedWriting /\ [Next]_vars => MarkedWriting'
  <1> SUFFICES ASSUME TypeOK, WriterHolds, MarkedWriting, [Next]_vars PROVE MarkedWriting'
    OBVIOUS
  <1> USE DEF TypeOK, MarkedWriting, Marked, Draining, Owning, Writing
  <1>1. ASSUME NEW w \in Writers, WriterCall(w) \/ WriterStep(w) PROVE MarkedWriting'
    <2>1. CASE MarkWriting(w)
      BY <2>1 DEF MarkWriting, SequenceState
    <2>2. CASE UnmarkWriting(w) \/ Publish(w)
      <3>0. pc[w] \in {"unmark", "publish"} /\ pc'[w] \in {"unlock", "notify"}
        BY <2>2, Others DEF UnmarkWriting, Publish, Goto, Threads
      <3>1. Holding(w) /\ ~Marked(w)' /\ \A v \in Writers \ {w} : pc'[v] = pc[v]
        BY <1>1, <3>0, WriterFrame, Others DEF Holding, Threads
      <3>2. \A v \in Writers \ {w} : ~Marked(v)
        BY <3>1, OneHolder, MarkedHolding
      <3> QED
        BY <3>1, <3>2
    <2>3. ASSUME ~MarkWriting(w), ~UnmarkWriting(w), ~Publish(w)
          PROVE  Marked(w)' => Marked(w)
      <3>0. ASSUME NEW l, pc' = [pc EXCEPT ![w] = l],
                   l \in {"lock", "snapshot", "ticket", "behind", "kick", "await", "reticket",
                          "resnapshot", "mark", "lockTarget", "setTarget", "unlock", "idle"}
            PROVE  ~Marked(w)'
        BY <3>0, Others DEF Threads
      <3> USE DEF Goto
      <3>1. CASE \/ BeginWrite(w) \/ BeginSetTarget(w) \/ DropWriteGuard(w) \/ LockWriter(w)
        BY <3>0, <3>1 DEF BeginWrite, BeginSetTarget, DropWriteGuard, LockWriter
      <3>4. CASE Snapshot(w) \/ PolicyTicket(w) \/ PolicyStopped(w) \/ KickReaders(w)
        BY <3>0, <3>4 DEF Snapshot, PolicyTicket, PolicyStopped, KickReaders
      <3>5. CASE AwaitConsumed(w) \/ PolicyReticket(w) \/ PolicyResnapshot(w)
        BY <3>0, <3>5 DEF AwaitConsumed, PolicyReticket, PolicyResnapshot
      <3>2. CASE \/ SlicePanic(w) \/ PublishTooLarge(w) \/ NotifyReaders(w)
                 \/ UnlockWriter(w) \/ LockTarget(w) \/ SetTarget(w)
        BY <3>0, <3>2 DEF SlicePanic, PublishTooLarge, NotifyReaders, UnlockWriter,
           LockTarget, SetTarget
      <3>3. CASE \/ DrainTicket(w) \/ DrainActive(w) \/ DrainStopped(w) \/ AwaitDrained(w)
                 \/ BeginFill(w) \/ EndFill(w) \/ StoreSize(w) \/ ResetConsumed(w)
        BY <3>3 DEF DrainTicket, DrainActive, DrainStopped, AwaitDrained, BeginFill, EndFill,
           StoreSize, ResetConsumed
      <3> QED
        BY <1>1, <2>3, <3>1, <3>2, <3>3, <3>4, <3>5 DEF WriterCall, WriterStep
    <2>4. \A v \in Writers \ {w} : pc'[v] = pc[v]
      BY <1>1, WriterFrame, Others DEF Threads
    <2> QED
      <3>1. ASSUME ~MarkWriting(w), ~UnmarkWriting(w), ~Publish(w) PROVE MarkedWriting'
        <4>1. UNCHANGED sequence_and_flags
          BY <1>1, <3>1, WriterKeepsFlags
        <4> QED
          BY <2>3, <2>4, <3>1, <4>1
      <3> QED
        BY <2>1, <2>2, <3>1
  <1>2. ASSUME NEW r \in Readers, ReaderCall(r) \/ ReaderStep(r) PROVE MarkedWriting'
    <2>1. UNCHANGED sequence_and_flags /\ \A w \in Writers : pc'[w] = pc[w]
      BY <1>2, ReaderFrame, Others, ThreadsAssumption DEF Threads
    <2> QED
      BY <2>1
  <1>3. CASE StopSteps
    BY <1>3, StopFrame, StopKeepsWriting
  <1>4. ASSUME NEW t \in Threads, SpuriousWakeup(t) PROVE MarkedWriting'
    <2>1. /\ UNCHANGED sequence_and_flags
          /\ \A u \in Threads : \/ pc'[u] = pc[u]
                               \/ pc[u] = "drainWait"
                               \/ pc'[u] \in {"reticket", "take"}
      BY <1>4, SpuriousFrame, Others DEF word
    <2> QED
      BY <2>1 DEF Threads
  <1>5. CASE UNCHANGED vars
    BY <1>5 DEF vars, word
  <1> QED
    BY <1>1, <1>2, <1>3, <1>4, <1>5 DEF Next, StopSteps

\* Only register, unregister and release touch active_readers.
LEMMA WriterKeepsActive ==
  ASSUME TypeOK, NEW w \in Writers, WriterCall(w) \/ WriterStep(w)
  PROVE  readers_state'.active_readers = readers_state.active_readers
  <1>1. CASE ResetConsumed(w)
    BY <1>1 DEF ResetConsumed, TypeOK, ReadersStateCount
  <1>2. CASE SetTarget(w)
    BY <1>2 DEF SetTarget, TypeOK, ReadersStateCount
  <1>3. ASSUME ~ResetConsumed(w), ~SetTarget(w) PROVE UNCHANGED readers_state
    BY <1>3 DEF WriterCall, WriterStep, BeginWrite, BeginSetTarget, DropWriteGuard,
       LockWriter, Snapshot, PolicyTicket, PolicyStopped, KickReaders, AwaitConsumed,
       PolicyReticket, PolicyResnapshot, MarkWriting, DrainTicket, DrainActive,
       DrainStopped, UnmarkWriting, AwaitDrained, BeginFill, EndFill, SlicePanic,
       PublishTooLarge, StoreSize, Publish, NotifyReaders, UnlockWriter, LockTarget, word
  <1> QED
    BY <1>1, <1>2, <1>3

\* The count is exact: the u16 field neither wraps nor misses a reader.
LEMMA StepActiveCount == TypeOK /\ ActiveCount /\ [Next]_vars => ActiveCount'
  <1> SUFFICES ASSUME TypeOK, ActiveCount, [Next]_vars PROVE ActiveCount'
    OBVIOUS
  <1>t. PcOK /\ readers_state \in ReadersStateCount
    BY DEF TypeOK
  <1>c. /\ IsFiniteSet(Registered)
        /\ Cardinality(Registered) \in 0..U16Max
        /\ readers_state.active_readers = Cardinality(Registered)
    BY ReadersSubset DEF Registered, ActiveCount
  <1>1. ASSUME NEW w \in Writers, WriterCall(w) \/ WriterStep(w) PROVE ActiveCount'
    BY <1>1, <1>t, WriterFrame, WriterKeepsRegistered, WriterKeepsActive DEF ActiveCount
  <1>2. ASSUME NEW r \in Readers, ReaderCall(r) \/ ReaderStep(r) PROVE ActiveCount'
    <2>1. CASE Register(r)
      <3>1. pc[r] = "register" /\ pc' = [pc EXCEPT ![r] = "verify"]
        BY <2>1 DEF Register, Goto
      <3>2. r \notin Registered /\ Registered' = Registered \cup {r}
        BY <1>t, <3>1, Others, ThreadsAssumption DEF Registered, Threads
      <3>3. /\ Cardinality(Registered') = Cardinality(Registered) + 1
            /\ Cardinality(Registered') \in 0..U16Max
        BY <1>c, <3>2, FS_AddElement, ReadersSubset DEF Registered
      <3>4. Inc16(readers_state.active_readers) = readers_state.active_readers + 1
        BY <1>c, <3>3, WordAssumption DEF Inc16
      <3>5. readers_state'.active_readers = Inc16(readers_state.active_readers)
        BY <1>t, <2>1 DEF Register, ReadersStateCount
      <3> QED
        BY <1>c, <3>3, <3>4, <3>5 DEF ActiveCount
    <2>2. CASE Unregister(r) \/ Release(r)
      <3>1. /\ pc[r] \in {"unregister", "guard"}
            /\ \E l \in {"retryNotify", "releaseNotify", "idle"} : pc' = [pc EXCEPT ![r] = l]
        BY <2>2 DEF Unregister, Release, Goto
      <3>2. r \in Registered /\ Registered' = Registered \ {r}
        BY <1>t, <3>1, Others, ThreadsAssumption DEF Registered, Threads
      <3>3. /\ Cardinality(Registered') = Cardinality(Registered) - 1
            /\ Cardinality(Registered') \in 0..U16Max
        BY <1>c, <3>2, FS_RemoveElement, ReadersSubset DEF Registered
      <3>4. Dec16(readers_state.active_readers) = readers_state.active_readers - 1
        BY <1>c, <3>3, WordAssumption DEF Dec16
      <3>5. readers_state'.active_readers = Dec16(readers_state.active_readers)
        BY <1>t, <2>2 DEF Unregister, Release, ReadersStateCount
      <3> QED
        BY <1>c, <3>3, <3>4, <3>5 DEF ActiveCount
    <2>3. ASSUME ~Register(r), ~Unregister(r), ~Release(r)
          PROVE  /\ readers_state'.active_readers = readers_state.active_readers
                 /\ r \in Registered' <=> r \in Registered
      <3>1. CASE AddReader(r) \/ RemoveReader(r)
        BY <1>t, <3>1, Others DEF AddReader, RemoveReader, ReadersStateCount, Registered,
           Goto, Threads
      <3>2. CASE BeginRead(r)
        BY <1>t, <3>2, Others DEF BeginRead, Goto, Registered, word, Threads
      <3>3. CASE ReaderStep(r)
        BY <1>t, <2>3, <3>3, Others DEF ReaderStep, ReadTicket, LoadState, SleepReader,
           Verify, RetryNotify, ReleaseNotify, Goto, Registered, word, Threads
      <3> QED
        BY <1>2, <3>1, <3>2, <3>3 DEF ReaderCall
    <2>4. \A s \in Readers \ {r} : s \in Registered' <=> s \in Registered
      BY <1>2, <1>t, ReaderFrame, Others DEF Registered, Threads
    <2>5. ASSUME ~Register(r), ~Unregister(r), ~Release(r) PROVE Registered' = Registered
      BY <2>3, <2>4, <2>5 DEF Registered
    <2> QED
      BY <2>1, <2>2, <2>3, <2>5 DEF ActiveCount
  <1>3. CASE StopSteps
    BY <1>3, StopFrame DEF ActiveCount, Registered
  <1>4. ASSUME NEW t \in Threads, SpuriousWakeup(t) PROVE ActiveCount'
    <2>1. Registered' = Registered /\ UNCHANGED readers_state
      BY <1>t, <1>4, SpuriousFrame, Others DEF Registered, Threads, word
    <2> QED
      BY <2>1 DEF ActiveCount
  <1>5. CASE UNCHANGED vars
    BY <1>5 DEF vars, word, ActiveCount, Registered
  <1> QED
    BY <1>1, <1>2, <1>3, <1>4, <1>5 DEF Next, StopSteps

\* The two steps that could bring a writer and a reader together each look
\* at what the other has done before: the writer at active_readers with its
\* flag up, the reader at the flag with its registration counted.
LEMMA StepExclusion == ExclusionInv /\ [Next]_vars => ReadWriteExclusion'
  <1> SUFFICES ASSUME ExclusionInv, [Next]_vars PROVE ReadWriteExclusion'
    OBVIOUS
  <1>t. PcOK
    BY DEF ExclusionInv, TypeOK
  <1> USE DEF ReadWriteExclusion, Owning
  <1>1. ASSUME NEW w \in Writers, WriterCall(w) \/ WriterStep(w) PROVE ReadWriteExclusion'
    <2>1. \A u \in Threads \ {w} : pc'[u] = pc[u]
      BY <1>t, <1>1, WriterFrame, Others DEF Threads
    <2>2. CASE DrainActive(w) /\ readers_state.active_readers = 0
      <3>1. Registered = {}
        BY <2>2, ReadersSubset, FS_EmptySet DEF ExclusionInv, ActiveCount, Registered
      <3>2. \A r \in Readers : pc[r] # "guard"
        BY <3>1 DEF Registered
      <3> QED
        BY <2>1, <3>2, ThreadsAssumption DEF Threads
    <2>3. ASSUME ~(DrainActive(w) /\ readers_state.active_readers = 0)
          PROVE  Owning(w)' => Owning(w)
      <3>1. CASE DrainActive(w)
        <4>0. readers_state.active_readers \in 0..U16Max
          BY WordUpdates DEF ExclusionInv, TypeOK
        <4>1. readers_state.active_readers > 0
          BY <2>3, <3>1, <4>0, WordAssumption
        <4> QED
          BY <1>t, <3>1, <4>1, Others DEF DrainActive, Goto, Threads
      <3>2. CASE ~DrainActive(w)
        BY <1>t, <1>1, <3>2, Others DEF WriterCall, WriterStep, BeginWrite, BeginSetTarget,
           DropWriteGuard, LockWriter, Snapshot, PolicyTicket, PolicyStopped, KickReaders,
           AwaitConsumed, PolicyReticket, PolicyResnapshot, MarkWriting, DrainTicket,
           DrainStopped, UnmarkWriting, AwaitDrained, BeginFill, EndFill, SlicePanic,
           PublishTooLarge, StoreSize, ResetConsumed, Publish, NotifyReaders,
           UnlockWriter, LockTarget, SetTarget, Goto, Threads
      <3> QED
        BY <3>1, <3>2
    <2> QED
      BY <2>1, <2>2, <2>3, ThreadsAssumption DEF ExclusionInv, Threads
  <1>2. ASSUME NEW r \in Readers, ReaderCall(r) \/ ReaderStep(r) PROVE ReadWriteExclusion'
    <2>1. \A u \in Threads \ {r} : pc'[u] = pc[u]
      BY <1>t, <1>2, ReaderFrame, Others DEF Threads
    <2>2. CASE Verify(r) /\ ~Writing
      <3>1. \A w \in Writers : ~Owning(w)
        BY <2>2 DEF ExclusionInv, MarkedWriting, Marked
      <3> QED
        BY <2>1, <3>1, ThreadsAssumption DEF Threads
    <2>3. ASSUME ~(Verify(r) /\ ~Writing) PROVE pc'[r] = "guard" => pc[r] = "guard"
      <3>1. CASE BeginRead(r) \/ RemoveReader(r)
        <4>1. pc' = [pc EXCEPT ![r] = "take"] \/ pc' = [pc EXCEPT ![r] = "gone"]
          BY <3>1 DEF BeginRead, RemoveReader, Goto
        <4> QED
          BY <1>t, <4>1, Others DEF Threads
      <3>2. CASE AddReader(r)
        BY <3>2 DEF AddReader
      <3>3. CASE ReadTicket(r) \/ LoadState(r) \/ SleepReader(r) \/ Register(r)
        BY <1>t, <3>3, Others DEF ReadTicket, LoadState, SleepReader, Register, Goto,
           Threads
      <3>4. CASE Verify(r)
        BY <1>t, <2>3, <3>4, Others DEF Verify, Goto, Threads
      <3>5. CASE Unregister(r) \/ RetryNotify(r) \/ Release(r) \/ ReleaseNotify(r)
        BY <1>t, <3>5, Others DEF Unregister, RetryNotify, Release, ReleaseNotify, Goto,
           Threads
      <3> QED
        BY <1>2, <3>1, <3>2, <3>3, <3>4, <3>5 DEF ReaderCall, ReaderStep
    <2> QED
      BY <2>1, <2>2, <2>3, ThreadsAssumption DEF ExclusionInv, Threads
  <1>3. CASE StopSteps
    BY <1>3, StopFrame DEF ExclusionInv
  <1>4. ASSUME NEW t \in Threads, SpuriousWakeup(t) PROVE ReadWriteExclusion'
    BY <1>t, <1>4, SpuriousFrame, Others DEF ExclusionInv, Threads
  <1>5. CASE UNCHANGED vars
    BY <1>5 DEF vars, ExclusionInv
  <1> QED
    BY <1>1, <1>2, <1>3, <1>4, <1>5 DEF Next, StopSteps

LEMMA InitExclusionInv == Init => ExclusionInv
  <1> SUFFICES ASSUME Init PROVE ExclusionInv
    OBVIOUS
  <1>1. \A t \in Threads : pc[t] = "idle"
    BY DEF Init
  <1>2. Registered = {}
    BY <1>1 DEF Registered, Threads
  <1>3. ActiveCount
    BY <1>2, FS_EmptySet DEF Init, ActiveCount
  <1> QED
    BY <1>1, <1>3, InitType DEF ExclusionInv, WriterHolds, Holding, MarkedWriting, Marked,
       Draining, Owning, ReadWriteExclusion, Threads

LEMMA ExclusionInvariance == Spec => []ExclusionInv
  <1>1. ExclusionInv /\ [Next]_vars => ExclusionInv'
    BY StepType, StepWriterHolds, StepMarkedWriting, StepActiveCount, StepExclusion
    DEF ExclusionInv
  <1> QED
    BY <1>1, InitExclusionInv, PTL DEF Spec

\* The safety comment of data_mut (mod.rs:152-154), for any number of writers
\* and readers: while a writer owns the buffer no reader holds a guard on it.
THEOREM SharedMessageExclusion == Spec => []ReadWriteExclusion
  BY ExclusionInvariance, PTL DEF ExclusionInv
----------------------------------------------------------------------------
(* What a read guard shows.                                                *)

\* The buffer holds the published message, with its size.
Clean == data = published /\ data_size = published

Dirty(w) == pc[w] \in {"filling", "filled", "reset", "publish"}

UnmarkStopped == \A w \in Writers : pc[w] = "unmark" => Stopped
GuardCurrent  == \A r \in Readers : pc[r] = "guard" => snap[r] = Sequence
FilledData ==
    \A w \in Writers :
        /\ pc[w] \in {"filled", "reset", "publish"} => data = job[w].payload
        /\ pc[w] \in {"reset", "publish"} => data_size = job[w].payload
CleanWhenIdle    == ~Writing /\ ~(Stopped /\ discarded) => Clean
CleanUnlessDirty == ~discarded => Clean \/ \E w \in Writers : Dirty(w)

\* GuardIntegrity rests on the buffer being clean whenever the flag is down.
\* A dropped write leaves the flag up over a dirty buffer; the one way to get
\* the flag down again without a publish is to give up on stop.
IntegrityInv ==
    /\ UnmarkStopped
    /\ GuardCurrent
    /\ FilledData
    /\ CleanWhenIdle
    /\ CleanUnlessDirty
    /\ GuardIntegrity

\* A writer that does not own the buffer leaves it and its history alone.
LEMMA NotOwning ==
  ASSUME TypeOK, NEW w \in Writers, WriterCall(w) \/ WriterStep(w), ~Owning(w)
  PROVE  /\ UNCHANGED <<data, data_size, published, discarded>>
         /\ ~Dirty(w)'
         /\ pc'[w] = "unmark" => Stopped
  <1> USE DEF Owning, Dirty, Goto, buffer, ghost
  <1>t. PcOK
    BY DEF TypeOK
  <1>1. CASE WriterCall(w)
    BY <1>t, <1>1, Others DEF WriterCall, BeginWrite, BeginSetTarget, DropWriteGuard, Threads
  <1>2. CASE \/ LockWriter(w) \/ Snapshot(w) \/ PolicyTicket(w) \/ PolicyStopped(w)
             \/ KickReaders(w) \/ AwaitConsumed(w) \/ PolicyReticket(w)
             \/ PolicyResnapshot(w)
    BY <1>t, <1>2, Others DEF LockWriter, Snapshot, PolicyTicket, PolicyStopped,
       KickReaders, AwaitConsumed, PolicyReticket, PolicyResnapshot, Threads
  <1>3. CASE \/ MarkWriting(w) \/ DrainTicket(w) \/ DrainActive(w) \/ DrainStopped(w)
             \/ UnmarkWriting(w) \/ AwaitDrained(w)
    BY <1>t, <1>3, Others DEF MarkWriting, DrainTicket, DrainActive, DrainStopped,
       UnmarkWriting, AwaitDrained, Threads
  <1>4. CASE NotifyReaders(w) \/ UnlockWriter(w) \/ LockTarget(w) \/ SetTarget(w)
    BY <1>t, <1>4, Others DEF NotifyReaders, UnlockWriter, LockTarget, SetTarget, Threads
  <1>5. ~(BeginFill(w) \/ EndFill(w) \/ SlicePanic(w) \/ PublishTooLarge(w)
          \/ StoreSize(w) \/ ResetConsumed(w) \/ Publish(w))
    BY DEF BeginFill, EndFill, SlicePanic, PublishTooLarge, StoreSize, ResetConsumed, Publish
  <1> QED
    BY <1>1, <1>2, <1>3, <1>4, <1>5 DEF WriterStep

\* The steps of the owner, with no reader or other writer about.
LEMMA OwningIntegrity ==
  ASSUME ExclusionInv, IntegrityInv, NEW w \in Writers, Owning(w),
         WriterCall(w) \/ WriterStep(w)
  PROVE  IntegrityInv'
  <1>t. TypeOK /\ PcOK /\ Writing
    BY DEF ExclusionInv, TypeOK, MarkedWriting, Marked
  <1>r. \A r \in Readers : pc'[r] # "guard"
    <2>1. \A r \in Readers : pc[r] # "guard" /\ pc'[r] = pc[r]
      BY <1>t, WriterFrame, Others, ThreadsAssumption
      DEF ExclusionInv, ReadWriteExclusion, Threads
    <2> QED
      BY <2>1
  <1>v. \A v \in Writers \ {w} : pc'[v] = pc[v] /\ ~Holding(v)
    BY <1>t, WriterFrame, Others, OneHolder DEF ExclusionInv, Holding, Owning, Threads
  <1>g. GuardCurrent' /\ GuardIntegrity'
    BY <1>r DEF GuardCurrent, GuardIntegrity
  <1>u. ASSUME pc'[w] # "unmark" PROVE UnmarkStopped'
    BY <1>u, <1>v DEF UnmarkStopped, Holding
  <1>f. ASSUME /\ pc'[w] \in {"filled", "reset", "publish"} => data' = job'[w].payload
               /\ pc'[w] \in {"reset", "publish"} => data_size' = job'[w].payload
        PROVE  FilledData'
    BY <1>f, <1>v DEF FilledData, Holding
  <1>1. CASE BeginFill(w)
    <2>1. pc'[w] = "filling" /\ UNCHANGED sequence_and_flags
      BY <1>t, <1>1, Others DEF BeginFill, Goto, Threads, word
    <2> QED
      BY <1>t, <1>g, <1>u, <1>f, <2>1
      DEF IntegrityInv, CleanWhenIdle, CleanUnlessDirty, Dirty, Writing
  <1>2. CASE EndFill(w)
    <2>1. /\ pc'[w] = "filled"
          /\ UNCHANGED <<sequence_and_flags, job>>
          /\ data' = job[w].payload
      BY <1>t, <1>2, Others DEF EndFill, Goto, Threads, word, locals
    <2> QED
      BY <1>t, <1>g, <1>u, <1>f, <2>1
      DEF IntegrityInv, CleanWhenIdle, CleanUnlessDirty, Dirty, Writing
  <1>3. CASE SlicePanic(w) \/ PublishTooLarge(w) \/ DropWriteGuard(w)
    <2>1. pc'[w] = "unlock" /\ UNCHANGED sequence_and_flags /\ discarded'
      BY <1>t, <1>3, Others
      DEF SlicePanic, PublishTooLarge, DropWriteGuard, Goto, Threads, word
    <2> QED
      BY <1>t, <1>g, <1>u, <1>f, <2>1
      DEF IntegrityInv, CleanWhenIdle, CleanUnlessDirty, Writing
  <1>4. CASE StoreSize(w)
    <2>1. /\ pc[w] = "filled" /\ pc'[w] = "reset"
          /\ UNCHANGED <<sequence_and_flags, data, job>>
          /\ data_size' = job[w].payload
      BY <1>t, <1>4, Others DEF StoreSize, Goto, Threads, word, locals
    <2> QED
      BY <1>t, <1>g, <1>u, <1>f, <2>1
      DEF IntegrityInv, CleanWhenIdle, CleanUnlessDirty, Dirty, Writing, FilledData
  <1>5. CASE ResetConsumed(w)
    <2>1. /\ pc[w] = "reset" /\ pc'[w] = "publish"
          /\ UNCHANGED <<sequence_and_flags, data, data_size, job>>
      BY <1>t, <1>5, Others DEF ResetConsumed, Goto, Threads, buffer, locals
    <2> QED
      BY <1>t, <1>g, <1>u, <1>f, <2>1
      DEF IntegrityInv, CleanWhenIdle, CleanUnlessDirty, Dirty, Writing, FilledData
  <1>6. CASE Publish(w)
    <2>1. /\ pc[w] = "publish" /\ pc'[w] = "notify"
          /\ UNCHANGED <<data, data_size>>
          /\ published' = job[w].payload
      BY <1>t, <1>6, Others DEF Publish, Goto, Threads, buffer
    <2>2. Clean'
      BY <2>1 DEF IntegrityInv, FilledData, Clean
    <2> QED
      BY <1>g, <1>u, <1>f, <2>1, <2>2 DEF IntegrityInv, CleanWhenIdle, CleanUnlessDirty
  <1>7. \/ BeginFill(w) \/ EndFill(w) \/ SlicePanic(w) \/ PublishTooLarge(w)
        \/ DropWriteGuard(w) \/ StoreSize(w) \/ ResetConsumed(w) \/ Publish(w)
    BY DEF Owning, WriterCall, WriterStep, BeginWrite, BeginSetTarget, LockWriter, Snapshot,
       PolicyTicket, PolicyStopped, KickReaders, AwaitConsumed, PolicyReticket,
       PolicyResnapshot, MarkWriting, DrainTicket, DrainActive, DrainStopped,
       UnmarkWriting, AwaitDrained, NotifyReaders, UnlockWriter, LockTarget, SetTarget, Goto
  <1> QED
    BY <1>1, <1>2, <1>3, <1>4, <1>5, <1>6, <1>7

\* A writer without the buffer leaves every part to the reader or to the
\* owner; lowering the flag on stop uncovers nothing but a clean buffer.
LEMMA NotOwningIntegrity ==
  ASSUME ExclusionInv, IntegrityInv, NEW w \in Writers, ~Owning(w),
         WriterCall(w) \/ WriterStep(w)
  PROVE  IntegrityInv'
  <1>t. TypeOK /\ PcOK /\ sequence_and_flags \in SequenceState
    BY DEF ExclusionInv, TypeOK
  <1>b. /\ UNCHANGED <<data, data_size, published, discarded>>
        /\ ~Dirty(w)'
        /\ pc'[w] = "unmark" => Stopped
    BY <1>t, NotOwning
  <1>o. /\ \A u \in Threads \ {w} : pc'[u] = pc[u]
        /\ \A v \in Writers \ {w} : job'[v] = job[v]
        /\ UNCHANGED snap
    <2>1. \A v \in Writers \ {w} : job'[v] = job[v]
      BY <1>t DEF TypeOK, WriterCall, WriterStep, BeginWrite, BeginSetTarget,
         DropWriteGuard, LockWriter, Snapshot, PolicyTicket, PolicyStopped, KickReaders,
         AwaitConsumed, PolicyReticket, PolicyResnapshot, MarkWriting, DrainTicket,
         DrainActive, DrainStopped, UnmarkWriting, AwaitDrained, BeginFill, EndFill,
         SlicePanic, PublishTooLarge, StoreSize, ResetConsumed, Publish, NotifyReaders,
         UnlockWriter, LockTarget, SetTarget, locals
    <2> QED
      BY <1>t, <2>1, WriterFrame, Others DEF Threads
  <1>f. Sequence' = Sequence /\ Stopped' = Stopped
    <2>1. CASE MarkWriting(w) \/ UnmarkWriting(w)
      BY <1>t, <2>1 DEF MarkWriting, UnmarkWriting, SequenceState, Sequence, Stopped
    <2>2. ~Publish(w)
      BY DEF Publish, Goto, Owning
    <2> QED
      BY <2>1, <2>2, WriterKeepsFlags DEF Sequence, Stopped
  <1>1. UnmarkStopped'
    BY <1>b, <1>o, <1>f DEF IntegrityInv, UnmarkStopped, Threads
  <1>2. GuardCurrent' /\ GuardIntegrity'
    <2>1. \A r \in Readers : pc'[r] = pc[r] /\ snap'[r] = snap[r]
      BY <1>o, ThreadsAssumption DEF Threads
    <2> QED
      BY <1>b, <1>f, <2>1 DEF IntegrityInv, GuardCurrent, GuardIntegrity
  <1>3. FilledData'
    BY <1>b, <1>o DEF IntegrityInv, FilledData, Dirty, Threads
  <1>4. CleanUnlessDirty'
    BY <1>b, <1>o DEF IntegrityInv, CleanUnlessDirty, Clean, Dirty, Owning, Threads
  <1>5. CleanWhenIdle'
    <2>1. CASE UnmarkWriting(w)
      <3>1. pc[w] = "unmark" /\ Stopped
        BY <2>1 DEF UnmarkWriting, Goto, IntegrityInv, UnmarkStopped
      <3>2. \A v \in Writers : ~Dirty(v)
        BY <3>1, OneHolder DEF ExclusionInv, Holding, Dirty
      <3> QED
        BY <1>b, <1>f, <3>1, <3>2 DEF IntegrityInv, CleanUnlessDirty, CleanWhenIdle, Clean
    <2>2. CASE MarkWriting(w)
      BY <1>t, <2>2 DEF MarkWriting, SequenceState, CleanWhenIdle, Writing
    <2>3. CASE ~UnmarkWriting(w) /\ ~MarkWriting(w)
      <3>1. UNCHANGED sequence_and_flags
        BY <2>3, WriterKeepsFlags DEF Publish, Goto, Owning
      <3> QED
        BY <1>b, <3>1 DEF IntegrityInv, CleanWhenIdle, Clean, Writing, Stopped
    <2> QED
      BY <2>1, <2>2, <2>3
  <1> QED
    BY <1>1, <1>2, <1>3, <1>4, <1>5 DEF IntegrityInv

\* A reader reaches its guard only through Verify, and with its snap current.
LEMMA ReaderGuard ==
  ASSUME PcOK, snap \in [Readers -> 0..SequenceMask], NEW r \in Readers,
         ReaderCall(r) \/ ReaderStep(r), pc'[r] = "guard"
  PROVE  /\ UNCHANGED snap
         /\ \/ pc[r] = "guard"
            \/ ~Writing /\ snap[r] = Sequence
  <1> USE DEF Goto, Threads
  <1>1. CASE AddReader(r)
    BY <1>1 DEF AddReader
  <1>2. CASE BeginRead(r) \/ RemoveReader(r)
    <2>1. pc' = [pc EXCEPT ![r] = "take"] \/ pc' = [pc EXCEPT ![r] = "gone"]
      BY <1>2 DEF BeginRead, RemoveReader
    <2> QED
      BY <2>1, Others
  <1>3. CASE ReadTicket(r) \/ LoadState(r) \/ SleepReader(r) \/ Register(r)
    BY <1>3, Others DEF ReadTicket, LoadState, SleepReader, Register
  <1>4. CASE Verify(r)
    BY <1>4, Others DEF Verify, locals
  <1>5. CASE Unregister(r) \/ RetryNotify(r) \/ Release(r) \/ ReleaseNotify(r)
    BY <1>5, Others DEF Unregister, RetryNotify, Release, ReleaseNotify
  <1> QED
    BY <1>1, <1>2, <1>3, <1>4, <1>5 DEF ReaderCall, ReaderStep

LEMMA ReaderKeepsSnap ==
  ASSUME snap \in [Readers -> 0..SequenceMask], NEW r \in Readers,
         ReaderCall(r) \/ ReaderStep(r)
  PROVE  \A s \in Readers \ {r} : snap'[s] = snap[s]
  BY DEF ReaderCall, ReaderStep, BeginRead, AddReader, RemoveReader, ReadTicket, LoadState,
     SleepReader, Register, Verify, Unregister, RetryNotify, Release, ReleaseNotify, locals

LEMMA StepIntegrity == ExclusionInv /\ IntegrityInv /\ [Next]_vars => IntegrityInv'
  <1> SUFFICES ASSUME ExclusionInv, IntegrityInv, [Next]_vars PROVE IntegrityInv'
    OBVIOUS
  <1>t. TypeOK /\ PcOK /\ snap \in [Readers -> 0..SequenceMask]
    BY DEF ExclusionInv, TypeOK
  <1>1. ASSUME NEW w \in Writers, WriterCall(w) \/ WriterStep(w) PROVE IntegrityInv'
    BY <1>1, OwningIntegrity, NotOwningIntegrity
  <1>2. ASSUME NEW r \in Readers, ReaderCall(r) \/ ReaderStep(r) PROVE IntegrityInv'
    <2>1. /\ \A u \in Threads \ {r} : pc'[u] = pc[u]
          /\ \A w \in Writers : pc'[w] = pc[w]
      BY <1>t, <1>2, ReaderFrame, Others, ThreadsAssumption DEF Threads
    <2>2. UNCHANGED <<sequence_and_flags, data_size, data, job, published, discarded>>
      BY <1>t, <1>2, ReaderFrame
    <2>3. UnmarkStopped' /\ FilledData' /\ CleanWhenIdle' /\ CleanUnlessDirty'
      BY <2>1, <2>2 DEF IntegrityInv, UnmarkStopped, FilledData, CleanWhenIdle,
         CleanUnlessDirty, Clean, Dirty, Stopped, Writing
    <2>4. ASSUME NEW s \in Readers, pc'[s] = "guard"
          PROVE  /\ snap'[s] = snap[s]
                 /\ pc[s] = "guard" \/ (~Writing /\ snap[s] = Sequence)
      <3>1. CASE s = r
        BY <1>t, <1>2, <2>4, <3>1, ReaderGuard
      <3>2. CASE s # r
        BY <1>t, <1>2, <2>1, <2>4, <3>2, ReaderKeepsSnap DEF Threads
      <3> QED
        BY <3>1, <3>2
    <2>5. GuardCurrent' /\ GuardIntegrity'
      BY <2>2, <2>4 DEF IntegrityInv, GuardCurrent, GuardIntegrity, CleanWhenIdle, Clean,
         Stopped, Sequence
    <2> QED
      BY <2>3, <2>5 DEF IntegrityInv
  <1>3. CASE StopSteps
    BY <1>t, <1>3, StopFrame, StopKeepsWriting
    DEF IntegrityInv, UnmarkStopped, GuardCurrent, FilledData, CleanWhenIdle,
        CleanUnlessDirty, GuardIntegrity, Clean, Dirty
  <1>4. ASSUME NEW t \in Threads, SpuriousWakeup(t) PROVE IntegrityInv'
    <2>1. /\ UNCHANGED <<sequence_and_flags, data_size, data, job, snap, published, discarded>>
          /\ \A u \in Threads : \/ pc'[u] = pc[u]
                               \/ /\ pc[u] \in {"await", "drainWait", "sleep"}
                                  /\ pc'[u] \in {"reticket", "drainTicket", "take"}
      BY <1>t, <1>4, SpuriousFrame, Others DEF word, buffer, locals, ghost
    <2>2. \A w \in Writers : /\ pc'[w] = "unmark" => pc[w] = "unmark"
                             /\ Dirty(w)' <=> Dirty(w)
                             /\ Dirty(w)' => pc'[w] = pc[w]
      BY <2>1 DEF Dirty, Threads
    <2>3. \A r \in Readers : pc'[r] = "guard" => pc[r] = "guard"
      BY <2>1 DEF Threads
    <2>4. UnmarkStopped' /\ FilledData' /\ CleanWhenIdle' /\ CleanUnlessDirty'
      BY <2>1, <2>2 DEF IntegrityInv, UnmarkStopped, FilledData, CleanWhenIdle,
         CleanUnlessDirty, Clean, Dirty, Stopped, Writing
    <2>5. GuardCurrent' /\ GuardIntegrity'
      BY <2>1, <2>3 DEF IntegrityInv, GuardCurrent, GuardIntegrity, Stopped, Sequence
    <2> QED
      BY <2>4, <2>5 DEF IntegrityInv
  <1>5. CASE UNCHANGED vars
    BY <1>5 DEF vars, word, buffer, locals, ghost, IntegrityInv, UnmarkStopped, GuardCurrent,
       FilledData, CleanWhenIdle, CleanUnlessDirty, GuardIntegrity, Clean, Dirty, Stopped,
       Writing, Sequence
  <1> QED
    BY <1>1, <1>2, <1>3, <1>4, <1>5 DEF Next, StopSteps

LEMMA InitIntegrity == Init => IntegrityInv
  <1> SUFFICES ASSUME Init PROVE IntegrityInv
    OBVIOUS
  <1>1. \A t \in Threads : pc[t] = "idle"
    BY DEF Init
  <1> QED
    BY <1>1 DEF Init, Threads, IntegrityInv, UnmarkStopped, GuardCurrent, FilledData,
       CleanWhenIdle, CleanUnlessDirty, GuardIntegrity, Clean

LEMMA IntegrityInvariance == Spec => []IntegrityInv
  BY ExclusionInvariance, InitIntegrity, StepIntegrity, PTL DEF Spec

\* What MessageReadGuard::data and its sequence show (guard.rs), for any number
\* of threads and any message: the last published message, untorn and not
\* overwritten while the guard lives, unless a write was dropped unpublished
\* and the message was then stopped.
THEOREM SharedMessageGuardIntegrity == Spec => []GuardIntegrity
  BY IntegrityInvariance, PTL DEF IntegrityInv

----------------------------------------------------------------------------
(* No wake-up is lost: a thread asleep on a current ticket of a condition  *)
(* variable has something to wait for, or somebody about to notify it.     *)
(* First the readers asleep on writer_condvar, and stop().                 *)

StopFlagged == Stopped <=> stopCall # "none"

\* Whoever raised the flag is still at work, unless a write was abandoned.
FlagOwned == Writing => discarded \/ \E w \in Writers : Marked(w)

\* ReaderWakeup and PollWaitsForWriter with the flag for the writer behind it,
\* which is what the reader looks at; FlagOwned then finds the writer.
FlagWakeup ==
    \A r \in Readers :
        Asleep(r, writer_condvar) /\ (\A w \in Writers : pc[w] # "notify") =>
            /\ Sequence # seen[r] => Writing \/ unmarked
            /\ Sequence = seen[r] /\ Stopped => stopCall = "flagged"
FlagPoll ==
    \A r \in Readers :
        ~block[r] /\ Asleep(r, writer_condvar) =>
            Writing \/ unmarked \/ \E w \in Writers : pc[w] = "notify"

\* What a reader found when it last loaded the state stays true until it is
\* notified.  The flag goes down under it in two ways: a publish, which
\* notifies, and giving up, which does not and is remembered in unmarked.
ReaderWakeupInv ==
    /\ StopFlagged
    /\ FlagWakeup
    /\ FlagPoll
    /\ FlagOwned

\* A writer's step that stops working on the flag lowers it or abandons it.
LEMMA WriterFlag ==
  ASSUME TypeOK, NEW w \in Writers, WriterCall(w) \/ WriterStep(w)
  PROVE  /\ Writing' => Writing \/ Marked(w)'
         /\ Marked(w) => Marked(w)' \/ discarded' \/ ~Writing'
         /\ discarded => discarded'
  <1>t. PcOK /\ sequence_and_flags \in SequenceState
    BY DEF TypeOK
  <1> USE DEF Goto, Threads, Marked, Draining, Owning, Writing
  <1>1. CASE MarkWriting(w)
    BY <1>t, <1>1, Others DEF MarkWriting, SequenceState, ghost
  <1>2. CASE UnmarkWriting(w) \/ Publish(w)
    <2>1. ~Writing'
      BY <1>t, <1>2 DEF UnmarkWriting, Publish, SequenceState
    <2>2. discarded' = discarded
      BY <1>2 DEF UnmarkWriting, Publish, ghost
    <2> QED
      BY <2>1, <2>2
  <1>3. CASE SlicePanic(w) \/ PublishTooLarge(w) \/ DropWriteGuard(w)
    BY <1>3 DEF SlicePanic, PublishTooLarge, DropWriteGuard, word
  <1>4. CASE \/ DrainTicket(w) \/ DrainActive(w) \/ DrainStopped(w) \/ AwaitDrained(w)
             \/ BeginFill(w) \/ EndFill(w) \/ StoreSize(w) \/ ResetConsumed(w)
    BY <1>t, <1>4, Others
    DEF DrainTicket, DrainActive, DrainStopped, AwaitDrained, BeginFill, EndFill,
        StoreSize, ResetConsumed, word, ghost
  <1>5. CASE \/ BeginWrite(w) \/ BeginSetTarget(w) \/ LockWriter(w) \/ Snapshot(w)
             \/ PolicyTicket(w) \/ PolicyStopped(w) \/ KickReaders(w) \/ AwaitConsumed(w)
             \/ PolicyReticket(w) \/ PolicyResnapshot(w) \/ NotifyReaders(w)
             \/ UnlockWriter(w) \/ LockTarget(w) \/ SetTarget(w)
    <2>1. ~Marked(w)
      BY <1>5 DEF BeginWrite, BeginSetTarget, LockWriter, Snapshot, PolicyTicket,
         PolicyStopped, KickReaders, AwaitConsumed, PolicyReticket, PolicyResnapshot,
         NotifyReaders, UnlockWriter, LockTarget, SetTarget
    <2>2. UNCHANGED <<sequence_and_flags, discarded>>
      BY <1>5 DEF BeginWrite, BeginSetTarget, LockWriter, Snapshot, PolicyTicket,
         PolicyStopped, KickReaders, AwaitConsumed, PolicyReticket, PolicyResnapshot,
         NotifyReaders, UnlockWriter, LockTarget, SetTarget, word, ghost
    <2> QED
      BY <2>1, <2>2
  <1> QED
    BY <1>1, <1>2, <1>3, <1>4, <1>5 DEF WriterCall, WriterStep

LEMMA StepFlagOwned == TypeOK /\ FlagOwned /\ [Next]_vars => FlagOwned'
  <1> SUFFICES ASSUME TypeOK, FlagOwned, [Next]_vars PROVE FlagOwned'
    OBVIOUS
  <1>t. PcOK /\ sequence_and_flags \in SequenceState
    BY DEF TypeOK
  <1> USE DEF FlagOwned
  <1>1. ASSUME NEW w \in Writers, WriterCall(w) \/ WriterStep(w) PROVE FlagOwned'
    <2>1. \A v \in Writers \ {w} : Marked(v) => Marked(v)'
      BY <1>t, <1>1, WriterFrame, Others DEF Threads, Marked, Draining, Owning
    <2> QED
      BY <1>1, <2>1, WriterFlag
  <1>2. ASSUME NEW r \in Readers, ReaderCall(r) \/ ReaderStep(r) PROVE FlagOwned'
    <2>1. /\ \A w \in Writers : pc'[w] = pc[w]
          /\ UNCHANGED sequence_and_flags
      BY <1>t, <1>2, ReaderFrame, Others, ThreadsAssumption DEF Threads
    <2>2. UNCHANGED discarded
      BY <1>2 DEF ReaderCall, ReaderStep, BeginRead, AddReader, RemoveReader, ReadTicket,
         LoadState, SleepReader, Register, Verify, Unregister, RetryNotify, Release,
         ReleaseNotify, ghost
    <2> QED
      BY <2>1, <2>2 DEF Marked, Draining, Owning, Writing
  <1>3. CASE StopSteps
    <2>1. UNCHANGED discarded
      BY <1>3 DEF StopSteps, StopFlag, StopNotifyReaders, StopNotifyWriters, StopStep, ghost
    <2> QED
      BY <1>3, <2>1, StopFrame, StopKeepsWriting DEF Marked, Draining, Owning
  <1>4. ASSUME NEW t \in Threads, SpuriousWakeup(t) PROVE FlagOwned'
    <2>1. /\ UNCHANGED <<sequence_and_flags, discarded>>
          /\ \A u \in Threads :
                pc[u] \in {"await", "drainWait", "sleep"} \/ pc'[u] = pc[u]
      BY <1>t, <1>4, SpuriousFrame, Others DEF SpuriousWakeup, word, ghost
    <2>2. \A u \in Threads : pc[u] = "drainWait" => pc'[u] \in {"drainWait", "drainTicket"}
      BY <1>t, <1>4, Others DEF SpuriousWakeup, PcOK
    <2> QED
      BY <2>1, <2>2 DEF Marked, Draining, Owning, Writing, Threads
  <1>5. CASE UNCHANGED vars
    BY <1>5 DEF vars, word, ghost, Marked, Draining, Owning, Writing
  <1> QED
    BY <1>1, <1>2, <1>3, <1>4, <1>5 DEF Next, StopSteps

\* What a writer's step means to a reader that is asleep.
LEMMA WriterWakes ==
  ASSUME TypeOK, NEW w \in Writers, WriterCall(w) \/ WriterStep(w)
  PROVE  \/ writer_condvar' = {}
         \/ /\ UNCHANGED writer_condvar
            /\ pc[w] # "notify"
            /\ \/ UNCHANGED sequence_and_flags
               \/ pc'[w] = "notify"
               \/ (Writing' \/ unmarked') /\ Sequence' = Sequence /\ Stopped' = Stopped
  <1>t. PcOK /\ sequence_and_flags \in SequenceState
    BY DEF TypeOK
  <1>1. CASE KickReaders(w) \/ NotifyReaders(w)
    BY <1>1 DEF KickReaders, NotifyReaders, WriterCv!NotifyAll
  <1>2. CASE MarkWriting(w)
    BY <1>t, <1>2
    DEF MarkWriting, Goto, sync, SequenceState, Sequence, Stopped, Writing
  <1>3. CASE UnmarkWriting(w)
    BY <1>t, <1>3
    DEF UnmarkWriting, Goto, sync, SequenceState, Sequence, Stopped
  <1>4. CASE Publish(w)
    BY <1>t, <1>4, Others DEF Publish, Goto, sync, Threads
  <1>5. ASSUME ~KickReaders(w), ~NotifyReaders(w)
        PROVE  UNCHANGED writer_condvar /\ pc[w] # "notify"
    BY <1>5 DEF WriterCall, WriterStep, BeginWrite, BeginSetTarget, DropWriteGuard,
       LockWriter, Snapshot, PolicyTicket, PolicyStopped, AwaitConsumed, PolicyReticket,
       PolicyResnapshot, MarkWriting, DrainTicket, DrainActive, DrainStopped,
       UnmarkWriting, AwaitDrained, BeginFill, EndFill, SlicePanic, PublishTooLarge,
       StoreSize, ResetConsumed, Publish, UnlockWriter, LockTarget, SetTarget, Goto, sync
  <1> QED
    BY <1>1, <1>2, <1>3, <1>4, <1>5, WriterKeepsFlags

\* A reader falls asleep in LoadState only, with nothing to read or with a
\* write in progress.
LEMMA ReaderFallsAsleep ==
  ASSUME TypeOK, NEW r \in Readers, ReaderCall(r) \/ ReaderStep(r)
  PROVE  /\ \A s \in Readers \ {r} :
              /\ s \in writer_condvar' => s \in writer_condvar
              /\ seen'[s] = seen[s] /\ block'[s] = block[s]
         /\ pc'[r] = "sleep" =>
              /\ UNCHANGED <<writer_condvar, seen, block>>
              /\ \/ pc[r] = "sleep"
                 \/ Sequence = seen[r] /\ ~Stopped /\ block[r]
                 \/ Sequence # seen[r] /\ Writing
  <1>t. /\ PcOK
        /\ seen \in [Readers -> 0..SequenceMask]
        /\ block \in [Readers -> BOOLEAN]
    BY DEF TypeOK
  <1> USE DEF Goto, Threads
  <1>1. CASE AddReader(r)
    BY <1>t, <1>1 DEF AddReader, sync
  <1>2. CASE BeginRead(r) \/ RemoveReader(r)
    <2>1. pc' = [pc EXCEPT ![r] = "take"] \/ pc' = [pc EXCEPT ![r] = "gone"]
      BY <1>2 DEF BeginRead, RemoveReader
    <2>2. pc'[r] # "sleep"
      BY <1>t, <2>1, Others
    <2> QED
      BY <1>t, <1>2, <2>2 DEF BeginRead, RemoveReader, sync
  <1>3. CASE LoadState(r)
    BY <1>t, <1>3, Others DEF LoadState, sync
  <1>4. CASE ReadTicket(r) \/ SleepReader(r) \/ Register(r) \/ Verify(r)
    BY <1>t, <1>4, Others
    DEF ReadTicket, SleepReader, Register, Verify, WriterCv!Value, sync, locals
  <1>5. CASE Unregister(r) \/ RetryNotify(r) \/ Release(r) \/ ReleaseNotify(r)
    BY <1>t, <1>5, Others DEF Unregister, RetryNotify, Release, ReleaseNotify, sync, locals
  <1> QED
    BY <1>1, <1>2, <1>3, <1>4, <1>5 DEF ReaderCall, ReaderStep

LEMMA WriterUnmarks ==
  ASSUME NEW w \in Writers, WriterCall(w) \/ WriterStep(w), unmarked PROVE unmarked'
  BY DEF WriterCall, WriterStep, BeginWrite, BeginSetTarget, DropWriteGuard,
     LockWriter, Snapshot, PolicyTicket, PolicyStopped, KickReaders, AwaitConsumed,
     PolicyReticket, PolicyResnapshot, MarkWriting, DrainTicket, DrainActive,
     DrainStopped, UnmarkWriting, AwaitDrained, BeginFill, EndFill, SlicePanic,
     PublishTooLarge, StoreSize, ResetConsumed, Publish, NotifyReaders, UnlockWriter,
     LockTarget, SetTarget, ghost

LEMMA StepStopFlagged == TypeOK /\ StopFlagged /\ [Next]_vars => StopFlagged'
  <1> SUFFICES ASSUME TypeOK, StopFlagged, [Next]_vars PROVE StopFlagged'
    OBVIOUS
  <1>t. PcOK /\ sequence_and_flags \in SequenceState
    BY DEF TypeOK
  <1> USE DEF StopFlagged, Stopped
  <1>1. ASSUME NEW w \in Writers, WriterCall(w) \/ WriterStep(w) PROVE StopFlagged'
    <2>1. CASE MarkWriting(w) \/ UnmarkWriting(w) \/ Publish(w)
      BY <1>t, <1>1, <2>1, WriterFrame DEF MarkWriting, UnmarkWriting, Publish, SequenceState
    <2> QED
      BY <1>1, <2>1, WriterFrame, WriterKeepsFlags
  <1>2. ASSUME NEW r \in Readers, ReaderCall(r) \/ ReaderStep(r) PROVE StopFlagged'
    BY <1>t, <1>2, ReaderFrame
  <1>3. CASE StopSteps
    BY <1>t, <1>3 DEF StopSteps, StopFlag, StopNotifyReaders, StopNotifyWriters, StopStep,
       SequenceState
  <1>4. ASSUME NEW t \in Threads, SpuriousWakeup(t) PROVE StopFlagged'
    BY <1>4 DEF SpuriousWakeup, word, locals
  <1>5. CASE UNCHANGED vars
    BY <1>5 DEF vars, word, locals
  <1> QED
    BY <1>1, <1>2, <1>3, <1>4, <1>5 DEF Next, StopSteps

LEMMA StepReaderWakeup ==
  TypeOK /\ ReaderWakeupInv /\ [Next]_vars
    => FlagWakeup' /\ FlagPoll'
  <1> SUFFICES ASSUME TypeOK, ReaderWakeupInv, [Next]_vars
               PROVE  FlagWakeup' /\ FlagPoll'
    OBVIOUS
  <1>t. PcOK /\ sequence_and_flags \in SequenceState
    BY DEF TypeOK
  <1> USE DEF ReaderWakeupInv, FlagWakeup, FlagPoll, Asleep
  <1>1. ASSUME NEW w \in Writers, WriterCall(w) \/ WriterStep(w)
        PROVE  FlagWakeup' /\ FlagPoll'
    <2>1. /\ \A u \in Threads \ {w} : pc'[u] = pc[u]
          /\ UNCHANGED <<seen, block, stopCall>>
      BY <1>t, <1>1, WriterFrame, Others DEF Threads
    <2>2. \A r \in Readers : pc'[r] = pc[r]
      BY <2>1, ThreadsAssumption DEF Threads
    <2>u. unmarked => unmarked'
      BY <1>1, WriterUnmarks
    <2>3. CASE writer_condvar' = {}
      BY <2>3
    <2>4. CASE /\ UNCHANGED writer_condvar
               /\ pc[w] # "notify"
               /\ UNCHANGED sequence_and_flags
      <3>1. \A v \in Writers : pc[v] = "notify" => pc'[v] = "notify"
        BY <2>1, <2>4 DEF Threads
      <3> QED
        BY <2>1, <2>2, <2>u, <2>4, <3>1 DEF Sequence, Stopped, Writing
    <2>5. CASE pc'[w] = "notify"
      BY <2>5
    <2>6. CASE /\ UNCHANGED writer_condvar
               /\ pc[w] # "notify"
               /\ (Writing' \/ unmarked') /\ Sequence' = Sequence /\ Stopped' = Stopped
      <3>1. \A v \in Writers : pc[v] = "notify" => pc'[v] = "notify"
        BY <2>1, <2>6 DEF Threads
      <3> QED
        BY <2>1, <2>2, <2>6, <3>1
    <2> QED
      BY <1>1, <2>3, <2>4, <2>5, <2>6, WriterWakes
  <1>2. ASSUME NEW r \in Readers, ReaderCall(r) \/ ReaderStep(r)
        PROVE  FlagWakeup' /\ FlagPoll'
    <2>1. /\ \A u \in Threads \ {r} : pc'[u] = pc[u]
          /\ \A w \in Writers : pc'[w] = pc[w]
          /\ UNCHANGED <<sequence_and_flags, stopCall, unmarked>>
      BY <1>t, <1>2, ReaderFrame, Others, ThreadsAssumption DEF Threads
    <2>2. ASSUME NEW s \in Readers, pc'[s] = "sleep", s \in writer_condvar'
          PROVE  /\ seen'[s] = seen[s] /\ block'[s] = block[s]
                 /\ \/ pc[s] = "sleep" /\ s \in writer_condvar
                    \/ Sequence = seen[s] /\ ~Stopped /\ block[s]
                    \/ Sequence # seen[s] /\ Writing
      <3>1. CASE s = r
        BY <1>2, <2>2, <3>1, ReaderFallsAsleep
      <3>2. CASE s # r
        BY <1>2, <2>1, <2>2, <3>2, ReaderFallsAsleep DEF Threads
      <3> QED
        BY <3>1, <3>2
    <2>3. \A s \in Readers : pc'[s] \notin {"await", "drainWait"}
      BY <1>t, <1>2, ReaderFrame, ReaderMoves DEF PcOK, ReaderPC
    <2> QED
      BY <2>1, <2>2, <2>3 DEF Sequence, Stopped, Writing
  <1>3. CASE StopSteps
    <2>1. /\ UNCHANGED <<pc, seen, block, unmarked>>
          /\ Sequence' = Sequence /\ Writing' = Writing
      BY <1>3, StopFrame, StopKeepsWriting
    <2>2. CASE StopFlag
      <3>1. Stopped' /\ stopCall' = "flagged" /\ UNCHANGED writer_condvar
        BY <1>t, <2>2 DEF StopFlag, StopStep, SequenceState, Stopped
      <3> QED
        BY <2>1, <3>1
    <2>3. CASE StopNotifyReaders
      BY <2>3 DEF StopNotifyReaders, WriterCv!NotifyAll
    <2>4. CASE StopNotifyWriters
      <3>1. /\ stopCall = "readersWoken"
            /\ UNCHANGED <<writer_condvar, sequence_and_flags>>
        BY <2>4 DEF StopNotifyWriters, StopStep
      <3> QED
        BY <2>1, <3>1 DEF Stopped
    <2> QED
      BY <1>3, <2>2, <2>3, <2>4 DEF StopSteps
  <1>4. ASSUME NEW t \in Threads, SpuriousWakeup(t)
        PROVE  FlagWakeup' /\ FlagPoll'
    <2>1. /\ UNCHANGED <<sequence_and_flags, writer_condvar, seen, block, stopCall,
                         unmarked>>
          /\ \A u \in Threads : \/ pc'[u] = pc[u]
                               \/ /\ pc[u] \in {"await", "drainWait", "sleep"}
                                  /\ pc'[u] \in {"reticket", "drainTicket", "take"}
      BY <1>t, <1>4, SpuriousFrame, Others DEF SpuriousWakeup, word, sync, locals, ghost
    <2>2. \A w \in Writers : pc[w] = "notify" <=> pc'[w] = "notify"
      BY <2>1 DEF Threads
    <2> QED
      BY <2>1, <2>2 DEF Threads, Sequence, Stopped, Writing
  <1>5. CASE UNCHANGED vars
    BY <1>5 DEF vars, word, sync, locals, ghost, Sequence, Stopped, Writing
  <1> QED
    BY <1>1, <1>2, <1>3, <1>4, <1>5 DEF Next, StopSteps

LEMMA ReaderWakeupInvariance == Spec => []ReaderWakeupInv
  <1>1. Init => ReaderWakeupInv
    BY DEF Init, Stopped, Writing, StopFlagged, ReaderWakeupInv, FlagWakeup, FlagPoll,
       FlagOwned, Asleep
  <1>2. TypeOK /\ IntegrityInv /\ ReaderWakeupInv /\ [Next]_vars => ReaderWakeupInv'
    BY StepStopFlagged, StepReaderWakeup, StepFlagOwned DEF ReaderWakeupInv, IntegrityInv
  <1> QED
    BY <1>1, <1>2, SharedMessageTypes, IntegrityInvariance, PTL DEF Spec

\* read() sleeps on writer_condvar (mod.rs:258-297) for a reason that holds, for
\* any number of writers and readers: it has no new message and no stop() to
\* return on, or a writer is at work, or a notification is coming; the flag of
\* an abandoned write, and one that was lowered on giving up, are the only two
\* that leave it asleep with an unread message.
THEOREM SharedMessageReaderWakeup == Spec => []ReaderWakeup
  <1>1. ReaderWakeupInv => ReaderWakeup
    BY DEF ReaderWakeupInv, FlagWakeup, FlagOwned, ReaderWakeup, LeftUp
  <1> QED
    BY <1>1, ReaderWakeupInvariance, PTL

\* read(block = false) sleeps only while a writer is at work or about to notify
\* it, or on the flag of a write that was abandoned or given up on stop.
THEOREM SharedMessagePollWaits == Spec => []PollWaitsForWriter
  <1>1. ReaderWakeupInv => PollWaitsForWriter
    BY DEF ReaderWakeupInv, FlagPoll, FlagOwned, PollWaitsForWriter, LeftUp
  <1> QED
    BY <1>1, ReaderWakeupInvariance, PTL
----------------------------------------------------------------------------
(* Writers asleep on reader_done_condvar in the second loop of start_write. *)

\* A writer that is to wait for the active readers it has counted.
Waiting(w) == pc[w] \in {"drainStopped", "drainWait"} /\ w \in reader_done_condvar

ReadersLeft ==
    \/ readers_state.active_readers > 0
    \/ \E r \in Readers : pc[r] \in {"retryNotify", "releaseNotify"}

DrainReaders == \A w \in Writers : Waiting(w) => ReadersLeft

DrainStop ==
    \A w \in Writers :
        pc[w] = "drainWait" /\ w \in reader_done_condvar /\ Stopped =>
            stopCall \in {"flagged", "readersWoken"}

\* DrainWakeup holds from the check of active_readers on, not only from the
\* wait: the readers may leave, and notify, while the writer checks for stop.
DrainWakeupInv == DrainReaders /\ DrainStop

\* The tickets of a writer, and what it has seen when it goes to wait.
LEMMA WriterWaits ==
  ASSUME TypeOK, NEW w \in Writers, WriterCall(w) \/ WriterStep(w)
  PROVE  /\ \A v \in Writers \ {w} :
              v \in reader_done_condvar' => v \in reader_done_condvar
         /\ pc'[w] = "drainStopped" => readers_state.active_readers > 0
         /\ pc'[w] = "drainWait" =>
              pc[w] = "drainStopped" /\ ~Stopped /\ UNCHANGED reader_done_condvar
  <1>t. PcOK
    BY DEF TypeOK
  <1> USE DEF Goto, Threads, sync
  <1>1. CASE WriterCall(w)
    BY <1>t, <1>1, Others DEF WriterCall, BeginWrite, BeginSetTarget, DropWriteGuard
  <1>2. CASE \/ LockWriter(w) \/ Snapshot(w) \/ PolicyTicket(w) \/ PolicyStopped(w)
             \/ KickReaders(w) \/ AwaitConsumed(w) \/ PolicyReticket(w)
             \/ PolicyResnapshot(w)
    BY <1>t, <1>2, Others DEF LockWriter, Snapshot, PolicyTicket, PolicyStopped,
       KickReaders, AwaitConsumed, PolicyReticket, PolicyResnapshot, ReaderDoneCv!Value
  <1>3. CASE \/ MarkWriting(w) \/ DrainTicket(w) \/ DrainActive(w) \/ DrainStopped(w)
             \/ UnmarkWriting(w) \/ AwaitDrained(w)
    BY <1>t, <1>3, Others DEF MarkWriting, DrainTicket, DrainActive, DrainStopped,
       UnmarkWriting, AwaitDrained, ReaderDoneCv!Value
  <1>4. CASE \/ BeginFill(w) \/ EndFill(w) \/ SlicePanic(w) \/ PublishTooLarge(w)
             \/ StoreSize(w) \/ ResetConsumed(w) \/ Publish(w)
    BY <1>t, <1>4, Others DEF BeginFill, EndFill, SlicePanic, PublishTooLarge, StoreSize,
       ResetConsumed, Publish
  <1>5. CASE NotifyReaders(w) \/ UnlockWriter(w) \/ LockTarget(w) \/ SetTarget(w)
    BY <1>t, <1>5, Others DEF NotifyReaders, UnlockWriter, LockTarget, SetTarget
  <1> QED
    BY <1>1, <1>2, <1>3, <1>4, <1>5 DEF WriterStep

\* A reader that takes the last registration away goes on to notify.
LEMMA ReaderLeaves ==
  ASSUME ExclusionInv, NEW r \in Readers, ReaderCall(r) \/ ReaderStep(r)
  PROVE  \/ reader_done_condvar' = {}
         \/ UNCHANGED reader_done_condvar /\ (ReadersLeft => ReadersLeft')
  <1>t. /\ TypeOK /\ PcOK
        /\ readers_state \in ReadersStateCount
        /\ readers_state.active_readers \in 0..U16Max
    BY WordUpdates DEF ExclusionInv, TypeOK
  <1>o. \A s \in Readers \ {r} : pc'[s] = pc[s]
    BY <1>t, ReaderFrame, Others DEF Threads
  <1>1. CASE RetryNotify(r) \/ ReleaseNotify(r)
    BY <1>1 DEF RetryNotify, ReleaseNotify, ReaderDoneCv!NotifyAll
  <1>2. CASE Unregister(r)
    <2>1. pc'[r] = "retryNotify" /\ UNCHANGED reader_done_condvar
      BY <1>t, <1>2, Others DEF Unregister, Goto, Threads, sync
    <2> QED
      BY <2>1 DEF ReadersLeft
  <1>3. CASE Release(r)
    <2>1. UNCHANGED reader_done_condvar
      BY <1>3 DEF Release, sync
    <2>2. CASE readers_state'.active_readers = 0
      BY <1>t, <1>3, <2>1, <2>2, Others DEF Release, Goto, Threads, ReadersLeft
    <2>3. CASE readers_state'.active_readers # 0
      <3>1. readers_state'.active_readers = Dec16(readers_state.active_readers)
        BY <1>t, <1>3 DEF Release, ReadersStateCount
      <3>2. readers_state'.active_readers > 0
        BY <1>t, <2>3, <3>1, Dec16Type, WordAssumption
      <3> QED
        BY <2>1, <3>2 DEF ReadersLeft
    <2> QED
      BY <2>2, <2>3
  <1>4. CASE Register(r)
    <2>1. pc[r] = "register" /\ pc'[r] = "verify" /\ UNCHANGED reader_done_condvar
      BY <1>t, <1>4, Others DEF Register, Goto, Threads, sync
    <2>2. readers_state'.active_readers = Inc16(readers_state.active_readers)
      BY <1>t, <1>4 DEF Register, ReadersStateCount
    <2>3. readers_state.active_readers # U16Max
      <3>1. /\ r \notin Registered
            /\ IsFiniteSet(Registered)
            /\ readers_state.active_readers = Cardinality(Registered)
        BY <2>1, ReadersSubset DEF Registered, ExclusionInv, ActiveCount
      <3>2. /\ Cardinality(Registered \cup {r}) = Cardinality(Registered) + 1
            /\ Cardinality(Registered \cup {r}) \in 0..U16Max
        BY <3>1, FS_AddElement, ReadersSubset DEF Registered
      <3> QED
        BY <1>t, <3>1, <3>2, WordAssumption
    <2> QED
      BY <1>t, <2>1, <2>2, <2>3 DEF Inc16, ReadersLeft
  <1>5. CASE AddReader(r) \/ RemoveReader(r)
    BY <1>t, <1>5, <1>o DEF AddReader, RemoveReader, Goto, ReadersLeft, ReadersStateCount, sync
  <1>6. CASE BeginRead(r) \/ ReadTicket(r) \/ LoadState(r) \/ SleepReader(r) \/ Verify(r)
    <2>1. UNCHANGED <<readers_state, reader_done_condvar>>
      BY <1>6 DEF BeginRead, ReadTicket, LoadState, SleepReader, Verify, word, sync
    <2>2. pc[r] \notin {"retryNotify", "releaseNotify"}
      BY <1>6 DEF BeginRead, ReadTicket, LoadState, SleepReader, Verify, Goto
    <2> QED
      BY <1>o, <2>1, <2>2 DEF ReadersLeft
  <1> QED
    BY <1>1, <1>2, <1>3, <1>4, <1>5, <1>6 DEF ReaderCall, ReaderStep

LEMMA StepDrainWakeup == ExclusionInv /\ DrainWakeupInv /\ [Next]_vars => DrainWakeupInv'
  <1> SUFFICES ASSUME ExclusionInv, DrainWakeupInv, [Next]_vars PROVE DrainWakeupInv'
    OBVIOUS
  <1>t. TypeOK /\ PcOK /\ sequence_and_flags \in SequenceState
    BY DEF ExclusionInv, TypeOK
  <1> USE DEF DrainWakeupInv, DrainReaders, DrainStop, Waiting
  <1>1. ASSUME NEW w \in Writers, WriterCall(w) \/ WriterStep(w) PROVE DrainWakeupInv'
    <2>1. /\ \A u \in Threads \ {w} : pc'[u] = pc[u]
          /\ UNCHANGED stopCall
      BY <1>t, <1>1, WriterFrame, Others DEF Threads
    <2>2. ReadersLeft' <=> ReadersLeft
      BY <1>t, <1>1, <2>1, WriterKeepsActive, ThreadsAssumption DEF ReadersLeft, Threads
    <2>3. Stopped' = Stopped
      <3>1. CASE MarkWriting(w) \/ UnmarkWriting(w) \/ Publish(w)
        BY <1>t, <3>1 DEF MarkWriting, UnmarkWriting, Publish, SequenceState, Stopped
      <3> QED
        BY <1>1, <3>1, WriterKeepsFlags DEF Stopped
    <2>4. pc'[w] = "drainStopped" => ReadersLeft
      BY <1>t, <1>1, WriterWaits DEF ReadersLeft
    <2> QED
      BY <1>t, <1>1, <2>1, <2>2, <2>3, <2>4, WriterWaits DEF Threads
  <1>2. ASSUME NEW r \in Readers, ReaderCall(r) \/ ReaderStep(r) PROVE DrainWakeupInv'
    <2>1. /\ \A w \in Writers : pc'[w] = pc[w]
          /\ UNCHANGED <<sequence_and_flags, stopCall>>
      BY <1>t, <1>2, ReaderFrame, Others, ThreadsAssumption DEF Threads
    <2> QED
      BY <1>2, <2>1, ReaderLeaves DEF Stopped
  <1>3. CASE StopSteps
    <2>1. UNCHANGED <<pc, readers_state>>
      BY <1>3, StopFrame
    <2>2. CASE StopNotifyWriters
      BY <2>2 DEF StopNotifyWriters, ReaderDoneCv!NotifyAll
    <2>3. CASE StopFlag \/ StopNotifyReaders
      <3>1. /\ UNCHANGED reader_done_condvar
            /\ stopCall' \in {"flagged", "readersWoken"}
        BY <2>3 DEF StopFlag, StopNotifyReaders, StopStep
      <3> QED
        BY <2>1, <3>1 DEF ReadersLeft
    <2> QED
      BY <1>3, <2>2, <2>3 DEF StopSteps
  <1>4. ASSUME NEW t \in Threads, SpuriousWakeup(t) PROVE DrainWakeupInv'
    <2>1. /\ UNCHANGED <<sequence_and_flags, readers_state, reader_done_condvar, stopCall>>
          /\ \A u \in Threads : \/ pc'[u] = pc[u]
                               \/ /\ pc[u] \in {"await", "drainWait", "sleep"}
                                  /\ pc'[u] \in {"reticket", "drainTicket", "take"}
      BY <1>t, <1>4, SpuriousFrame, Others DEF word, sync, locals
    <2>2. ReadersLeft => ReadersLeft'
      BY <2>1 DEF ReadersLeft, Threads
    <2> QED
      BY <2>1, <2>2 DEF Threads, Stopped
  <1>5. CASE UNCHANGED vars
    BY <1>5 DEF vars, word, sync, locals, ReadersLeft, Stopped
  <1> QED
    BY <1>1, <1>2, <1>3, <1>4, <1>5 DEF Next, StopSteps

\* The second loop of start_write (mod.rs:111-122) misses no reader that leaves
\* and no stop, for any number of writers and readers: a writer asleep in it
\* has an active reader to wait for, or one that will notify it.
THEOREM SharedMessageDrainWakeup == Spec => []DrainWakeup
  <1>1. Init => DrainWakeupInv
    BY DEF Init, DrainWakeupInv, DrainReaders, DrainStop, Waiting
  <1>2. DrainWakeupInv => DrainWakeup
    BY DEF DrainWakeupInv, DrainReaders, DrainStop, Waiting, ReadersLeft, DrainWakeup, Asleep
  <1> QED
    BY <1>1, <1>2, ExclusionInvariance, StepDrainWakeup, PTL DEF Spec
=============================================================================
