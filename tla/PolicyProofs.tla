---------------------------- MODULE PolicyProofs ----------------------------
(***************************************************************************)
(* The consumption policy of SharedMessage, and with it that SharedMessage *)
(* implements Slot, for any number of threads.  The count of the readers   *)
(* that are done is exact in every case.  The policy is respected where no *)
(* reader registers while the system runs ("join" \notin Ops): add_reader  *)
(* raises what the policy asks for after a writer has checked it.          *)
(***************************************************************************)
EXTENDS SharedMessageProofs

\* A reader past the load of the state is about to read something new.
SnapFresh ==
    \A r \in Readers : pc[r] \in {"register", "verify", "guard"} => snap[r] # seen[r]

\* Who is done with the message has its number, and so reads it no more.
ConsumedSeen == \A r \in consumedBy : seen[r] = Sequence

\* The count starts anew just before the message it is for is published.
PublishZero == \A w \in Writers : pc[w] = "publish" => readers_state.data_consumed = 0
ConsumedCount ==
    (\A w \in Writers : pc[w] # "publish") =>
        readers_state.data_consumed = Cardinality(consumedBy)

\* data_consumed is exact: it counts the readers that are done with this
\* message, each of them once, from its publication on.
CountInv ==
    /\ SnapFresh
    /\ ConsumedSeen
    /\ PublishZero
    /\ ConsumedCount

PolicyInv == CountInv /\ PolicyRespected

LEMMA TargetType ==
  ASSUME readers_state \in ReadersStateCount
  PROVE  /\ get_target_consumed \in Nat
         /\ readers_state.data_consumed \in Nat
  BY WordAssumption DEF ReadersStateCount, get_target_consumed

----------------------------------------------------------------------------
(* The writers.                                                            *)

\* A writer gets past the policy loop by finding enough readers done.
LEMMA WriterPasses ==
  ASSUME TypeOK, NEW w \in Writers, WriterCall(w) \/ WriterStep(w)
  PROVE  /\ PastPolicy(w)' =>
              \/ PastPolicy(w)
              \/ ~Behind /\ Holding(w) /\ pc[w] # "publish"
         /\ pc[w] = "publish" => Publish(w)
         /\ pc'[w] = "publish" => ResetConsumed(w)
  <1>t. PcOK
    BY DEF TypeOK
  <1> USE DEF Goto, Threads, PastPolicy, Holding
  <1>1. CASE WriterCall(w)
    BY <1>t, <1>1, Others DEF WriterCall, BeginWrite, BeginSetTarget, DropWriteGuard
  <1>2. CASE \/ LockWriter(w) \/ Snapshot(w) \/ PolicyTicket(w) \/ PolicyStopped(w)
             \/ KickReaders(w) \/ AwaitConsumed(w) \/ PolicyReticket(w)
             \/ PolicyResnapshot(w)
    BY <1>t, <1>2, Others DEF LockWriter, Snapshot, PolicyTicket, PolicyStopped,
       KickReaders, AwaitConsumed, PolicyReticket, PolicyResnapshot
  <1>3. CASE \/ MarkWriting(w) \/ DrainTicket(w) \/ DrainActive(w) \/ DrainStopped(w)
             \/ UnmarkWriting(w) \/ AwaitDrained(w)
    BY <1>t, <1>3, Others DEF MarkWriting, DrainTicket, DrainActive, DrainStopped,
       UnmarkWriting, AwaitDrained
  <1>4. CASE \/ BeginFill(w) \/ EndFill(w) \/ SlicePanic(w) \/ PublishTooLarge(w)
             \/ StoreSize(w) \/ ResetConsumed(w) \/ Publish(w)
    BY <1>t, <1>4, Others DEF BeginFill, EndFill, SlicePanic, PublishTooLarge, StoreSize,
       ResetConsumed, Publish
  <1>5. CASE NotifyReaders(w) \/ UnlockWriter(w) \/ LockTarget(w) \/ SetTarget(w)
    BY <1>t, <1>5, Others DEF NotifyReaders, UnlockWriter, LockTarget, SetTarget
  <1> QED
    BY <1>1, <1>2, <1>3, <1>4, <1>5 DEF WriterStep

\* What a writer does to the sequence, the counts and the history.
LEMMA WriterCounts ==
  ASSUME TypeOK, NEW w \in Writers, WriterCall(w) \/ WriterStep(w),
         ~ResetConsumed(w), ~Publish(w), ~SetTarget(w)
  PROVE  /\ Sequence' = Sequence
         /\ UNCHANGED <<readers_state, consumedBy, published>>
  <1>1. CASE MarkWriting(w) \/ UnmarkWriting(w)
    BY <1>1 DEF MarkWriting, UnmarkWriting, TypeOK, SequenceState, Sequence, ghost
  <1>2. ASSUME ~MarkWriting(w), ~UnmarkWriting(w)
        PROVE  UNCHANGED <<sequence_and_flags, readers_state, consumedBy, published>>
    BY <1>2 DEF WriterCall, WriterStep, BeginWrite, BeginSetTarget, DropWriteGuard,
       LockWriter, Snapshot, PolicyTicket, PolicyStopped, KickReaders, AwaitConsumed,
       PolicyReticket, PolicyResnapshot, DrainTicket, DrainActive, DrainStopped,
       AwaitDrained, BeginFill, EndFill, SlicePanic, PublishTooLarge, StoreSize,
       NotifyReaders, UnlockWriter, LockTarget, word, ghost
  <1> QED
    BY <1>1, <1>2 DEF Sequence

LEMMA PastPolicyHolding == \A w \in Writers : PastPolicy(w) => Holding(w)
  BY DEF PastPolicy, Holding

LEMMA WriterPolicy ==
  ASSUME ExclusionInv, CountInv, NEW w \in Writers, WriterCall(w) \/ WriterStep(w)
  PROVE  CountInv' /\ (PolicyRespected => PolicyRespected')
  <1>t. /\ TypeOK /\ PcOK /\ WriterHolds
        /\ readers_state \in ReadersStateCount
        /\ sequence_and_flags \in SequenceState
    BY DEF ExclusionInv, TypeOK
  <1>o. /\ \A u \in Threads \ {w} : pc'[u] = pc[u]
        /\ UNCHANGED <<seen, snap>>
    BY <1>t, WriterFrame, Others DEF Threads
  <1>s. SnapFresh'
    BY <1>o, ThreadsAssumption DEF CountInv, SnapFresh, Threads
  <1>v. ASSUME Holding(w) PROVE \A v \in Writers \ {w} : ~Holding(v) /\ pc'[v] = pc[v]
    BY <1>t, <1>o, <1>v, OneHolder DEF Threads
  <1>1. CASE ResetConsumed(w)
    <2>1. /\ pc[w] = "reset" /\ pc'[w] = "publish"
          /\ UNCHANGED <<sequence_and_flags, consumedBy>>
          /\ readers_state' = [readers_state EXCEPT !.data_consumed = 0]
      BY <1>t, <1>1, Others DEF ResetConsumed, Goto, Threads, ghost
    <2>2. readers_state'.data_consumed = 0 /\ get_target_consumed' = get_target_consumed
      BY <1>t, <2>1 DEF ReadersStateCount, get_target_consumed
    <2>3. Holding(w) /\ PastPolicy(w)
      BY <2>1 DEF Holding, PastPolicy
    <2>4. PublishZero' /\ ConsumedCount' /\ ConsumedSeen'
      BY <1>o, <2>1, <2>2 DEF CountInv, PublishZero, ConsumedCount, ConsumedSeen, Sequence
    <2>5. PolicyRespected => PolicyRespected'
      BY <1>v, <2>1, <2>2, <2>3, PastPolicyHolding
      DEF PolicyRespected, Sequence, PastPolicy
    <2> QED
      BY <1>s, <2>4, <2>5 DEF CountInv
  <1>2. CASE Publish(w)
    <2>1. /\ pc[w] = "publish" /\ pc'[w] = "notify"
          /\ consumedBy' = {} /\ UNCHANGED readers_state
      BY <1>t, <1>2, Others DEF Publish, Goto, Threads
    <2>2. readers_state'.data_consumed = 0
      BY <2>1 DEF CountInv, PublishZero
    <2>3. \A v \in Writers : pc'[v] # "publish" /\ ~PastPolicy(v)'
      <3>1. Holding(w)
        BY <2>1 DEF Holding
      <3> QED
        BY <1>v, <2>1, <3>1 DEF PastPolicy, Holding
    <2> QED
      BY <1>s, <2>1, <2>2, <2>3, FS_EmptySet
      DEF CountInv, PublishZero, ConsumedCount, ConsumedSeen, PolicyRespected
  <1>3. CASE SetTarget(w)
    <2>1. /\ pc[w] = "setTarget" /\ pc'[w] = "unlock"
          /\ UNCHANGED <<sequence_and_flags, consumedBy>>
          /\ readers_state'.data_consumed = readers_state.data_consumed
      BY <1>t, <1>3, Others DEF SetTarget, Goto, Threads, ghost, ReadersStateCount
    <2>2. \A v \in Writers : pc'[v] # "publish" /\ pc[v] # "publish" /\ ~PastPolicy(v)'
      <3>1. Holding(w)
        BY <2>1 DEF Holding
      <3> QED
        BY <1>v, <2>1, <3>1 DEF PastPolicy, Holding
    <2> QED
      BY <1>o, <1>s, <2>1, <2>2
      DEF CountInv, PublishZero, ConsumedCount, ConsumedSeen, PolicyRespected, Sequence
  <1>4. ASSUME ~ResetConsumed(w), ~Publish(w), ~SetTarget(w) PROVE CountInv' /\ (PolicyRespected => PolicyRespected')
    <2>1. Sequence' = Sequence /\ UNCHANGED <<readers_state, consumedBy>>
      BY <1>t, <1>4, WriterCounts
    <2>2. \A v \in Writers : pc'[v] = "publish" <=> pc[v] = "publish"
      BY <1>t, <1>o, <1>4, WriterPasses DEF Threads
    <2>3. PublishZero' /\ ConsumedCount' /\ ConsumedSeen'
      BY <1>o, <2>1, <2>2 DEF CountInv, PublishZero, ConsumedCount, ConsumedSeen
    <2>4. ASSUME PolicyRespected, NEW v \in Writers, PastPolicy(v)', Sequence > 0
          PROVE  Cardinality(consumedBy) >= get_target_consumed
      <3>1. CASE PastPolicy(v)
        BY <2>4, <3>1 DEF PolicyRespected
      <3>2. CASE ~PastPolicy(v)
        <4>1. v = w
          BY <1>o, <2>4, <3>2 DEF PastPolicy, Threads
        <4>2. ~Behind /\ Holding(w) /\ pc[w] # "publish"
          BY <1>t, <2>4, <3>2, <4>1, WriterPasses
        <4>3. \A u \in Writers : pc[u] # "publish"
          BY <1>v, <4>2 DEF Holding
        <4> QED
          BY <1>t, <2>4, <4>2, <4>3, TargetType DEF CountInv, ConsumedCount, Behind
      <3> QED
        BY <3>1, <3>2
    <2>5. PolicyRespected => PolicyRespected'
      BY <2>1, <2>4 DEF PolicyRespected, get_target_consumed
    <2> QED
      BY <1>s, <2>3, <2>5 DEF CountInv
  <1> QED
    BY <1>1, <1>2, <1>3, <1>4
----------------------------------------------------------------------------
(* The readers.                                                            *)

\* A reader registers only for a message it has not seen.
LEMMA ReaderFresh ==
  ASSUME TypeOK, SnapFresh, NEW r \in Readers, ReaderCall(r) \/ ReaderStep(r)
  PROVE  SnapFresh'
  <1>t. /\ PcOK
        /\ seen \in [Readers -> 0..SequenceMask]
        /\ snap \in [Readers -> 0..SequenceMask]
    BY DEF TypeOK
  <1>o. \A s \in Readers \ {r} : pc'[s] = pc[s]
    BY <1>t, ReaderFrame, Others DEF Threads
  <1> USE DEF SnapFresh, Goto, Threads
  <1>1. CASE AddReader(r)
    BY <1>t, <1>1 DEF AddReader
  <1>2. CASE BeginRead(r) \/ RemoveReader(r)
    <2>1. pc' = [pc EXCEPT ![r] = "take"] \/ pc' = [pc EXCEPT ![r] = "gone"]
      BY <1>2 DEF BeginRead, RemoveReader
    <2>2. pc'[r] \in {"take", "gone"}
      BY <1>t, <2>1, Others
    <2> QED
      BY <1>o, <1>2, <2>2 DEF BeginRead, RemoveReader
  <1>3. CASE LoadState(r)
    <2>1. /\ UNCHANGED seen
          /\ \A s \in Readers \ {r} : snap'[s] = snap[s]
          /\ \/ pc'[r] \in {"idle", "sleep"}
             \/ snap'[r] = Sequence /\ Sequence # seen[r]
      BY <1>t, <1>3, Others DEF LoadState
    <2> QED
      BY <1>o, <2>1
  <1>4. CASE Register(r) \/ Verify(r)
    BY <1>t, <1>o, <1>4, Others DEF Register, Verify, locals
  <1>5. CASE ReadTicket(r) \/ SleepReader(r) \/ Unregister(r) \/ RetryNotify(r)
             \/ ReleaseNotify(r)
    BY <1>t, <1>o, <1>5, Others
    DEF ReadTicket, SleepReader, Unregister, RetryNotify, ReleaseNotify, locals
  <1>6. CASE Release(r)
    <2>1. /\ UNCHANGED snap
          /\ \A s \in Readers \ {r} : seen'[s] = seen[s]
          /\ pc'[r] \in {"idle", "releaseNotify"}
      BY <1>t, <1>6, Others DEF Release
    <2> QED
      BY <1>o, <2>1
  <1> QED
    BY <1>1, <1>2, <1>3, <1>4, <1>5, <1>6 DEF ReaderCall, ReaderStep

\* The message a reader is done with is the one in the slot, and new to it.
LEMMA ReleaseCounts ==
  ASSUME ExclusionInv, GuardCurrent, CountInv, NEW r \in Readers, Release(r)
  PROVE  /\ r \notin consumedBy
         /\ \A w \in Writers : pc[w] # "publish" /\ pc'[w] # "publish"
         /\ seen' = [seen EXCEPT ![r] = Sequence]
         /\ Cardinality(consumedBy') = Cardinality(consumedBy) + 1
         /\ Cardinality(consumedBy) \in Nat
         /\ readers_state'.data_consumed = Cardinality(consumedBy')
         /\ get_target_consumed' = get_target_consumed
  <1>t. /\ TypeOK /\ PcOK /\ consumedBy \subseteq Readers
        /\ readers_state \in ReadersStateCount
    BY DEF ExclusionInv, TypeOK
  <1>1. /\ pc[r] = "guard" /\ snap[r] = Sequence /\ snap[r] # seen[r]
        /\ consumedBy' = consumedBy \cup {r}
        /\ seen' = [seen EXCEPT ![r] = snap[r]]
    BY DEF Release, Goto, GuardCurrent, CountInv, SnapFresh
  <1>2. r \notin consumedBy
    BY <1>1 DEF CountInv, ConsumedSeen
  <1>3. \A w \in Writers : pc[w] # "publish" /\ pc'[w] # "publish"
    <2>1. \A w \in Writers : pc'[w] = pc[w]
      BY <1>t, ReaderFrame, Others, ThreadsAssumption DEF Threads, ReaderStep
    <2> QED
      BY <1>1, <2>1 DEF ExclusionInv, ReadWriteExclusion, Owning
  <1>4. /\ Cardinality(consumedBy') = Cardinality(consumedBy) + 1
        /\ Cardinality(consumedBy) \in 0..U16Max
        /\ Cardinality(consumedBy') \in 0..U16Max
    <2>1. IsFiniteSet(consumedBy) /\ Cardinality(consumedBy) \in 0..U16Max
      BY <1>t, ReadersSubset
    <2>2. Cardinality(consumedBy \cup {r}) \in 0..U16Max
      BY <1>t, ReadersSubset
    <2> QED
      BY <1>1, <1>2, <2>1, <2>2, FS_AddElement
  <1>5. readers_state.data_consumed = Cardinality(consumedBy)
    BY <1>3 DEF CountInv, ConsumedCount
  <1>6. readers_state'.data_consumed = Inc16(readers_state.data_consumed)
    BY <1>t DEF Release, ReadersStateCount
  <1>7. Inc16(readers_state.data_consumed) = readers_state.data_consumed + 1
    BY <1>4, <1>5, WordAssumption DEF Inc16
  <1>8. get_target_consumed' = get_target_consumed
    BY <1>t DEF Release, ReadersStateCount, get_target_consumed
  <1> QED
    BY <1>1, <1>2, <1>3, <1>4, <1>5, <1>6, <1>7, <1>8, WordAssumption

\* The other steps of a reader count for nothing.
LEMMA ReaderCounts ==
  ASSUME TypeOK, NEW r \in Readers, ReaderCall(r) \/ ReaderStep(r), ~Release(r)
  PROVE  /\ UNCHANGED <<seen, consumedBy>>
         /\ readers_state'.data_consumed = readers_state.data_consumed
         /\ "join" \notin Ops =>
              /\ get_target_consumed' \in Nat
              /\ get_target_consumed' <= get_target_consumed
              /\ ~RemoveReader(r) => get_target_consumed' = get_target_consumed
  <1>t. readers_state \in ReadersStateCount
    BY DEF TypeOK
  <1>n. get_target_consumed \in Nat
    BY <1>t, TargetType
  <1>1. CASE RemoveReader(r)
    <2>1. /\ readers_state.consumers \in 0..U16Max \ {0}
          /\ readers_state'.consumers = readers_state.consumers - 1
          /\ readers_state'.target_read = readers_state.target_read
          /\ readers_state'.data_consumed = readers_state.data_consumed
          /\ readers_state.target_read \in 0..U16Max
      BY <1>t, <1>1 DEF RemoveReader, ReadersStateCount
    <2>2. UNCHANGED <<seen, consumedBy>>
      BY <1>1 DEF RemoveReader, ghost
    <2> QED
      BY <1>1, <2>1, <2>2, WordAssumption DEF get_target_consumed
  <1>2. CASE Register(r) \/ Unregister(r)
    <2>1. UNCHANGED <<seen, consumedBy>>
      BY <1>2 DEF Register, Unregister, locals, ghost
    <2>2. /\ readers_state'.data_consumed = readers_state.data_consumed
          /\ get_target_consumed' = get_target_consumed
      BY <1>t, <1>2 DEF Register, Unregister, ReadersStateCount, get_target_consumed
    <2> QED
      BY <1>n, <2>1, <2>2
  <1>3. CASE \/ BeginRead(r) \/ ReadTicket(r) \/ LoadState(r) \/ SleepReader(r)
             \/ Verify(r) \/ RetryNotify(r) \/ ReleaseNotify(r)
    <2>1. UNCHANGED <<readers_state, seen, consumedBy>>
      BY <1>3 DEF BeginRead, ReadTicket, LoadState, SleepReader, Verify, RetryNotify,
         ReleaseNotify, word, locals, ghost
    <2> QED
      BY <1>n, <2>1 DEF get_target_consumed
  <1>4. CASE AddReader(r)
    BY <1>t, <1>4 DEF AddReader, ReadersStateCount, ghost
  <1> QED
    BY <1>1, <1>2, <1>3, <1>4 DEF ReaderCall, ReaderStep

LEMMA ReaderPolicy ==
  ASSUME ExclusionInv, GuardCurrent, CountInv,
         NEW r \in Readers, ReaderCall(r) \/ ReaderStep(r)
  PROVE  CountInv' /\ ("join" \notin Ops /\ PolicyRespected => PolicyRespected')
  <1>t. /\ TypeOK /\ PcOK /\ consumedBy \subseteq Readers
        /\ seen \in [Readers -> 0..SequenceMask]
        /\ readers_state \in ReadersStateCount
    BY DEF ExclusionInv, TypeOK
  <1>o. /\ \A w \in Writers : pc'[w] = pc[w] /\ (PastPolicy(w)' <=> PastPolicy(w))
        /\ Sequence' = Sequence
    BY <1>t, ReaderFrame, Others, ThreadsAssumption DEF Threads, PastPolicy, Sequence
  <1>n. get_target_consumed \in Nat /\ Cardinality(consumedBy) \in Nat
    BY <1>t, TargetType, ReadersSubset
  <1>s. SnapFresh'
    BY <1>t, ReaderFresh DEF CountInv
  <1>1. CASE Release(r)
    <2>1. /\ consumedBy' = consumedBy \cup {r}
          /\ \A s \in consumedBy' : seen'[s] = Sequence
      BY <1>t, <1>1, ReleaseCounts DEF Release, CountInv, ConsumedSeen
    <2>2. /\ \A w \in Writers : pc[w] # "publish" /\ pc'[w] # "publish"
          /\ Cardinality(consumedBy') = Cardinality(consumedBy) + 1
          /\ readers_state'.data_consumed = Cardinality(consumedBy')
          /\ get_target_consumed' = get_target_consumed
      BY <1>1, ReleaseCounts
    <2>3. ConsumedSeen' /\ PublishZero' /\ ConsumedCount'
      BY <1>o, <2>1, <2>2 DEF ConsumedSeen, PublishZero, ConsumedCount
    <2>4. PolicyRespected => PolicyRespected'
      BY <1>o, <1>n, <2>2 DEF PolicyRespected
    <2> QED
      BY <1>s, <2>3, <2>4 DEF CountInv
  <1>2. CASE ~Release(r)
    BY <1>t, <1>2, <1>o, <1>n, <1>s, ReaderCounts
    DEF CountInv, ConsumedSeen, PublishZero, ConsumedCount, PolicyRespected
  <1> QED
    BY <1>1, <1>2

LEMMA StepPolicy ==
  ExclusionInv /\ GuardCurrent /\ CountInv /\ [Next]_vars
    => CountInv' /\ ("join" \notin Ops /\ PolicyRespected => PolicyRespected')
  <1> SUFFICES ASSUME ExclusionInv, GuardCurrent, CountInv, [Next]_vars
               PROVE  CountInv' /\ ("join" \notin Ops /\ PolicyRespected => PolicyRespected')
    OBVIOUS
  <1>t. TypeOK /\ PcOK
    BY DEF ExclusionInv, TypeOK
  <1>1. ASSUME NEW w \in Writers, WriterCall(w) \/ WriterStep(w)
        PROVE  CountInv' /\ (PolicyRespected => PolicyRespected')
    BY <1>1, WriterPolicy
  <1>2. ASSUME NEW r \in Readers, ReaderCall(r) \/ ReaderStep(r)
        PROVE  CountInv' /\ ("join" \notin Ops /\ PolicyRespected => PolicyRespected')
    BY <1>2, ReaderPolicy
  <1> USE DEF CountInv, SnapFresh, ConsumedSeen, PublishZero, ConsumedCount,
              PolicyRespected, PastPolicy
  <1>3. CASE StopSteps
    BY <1>t, <1>3, StopFrame, StopKeepsWriting DEF get_target_consumed
  <1>4. ASSUME NEW t \in Threads, SpuriousWakeup(t)
        PROVE  CountInv' /\ (PolicyRespected => PolicyRespected')
    <2>1. /\ UNCHANGED <<sequence_and_flags, readers_state, seen, snap, consumedBy>>
          /\ \A u \in Threads : \/ pc'[u] = pc[u]
                               \/ /\ pc[u] \in {"await", "drainWait", "sleep"}
                                  /\ pc'[u] \in {"reticket", "drainTicket", "take"}
      BY <1>t, <1>4, SpuriousFrame, Others DEF word, locals, ghost
    <2>2. \A w \in Writers :
            /\ pc'[w] = "publish" <=> pc[w] = "publish"
            /\ PastPolicy(w)' => PastPolicy(w)
      <3>1. \A w \in Writers : pc[w] = "await" => pc'[w] \in {"await", "reticket"}
        BY <1>t, <1>4, SpuriousFrame, Others DEF Threads
      <3> QED
        BY <1>t, <2>1, <3>1 DEF Threads, PcOK, WriterPC
    <2> QED
      BY <2>1, <2>2 DEF Threads, Sequence, get_target_consumed
  <1>5. CASE UNCHANGED vars
    BY <1>5 DEF vars, word, locals, ghost, Sequence, get_target_consumed
  <1> QED
    BY <1>1, <1>2, <1>3, <1>4, <1>5 DEF Next, StopSteps

LEMMA InitPolicy == Init => PolicyInv
  BY FS_EmptySet DEF Init, PolicyInv, CountInv, SnapFresh, ConsumedSeen, PublishZero, ConsumedCount,
     PolicyRespected, PastPolicy, Threads, Sequence

\* readers_state.data_consumed (release_active_reader, publish_write), for any
\* number of threads that come and go: outside of the reset before a publish it
\* is the number of different readers that are done with the message.
THEOREM SharedMessageCountExact == Spec => []ConsumedCount
  <1>1. ExclusionInv /\ IntegrityInv /\ CountInv /\ [Next]_vars => CountInv'
    BY StepPolicy DEF IntegrityInv
  <1>2. Init => CountInv
    BY InitPolicy DEF PolicyInv
  <1>3. CountInv => ConsumedCount
    BY DEF CountInv
  <1> QED
    BY <1>1, <1>2, <1>3, ExclusionInvariance, IntegrityInvariance, PTL DEF Spec

LEMMA PolicyInvariance == ASSUME "join" \notin Ops PROVE Spec => []PolicyInv
  <1>1. ExclusionInv /\ IntegrityInv /\ PolicyInv /\ [Next]_vars => PolicyInv'
    BY StepPolicy DEF IntegrityInv, PolicyInv
  <1> QED
    BY <1>1, ExclusionInvariance, IntegrityInvariance, InitPolicy, PTL DEF Spec

\* The first loop of start_write (mod.rs:89-105), for any number of threads,
\* any policy and any changes of it: no message is replaced before as many
\* different readers as the policy asks for are done with it.
THEOREM SharedMessagePolicy == ASSUME "join" \notin Ops PROVE Spec => []PolicyRespected
  BY PolicyInvariance, PTL DEF PolicyInv
----------------------------------------------------------------------------
(* SharedMessage implements Slot.                                          *)

\* A writer on its way to a publish.
InWrite(w) ==
    pc[w] \notin {"idle", "notify", "unlock", "lockTarget", "setTarget"}

\* It has a message to publish.
HasJob == \A w \in Writers : InWrite(w) => job[w].payload \in Payloads

LEMMA StepHasJob == TypeOK /\ HasJob /\ [Next]_vars => HasJob'
  <1> SUFFICES ASSUME TypeOK, HasJob, [Next]_vars PROVE HasJob'
    OBVIOUS
  <1>t. PcOK /\ job \in [Writers -> Jobs]
    BY DEF TypeOK
  <1> USE DEF HasJob, InWrite
  <1>1. ASSUME NEW w \in Writers, WriterCall(w) \/ WriterStep(w) PROVE HasJob'
    <2>1. \A v \in Writers \ {w} : pc'[v] = pc[v]
      BY <1>t, <1>1, WriterFrame, Others DEF Threads
    <2>2. CASE BeginWrite(w)
      BY <1>t, <2>1, <2>2 DEF BeginWrite
    <2>3. CASE UnlockWriter(w)
      <3>1. pc'[w] = "idle" /\ \A v \in Writers \ {w} : job'[v] = job[v]
        BY <1>t, <2>3, Others DEF UnlockWriter, Goto, Threads
      <3> QED
        BY <2>1, <3>1
    <2>4. CASE BeginSetTarget(w) \/ LockTarget(w) \/ SetTarget(w)
      BY <1>t, <2>1, <2>4, Others DEF BeginSetTarget, LockTarget, SetTarget, Goto, Threads,
         locals
    <2>5. ASSUME ~BeginWrite(w), ~UnlockWriter(w), ~BeginSetTarget(w), ~LockTarget(w),
                 ~SetTarget(w)
          PROVE  UNCHANGED job /\ (InWrite(w) \/ ~InWrite(w)')
      <3>1. UNCHANGED job
        BY <1>1, <2>5 DEF WriterCall, WriterStep, DropWriteGuard, LockWriter, Snapshot,
           PolicyTicket, PolicyStopped, KickReaders, AwaitConsumed, PolicyReticket,
           PolicyResnapshot, MarkWriting, DrainTicket, DrainActive, DrainStopped,
           UnmarkWriting, AwaitDrained, BeginFill, EndFill, SlicePanic, PublishTooLarge,
           StoreSize, ResetConsumed, Publish, NotifyReaders, locals
      <3>2. ASSUME NotifyReaders(w) PROVE ~InWrite(w)'
        BY <1>t, <3>2, Others DEF NotifyReaders, Goto, Threads
      <3>3. ASSUME ~NotifyReaders(w) PROVE InWrite(w)
        BY <1>1, <2>5, <3>3 DEF WriterCall, WriterStep, DropWriteGuard, LockWriter, Snapshot,
           PolicyTicket, PolicyStopped, KickReaders, AwaitConsumed, PolicyReticket,
           PolicyResnapshot, MarkWriting, DrainTicket, DrainActive, DrainStopped,
           UnmarkWriting, AwaitDrained, BeginFill, EndFill, SlicePanic, PublishTooLarge,
           StoreSize, ResetConsumed, Publish, Goto
      <3> QED
        BY <3>1, <3>2, <3>3
    <2> QED
      BY <2>1, <2>2, <2>3, <2>4, <2>5
  <1>2. ASSUME NEW r \in Readers, ReaderCall(r) \/ ReaderStep(r) PROVE HasJob'
    BY <1>t, <1>2, ReaderFrame, Others, ThreadsAssumption DEF Threads
  <1>3. CASE StopSteps
    BY <1>3, StopFrame
  <1>4. ASSUME NEW t \in Threads, SpuriousWakeup(t) PROVE HasJob'
    <2>1. /\ UNCHANGED job
          /\ \A u \in Threads :
               pc'[u] = pc[u] \/ pc[u] \in {"await", "drainWait", "sleep"}
      BY <1>t, <1>4, SpuriousFrame, Others DEF locals
    <2> QED
      BY <2>1 DEF Threads
  <1>5. CASE UNCHANGED vars
    BY <1>5 DEF vars, locals
  <1> QED
    BY <1>1, <1>2, <1>3, <1>4, <1>5 DEF Next, StopSteps

SlotInv == ExclusionInv /\ IntegrityInv /\ PolicyInv /\ HasJob

\* A step that leaves what the callers see alone.
LEMMA SlotStutters ==
  ASSUME Sequence' = Sequence, Stopped' = Stopped, Writing' = Writing,
         UNCHANGED <<published, consumedBy, seen>>,
         get_target_consumed' = get_target_consumed,
         \A r \in Readers : pc'[r] = "guard" <=> pc[r] = "guard"
  PROVE  UNCHANGED AbstractSlot!vars
  BY DEF AbstractSlot!vars

LEMMA WriterSlot ==
  ASSUME SlotInv, NEW w \in Writers, WriterCall(w) \/ WriterStep(w)
  PROVE  [AbstractSlot!Next]_(AbstractSlot!vars)
  <1>t. /\ TypeOK /\ PcOK
        /\ readers_state \in ReadersStateCount
        /\ sequence_and_flags \in SequenceState
    BY DEF SlotInv, ExclusionInv, TypeOK
  <1>o. (\A r \in Readers : pc'[r] = pc[r]) /\ UNCHANGED seen
    BY <1>t, WriterFrame, Others, ThreadsAssumption DEF Threads
  <1>1. CASE Publish(w)
    <2>1. /\ pc[w] = "publish"
          /\ published' = job[w].payload
          /\ consumedBy' = {}
          /\ UNCHANGED readers_state
          /\ Sequence' = NextSequence /\ Stopped' = Stopped
      BY <1>t, <1>1 DEF Publish, Goto, SequenceState, Sequence, Stopped
    <2>w. Writing /\ Writing' = FALSE
      <3>1. Writing
        BY <2>1 DEF SlotInv, ExclusionInv, MarkedWriting, Marked, Owning
      <3>2. Writing' = FALSE
        BY <1>t, <1>1 DEF Publish, SequenceState, Writing
      <3> QED
        BY <3>1, <3>2
    <2>2. job[w].payload \in Payloads
      BY <2>1 DEF SlotInv, HasJob, InWrite
    <2>3. \A r \in Readers : pc[r] # "guard" /\ pc'[r] # "guard"
      BY <1>o, <2>1 DEF SlotInv, ExclusionInv, ReadWriteExclusion, Owning
    <2>4. Sequence > 0 => Cardinality(consumedBy) >= get_target_consumed
      BY <2>1 DEF SlotInv, PolicyInv, PolicyRespected, PastPolicy
    <2>5. Cardinality(consumedBy') = 0 /\ get_target_consumed' = get_target_consumed
      BY <2>1, FS_EmptySet DEF get_target_consumed
    <2>6. AbstractSlot!Publish(job[w].payload)
      BY <1>o, <2>1, <2>w, <2>3, <2>4, <2>5 DEF AbstractSlot!Publish, NextSequence
    <2> QED
      BY <2>2, <2>6 DEF AbstractSlot!Next
  <1>2. CASE SetTarget(w)
    <2>1. readers_state' \in ReadersStateCount
      BY <1>t, <1>2, WordUpdates, ClientAssumption DEF SetTarget
    <2>2. get_target_consumed' \in Nat
      BY <2>1, WordAssumption DEF ReadersStateCount, get_target_consumed
    <2>3. UNCHANGED <<sequence_and_flags, published, consumedBy>>
      BY <1>2 DEF SetTarget, ghost
    <2>4. AbstractSlot!SetNeed
      BY <1>o, <2>2, <2>3 DEF AbstractSlot!SetNeed, Sequence, Stopped, Writing
    <2> QED
      BY <2>4 DEF AbstractSlot!Next
  <1>3. CASE ResetConsumed(w)
    <2>1. UNCHANGED <<sequence_and_flags, published, consumedBy>>
      BY <1>3 DEF ResetConsumed, ghost
    <2>2. get_target_consumed' = get_target_consumed
      BY <1>t, <1>3 DEF ResetConsumed, ReadersStateCount, get_target_consumed
    <2> QED
      BY <1>o, <2>1, <2>2, SlotStutters DEF Sequence, Stopped, Writing
  <1>4. CASE MarkWriting(w)
    <2>1. /\ pc[w] = "mark"
          /\ UNCHANGED <<readers_state, consumedBy, published>>
      BY <1>4 DEF MarkWriting, Goto, ghost
    <2>2. Writing' = TRUE /\ Sequence' = Sequence /\ Stopped' = Stopped
      BY <1>t, <1>4 DEF MarkWriting, SequenceState, Writing, Sequence, Stopped
    <2>3. Sequence > 0 => Cardinality(consumedBy) >= get_target_consumed
      BY <2>1 DEF SlotInv, PolicyInv, PolicyRespected, PastPolicy
    <2>4. AbstractSlot!Mark
      BY <1>o, <2>1, <2>2, <2>3 DEF AbstractSlot!Mark, get_target_consumed
    <2> QED
      BY <2>4 DEF AbstractSlot!Next
  <1>5. CASE UnmarkWriting(w)
    <2>1. /\ pc[w] = "unmark"
          /\ UNCHANGED <<readers_state, consumedBy, published>>
      BY <1>5 DEF UnmarkWriting, Goto, ghost
    <2>2. Writing' = FALSE /\ Sequence' = Sequence /\ Stopped' = Stopped
      BY <1>t, <1>5 DEF UnmarkWriting, SequenceState, Writing, Sequence, Stopped
    <2>3. Stopped
      BY <2>1 DEF SlotInv, IntegrityInv, UnmarkStopped
    <2>4. AbstractSlot!Unmark
      BY <1>o, <2>1, <2>2, <2>3 DEF AbstractSlot!Unmark, get_target_consumed
    <2> QED
      BY <2>4 DEF AbstractSlot!Next
  <1>6. ASSUME ~Publish(w), ~SetTarget(w), ~ResetConsumed(w), ~MarkWriting(w),
               ~UnmarkWriting(w)
        PROVE  UNCHANGED AbstractSlot!vars
    <2>1. Sequence' = Sequence /\ UNCHANGED <<readers_state, consumedBy, published>>
      BY <1>t, <1>6, WriterCounts
    <2>2. Stopped' = Stopped /\ Writing' = Writing
      BY <1>6, WriterKeepsFlags DEF Stopped, Writing
    <2> QED
      BY <1>o, <2>1, <2>2, SlotStutters DEF get_target_consumed
  <1> QED
    BY <1>1, <1>2, <1>3, <1>4, <1>5, <1>6

LEMMA ReaderSlot ==
  ASSUME SlotInv, "join" \notin Ops, NEW r \in Readers, ReaderCall(r) \/ ReaderStep(r)
  PROVE  [AbstractSlot!Next]_(AbstractSlot!vars)
  <1>t. /\ TypeOK /\ PcOK /\ ExclusionInv /\ GuardCurrent /\ CountInv
        /\ snap \in [Readers -> 0..SequenceMask]
    BY DEF SlotInv, ExclusionInv, IntegrityInv, PolicyInv, TypeOK
  <1>o. /\ \A s \in Readers \ {r} : pc'[s] = pc[s]
        /\ Sequence' = Sequence /\ Stopped' = Stopped /\ Writing' = Writing
        /\ UNCHANGED published
    BY <1>t, ReaderFrame, Others DEF Threads, Sequence, Stopped, Writing
  <1>1. CASE Release(r)
    <2>1. pc[r] = "guard" /\ pc'[r] # "guard"
      <3>1. /\ pc[r] = "guard"
            /\ \E l \in {"releaseNotify", "idle"} : pc' = [pc EXCEPT ![r] = l]
        BY <1>1 DEF Release, Goto
      <3> QED
        BY <1>t, <3>1, Others DEF Threads
    <2>2. /\ seen' = [seen EXCEPT ![r] = Sequence]
          /\ Cardinality(consumedBy') = Cardinality(consumedBy) + 1
          /\ get_target_consumed' = get_target_consumed
      BY <1>t, <1>1, ReleaseCounts
    <2>3. {s \in Readers : pc'[s] = "guard"} = {s \in Readers : pc[s] = "guard"} \ {r}
      BY <1>o, <2>1
    <2>4. AbstractSlot!Release(r)
      BY <1>o, <2>1, <2>2, <2>3 DEF AbstractSlot!Release
    <2> QED
      BY <2>4 DEF AbstractSlot!Next
  <1>2. ASSUME ~Release(r), pc'[r] = "guard", pc[r] # "guard"
        PROVE  AbstractSlot!Acquire(r)
    <2>1. snap[r] = Sequence
      BY <1>t, <1>2, ReaderGuard
    <2>2. pc[r] = "verify" /\ ~RemoveReader(r) /\ Verify(r)
      <3>1. ~BeginRead(r) /\ ~RemoveReader(r) /\ ~AddReader(r)
        <4>1. ~AddReader(r)
          BY <1>2 DEF AddReader
        <4>2. ASSUME BeginRead(r) \/ RemoveReader(r) PROVE FALSE
          <5>1. pc' = [pc EXCEPT ![r] = "take"] \/ pc' = [pc EXCEPT ![r] = "gone"]
            BY <4>2 DEF BeginRead, RemoveReader, Goto
          <5> QED
            BY <1>t, <1>2, <5>1, Others DEF Threads
        <4> QED
          BY <4>1, <4>2
      <3>2. ~LoadState(r)
        BY <1>t, <1>2, Others DEF LoadState, Goto, Threads
      <3>3. /\ ~ReadTicket(r) /\ ~SleepReader(r) /\ ~Register(r)
            /\ ~Unregister(r) /\ ~RetryNotify(r) /\ ~ReleaseNotify(r)
        BY <1>t, <1>2, Others DEF ReadTicket, SleepReader, Register, Unregister, RetryNotify,
           ReleaseNotify, Goto, Threads
      <3> QED
        BY <1>2, <3>1, <3>2, <3>3 DEF ReaderCall, ReaderStep, Verify, Goto
    <2>w. ~Writing
      <3>1. ASSUME Writing PROVE FALSE
        <4>1. pc' = [pc EXCEPT ![r] = "unregister"]
          BY <2>2, <3>1 DEF Verify, Goto
        <4> QED
          BY <1>t, <1>2, <4>1, Others DEF Threads
      <3> QED
        BY <3>1
    <2>3. Sequence # seen[r]
      BY <1>t, <2>1, <2>2 DEF CountInv, SnapFresh
    <2>4. UNCHANGED <<seen, consumedBy>> /\ get_target_consumed' = get_target_consumed
      BY <1>t, <1>2, <2>2, ReaderCounts
    <2>5. {s \in Readers : pc'[s] = "guard"} = {s \in Readers : pc[s] = "guard"} \cup {r}
      BY <1>o, <1>2
    <2> QED
      BY <1>o, <1>2, <2>w, <2>3, <2>4, <2>5 DEF AbstractSlot!Acquire
  <1>3. CASE RemoveReader(r)
    <2>1. pc[r] # "guard" /\ pc'[r] # "guard" /\ ~Release(r)
      <3>1. pc[r] = "idle" /\ pc' = [pc EXCEPT ![r] = "gone"]
        BY <1>3 DEF RemoveReader, Goto
      <3> QED
        BY <1>t, <3>1, Others DEF Release, Goto, Threads
    <2>2. UNCHANGED <<seen, consumedBy>> /\ get_target_consumed' \in Nat
      BY <1>t, <2>1, ReaderCounts
    <2>3. {s \in Readers : pc'[s] = "guard"} = {s \in Readers : pc[s] = "guard"}
      BY <1>o, <2>1
    <2>4. AbstractSlot!SetNeed
      BY <1>o, <2>2, <2>3 DEF AbstractSlot!SetNeed
    <2> QED
      BY <2>4 DEF AbstractSlot!Next
  <1>4. ASSUME ~Release(r), ~RemoveReader(r), ~(pc'[r] = "guard" /\ pc[r] # "guard")
        PROVE  UNCHANGED AbstractSlot!vars
    <2>1. pc[r] = "guard" => pc'[r] = "guard"
      BY <1>4 DEF ReaderCall, ReaderStep, BeginRead, AddReader, RemoveReader, ReadTicket,
         LoadState, SleepReader, Register, Verify, Unregister, RetryNotify, ReleaseNotify, Goto
    <2>2. UNCHANGED <<seen, consumedBy>> /\ get_target_consumed' = get_target_consumed
      BY <1>t, <1>4, ReaderCounts
    <2> QED
      BY <1>o, <1>4, <2>1, <2>2, SlotStutters
  <1> QED
    BY <1>1, <1>2, <1>3, <1>4 DEF AbstractSlot!Next

LEMMA StepSlot ==
  ASSUME "join" \notin Ops
  PROVE  SlotInv /\ [Next]_vars => [AbstractSlot!Next]_(AbstractSlot!vars)
  <1> SUFFICES ASSUME SlotInv, [Next]_vars PROVE [AbstractSlot!Next]_(AbstractSlot!vars)
    OBVIOUS
  <1>t. TypeOK /\ PcOK /\ sequence_and_flags \in SequenceState
    BY DEF SlotInv, ExclusionInv, TypeOK
  <1>1. ASSUME NEW w \in Writers, WriterCall(w) \/ WriterStep(w)
        PROVE  [AbstractSlot!Next]_(AbstractSlot!vars)
    BY <1>1, WriterSlot
  <1>2. ASSUME NEW r \in Readers, ReaderCall(r) \/ ReaderStep(r)
        PROVE  [AbstractSlot!Next]_(AbstractSlot!vars)
    BY <1>2, ReaderSlot
  <1>3. CASE StopSteps
    <2>1. /\ UNCHANGED <<readers_state, pc, seen, published, consumedBy>>
          /\ Sequence' = Sequence /\ Writing' = Writing
      BY <1>t, <1>3, StopFrame, StopKeepsWriting
    <2>2. CASE StopFlag
      <3>1. Stopped'
        BY <1>t, <2>2 DEF StopFlag, SequenceState, Stopped
      <3>2. AbstractSlot!Stop
        BY <1>t, <2>1, <3>1 DEF AbstractSlot!Stop, get_target_consumed, Stopped, SequenceState
      <3> QED
        BY <3>2 DEF AbstractSlot!Next
    <2>3. CASE StopNotifyReaders \/ StopNotifyWriters
      <3>1. UNCHANGED sequence_and_flags
        BY <2>3 DEF StopNotifyReaders, StopNotifyWriters
      <3> QED
        BY <2>1, <3>1, SlotStutters DEF get_target_consumed, Stopped
    <2> QED
      BY <1>3, <2>2, <2>3 DEF StopSteps
  <1>4. ASSUME NEW t \in Threads, SpuriousWakeup(t) PROVE UNCHANGED AbstractSlot!vars
    <2>1. /\ UNCHANGED <<sequence_and_flags, readers_state, seen, published, consumedBy>>
          /\ \A u \in Threads : \/ pc'[u] = pc[u]
                               \/ /\ pc[u] \in {"await", "drainWait", "sleep"}
                                  /\ pc'[u] \in {"reticket", "drainTicket", "take"}
      BY <1>t, <1>4, SpuriousFrame, Others DEF word, locals, ghost
    <2>2. \A r \in Readers : pc'[r] = "guard" <=> pc[r] = "guard"
      BY <2>1 DEF Threads
    <2> QED
      BY <2>1, <2>2, SlotStutters DEF Sequence, Stopped, Writing, get_target_consumed
  <1>5. CASE UNCHANGED vars
    BY <1>5, SlotStutters
    DEF vars, word, locals, ghost, Sequence, Stopped, Writing, get_target_consumed
  <1> QED
    BY <1>1, <1>2, <1>3, <1>4, <1>5 DEF Next, StopSteps

LEMMA InitSlot == Init => AbstractSlot!Init
  <1> SUFFICES ASSUME Init PROVE AbstractSlot!Init
    OBVIOUS
  <1>1. readers_state \in ReadersStateCount
    BY InitType DEF TypeOK
  <1>2. get_target_consumed \in Nat
    BY <1>1, TargetType
  <1>3. {r \in Readers : pc[r] = "guard"} = {}
    BY DEF Init, Threads
  <1> QED
    BY <1>2, <1>3, FS_EmptySet DEF Init, AbstractSlot!Init, Sequence, Stopped, Writing

\* shared_message/mod.rs as its callers see it, for any number of threads: a
\* write and a read are single steps on a slot, at the swap of the sequence
\* and at the re-check of the flag; no message is replaced under a reader or
\* before the reads the policy asks for, no reader gets one twice or while the
\* flag of a write is up, and the flag is raised and given up as Slot says.
THEOREM SharedMessageImplementsSlot ==
  ASSUME "join" \notin Ops PROVE Spec => ImplementsSlot
  <1>1. Init => HasJob
    BY DEF Init, HasJob, InWrite, Threads
  <1>2. Spec => []HasJob
    BY <1>1, StepHasJob, SharedMessageTypes, PTL DEF Spec
  <1>3. Spec => []SlotInv
    BY <1>2, ExclusionInvariance, IntegrityInvariance, PolicyInvariance, PTL DEF SlotInv
  <1> QED
    BY <1>3, InitSlot, StepSlot, PTL DEF Spec, ImplementsSlot, AbstractSlot!Spec
=============================================================================
