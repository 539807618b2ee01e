------------------------- MODULE PythonGuardsProofs -------------------------
(***************************************************************************)
(* Proofs about PythonGuards, for any finite number of guard objects, any  *)
(* capacity and any number of messages: a guard lets go of the slot once   *)
(* and shows the message it was made for.                                  *)
(***************************************************************************)
EXTENDS PythonGuards, FiniteSetTheorems, SequenceTheorems, TLAPS

Stages == {"absent", "some", "leaving", "storing", "empty"}

----------------------------------------------------------------------------
(* The objects and the references between them.                            *)

\* The handle a variable refers to is mapped, and so is that of a guard whose
\* inner refers to it; an object that is referred to exists.
RefInv ==
    /\ inner \in [Guards -> Stages]
    /\ handles \subseteq mapped
    /\ mapped \subseteq {"write", "read"}
    /\ \A g \in Guards : inner[g] = "absent" => g \notin named \cup exported
    /\ \A g \in Guards : inner[g] \in {"some", "storing"} => HandleOf(g) \in mapped

\* A step moves one guard on its way, or none.
Others(g) == \A u \in Guards \ {g} : inner'[u] = inner[u]

\* The steps that neither get nor give back the slot.
Passive(g) ==
    \/ DropName(g) \/ Exit(g) \/ GetBuffer(g) \/ ReleaseBuffer(g)
    \/ \E pos \in Positions : Seek(g, pos)
    \/ g \in WriteGuards /\ (\/ WriteView(g) \/ StoreWritten(g)
                             \/ \E n \in 1..Capacity : Write(g, n))
    \/ g \in ReadGuards /\ \E n \in 1..Capacity : Read(g, n)

\* The steps that do.
Slots(g) ==
    \/ DropSlotGuard(g)
    \/ g \in WriteGuards /\ (\/ AcquireWrite(g)
                             \/ \E size \in 0..(Capacity + 1) :
                                   Publish(g, size) \/ PublishRefused(g, size))
    \/ g \in ReadGuards /\ AcquireRead(g)

LEMMA NextCases ==
  Next => \/ \E g \in Guards : Passive(g) \/ Slots(g)
          \/ \E h \in {"write", "read"} : DropHandle(h)
  BY DEF Next, Passive, Slots, Guards

\* What becomes of the mappings when references to a handle go away.
LEMMA MappedKept ==
  ASSUME RefInv, NEW h \in {"write", "read"}, MappedAfter(h), handles' \subseteq handles,
         \A u \in Guards : inner'[u] \in {"some", "storing"} => inner[u] = inner'[u]
  PROVE  /\ handles' \subseteq mapped' /\ mapped' \subseteq {"write", "read"}
         /\ \A u \in Guards : inner'[u] \in {"some", "storing"} => HandleOf(u) \in mapped'
  BY DEF RefInv, MappedAfter

LEMMA HandleNames == \A g \in Guards : HandleOf(g) \in {"write", "read"}
  BY DEF HandleOf

\* A reference to g goes away: g stays, begins to leave, or is gone.
LEMMA DereferenceMoves ==
  ASSUME RefInv, NEW g \in Guards, Dereference(g), UNCHANGED handles,
         named' \cup exported' \subseteq named \cup exported
  PROVE  /\ RefInv' /\ Others(g)
         /\ \/ inner'[g] = inner[g]
            \/ inner[g] = "some" /\ inner'[g] = "leaving"
            \/ inner[g] = "empty" /\ inner'[g] = "absent"
         /\ UNCHANGED <<cursor, plain, got>> \/ (inner'[g] = "leaving" /\ Retired(g))
  <1>1. CASE UNCHANGED <<inner, mapped, cursor, plain, got>>
    BY <1>1 DEF RefInv, Others
  <1>2. CASE inner[g] = "some" /\ TakeInner(g)
    <2>1. inner'[g] = "leaving" /\ Others(g) /\ inner' \in [Guards -> Stages] /\ Retired(g)
      BY <1>2 DEF TakeInner, RefInv, Others, Stages
    <2>2. /\ handles' \subseteq mapped' /\ mapped' \subseteq {"write", "read"}
          /\ \A u \in Guards : inner'[u] \in {"some", "storing"} => HandleOf(u) \in mapped'
      BY <1>2, <2>1, HandleNames, MappedKept DEF TakeInner, Others
    <2>3. RefInv'
      BY <2>1, <2>2 DEF RefInv, Others
    <2> QED
      BY <1>2, <2>1, <2>3
  <1>3. CASE /\ g \notin named' \cup exported' /\ inner[g] = "empty"
             /\ inner' = [inner EXCEPT ![g] = "absent"]
             /\ UNCHANGED <<mapped, cursor, plain, got>>
    BY <1>3 DEF RefInv, Others, Stages
  <1> QED
    BY <1>1, <1>2, <1>3 DEF Dereference

\* Such a step leaves the slot's words, and who holds the slot, as they are.
LEMMA PassiveMoves ==
  ASSUME RefInv, NEW g \in Guards, Passive(g)
  PROVE  /\ RefInv'
         /\ UNCHANGED <<sequence, writing, owner, active, data_size, message, whole>>
         /\ \A u \in Guards : Holds(u)' <=> Holds(u)
         /\ \A u \in Guards : inner'[u] = "some" => inner[u] = "some"
  <1>1. CASE DropName(g) \/ ReleaseBuffer(g)
    <2>1. /\ Dereference(g) /\ UNCHANGED handles
          /\ named' \cup exported' \subseteq named \cup exported
          /\ UNCHANGED <<sequence, writing, owner, active, data_size, message, whole>>
      BY <1>1 DEF DropName, ReleaseBuffer, slot
    <2>2. /\ RefInv' /\ Others(g)
          /\ \/ inner'[g] = inner[g]
             \/ inner[g] = "some" /\ inner'[g] = "leaving"
             \/ inner[g] = "empty" /\ inner'[g] = "absent"
      BY <2>1, DereferenceMoves
    <2> QED
      BY <2>1, <2>2 DEF Others, Holds
  <1>2. CASE Exit(g)
    <2>1. inner[g] = "some" /\ inner' = [inner EXCEPT ![g] = "leaving"]
          /\ MappedAfter(HandleOf(g)) /\ UNCHANGED <<handles, named, exported>>
          /\ UNCHANGED <<sequence, writing, owner, active, data_size, message, whole>>
      BY <1>2 DEF Exit, TakeInner, slot
    <2>2. inner'[g] = "leaving" /\ Others(g) /\ inner' \in [Guards -> Stages]
      BY <2>1 DEF RefInv, Others, Stages
    <2>3. /\ handles' \subseteq mapped' /\ mapped' \subseteq {"write", "read"}
          /\ \A u \in Guards : inner'[u] \in {"some", "storing"} => HandleOf(u) \in mapped'
      BY <2>1, <2>2, HandleNames, MappedKept DEF Others
    <2>4. RefInv'
      BY <2>1, <2>2, <2>3 DEF RefInv, Others
    <2> QED
      BY <2>1, <2>2, <2>4 DEF Others, Holds
  <1>3. CASE GetBuffer(g)
    BY <1>3 DEF GetBuffer, RefInv, slot, history, Holds
  <1>4. CASE \/ \E pos \in Positions : Seek(g, pos)
             \/ WriteView(g)
             \/ \E n \in 1..Capacity : Write(g, n) \/ Read(g, n)
    <2>1. UNCHANGED <<objects, sequence, writing, owner, active, data_size, message, whole>>
      BY <1>4 DEF Seek, WriteView, Write, Read, slot, history
    <2> QED
      BY <2>1 DEF objects, RefInv, Holds
  <1>5. CASE StoreWritten(g) /\ g \in WriteGuards
    <2>1. inner[g] = "storing" /\ inner' = [inner EXCEPT ![g] = Emptied(g)]
          /\ MappedAfter("write") /\ UNCHANGED <<handles, named, exported>>
          /\ UNCHANGED <<sequence, writing, owner, active, data_size, message, whole>>
      BY <1>5 DEF StoreWritten, slot, history
    <2>2. /\ inner'[g] \in {"empty", "absent"} /\ Others(g) /\ inner' \in [Guards -> Stages]
          /\ inner'[g] = "absent" => g \notin named' \cup exported'
      BY <2>1 DEF RefInv, Others, Stages, Emptied
    <2>3. /\ handles' \subseteq mapped' /\ mapped' \subseteq {"write", "read"}
          /\ \A u \in Guards : inner'[u] \in {"some", "storing"} => HandleOf(u) \in mapped'
      BY <2>1, <2>2, MappedKept DEF Others
    <2>4. RefInv'
      BY <2>1, <2>2, <2>3 DEF RefInv, Others
    <2> QED
      BY <2>1, <2>2, <2>4 DEF Others, Holds
  <1> QED
    BY <1>1, <1>2, <1>3, <1>4, <1>5 DEF Passive

LEMMA DropHandleMoves ==
  ASSUME RefInv, NEW h \in {"write", "read"}, DropHandle(h)
  PROVE  RefInv' /\ UNCHANGED <<slot, named, inner, exported, cursor, history>>
  <1>1. UNCHANGED <<slot, named, inner, exported, cursor, history>> /\ handles' \subseteq handles
    BY DEF DropHandle
  <1>2. /\ handles' \subseteq mapped' /\ mapped' \subseteq {"write", "read"}
        /\ \A u \in Guards : inner'[u] \in {"some", "storing"} => HandleOf(u) \in mapped'
    BY <1>1, MappedKept DEF DropHandle
  <1> QED
    BY <1>1, <1>2 DEF RefInv

LEMMA SlotMoves ==
  ASSUME RefInv, NEW g \in Guards, Slots(g)
  PROVE  RefInv' /\ Others(g)
  <1>1. CASE AcquireWrite(g) \/ AcquireRead(g)
    <2>1. NewGuard(g)
      BY <1>1 DEF AcquireWrite, AcquireRead
    <2> QED
      BY <2>1 DEF NewGuard, RefInv, Others, Stages
  <1>2. CASE DropSlotGuard(g)
    <2>1. inner[g] = "leaving" /\ inner' = [inner EXCEPT ![g] = Emptied(g)]
          /\ UNCHANGED <<handles, mapped, named, exported>>
      BY <1>2 DEF DropSlotGuard
    <2> QED
      BY <2>1 DEF RefInv, Others, Stages, Emptied
  <1>3. CASE \E size \in 0..(Capacity + 1) : Publish(g, size) \/ PublishRefused(g, size)
    <2>1. inner[g] = "some" /\ inner' = [inner EXCEPT ![g] = "storing"]
          /\ UNCHANGED <<handles, mapped, named, exported>>
      BY <1>3 DEF Publish, PublishRefused
    <2> QED
      BY <2>1 DEF RefInv, Others, Stages
  <1> QED
    BY <1>1, <1>2, <1>3 DEF Slots

----------------------------------------------------------------------------
(* The slot and the guards that hold it.                                   *)

HeldReads == {g \in ReadGuards : Holds(g)}

SlotTypes ==
    /\ sequence \in 0..MessageLimit
    /\ writing \in BOOLEAN
    /\ owner \in WriteGuards \cup {None}
    /\ active \in Nat

\* While the flag is up nobody reads, and the mutex is held with the flag up.
Exclusive ==
    /\ writing => active = 0
    /\ owner # None => writing

\* A guard that may publish is within the bound.
Budget == \A g \in WriteGuards : inner[g] = "some" => sequence < MessageLimit

HoldInv ==
    /\ SlotTypes
    /\ active = Cardinality(HeldReads)
    /\ \A g \in WriteGuards : Holds(g) <=> owner = g
    /\ Exclusive
    /\ Budget

LEMMA HeldFinite == IsFiniteSet(HeldReads) /\ Cardinality(HeldReads) \in Nat
  <1>1. HeldReads \subseteq ReadGuards
    BY DEF HeldReads
  <1> QED
    BY <1>1, FS_Subset, FS_CardinalityType, GuardAssumption

\* A guard that holds the slot for reading is counted, and keeps the writers out.
LEMMA ReaderCounted ==
  ASSUME HoldInv, NEW g \in ReadGuards, Holds(g)
  PROVE  active # 0 /\ ~writing /\ owner = None
  <1>1. HeldReads # {}
    BY DEF HeldReads
  <1>2. Cardinality(HeldReads) # 0
    BY <1>1, HeldFinite, FS_EmptySet
  <1> QED
    BY <1>2 DEF HoldInv, Exclusive

LEMMA HoldsKept ==
  ASSUME HoldInv, UNCHANGED <<sequence, writing, owner, active>>,
         \A u \in Guards : Holds(u)' <=> Holds(u),
         \A u \in Guards : inner'[u] = "some" => inner[u] = "some"
  PROVE  HoldInv'
  <1>1. HeldReads' = HeldReads
    BY DEF HeldReads, Guards
  <1>2. \A g \in WriteGuards : Holds(g)' <=> owner' = g
    BY DEF HoldInv, Guards
  <1>3. Budget'
    BY DEF HoldInv, Budget, Guards
  <1>4. SlotTypes' /\ Exclusive'
    BY DEF HoldInv, SlotTypes, Exclusive
  <1> QED
    BY <1>1, <1>2, <1>3, <1>4 DEF HoldInv

LEMMA OthersHold ==
  ASSUME NEW g \in Guards, Others(g)
  PROVE  \A u \in Guards \ {g} : Holds(u)' <=> Holds(u)
  BY DEF Others, Holds

LEMMA AcquireHolds ==
  ASSUME RefInv, HoldInv, NEW g \in Guards, Slots(g),
         (g \in WriteGuards /\ AcquireWrite(g)) \/ (g \in ReadGuards /\ AcquireRead(g))
  PROVE  HoldInv'
  <1>1. /\ inner[g] = "absent" /\ inner'[g] = "some" /\ Others(g)
        /\ \A u \in Guards \ {g} : Holds(u)' <=> Holds(u)
        /\ ~Holds(g) /\ Holds(g)'
    BY SlotMoves, OthersHold DEF AcquireWrite, AcquireRead, NewGuard, RefInv, Holds
  <1>2. sequence' = sequence
    BY DEF AcquireWrite, AcquireRead
  <1>3. CASE g \in WriteGuards /\ AcquireWrite(g)
    <2>1. /\ sequence < MessageLimit /\ owner = None /\ active = 0
          /\ owner' = g /\ writing' = TRUE /\ active' = active /\ g \notin ReadGuards
      BY <1>3, GuardAssumption DEF AcquireWrite
    <2>2. HeldReads' = HeldReads
      BY <1>1, <2>1 DEF HeldReads, Guards
    <2>3. \A u \in WriteGuards : Holds(u)' <=> owner' = u
      BY <1>1, <1>3, <2>1, GuardAssumption DEF HoldInv, Guards
    <2>4. Budget'
      BY <1>2, <2>1 DEF Budget
    <2>5. SlotTypes' /\ Exclusive'
      BY <1>2, <1>3, <2>1 DEF HoldInv, SlotTypes, Exclusive
    <2> QED
      BY <2>1, <2>2, <2>3, <2>4, <2>5 DEF HoldInv
  <1>4. CASE g \in ReadGuards /\ AcquireRead(g)
    <2>1. /\ ~writing /\ active' = active + 1 /\ writing' = writing /\ owner' = owner
          /\ g \notin WriteGuards
      BY <1>4, GuardAssumption DEF AcquireRead
    <2>2. HeldReads' = HeldReads \cup {g} /\ g \notin HeldReads
      BY <1>1, <1>4 DEF HeldReads, Guards
    <2>3. Cardinality(HeldReads') = Cardinality(HeldReads) + 1
      BY <2>2, HeldFinite, FS_AddElement
    <2>4. \A u \in WriteGuards : Holds(u)' <=> owner' = u
      BY <1>1, <2>1 DEF HoldInv, Guards
    <2>5. Budget'
      BY <1>1, <1>2, <2>1 DEF HoldInv, Budget, Others, Guards
    <2>6. SlotTypes' /\ Exclusive'
      BY <1>2, <2>1 DEF HoldInv, SlotTypes, Exclusive
    <2> QED
      BY <2>1, <2>3, <2>4, <2>5, <2>6 DEF HoldInv
  <1> QED
    BY <1>3, <1>4

LEMMA DropSlotHolds ==
  ASSUME RefInv, HoldInv, NEW g \in Guards, Slots(g), DropSlotGuard(g)
  PROVE  HoldInv'
  <1>1. /\ inner[g] = "leaving" /\ inner'[g] \in {"empty", "absent"} /\ Others(g)
        /\ \A u \in Guards \ {g} : Holds(u)' <=> Holds(u)
        /\ Holds(g) /\ ~Holds(g)'
    BY SlotMoves, OthersHold DEF DropSlotGuard, Emptied, RefInv, Holds
  <1>2. /\ UNCHANGED <<sequence, writing>>
        /\ active' = IF g \in ReadGuards THEN active - 1 ELSE active
        /\ owner' = IF g \in WriteGuards THEN None ELSE owner
    BY DEF DropSlotGuard
  <1>3. Budget'
    BY <1>1, <1>2 DEF HoldInv, Budget, Others, Guards
  <1>4. CASE g \in WriteGuards
    <2>1. g \notin ReadGuards
      BY <1>4, GuardAssumption
    <2>2. HeldReads' = HeldReads
      BY <1>1, <2>1 DEF HeldReads, Guards
    <2>3. \A u \in WriteGuards : Holds(u)' <=> owner' = u
      BY <1>1, <1>2, <1>4, GuardAssumption DEF HoldInv, Guards
    <2> QED
      BY <1>2, <1>3, <1>4, <2>1, <2>2, <2>3 DEF HoldInv, SlotTypes, Exclusive
  <1>5. CASE g \in ReadGuards
    <2>1. g \notin WriteGuards
      BY <1>5, GuardAssumption
    <2>2. HeldReads' = HeldReads \ {g} /\ g \in HeldReads
      BY <1>1, <1>5 DEF HeldReads, Guards
    <2>3. Cardinality(HeldReads') = Cardinality(HeldReads) - 1
      BY <2>2, HeldFinite, FS_RemoveElement
    <2>4. active # 0 /\ ~writing /\ owner = None
      BY <1>1, <1>5, ReaderCounted
    <2>5. \A u \in WriteGuards : Holds(u)' <=> owner' = u
      BY <1>1, <1>2, <2>1 DEF HoldInv, Guards
    <2> QED
      BY <1>2, <1>3, <1>5, <2>1, <2>3, <2>4, <2>5 DEF HoldInv, SlotTypes, Exclusive
  <1> QED
    BY <1>4, <1>5 DEF Guards

LEMMA PublishHolds ==
  ASSUME RefInv, HoldInv, NEW g \in WriteGuards, Slots(g), NEW size \in 0..(Capacity + 1),
         Publish(g, size) \/ PublishRefused(g, size)
  PROVE  HoldInv'
  <1>g. g \in Guards /\ g \notin ReadGuards
    BY GuardAssumption DEF Guards
  <1>1. /\ inner[g] = "some" /\ inner'[g] = "storing" /\ Others(g)
        /\ \A u \in Guards \ {g} : Holds(u)' <=> Holds(u)
        /\ Holds(g) /\ ~Holds(g)'
    BY <1>g, SlotMoves, OthersHold DEF Publish, PublishRefused, RefInv, Holds
  <1>2. /\ owner = g /\ owner' = None /\ active' = active
        /\ sequence < MessageLimit
        /\ \/ sequence' = sequence + 1 /\ writing' = FALSE
           \/ sequence' = sequence /\ writing' = writing
    BY <1>1 DEF HoldInv, Budget, Publish, PublishRefused, Install
  <1>3. HeldReads' = HeldReads
    BY <1>g, <1>1 DEF HeldReads, Guards
  <1>4. \A u \in WriteGuards : ~Holds(u)'
    BY <1>1, <1>2 DEF HoldInv, Guards
  <1>5. Budget'
    BY <1>4 DEF Budget, Holds
  <1>6. \A u \in WriteGuards : Holds(u)' <=> owner' = u
    BY <1>2, <1>4, GuardAssumption
  <1>7. sequence' \in 0..MessageLimit
    BY <1>2, GuardAssumption DEF HoldInv, SlotTypes
  <1>8. writing' \in BOOLEAN /\ (writing' => writing)
    <2>1. writing \in BOOLEAN
      BY DEF HoldInv, SlotTypes
    <2>2. CASE writing' = FALSE
      BY <2>2
    <2>3. CASE writing' = writing
      BY <2>1, <2>3
    <2> QED
      BY <1>2, <2>2, <2>3
  <1>9. SlotTypes' /\ Exclusive'
    BY <1>2, <1>7, <1>8 DEF HoldInv, SlotTypes, Exclusive
  <1> QED
    BY <1>2, <1>3, <1>5, <1>6, <1>9 DEF HoldInv

LEMMA StepHolds ==
  ASSUME RefInv, HoldInv, Next PROVE RefInv' /\ HoldInv'
  <1>1. ASSUME NEW g \in Guards, Passive(g) PROVE RefInv' /\ HoldInv'
    <2>1. /\ RefInv'
          /\ UNCHANGED <<sequence, writing, owner, active>>
          /\ \A u \in Guards : Holds(u)' <=> Holds(u)
          /\ \A u \in Guards : inner'[u] = "some" => inner[u] = "some"
      BY <1>1, PassiveMoves
    <2> QED
      BY <2>1, HoldsKept
  <1>2. ASSUME NEW g \in Guards, Slots(g) PROVE RefInv' /\ HoldInv'
    BY <1>2, SlotMoves, AcquireHolds, DropSlotHolds, PublishHolds DEF Slots
  <1>3. ASSUME NEW h \in {"write", "read"}, DropHandle(h) PROVE RefInv' /\ HoldInv'
    <2>1. RefInv' /\ UNCHANGED <<slot, inner>>
      BY <1>3, DropHandleMoves
    <2> QED
      BY <2>1, HoldsKept DEF slot, Holds
  <1> QED
    BY <1>1, <1>2, <1>3, NextCases

----------------------------------------------------------------------------
(* The bytes.                                                              *)

DataTypes ==
    /\ data_size \in 0..Capacity
    /\ data \in [1..Capacity -> Bytes]
    /\ cursor \in [Guards -> Nat]
    /\ message \in Seq(Bytes)
    /\ Len(message) = data_size
    /\ got \in [Guards -> Seq(Bytes)]

\* While the flag is down the buffer is the message.
Settled == ~stray /\ ~writing => Shown = message

\* Up to its cursor a plain guard has written the buffer itself.
Written ==
    ~stray => \A g \in WriteGuards \cap plain :
        inner[g] = "some" =>
            cursor[g] <= Capacity /\ \A i \in 1..cursor[g] : data[i] = sequence + 1

DataInv == DataTypes /\ Settled /\ Written /\ ChunksInOrder /\ NoStaleBytes

\* The first bytes of the buffer.
LEMMA Prefix ==
  ASSUME data \in [1..Capacity -> Bytes], NEW k \in 0..Capacity
  PROVE  /\ SubSeq(data, 1, k) \in Seq(Bytes)
         /\ Len(SubSeq(data, 1, k)) = k
         /\ \A i \in 1..k : SubSeq(data, 1, k)[i] = data[i]
  <1>1. k \in Nat /\ Capacity \in Nat
    BY GuardAssumption
  <1>2. \A i \in 1..k : data[i] \in Bytes
    BY <1>1
  <1>3. /\ SubSeq(data, 1, k) \in Seq(Bytes)
        /\ Len(SubSeq(data, 1, k)) = IF 1 <= k THEN k - 1 + 1 ELSE 0
        /\ \A i \in 1..(k - 1 + 1) : SubSeq(data, 1, k)[i] = data[1 + i - 1]
    BY <1>1, <1>2, SubSeqProperties
  <1> QED
    BY <1>1, <1>3

\* A step that leaves the bytes alone, and the cursors of the plain guards in use.
LEMMA BytesKept ==
  ASSUME DataInv,
         UNCHANGED <<data, data_size, message, sequence, writing, whole, stray>>,
         cursor' \in [Guards -> Nat], got' \in [Guards -> Seq(Bytes)],
         \A u \in Guards : inner'[u] = "some" /\ u \in plain' =>
            /\ inner[u] = "some" /\ u \in plain
            /\ cursor'[u] = cursor[u] /\ got'[u] = got[u]
  PROVE  DataInv'
  <1>1. DataTypes'
    BY DEF DataInv, DataTypes
  <1>2. Settled'
    BY DEF DataInv, Settled, Shown
  <1>3. Written'
    BY DEF DataInv, Written, Guards
  <1>4. ChunksInOrder'
    BY DEF DataInv, ChunksInOrder, Guards
  <1>5. NoStaleBytes'
    BY DEF DataInv, NoStaleBytes
  <1> QED
    BY <1>1, <1>2, <1>3, <1>4, <1>5 DEF DataInv

LEMMA RetiredBytes ==
  ASSUME DataInv, NEW g \in Guards, Retired(g),
         \A u \in Guards \ {g} : inner'[u] = inner[u]
  PROVE  /\ cursor' \in [Guards -> Nat] /\ got' \in [Guards -> Seq(Bytes)]
         /\ \A u \in Guards : inner'[u] = "some" /\ u \in plain' =>
              /\ inner[u] = "some" /\ u \in plain
              /\ cursor'[u] = cursor[u] /\ got'[u] = got[u]
  <1>1. <<>> \in Seq(Bytes)
    BY EmptySeq
  <1> QED
    BY <1>1 DEF Retired, DataInv, DataTypes

\* Leaving a guard, letting go of it, seek().
LEMMA PassiveBytes ==
  ASSUME RefInv, DataInv, NEW g \in Guards,
         \/ DropName(g) \/ Exit(g) \/ GetBuffer(g) \/ ReleaseBuffer(g)
         \/ \E pos \in Positions : Seek(g, pos)
         \/ StoreWritten(g)
  PROVE  DataInv'
  <1>1. UNCHANGED <<data, data_size, message, sequence, writing, whole, stray>>
    BY DEF DropName, Exit, GetBuffer, ReleaseBuffer, Seek, StoreWritten, slot, history
  <1>t. cursor \in [Guards -> Nat] /\ got \in [Guards -> Seq(Bytes)]
    BY DEF DataInv, DataTypes
  <1>2. CASE DropName(g) \/ ReleaseBuffer(g)
    <2>1. /\ Dereference(g) /\ UNCHANGED handles
          /\ named' \cup exported' \subseteq named \cup exported
      BY <1>2 DEF DropName, ReleaseBuffer
    <2>2. /\ Others(g)
          /\ \/ inner'[g] = inner[g] /\ UNCHANGED <<cursor, plain, got>>
             \/ inner'[g] # "some" /\ UNCHANGED <<cursor, plain, got>>
             \/ inner'[g] = "leaving" /\ Retired(g)
      BY <2>1, DereferenceMoves
    <2>3. CASE Retired(g)
      BY <1>1, <2>2, <2>3, RetiredBytes, BytesKept DEF Others
    <2>4. CASE UNCHANGED <<cursor, plain, got>> /\ (inner'[g] = inner[g] \/ inner'[g] # "some")
      BY <1>1, <1>t, <2>2, <2>4, BytesKept DEF Others
    <2> QED
      BY <2>2, <2>3, <2>4
  <1>3. CASE Exit(g)
    <2>1. Retired(g) /\ \A u \in Guards \ {g} : inner'[u] = inner[u]
      BY <1>3 DEF Exit, TakeInner, RefInv
    <2> QED
      BY <1>1, <2>1, RetiredBytes, BytesKept
  <1>4. CASE GetBuffer(g)
    <2>1. UNCHANGED <<cursor, plain, got, inner>>
      BY <1>4 DEF GetBuffer, history
    <2> QED
      BY <1>1, <1>t, <2>1, BytesKept
  <1>5. CASE \E pos \in Positions : Seek(g, pos)
    <2>1. PICK pos \in Positions : Seek(g, pos)
      BY <1>5
    <2>2. pos \in Nat /\ <<>> \in Seq(Bytes)
      BY EmptySeq, GuardAssumption
    <2>3. /\ cursor' = [cursor EXCEPT ![g] = pos] /\ plain' = plain \ {g}
          /\ got' = [got EXCEPT ![g] = <<>>] /\ inner' = inner
      BY <2>1 DEF Seek, objects
    <2> QED
      BY <1>1, <1>t, <2>2, <2>3, BytesKept
  <1>6. CASE StoreWritten(g)
    <2>1. /\ UNCHANGED <<cursor, plain, got>>
          /\ \A u \in Guards : inner'[u] = "some" => inner[u] = "some"
      BY <1>6 DEF StoreWritten, history, Emptied, RefInv
    <2> QED
      BY <1>1, <1>t, <2>1, BytesKept
  <1> QED
    BY <1>2, <1>3, <1>4, <1>5, <1>6

LEMMA LeaveBytes ==
  ASSUME RefInv, DataInv, NEW g \in Guards,
         DropSlotGuard(g) \/ \E size \in 0..(Capacity + 1) : PublishRefused(g, size)
  PROVE  DataInv'
  <1>1. UNCHANGED <<data, data_size, message, sequence, writing, whole, stray>>
    BY DEF DropSlotGuard, PublishRefused, history
  <1>2. CASE DropSlotGuard(g)
    <2>1. /\ UNCHANGED <<cursor, plain, got>>
          /\ \A u \in Guards : inner'[u] = "some" => inner[u] = "some"
      BY <1>2 DEF DropSlotGuard, history, Emptied, RefInv
    <2> QED
      BY <1>1, <2>1, BytesKept DEF DataInv, DataTypes
  <1>3. CASE \E size \in 0..(Capacity + 1) : PublishRefused(g, size)
    <2>1. Retired(g) /\ \A u \in Guards \ {g} : inner'[u] = inner[u]
      BY <1>3 DEF PublishRefused, RefInv
    <2> QED
      BY <1>1, <2>1, RetiredBytes, BytesKept
  <1> QED
    BY <1>2, <1>3

LEMMA AcquireBytes ==
  ASSUME RefInv, HoldInv, DataInv, NEW g \in Guards,
         (g \in WriteGuards /\ AcquireWrite(g)) \/ (g \in ReadGuards /\ AcquireRead(g))
  PROVE  DataInv'
  <1>1. /\ UNCHANGED <<data, data_size, message, sequence, whole, stray>>
        /\ cursor' = [cursor EXCEPT ![g] = 0]
        /\ plain' = plain \cup {g}
        /\ \A u \in Guards \ {g} : inner'[u] = inner[u]
    BY DEF AcquireWrite, AcquireRead, NewGuard, RefInv
  <1>3. \A u \in Guards \ {g} : cursor'[u] = cursor[u] /\ (u \in plain' <=> u \in plain)
    BY <1>1 DEF DataInv, DataTypes
  <1>4. cursor'[g] = 0 /\ cursor' \in [Guards -> Nat]
    BY <1>1 DEF DataInv, DataTypes
  <1>5. got' \in [Guards -> Seq(Bytes)] /\ \A u \in Guards \ {g} : got'[u] = got[u]
    BY EmptySeq DEF AcquireWrite, AcquireRead, DataInv, DataTypes
  <1>6. DataTypes'
    BY <1>1, <1>4, <1>5 DEF DataInv, DataTypes
  <1>7. Settled'
    <2>1. ~writing' => ~writing
      BY DEF AcquireWrite, AcquireRead
    <2> QED
      BY <1>1, <2>1 DEF DataInv, Settled, Shown
  <1>8. Written'
    <2>1. Capacity \in Nat
      BY GuardAssumption
    <2> QED
      BY <1>1, <1>3, <1>4, <2>1 DEF DataInv, Written, Guards
  <1>9. ChunksInOrder'
    <2>1. g \in ReadGuards => got'[g] = <<>>
      BY GuardAssumption DEF AcquireWrite, AcquireRead, DataInv, DataTypes
    <2>2. SubSeq(message, 1, 0) = <<>> /\ Len(message) >= 0
      BY SubSeqEmpty, LenProperties DEF DataInv, DataTypes
    <2> QED
      BY <1>1, <1>3, <1>4, <1>5, <2>1, <2>2 DEF DataInv, ChunksInOrder, Guards
  <1>10. NoStaleBytes'
    BY <1>1 DEF DataInv, NoStaleBytes
  <1> QED
    BY <1>6, <1>7, <1>8, <1>9, <1>10 DEF DataInv

\* Whoever may write is the owner, with the flag up, and alone.
LEMMA WriterOwns ==
  ASSUME HoldInv, NEW g \in WriteGuards, inner[g] = "some"
  PROVE  /\ owner = g /\ writing /\ sequence < MessageLimit
         /\ \A u \in WriteGuards : inner[u] = "some" => u = g
         /\ \A u \in ReadGuards : inner[u] # "some"
  <1>1. owner = g /\ writing /\ sequence < MessageLimit
    BY GuardAssumption DEF HoldInv, Exclusive, Budget, Holds
  <1>2. \A u \in WriteGuards : inner[u] = "some" => u = g
    BY <1>1 DEF HoldInv, Holds
  <1>3. \A u \in ReadGuards : inner[u] # "some"
    BY <1>1, ReaderCounted DEF Holds
  <1> QED
    BY <1>1, <1>2, <1>3

LEMMA WriteBytes ==
  ASSUME HoldInv, DataInv, NEW g \in WriteGuards, NEW n \in 1..Capacity, Write(g, n)
  PROVE  DataInv'
  <1>1. /\ inner[g] = "some" /\ cursor[g] + n <= Capacity
        /\ data' = [i \in 1..Capacity |->
                     IF i \in (cursor[g] + 1)..(cursor[g] + n) THEN sequence + 1 ELSE data[i]]
        /\ cursor' = [cursor EXCEPT ![g] = @ + n]
        /\ UNCHANGED <<sequence, writing, data_size, inner, message, plain, whole, got, stray>>
    BY DEF Write, objects, history
  <1>2. /\ owner = g /\ writing /\ sequence < MessageLimit
        /\ \A u \in WriteGuards : inner[u] = "some" => u = g
        /\ \A u \in ReadGuards : inner[u] # "some"
    BY <1>1, WriterOwns
  <1>3. g \in Guards /\ cursor[g] \in Nat /\ n \in Nat /\ sequence \in Nat /\ Capacity \in Nat
    BY GuardAssumption DEF Guards, DataInv, DataTypes, HoldInv, SlotTypes
  <1>4. sequence + 1 \in Bytes
    BY <1>2, <1>3, GuardAssumption DEF Bytes, Stray
  <1>5. cursor' \in [Guards -> Nat] /\ cursor'[g] = cursor[g] + n
    BY <1>1, <1>3 DEF DataInv, DataTypes
  <1>6. data' \in [1..Capacity -> Bytes]
    BY <1>1, <1>4 DEF DataInv, DataTypes
  <1>7. DataTypes'
    BY <1>1, <1>5, <1>6 DEF DataInv, DataTypes
  <1>8. Written'
    <2>1. ASSUME ~stray, g \in plain
          PROVE  \A i \in 1..cursor'[g] : data'[i] = sequence + 1
      BY <1>1, <1>3, <1>5, <2>1 DEF DataInv, Written
    <2> QED
      BY <1>1, <1>2, <1>5, <2>1 DEF Written
  <1>9. Settled' /\ ChunksInOrder' /\ NoStaleBytes'
    BY <1>1, <1>2 DEF DataInv, Settled, ChunksInOrder, NoStaleBytes
  <1> QED
    BY <1>7, <1>8, <1>9 DEF DataInv

LEMMA ViewBytes ==
  ASSUME HoldInv, DataInv, NEW g \in WriteGuards, WriteView(g)
  PROVE  DataInv'
  <1>1. /\ data' = [i \in 1..Capacity |-> IF inner[g] = "some" THEN sequence + 1 ELSE Stray]
        /\ stray' = (stray \/ inner[g] # "some")
        /\ UNCHANGED <<sequence, writing, data_size, inner, cursor, message, plain, whole, got>>
    BY DEF WriteView, objects
  <1>2. Stray \in Bytes /\ (inner[g] = "some" => sequence + 1 \in Bytes)
    BY WriterOwns, GuardAssumption DEF Bytes, Stray, HoldInv, SlotTypes
  <1>3. data' \in [1..Capacity -> Bytes]
    BY <1>1, <1>2
  <1>4. DataTypes'
    BY <1>1, <1>3 DEF DataInv, DataTypes
  <1>5. CASE inner[g] # "some"
    <2>1. stray'
      BY <1>1, <1>5
    <2> QED
      BY <1>4, <2>1 DEF DataInv, Settled, Written, ChunksInOrder, NoStaleBytes
  <1>6. CASE inner[g] = "some"
    <2>1. /\ writing
          /\ \A u \in WriteGuards : inner[u] = "some" => u = g
          /\ \A u \in ReadGuards : inner[u] # "some"
      BY <1>6, WriterOwns
    <2>2. stray' => stray
      BY <1>1, <1>6
    <2>5. stray => stray'
      BY <1>1
    <2>3. Written'
      <3>1. \A i \in 1..Capacity : data'[i] = sequence + 1
        BY <1>1, <1>6
      <3>2. cursor[g] \in Nat /\ Capacity \in Nat
        BY GuardAssumption DEF DataInv, DataTypes, Guards
      <3>3. ASSUME ~stray, g \in plain
            PROVE  cursor[g] <= Capacity /\ \A i \in 1..cursor[g] : data'[i] = sequence + 1
        BY <1>6, <3>1, <3>2, <3>3 DEF DataInv, Written
      <3> QED
        BY <1>1, <2>1, <2>5, <3>3 DEF Written
    <2>4. Settled' /\ ChunksInOrder' /\ NoStaleBytes'
      BY <1>1, <2>1, <2>2, <2>5 DEF DataInv, Settled, ChunksInOrder, NoStaleBytes
    <2> QED
      BY <1>4, <2>3, <2>4 DEF DataInv
  <1> QED
    BY <1>5, <1>6

LEMMA ReadBytes ==
  ASSUME HoldInv, DataInv, NEW g \in ReadGuards, NEW n \in 1..Capacity, Read(g, n)
  PROVE  DataInv'
  <1> DEFINE c == cursor[g]
             count == IF n < Available(g) THEN n ELSE Available(g)
             chunk == SubSeq(Shown, c + 1, c + count)
  <1>1. /\ inner[g] = "some"
        /\ got' = [got EXCEPT ![g] = IF g \in plain THEN @ \o chunk ELSE @]
        /\ cursor' = [cursor EXCEPT ![g] = @ + count]
        /\ UNCHANGED <<sequence, writing, data_size, data, inner, message, plain, whole, stray>>
    BY DEF Read, objects, slot
  <1>2. /\ g \in Guards /\ g \notin WriteGuards /\ c \in Nat /\ n \in Nat
        /\ data_size \in Nat /\ Capacity \in Nat
    BY GuardAssumption DEF Guards, DataInv, DataTypes
  <1>3. /\ count \in Nat
        /\ count = 0 \/ c + count <= data_size
        /\ c <= data_size => c + count <= data_size
    BY <1>2 DEF Available
  <1>4. Shown \in Seq(Bytes) /\ Len(Shown) = data_size
    BY Prefix DEF Shown, DataInv, DataTypes
  <1> HIDE DEF count, c
  <1>5. chunk \in Seq(Bytes)
    <2>1. CASE count = 0
      <3>1. chunk = <<>>
        BY <1>2, <2>1, SubSeqEmpty
      <3> QED
        BY <3>1, EmptySeq
    <2>2. CASE c + count <= data_size
      <3>1. \A i \in (c + 1)..(c + count) : i \in 1..Len(Shown)
        BY <1>2, <1>3, <1>4, <2>2
      <3>2. \A i \in (c + 1)..(c + count) : Shown[i] \in Bytes
        BY <1>4, <3>1, ElementOfSeq
      <3> QED
        BY <1>2, <1>3, <3>2, SubSeqProperties
    <2> QED
      BY <1>3, <2>1, <2>2
  <1>6. /\ cursor' \in [Guards -> Nat] /\ cursor'[g] = c + count
        /\ \A u \in Guards \ {g} : cursor'[u] = cursor[u]
    BY <1>1, <1>2, <1>3 DEF DataInv, DataTypes, c
  <1>7. /\ got' \in [Guards -> Seq(Bytes)]
        /\ \A u \in Guards \ {g} : got'[u] = got[u]
        /\ g \in plain => got'[g] = got[g] \o chunk
    <2> HIDE DEF chunk
    <2>1. got \in [Guards -> Seq(Bytes)] /\ got[g] \o chunk \in Seq(Bytes)
      BY <1>2, <1>5, ConcatProperties DEF DataInv, DataTypes
    <2> QED
      BY <1>1, <1>2, <2>1
  <1>8. DataTypes'
    BY <1>1, <1>6, <1>7 DEF DataInv, DataTypes
  <1>9. Settled' /\ NoStaleBytes'
    BY <1>1 DEF DataInv, Settled, Shown, NoStaleBytes
  <1>10. Written'
    BY <1>1, <1>2, <1>6 DEF DataInv, Written, Guards
  <1>11. ASSUME ~stray, g \in plain
         PROVE  cursor'[g] <= Len(message) /\ got'[g] = SubSeq(message, 1, cursor'[g])
    <2>1. ~writing
      BY <1>1, ReaderCounted DEF Holds
    <2>2. Shown = message /\ Len(message) = data_size /\ message \in Seq(Bytes)
      BY <1>11, <2>1 DEF DataInv, Settled, DataTypes
    <2>3. c <= data_size /\ got[g] = SubSeq(message, 1, c)
      BY <1>1, <1>11, <2>2 DEF DataInv, ChunksInOrder, c
    <2>4. SubSeq(message, 1, c) \o SubSeq(message, c + 1, c + count) =
            SubSeq(message, 1, c + count)
      <3>1. /\ 1 \in 1..(Len(message) + 1) /\ c \in (1 - 1)..Len(message)
            /\ c + count \in c..Len(message)
        BY <1>2, <1>3, <2>2, <2>3
      <3> DEFINE e == c + count
      <3> HIDE DEF e
      <3>2. e \in c..Len(message)
        BY <3>1 DEF e
      <3>3. SubSeq(message, 1, c) \o SubSeq(message, c + 1, e) = SubSeq(message, 1, e)
        BY <2>2, <3>1, <3>2, ConcatAdjacentSubSeq
      <3> QED
        BY <3>3 DEF e
    <2> QED
      BY <1>3, <1>6, <1>7, <1>11, <2>2, <2>3, <2>4
  <1>12. ChunksInOrder'
    BY <1>1, <1>2, <1>6, <1>7, <1>11 DEF DataInv, ChunksInOrder, Guards
  <1> QED
    BY <1>8, <1>9, <1>10, <1>12 DEF DataInv

LEMMA PublishBytes ==
  ASSUME RefInv, HoldInv, DataInv, NEW g \in WriteGuards, NEW size \in 0..(Capacity + 1),
         Publish(g, size)
  PROVE  DataInv'
  <1>1. /\ inner[g] = "some" /\ size <= Capacity
        /\ data_size' = size /\ sequence' = sequence + 1 /\ writing' = FALSE
        /\ message' = SubSeq(data, 1, size)
        /\ whole' = (g \in plain /\ size = cursor[g])
        /\ UNCHANGED <<data, stray>>
        /\ Retired(g)
    BY DEF Publish, Install
  <1>2. /\ \A u \in WriteGuards : inner[u] = "some" => u = g
        /\ \A u \in ReadGuards : inner[u] # "some"
    BY <1>1, WriterOwns
  <1>3. g \in Guards /\ inner'[g] = "storing" /\ \A u \in Guards \ {g} : inner'[u] = inner[u]
    BY DEF Publish, RefInv, Guards
  <1>4. \A u \in Guards : inner'[u] # "some"
    BY <1>2, <1>3 DEF Guards
  <1>5. size \in 0..Capacity
    BY <1>1, GuardAssumption
  <1>6. /\ message' \in Seq(Bytes) /\ Len(message') = size
        /\ \A i \in 1..size : message'[i] = data[i]
    BY <1>1, <1>5, Prefix DEF DataInv, DataTypes
  <1>7. cursor' \in [Guards -> Nat] /\ got' \in [Guards -> Seq(Bytes)]
    BY <1>1, <1>3, RetiredBytes
  <1>8. DataTypes'
    BY <1>1, <1>5, <1>6, <1>7 DEF DataInv, DataTypes
  <1>9. Settled'
    BY <1>1 DEF Settled, Shown
  <1>10. Written' /\ ChunksInOrder'
    BY <1>4 DEF Written, ChunksInOrder, Guards
  <1>11. NoStaleBytes'
    <2>1. DOMAIN message' = 1..size
      BY <1>6, LenProperties
    <2>2. ASSUME ~stray, whole' PROVE \A i \in 1..size : message'[i] = sequence'
      BY <1>1, <1>6, <2>2 DEF DataInv, Written
    <2> QED
      BY <1>1, <2>1, <2>2 DEF NoStaleBytes
  <1> QED
    BY <1>8, <1>9, <1>10, <1>11 DEF DataInv

LEMMA StepBytes ==
  ASSUME RefInv, HoldInv, DataInv, Next PROVE DataInv'
  <1>1. ASSUME NEW g \in Guards, Passive(g) PROVE DataInv'
    BY <1>1, PassiveBytes, WriteBytes, ViewBytes, ReadBytes DEF Passive
  <1>2. ASSUME NEW g \in Guards, Slots(g) PROVE DataInv'
    BY <1>2, AcquireBytes, LeaveBytes, PublishBytes DEF Slots
  <1>3. ASSUME NEW h \in {"write", "read"}, DropHandle(h) PROVE DataInv'
    <2>1. UNCHANGED <<data, data_size, message, sequence, writing, whole, stray, inner,
                      cursor, plain, got>>
      BY <1>3 DEF DropHandle, slot, history
    <2> QED
      BY <2>1, BytesKept DEF DataInv, DataTypes
  <1> QED
    BY <1>1, <1>2, <1>3, NextCases

----------------------------------------------------------------------------
GuardsInv == RefInv /\ HoldInv /\ DataInv

LEMMA InitGuards == Init => GuardsInv
  <1> SUFFICES ASSUME Init PROVE GuardsInv
    OBVIOUS
  <1>1. RefInv
    BY DEF Init, RefInv, Stages
  <1>2. HeldReads = {} /\ \A g \in Guards : ~Holds(g)
    BY DEF Init, HeldReads, Holds, Guards
  <1>3. Cardinality(HeldReads) = 0
    BY <1>2, FS_EmptySet
  <1>4. HoldInv
    <2>1. SlotTypes
      <3>1. sequence \in 0..MessageLimit /\ active \in Nat
        BY GuardAssumption DEF Init
      <3>2. writing \in BOOLEAN
        BY Zenon DEF Init
      <3>3. owner \in WriteGuards \cup {None}
        BY Zenon DEF Init
      <3> QED
        BY <3>1, <3>2, <3>3 DEF SlotTypes
    <2>2. \A g \in WriteGuards : Holds(g) <=> owner = g
      BY <1>2, GuardAssumption DEF Init, Guards
    <2>3. Exclusive /\ active = 0
      BY DEF Init, Exclusive
    <2>4. Budget
      BY DEF Init, Budget, Guards
    <2> QED
      BY <1>3, <2>1, <2>2, <2>3, <2>4 DEF HoldInv
  <1>5. <<>> \in Seq(Bytes) /\ Len(<<>>) = 0
    BY EmptySeq
  <1>6. 0 \in Bytes /\ 0 \in 0..Capacity
    BY GuardAssumption DEF Bytes, Stray
  <1>7. DataTypes
    BY <1>5, <1>6 DEF Init, DataTypes
  <1>8. Shown = <<>>
    BY SubSeqEmpty DEF Init, Shown
  <1>9. Settled /\ Written /\ ChunksInOrder /\ NoStaleBytes
    BY <1>8 DEF Init, Settled, Written, ChunksInOrder, NoStaleBytes
  <1> QED
    BY <1>1, <1>4, <1>7, <1>9 DEF GuardsInv, DataInv

LEMMA GuardsInvariance == Spec => []GuardsInv
  <1>1. GuardsInv /\ [Next]_vars => GuardsInv'
    <2> SUFFICES ASSUME GuardsInv, [Next]_vars PROVE GuardsInv'
      OBVIOUS
    <2>1. CASE Next
      BY <2>1, StepHolds, StepBytes DEF GuardsInv
    <2>2. CASE UNCHANGED vars
      <3>1. RefInv' /\ HoldInv'
        BY <2>2, HoldsKept DEF vars, objects, slot, GuardsInv, RefInv, Holds
      <3>2. DataInv'
        BY <2>2, BytesKept DEF vars, objects, slot, history, GuardsInv, DataInv, DataTypes
      <3> QED
        BY <3>1, <3>2 DEF GuardsInv
    <2> QED
      BY <2>1, <2>2
  <1> QED
    BY <1>1, InitGuards, PTL DEF Spec

\* Every way to leave a guard of guards.rs (__exit__, __clear__, publish, a
\* refused publish, deallocation) gives the slot back once: for any finite number
\* of guards active_readers and writer_mutex are those of the guards not yet left.
THEOREM GuardsReleasedOnce == Spec => []ReleasedOnce
  <1>1. GuardsInv => ReleasedOnce
    BY DEF GuardsInv, HoldInv, HeldReads, ReleasedOnce
  <1> QED
    BY <1>1, GuardsInvariance, PTL

\* What a ReadGuard shows is the published message for as long as it is there,
\* for any capacity and any number of guards, unless a view of a write guard that
\* was left is written to.
THEOREM GuardsShowMessage == Spec => []GuardShowsMessage
  <1>1. GuardsInv => GuardShowsMessage
    <2> SUFFICES ASSUME GuardsInv, ~stray, NEW g \in ReadGuards, inner[g] = "some"
                 PROVE  Shown = message
      BY DEF GuardShowsMessage
    <2>1. ~writing
      BY ReaderCounted DEF GuardsInv, Holds
    <2> QED
      BY <2>1 DEF GuardsInv, DataInv, Settled
  <1> QED
    BY <1>1, GuardsInvariance, PTL

\* Without seek(), the chunks of ReadGuard.read, of any sizes, are the message up to
\* the cursor.
THEOREM GuardsChunksInOrder == Spec => []ChunksInOrder
  <1>1. GuardsInv => ChunksInOrder
    BY DEF GuardsInv, DataInv
  <1> QED
    BY <1>1, GuardsInvariance, PTL

\* WriteGuard.publish without a size publishes only bytes that were written
\* through this guard, if seek() was not used.
THEOREM GuardsNoStaleBytes == Spec => []NoStaleBytes
  <1>1. GuardsInv => NoStaleBytes
    BY DEF GuardsInv, DataInv
  <1> QED
    BY <1>1, GuardsInvariance, PTL

\* The types of PythonGuards: among them, active_readers is at most the number of
\* read guards and data_size at most the capacity.
THEOREM GuardsTypes == Spec => []TypeOK
  <1>1. GuardsInv => TypeOK
    <2> SUFFICES ASSUME GuardsInv PROVE TypeOK
      OBVIOUS
    <2>1. HeldReads \subseteq ReadGuards
      BY DEF HeldReads
    <2>2. active \in 0..Cardinality(ReadGuards)
      BY <2>1, HeldFinite, FS_Subset, FS_CardinalityType, GuardAssumption
      DEF GuardsInv, HoldInv, SlotTypes
    <2> QED
      BY <2>2 DEF GuardsInv, RefInv, HoldInv, SlotTypes, DataInv, DataTypes, TypeOK, Stages
  <1> QED
    BY <1>1, GuardsInvariance, PTL
=============================================================================
