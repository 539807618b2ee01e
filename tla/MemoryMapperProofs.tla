------------------------- MODULE MemoryMapperProofs -------------------------
(***************************************************************************)
(* Proofs about MemoryMapper, for any finite number of processes and any   *)
(* segments and sizes: a mapping is backed unless its segment was emptied  *)
(* in use, a creator that meets no other keeps the name and the header     *)
(* holds no ghosts, whatever processes die or fail.                        *)
(***************************************************************************)
EXTENDS MemoryMapper, FiniteSetTheorems, TLAPS

PC == {"none", "resize", "stat", "map", "register", "live", "writing", "unmap", "unlink"}

Fields == [size: Sizes \cup {0}, consumers: Nat, locked: BOOLEAN,
           deadReaders: 0..DeathLimit, deadWriter: BOOLEAN, reused: BOOLEAN]

\* The types but for the bound on consumers, which needs NoGhosts.
Types ==
    /\ name \in Segments \cup {None}
    /\ store \in [Segments -> Fields]
    /\ pc \in [Handles -> PC]
    /\ seg \in [Handles -> Segments \cup {None}]
    /\ mapped \in [Handles -> Sizes \cup {0}]
    /\ created \in [Handles -> BOOLEAN]
    /\ reader \in [Handles -> BOOLEAN]
    /\ rivals \subseteq {h \in Handles : created[h]}
    /\ \A h \in Handles : pc[h] = "none" <=> seg[h] = None

CreatorPlaces ==
    \A h \in Handles :
        /\ created[h] => pc[h] # "none"
        /\ pc[h] \in {"resize", "unlink"} => created[h]

\* A creator that meets no other holds the name from its shm_open to its
\* shm_unlink.
CreatorNamed ==
    \A h \in Handles :
        created[h] /\ h \notin rivals =>
            name = seg[h] /\ \A g \in Handles : created[g] => g = h

Intact(h) == ~store[seg[h]].reused

\* A segment that was not emptied in use has one creator at most.
OneCreator ==
    \A g, h \in Handles :
        created[g] /\ created[h] /\ seg[g] = seg[h] /\ Intact(h) => g = h

\* Until it is resized a segment is empty, and who has read that size is going
\* to fail; a size above zero does not change any more.
EmptyUntilResized ==
    \A h \in Handles : pc[h] = "resize" /\ Intact(h) => store[seg[h]].size = 0
StatSize ==
    \A h \in Handles :
        pc[h] = "map" /\ Intact(h) => mapped[h] = 0 \/ mapped[h] = store[seg[h]].size
MappingSize ==
    \A h \in Handles :
        Mapping(h) =>
            mapped[h] \in Sizes /\ (Intact(h) => mapped[h] = store[seg[h]].size)

SizeInv ==
    /\ Types
    /\ CreatorPlaces
    /\ CreatorNamed
    /\ OneCreator
    /\ EmptyUntilResized
    /\ StatSize
    /\ MappingSize

\* The writer's lock is held for one handle at most, and not for a dead one
\* when a live one has it, unless it was reset under its owner.
WriterAlone ==
    /\ \A h \in Handles :
          pc[h] = "writing" => ~reader[h] /\ (Intact(h) => ~store[seg[h]].deadWriter)
    /\ \A g, h \in Handles :
          pc[g] = "writing" /\ pc[h] = "writing" /\ seg[g] = seg[h] /\ Intact(h) => g = h

GhostInv == WriterAlone /\ NoGhosts

----------------------------------------------------------------------------
(* What a step does to the handles and to the segments.                    *)

Act(h) ==
    \/ CreateOpen(h) \/ Resize(h) \/ Open(h) \/ Stat(h) \/ Map(h) \/ MapFail(h)
    \/ Register(h) \/ LockWriter(h) \/ UnlockWriter(h)
    \/ Unregister(h) \/ Unmap(h) \/ Unlink(h) \/ Crash(h)

\* A step of one handle leaves the others where they are.
LEMMA OtherHandles ==
  ASSUME Types, NEW h \in Handles, Act(h)
  PROVE  \A g \in Handles \ {h} :
            /\ pc'[g] = pc[g] /\ seg'[g] = seg[g] /\ mapped'[g] = mapped[g]
            /\ created'[g] = created[g] /\ reader'[g] = reader[g]
  <1> USE DEF Types, Goto, mapper
  <1>1. CASE CreateOpen(h) \/ Open(h)
    BY <1>1 DEF CreateOpen, Open, Begin
  <1>2. CASE Resize(h) \/ Stat(h) \/ Map(h) \/ Register(h) \/ LockWriter(h)
             \/ UnlockWriter(h) \/ Unregister(h)
    BY <1>2 DEF Resize, Stat, Map, Register, LockWriter, UnlockWriter, Unregister
  <1>3. CASE MapFail(h) \/ Unmap(h) \/ Unlink(h) \/ Crash(h)
    BY <1>3 DEF MapFail, Unmap, Unlink, Crash, Closed
  <1> QED
    BY <1>1, <1>2, <1>3 DEF Act

LEMMA ZeroedType == Zeroed \in Fields
  BY MapperAssumption DEF Zeroed, Fields

\* The kernel frees a segment only when nobody is attached to it.
LEMMA FreedStore ==
  ASSUME NEW after \in [Segments -> Fields], store' = Freed(after)
  PROVE  /\ store' \in [Segments -> Fields]
         /\ \A s \in Segments : store'[s] = after[s] \/ store'[s] = Zeroed
         /\ \A g \in Handles : seg'[g] \in Segments => store'[seg'[g]] = after[seg'[g]]
         /\ \A s \in Segments : (\E g \in Handles : seg'[g] = s) => store'[s] = after[s]
  BY ZeroedType DEF Freed

LEMMA EmptiedType ==
  ASSUME NEW s \in Segments
  PROVE  /\ Emptied(s) \in Fields /\ Emptied(s).consumers = 0 /\ Emptied(s).size = 0
         /\ Emptied(s).locked = FALSE /\ Emptied(s).deadReaders = 0
         /\ Emptied(s).deadWriter = FALSE /\ (Emptied(s).reused <=> Attached(s) # {})
  <1> DEFINE b == Attached(s) # {}
             e == [size |-> 0, consumers |-> 0, locked |-> FALSE,
                   deadReaders |-> 0, deadWriter |-> FALSE, reused |-> b]
  <1>1. b \in BOOLEAN
    OBVIOUS
  <1>2. Emptied(s) = e
    <2> HIDE DEF b
    <2>1. Emptied(s) = [Zeroed EXCEPT !.reused = b]
      BY Zenon DEF Emptied, b
    <2> QED
      BY <2>1 DEF Zeroed
  <1>3. e \in Fields
    <2> HIDE DEF b
    <2> QED
      BY <1>1, MapperAssumption DEF Fields
  <1>4. /\ e.consumers = 0 /\ e.size = 0 /\ e.locked = FALSE
        /\ e.deadReaders = 0 /\ e.deadWriter = FALSE
    OBVIOUS
  <1>5. e.reused <=> Attached(s) # {}
    BY Zenon
  <1> HIDE DEF e
  <1> QED
    BY <1>2, <1>3, <1>4, <1>5

\* One field of a segment is replaced.
LEMMA StoreUpdates ==
  ASSUME NEW st \in [Segments -> Fields], NEW s \in Segments
  PROVE  /\ st[s].size \in Sizes \cup {0} /\ st[s].consumers \in Nat
         /\ st[s].locked \in BOOLEAN /\ st[s].deadReaders \in 0..DeathLimit
         /\ st[s].deadWriter \in BOOLEAN /\ st[s].reused \in BOOLEAN
         /\ \A n \in Sizes \cup {0} : [st EXCEPT ![s].size = n] \in [Segments -> Fields]
         /\ \A n \in Nat : [st EXCEPT ![s].consumers = n] \in [Segments -> Fields]
         /\ \A b \in BOOLEAN : [st EXCEPT ![s].locked = b] \in [Segments -> Fields]
         /\ \A n \in 0..DeathLimit : [st EXCEPT ![s].deadReaders = n] \in [Segments -> Fields]
         /\ \A b \in BOOLEAN : [st EXCEPT ![s].deadWriter = b] \in [Segments -> Fields]
  BY DEF Fields

\* What stays of the segment of a process that dies.
Died(h) ==
    [store EXCEPT
        ![seg[h]].deadReaders = IF Registered(h) THEN @ + 1 ELSE @,
        ![seg[h]].deadWriter = @ \/ pc[h] = "writing"]

LEMMA DiedType ==
  ASSUME Types, NEW h \in Handles, Crash(h)
  PROVE  /\ seg[h] \in Segments
         /\ store' = Freed(Died(h))
         /\ Died(h) \in [Segments -> Fields]
  <1>1. seg[h] \in Segments /\ store \in [Segments -> Fields]
    BY DEF Types, Crash
  <1>2. store' = Freed(Died(h))
    BY DEF Crash, Died
  <1> DEFINE n == IF Registered(h) THEN store[seg[h]].deadReaders + 1
                  ELSE store[seg[h]].deadReaders
             st == [store EXCEPT ![seg[h]].deadReaders = n]
             b == st[seg[h]].deadWriter \/ pc[h] = "writing"
  <1>3. n \in 0..DeathLimit
    BY <1>1, StoreUpdates, MapperAssumption DEF Crash
  <1>4. st \in [Segments -> Fields]
    BY <1>1, <1>3, StoreUpdates
  <1>5. b \in BOOLEAN
    OBVIOUS
  <1>6. [st EXCEPT ![seg[h]].deadWriter = b] \in [Segments -> Fields]
    <2> HIDE DEF st, b
    <2> QED
      BY <1>1, <1>4, <1>5, StoreUpdates
  <1>7. Died(h) = [st EXCEPT ![seg[h]].deadWriter = b]
    BY DEF Died
  <1> QED
    BY <1>1, <1>2, <1>6, <1>7

\* A process that closes its mapping, or none, and the segments after it.
Closes(h) == MapFail(h) \/ Unmap(h) \/ Unlink(h)

LEMMA StepStore == ASSUME Types, NEW h \in Handles, Act(h) PROVE store' \in [Segments -> Fields]
  <1>t. store \in [Segments -> Fields]
    BY DEF Types
  <1>s. ASSUME pc[h] # "none" PROVE seg[h] \in Segments
    BY <1>s DEF Types
  <1>1. CASE CreateOpen(h)
    BY <1>t, <1>1, EmptiedType DEF CreateOpen
  <1>2. CASE Resize(h)
    <2>1. seg[h] \in Segments
      BY <1>s, <1>2 DEF Resize, Goto
    <2>2. \A n \in Sizes : [store EXCEPT ![seg[h]].size = n] \in [Segments -> Fields]
      BY <1>t, <2>1, StoreUpdates
    <2> QED
      BY <1>t, <1>2, <2>2 DEF Resize
  <1>3. CASE Open(h) \/ Stat(h) \/ Map(h)
    BY <1>t, <1>3 DEF Open, Stat, Map
  <1>4. CASE Register(h)
    <2>1. seg[h] \in Segments /\ store[seg[h]].consumers + 1 \in Nat
      BY <1>t, <1>s, <1>4, StoreUpdates DEF Register, Goto
    <2> QED
      BY <1>t, <1>4, <2>1, StoreUpdates DEF Register
  <1>5. CASE LockWriter(h) \/ UnlockWriter(h)
    <2>1. seg[h] \in Segments
      BY <1>s, <1>5 DEF LockWriter, UnlockWriter, Goto
    <2>2. \A b \in BOOLEAN : [store EXCEPT ![seg[h]].locked = b] \in [Segments -> Fields]
      BY <1>t, <2>1, StoreUpdates
    <2> QED
      BY <1>5, <2>2 DEF LockWriter, UnlockWriter
  <1>6. CASE Unregister(h)
    <2>1. /\ seg[h] \in Segments
          /\ store[seg[h]].consumers > 0 => store[seg[h]].consumers - 1 \in Nat
      BY <1>t, <1>s, <1>6, StoreUpdates DEF Unregister, Goto
    <2> QED
      BY <1>t, <1>6, <2>1, StoreUpdates DEF Unregister
  <1>7. CASE Closes(h)
    BY <1>t, <1>7, FreedStore DEF Closes, MapFail, Unmap, Unlink
  <1>8. CASE Crash(h)
    BY <1>8, DiedType, FreedStore
  <1> QED
    BY <1>1, <1>2, <1>3, <1>4, <1>5, <1>6, <1>7, <1>8 DEF Act, Closes

\* Where a handle can go, and what it has by then.
LEMMA HandleMoves ==
  ASSUME Types, NEW h \in Handles, Act(h)
  PROVE  /\ pc' \in [Handles -> PC]
         /\ seg' \in [Handles -> Segments \cup {None}]
         /\ mapped' \in [Handles -> Sizes \cup {0}]
         /\ created' \in [Handles -> BOOLEAN]
         /\ reader' \in [Handles -> BOOLEAN]
         /\ name' \in Segments \cup {None}
         /\ pc'[h] = "none" <=> seg'[h] = None
  <1> USE MapperAssumption DEF Types, Goto, PC, mapper
  <1>1. CASE CreateOpen(h) \/ Open(h)
    <2>1. PICK s \in Segments, l \in {"resize", "stat"} :
              Begin(h, s, l) /\ name' \in Segments \cup {None}
      BY <1>1 DEF CreateOpen, Open
    <2>2. created' \in [Handles -> BOOLEAN]
      BY <1>1 DEF CreateOpen, Open
    <2> QED
      BY <2>1, <2>2 DEF Begin
  <1>2. CASE Resize(h) \/ Map(h) \/ Register(h) \/ LockWriter(h) \/ UnlockWriter(h)
             \/ Unregister(h)
    BY <1>2 DEF Resize, Map, Register, LockWriter, UnlockWriter, Unregister
  <1>3. CASE Stat(h)
    <2>1. seg[h] \in Segments /\ store \in [Segments -> Fields]
      BY <1>3 DEF Stat
    <2>2. store[seg[h]].size \in Sizes \cup {0}
      BY <2>1, StoreUpdates
    <2> QED
      BY <1>3, <2>2 DEF Stat
  <1>4. CASE MapFail(h) \/ Unmap(h)
    <2>1. CASE created[h]
      BY <1>4, <2>1 DEF MapFail, Unmap
    <2>2. CASE ~created[h]
      <3>1. Goto(h, pc[h], "none") /\ Closed(h) /\ UNCHANGED name
        BY <1>4, <2>2 DEF MapFail, Unmap
      <3> QED
        BY <3>1 DEF Closed
    <2> QED
      BY <2>1, <2>2
  <1>5. CASE Unlink(h) \/ Crash(h)
    <2>1. Closed(h) /\ pc' = [pc EXCEPT ![h] = "none"] /\ name' \in {name, None}
      BY <1>5 DEF Unlink, Crash
    <2> QED
      BY <2>1 DEF Closed
  <1> QED
    BY <1>1, <1>2, <1>3, <1>4, <1>5 DEF Act

\* A creator that has met another keeps that until it is gone.
LEMMA RivalMoves ==
  ASSUME Types, NEW h \in Handles, Act(h)
  PROVE  /\ rivals' \subseteq {g \in Handles : created'[g]}
         /\ \A g \in Handles \ {h} : g \in rivals => g \in rivals'
         /\ ~CreateOpen(h) => (h \in rivals /\ created'[h] => h \in rivals')
  <1> USE DEF Types, mapper
  <1>1. CASE CreateOpen(h)
    BY <1>1 DEF CreateOpen, Rivals, Begin, Goto
  <1>2. CASE Open(h)
    BY <1>2 DEF Open, Begin, Goto
  <1>3. CASE Resize(h) \/ Stat(h) \/ Map(h) \/ Register(h) \/ LockWriter(h)
             \/ UnlockWriter(h) \/ Unregister(h)
    BY <1>3 DEF Resize, Stat, Map, Register, LockWriter, UnlockWriter, Unregister
  <1>4. CASE Closed(h)
    BY <1>4 DEF Closed
  <1>5. CASE (MapFail(h) \/ Unmap(h)) /\ UNCHANGED mapper
    BY <1>5
  <1> QED
    BY <1>1, <1>2, <1>3, <1>4, <1>5 DEF Act, MapFail, Unmap, Unlink, Crash

LEMMA StepTypes == ASSUME Types, NEW h \in Handles, Act(h) PROVE Types'
  <1>1. \A g \in Handles \ {h} : pc'[g] = pc[g] /\ seg'[g] = seg[g]
    BY OtherHandles
  <1>2. \A g \in Handles : pc'[g] = "none" <=> seg'[g] = None
    BY <1>1, HandleMoves DEF Types
  <1> QED
    BY <1>2, StepStore, HandleMoves, RivalMoves DEF Types

\* The size of a segment in use changes in Resize only, unless it is emptied.
LEMMA KeepsSize ==
  ASSUME Types, NEW h \in Handles, Act(h),
         NEW g \in Handles, pc[g] # "none", pc'[g] # "none"
  PROVE  /\ seg'[g] = seg[g]
         /\ Intact(g)' =>
              Intact(g) /\ (~Resize(h) => store'[seg[g]].size = store[seg[g]].size)
  <1>t. store \in [Segments -> Fields] /\ seg[g] \in Segments
    BY DEF Types
  <1>s. ASSUME pc[h] # "none" PROVE seg[h] \in Segments
    BY <1>s DEF Types
  <1>g. ASSUME g = h PROVE seg'[g] = seg[g]
    <2>1. ~CreateOpen(h) /\ ~Open(h) /\ ~Unlink(h) /\ ~Crash(h)
      BY <1>g DEF CreateOpen, Open, Begin, Unlink, Crash, Goto, Types
    <2>2. CASE MapFail(h) \/ Unmap(h)
      BY <1>g, <2>2 DEF MapFail, Unmap, Goto, mapper, Types
    <2> QED
      BY <1>g, <2>1, <2>2 DEF Act, Resize, Stat, Map, Register, LockWriter, UnlockWriter,
         Unregister, mapper
  <1>k. seg'[g] = seg[g]
    BY <1>g, OtherHandles
  <1> DEFINE Kept == /\ store'[seg[g]].reused = store[seg[g]].reused
                     /\ ~Resize(h) => store'[seg[g]].size = store[seg[g]].size
  <1>1. CASE CreateOpen(h)
    <2>1. PICK s \in Segments : store' = [store EXCEPT ![s] = Emptied(s)]
      BY <1>1 DEF CreateOpen
    <2>2. CASE seg[g] = s
      <3>1. Attached(s) # {}
        BY <2>2 DEF Attached
      <3>2. store'[seg'[g]].reused
        BY <1>t, <1>k, <2>1, <2>2, <3>1, EmptiedType
      <3> QED
        BY <1>k, <3>2 DEF Intact
    <2>3. CASE seg[g] # s
      BY <1>t, <1>k, <2>1, <2>3 DEF Intact
    <2> QED
      BY <2>2, <2>3
  <1>2. CASE Kept
    BY <1>k, <1>2 DEF Intact
  <1>3. CASE Open(h) \/ Stat(h) \/ Map(h)
    BY <1>2, <1>3 DEF Open, Stat, Map
  <1>4. CASE Resize(h) \/ Register(h) \/ LockWriter(h) \/ UnlockWriter(h) \/ Unregister(h)
    <2>1. seg[h] \in Segments
      BY <1>s, <1>4 DEF Resize, Register, LockWriter, UnlockWriter, Unregister, Goto
    <2>2. CASE Resize(h)
      <3>1. store' = store \/ \E n : store' = [store EXCEPT ![seg[h]].size = n]
        BY <2>2 DEF Resize
      <3>2. ASSUME NEW n, store' = [store EXCEPT ![seg[h]].size = n]
            PROVE  store'[seg[g]].reused = store[seg[g]].reused
        BY <1>t, <2>1, <3>2 DEF Fields
      <3> QED
        BY <1>2, <2>2, <3>1, <3>2
    <2>3. CASE Register(h) \/ Unregister(h)
      <3>1. \/ store' = store
            \/ \E n : store' = [store EXCEPT ![seg[h]].consumers = n]
        BY <2>3 DEF Register, Unregister
      <3>2. CASE \E n : store' = [store EXCEPT ![seg[h]].consumers = n]
        <4>1. PICK n : store' = [store EXCEPT ![seg[h]].consumers = n]
          BY <3>2
        <4>2. store'[seg[g]].reused = store[seg[g]].reused
          BY <1>t, <2>1, <4>1 DEF Fields
        <4>3. store'[seg[g]].size = store[seg[g]].size
          BY <1>t, <2>1, <4>1 DEF Fields
        <4> QED
          BY <1>2, <4>2, <4>3
      <3> QED
        BY <1>2, <3>1, <3>2
    <2>4. CASE LockWriter(h) \/ UnlockWriter(h)
      BY <1>t, <1>2, <2>1, <2>4 DEF LockWriter, UnlockWriter, Fields
    <2> QED
      BY <1>4, <2>2, <2>3, <2>4
  <1>5. CASE Closes(h)
    <2>1. store' = Freed(store)
      BY <1>5 DEF Closes, MapFail, Unmap, Unlink
    <2>2. store'[seg[g]] = store[seg[g]]
      BY <1>t, <1>k, <2>1, FreedStore
    <2> QED
      BY <1>2, <2>2
  <1>6. CASE Crash(h)
    <2>1. store'[seg[g]] = Died(h)[seg[g]]
      BY <1>t, <1>k, <1>6, DiedType, FreedStore
    <2>2. /\ Died(h)[seg[g]].size = store[seg[g]].size
          /\ Died(h)[seg[g]].reused = store[seg[g]].reused
      BY <1>t, <1>6, DiedType DEF Died, Fields
    <2> QED
      BY <1>2, <2>1, <2>2
  <1> QED
    BY <1>1, <1>3, <1>4, <1>5, <1>6 DEF Act, Closes

----------------------------------------------------------------------------
(* The name and the sizes.                                                 *)

LEMMA CreatorMoves ==
  ASSUME SizeInv, NEW h \in Handles, Act(h), ~CreateOpen(h), ~Unlink(h)
  PROVE  /\ UNCHANGED name
         /\ created'[h] => created[h] /\ pc'[h] # "none" /\ seg'[h] = seg[h]
         /\ pc'[h] \in {"resize", "unlink"} => created'[h]
  <1> USE DEF SizeInv, Types, CreatorPlaces, Goto, mapper
  <1>1. CASE Open(h)
    BY <1>1 DEF Open, Begin
  <1>2. CASE Resize(h) \/ Stat(h) \/ Map(h) \/ Register(h) \/ LockWriter(h)
             \/ UnlockWriter(h) \/ Unregister(h)
    BY <1>2 DEF Resize, Stat, Map, Register, LockWriter, UnlockWriter, Unregister
  <1>3. CASE MapFail(h) \/ Unmap(h)
    <2>1. CASE created[h]
      BY <1>3, <2>1 DEF MapFail, Unmap
    <2>2. CASE ~created[h]
      BY <1>3, <2>2 DEF MapFail, Unmap, Closed
    <2> QED
      BY <2>1, <2>2
  <1>4. CASE Crash(h)
    BY <1>4 DEF Crash, Closed
  <1> QED
    BY <1>1, <1>2, <1>3, <1>4 DEF Act

LEMMA StepCreator ==
  ASSUME SizeInv, NEW h \in Handles, Act(h)
  PROVE  CreatorPlaces' /\ CreatorNamed' /\ OneCreator'
  <1>t. Types /\ rivals' \subseteq {g \in Handles : created'[g]}
        /\ \A g \in Handles \ {h} : g \in rivals => g \in rivals'
    BY RivalMoves DEF SizeInv
  <1>o. \A g \in Handles \ {h} :
          pc'[g] = pc[g] /\ seg'[g] = seg[g] /\ created'[g] = created[g]
    BY <1>t, OtherHandles
  <1>i. \A g \in Handles : created[g] /\ pc'[g] # "none" =>
          seg'[g] = seg[g] /\ (Intact(g)' => Intact(g))
    BY <1>t, KeepsSize DEF SizeInv, CreatorPlaces
  <1> USE DEF CreatorPlaces, CreatorNamed, OneCreator
  <1>1. CASE CreateOpen(h)
    <2>1. /\ pc'[h] = "resize" /\ created'[h] /\ name' = seg'[h] /\ ~created[h]
          /\ rivals' = rivals \cup Rivals(h)
      BY <1>1 DEF CreateOpen, Begin, Goto, SizeInv, Types
    <2>2. PICK s \in Segments : seg'[h] = s /\ store' = [store EXCEPT ![s] = Emptied(s)]
      <3>1. PICK s \in Segments : Begin(h, s, "resize") /\ store' = [store EXCEPT ![s] = Emptied(s)]
        BY <1>1 DEF CreateOpen
      <3>2. seg'[h] = s
        BY <1>t, <3>1 DEF Begin, Types
      <3> QED
        BY <3>1, <3>2
    <2>3. CreatorPlaces'
      BY <1>o, <2>1 DEF SizeInv
    <2>4. \A g \in Handles \ {h} : created[g] => g \in rivals' /\ h \in rivals'
      BY <2>1 DEF Rivals
    <2>5. CreatorNamed'
      BY <1>o, <2>1, <2>4
    <2>6. ASSUME NEW g \in Handles \ {h}, created[g], seg[g] = s PROVE ~Intact(h)'
      <3>1. Attached(s) # {}
        BY <2>6 DEF Attached
      <3> QED
        BY <1>t, <2>2, <3>1, EmptiedType DEF Intact, Types
    <2>7. OneCreator'
      <3> SUFFICES ASSUME NEW f \in Handles, NEW g \in Handles, created'[f], created'[g],
                          seg'[f] = seg'[g], Intact(g)'
                   PROVE  f = g
        OBVIOUS
      <3>1. CASE f # h /\ g # h
        BY <1>o, <1>i, <3>1 DEF SizeInv
      <3>2. CASE f # h /\ g = h
        BY <1>o, <2>2, <2>6, <3>2
      <3>3. CASE f = h /\ g # h
        <4>1. Intact(h)'
          BY <3>3 DEF Intact
        <4> QED
          BY <1>o, <2>2, <2>6, <3>3, <4>1
      <3> QED
        BY <3>1, <3>2, <3>3
    <2> QED
      BY <2>3, <2>5, <2>7
  <1>2. CASE Unlink(h)
    <2>1. pc[h] = "unlink" /\ pc'[h] = "none" /\ ~created'[h] /\ created[h]
      BY <1>2 DEF Unlink, Closed, Goto, SizeInv, Types
    <2>2. CreatorPlaces' /\ OneCreator'
      BY <1>o, <1>i, <2>1 DEF SizeInv
    <2>3. CreatorNamed'
      BY <1>t, <1>o, <2>1 DEF SizeInv
    <2> QED
      BY <2>2, <2>3
  <1>3. CASE ~CreateOpen(h) /\ ~Unlink(h)
    <2>1. /\ UNCHANGED name
          /\ created'[h] => created[h] /\ pc'[h] # "none" /\ seg'[h] = seg[h]
          /\ pc'[h] \in {"resize", "unlink"} => created'[h]
          /\ h \in rivals /\ created'[h] => h \in rivals'
      BY <1>t, <1>3, CreatorMoves, RivalMoves
    <2>2. CreatorPlaces'
      BY <1>o, <2>1 DEF SizeInv
    <2>3. \A g \in Handles : created'[g] =>
            /\ created[g] /\ seg'[g] = seg[g] /\ (g \in rivals => g \in rivals')
            /\ (Intact(g)' => Intact(g))
      BY <1>t, <1>o, <1>i, <2>1, <2>2
    <2> QED
      BY <2>1, <2>2, <2>3 DEF SizeInv
  <1> QED
    BY <1>1, <1>2, <1>3

\* How a handle comes to a size, and to a mapping.
LEMMA SizeMoves ==
  ASSUME Types, NEW h \in Handles, Act(h)
  PROVE  /\ pc'[h] = "resize" => store'[seg'[h]].size = 0
         /\ pc'[h] = "map" => pc[h] = "stat" /\ mapped'[h] = store[seg[h]].size
         /\ Mapping(h)' =>
              /\ pc[h] # "none" /\ mapped'[h] = mapped[h]
              /\ Mapping(h) \/ (pc[h] = "map" /\ mapped[h] > Header)
  <1> USE DEF Types, Goto, Mapping, mapper
  <1>1. CASE CreateOpen(h)
    <2>1. PICK s \in Segments : Begin(h, s, "resize") /\ store' = [store EXCEPT ![s] = Emptied(s)]
      BY <1>1 DEF CreateOpen
    <2>2. pc'[h] = "resize" /\ seg'[h] = s
      BY <2>1 DEF Begin
    <2>3. store'[s] = Emptied(s)
      BY <2>1
    <2> QED
      BY <2>2, <2>3, EmptiedType
  <1>2. CASE Open(h) \/ Resize(h) \/ Stat(h)
    BY <1>2 DEF Open, Begin, Resize, Stat
  <1>3. CASE Map(h) \/ Register(h) \/ LockWriter(h) \/ UnlockWriter(h) \/ Unregister(h)
    BY <1>3 DEF Map, Register, LockWriter, UnlockWriter, Unregister
  <1>4. CASE MapFail(h) \/ Unmap(h) \/ Unlink(h) \/ Crash(h)
    BY <1>4 DEF MapFail, Unmap, Unlink, Crash
  <1> QED
    BY <1>1, <1>2, <1>3, <1>4 DEF Act

LEMMA StepSizes ==
  ASSUME SizeInv, NEW h \in Handles, Act(h)
  PROVE  EmptyUntilResized' /\ StatSize' /\ MappingSize'
  <1>t. Types
    BY DEF SizeInv
  <1>o. \A g \in Handles \ {h} :
          pc'[g] = pc[g] /\ seg'[g] = seg[g] /\ mapped'[g] = mapped[g]
    BY <1>t, OtherHandles
  <1>z. \A n \in Sizes : n \in Nat /\ n # 0 /\ n > Header
    BY MapperAssumption
  <1>k. \A g \in Handles : pc[g] # "none" /\ pc'[g] # "none" =>
          /\ seg'[g] = seg[g]
          /\ Intact(g)' =>
               Intact(g) /\ (~Resize(h) => store'[seg[g]].size = store[seg[g]].size)
    BY <1>t, KeepsSize
  <1>m. \A g \in Handles : /\ Mapping(g) => pc[g] # "none"
                           /\ Mapping(g)' => pc'[g] # "none"
    BY DEF Mapping
  <1> USE DEF EmptyUntilResized, StatSize, MappingSize
  <1>1. CASE Resize(h)
    <2>1. /\ pc[h] = "resize" /\ pc'[h] \in {"stat", "unlink"} /\ created[h]
          /\ seg[h] \in Segments /\ (Intact(h) => store[seg[h]].size = 0)
      BY <1>1 DEF Resize, Goto, SizeInv, Types, CreatorPlaces
    <2>2. ASSUME NEW g \in Handles \ {h}, pc[g] # "none", seg[g] # seg[h]
          PROVE  store'[seg[g]].size = store[seg[g]].size
      BY <1>1, <2>1, <2>2 DEF Resize, SizeInv, Types
    <2>3. ASSUME NEW g \in Handles \ {h}, Intact(g), pc[g] = "resize" \/ Mapping(g)
          PROVE  seg[g] # seg[h]
      <3>1. CASE pc[g] = "resize"
        BY <2>1, <2>3, <3>1 DEF SizeInv, CreatorPlaces, OneCreator
      <3>2. CASE Mapping(g)
        BY <1>z, <2>1, <2>3, <3>2 DEF SizeInv, Intact
      <3> QED
        BY <2>3, <3>1, <3>2
    <2>4. \A g \in Handles : (Mapping(g)' <=> g # h /\ Mapping(g))
      BY <1>o, <2>1 DEF Mapping
    <2>5. EmptyUntilResized'
      BY <1>o, <1>k, <2>1, <2>2, <2>3 DEF SizeInv
    <2>6. ASSUME NEW g \in Handles, pc'[g] = "map", Intact(g)'
          PROVE  mapped'[g] = 0 \/ mapped'[g] = store'[seg'[g]].size
      <3>1. /\ g # h /\ pc[g] = "map" /\ seg'[g] = seg[g] /\ Intact(g) /\ mapped'[g] = mapped[g]
            /\ mapped[g] = 0 \/ mapped[g] = store[seg[g]].size
        BY <1>o, <1>k, <2>1, <2>6 DEF SizeInv
      <3>2. seg[g] = seg[h] => mapped[g] = 0
        BY <2>1, <3>1 DEF Intact
      <3> QED
        BY <2>2, <3>1, <3>2
    <2>7. MappingSize'
      BY <1>o, <1>k, <1>m, <2>2, <2>3, <2>4 DEF SizeInv
    <2> QED
      BY <2>5, <2>6, <2>7
  <1>2. CASE ~Resize(h)
    <2>1. \A g \in Handles \ {h} : Mapping(g)' <=> Mapping(g)
      BY <1>o DEF Mapping
    <2>2. EmptyUntilResized'
      BY <1>t, <1>o, <1>k, <1>2, SizeMoves DEF SizeInv
    <2>3. ASSUME NEW g \in Handles, pc'[g] = "map", Intact(g)'
          PROVE  mapped'[g] = 0 \/ mapped'[g] = store'[seg'[g]].size
      <3>1. pc[g] # "none"
        BY <1>t, <1>o, <2>3, SizeMoves
      <3>2. seg'[g] = seg[g] /\ Intact(g) /\ store'[seg[g]].size = store[seg[g]].size
        BY <1>k, <1>2, <2>3, <3>1
      <3>3. CASE g # h
        BY <1>o, <2>3, <3>2, <3>3 DEF SizeInv
      <3>4. CASE g = h
        BY <1>t, <2>3, <3>2, <3>4, SizeMoves
      <3> QED
        BY <3>3, <3>4
    <2>4. ASSUME NEW g \in Handles, Mapping(g)'
          PROVE  mapped'[g] \in Sizes /\ (Intact(g)' => mapped'[g] = store'[seg'[g]].size)
      <3>0. pc[g] # "none" /\ pc'[g] # "none"
        BY <1>t, <1>m, <2>1, <2>4, SizeMoves
      <3>i. seg'[g] = seg[g]
            /\ (Intact(g)' => Intact(g) /\ store'[seg[g]].size = store[seg[g]].size)
        BY <1>k, <1>2, <3>0
      <3>1. CASE g # h
        BY <1>o, <2>1, <2>4, <3>i, <3>1 DEF SizeInv
      <3>2. CASE g = h /\ Mapping(h)
        BY <1>t, <2>4, <3>i, <3>2, SizeMoves DEF SizeInv
      <3>3. CASE g = h /\ ~Mapping(h)
        <4>1. pc[h] = "map" /\ mapped[h] > Header /\ mapped'[h] = mapped[h]
          BY <1>t, <2>4, <3>3, SizeMoves
        <4>2. mapped[h] # 0 /\ mapped[h] \in Sizes
          BY <1>t, <4>1, MapperAssumption DEF Types
        <4> QED
          BY <3>i, <3>3, <4>1, <4>2 DEF SizeInv
      <3> QED
        BY <3>1, <3>2, <3>3
    <2> QED
      BY <2>2, <2>3, <2>4
  <1> QED
    BY <1>1, <1>2

LEMMA SizeInvariance == Spec => []SizeInv
  <1>1. Init => SizeInv
    BY ZeroedType, MapperAssumption DEF Init, SizeInv, Types, PC, CreatorPlaces, CreatorNamed,
       OneCreator, EmptyUntilResized, StatSize, MappingSize, Mapping
  <1>2. SizeInv /\ [Next]_vars => SizeInv'
    <2> SUFFICES ASSUME SizeInv, [Next]_vars PROVE SizeInv'
      OBVIOUS
    <2>1. ASSUME NEW h \in Handles, Act(h) PROVE SizeInv'
      BY <2>1, StepTypes, StepCreator, StepSizes DEF SizeInv
    <2>2. CASE UNCHANGED vars
      BY <2>2 DEF vars, mapper, SizeInv, Types, CreatorPlaces, CreatorNamed, OneCreator,
         EmptyUntilResized, StatSize, MappingSize, Mapping, Intact
    <2> QED
      BY <2>1, <2>2 DEF Next, Act
  <1> QED
    BY <1>1, <1>2, PTL DEF Spec

\* map_and_init (memory_mapper.rs) maps what fstat said: for any number of
\* processes that create, open, drop or die, a mapping that was accepted is as
\* large as its segment for as long as it lives, or until a create() empties the
\* segment in use.
THEOREM MapperMappingBacked == Spec => []MappingBacked
  <1>1. SizeInv => MappingBacked
    BY DEF SizeInv, MappingSize, MappingBacked, Intact
  <1> QED
    BY <1>1, SizeInvariance, PTL

\* SharedMemoryMapper::drop unlinks for the creator alone, by name, and so does a
\* create() that fails: for any number of processes the name stands for a living
\* creator's segment until that creator meets another.
THEOREM MapperCreatorKeepsName == Spec => []CreatorKeepsName
  <1>1. SizeInv => CreatorKeepsName
    BY DEF SizeInv, CreatorNamed, CreatorKeepsName
  <1> QED
    BY <1>1, SizeInvariance, PTL
----------------------------------------------------------------------------
(* The registrations and the lock in the header.                           *)

Reg(s)     == {h \in Attached(s) : Registered(h)}
Holders(s) == {h \in Attached(s) : pc[h] = "writing"}

CountOK(s) ==
    /\ store[s].consumers <= Cardinality(Reg(s)) + store[s].deadReaders
    /\ ~store[s].reused => store[s].consumers = Cardinality(Reg(s)) + store[s].deadReaders
LockOK(s)  ==
    /\ store[s].locked => (store[s].deadWriter \/ Holders(s) # {})
    /\ ~store[s].reused => store[s].locked = (store[s].deadWriter \/ Holders(s) # {})

LEMMA NoGhostsParts == NoGhosts <=> \A s \in Segments : CountOK(s) /\ LockOK(s)
  BY DEF NoGhosts, CountOK, LockOK, Reg, Holders

\* The kernel has freed the segment, or not touched it.
GoneOr(s, was) == store'[s] = was \/ (store'[s] = Zeroed /\ Attached(s)' = {})

LEMMA FreedCases ==
  ASSUME NEW after \in [Segments -> Fields], store' = Freed(after), NEW s \in Segments
  PROVE  GoneOr(s, after[s])
  BY DEF Freed, Attached, GoneOr

LEMMA RegFinite ==
  ASSUME NEW s \in Segments PROVE IsFiniteSet(Reg(s)) /\ Cardinality(Reg(s)) \in Nat
  <1>1. Reg(s) \subseteq Handles
    BY DEF Reg, Attached
  <1> QED
    BY <1>1, FS_Subset, FS_CardinalityType, MapperAssumption

\* A segment that is new, emptied or freed has no ghosts.
LEMMA EmptySegment ==
  ASSUME NEW s \in Segments,
         store'[s].consumers = 0, store'[s].deadReaders = 0,
         store'[s].locked = FALSE, store'[s].deadWriter = FALSE,
         store'[s].reused \/ (Reg(s)' = {} /\ Holders(s)' = {}),
         Cardinality(Reg(s)') \in Nat
  PROVE  CountOK(s)' /\ LockOK(s)'
  <1>1. Reg(s)' = {} => Cardinality(Reg(s)') = 0
    BY FS_EmptySet
  <1>2. CountOK(s)'
    BY <1>1 DEF CountOK
  <1>4. LockOK(s)'
    BY DEF LockOK
  <1> QED
    BY <1>2, <1>4

LEMMA FreedSegment ==
  ASSUME NEW s \in Segments, store'[s] = Zeroed, Attached(s)' = {}
  PROVE  CountOK(s)' /\ LockOK(s)'
  <1>1. Reg(s)' = {} /\ Holders(s)' = {}
    BY DEF Reg, Holders
  <1>2. Cardinality(Reg(s)') \in Nat
    BY <1>1, FS_EmptySet
  <1>3. /\ store'[s].consumers = 0 /\ store'[s].deadReaders = 0
        /\ store'[s].locked = FALSE /\ store'[s].deadWriter = FALSE
    BY DEF Zeroed
  <1> QED
    BY <1>1, <1>2, <1>3, EmptySegment

LEMMA SameLock ==
  ASSUME NEW s \in Segments, LockOK(s), Holders(s)' = Holders(s),
         store'[s].locked = store[s].locked, store'[s].deadWriter = store[s].deadWriter,
         store'[s].reused = store[s].reused
  PROVE  LockOK(s)'
  BY DEF LockOK

LEMMA SameSegment ==
  ASSUME NEW s \in Segments, CountOK(s), LockOK(s),
         store'[s].consumers = store[s].consumers,
         store'[s].deadReaders = store[s].deadReaders,
         store'[s].locked = store[s].locked,
         store'[s].deadWriter = store[s].deadWriter,
         store'[s].reused = store[s].reused,
         Reg(s)' = Reg(s), Holders(s)' = Holders(s)
  PROVE  CountOK(s)' /\ LockOK(s)'
  BY DEF CountOK, LockOK

LEMMA SameOrGone ==
  ASSUME NEW s \in Segments, CountOK(s), LockOK(s), GoneOr(s, store[s]),
         Reg(s)' = Reg(s), Holders(s)' = Holders(s)
  PROVE  CountOK(s)' /\ LockOK(s)'
  <1>1. CASE store'[s] = store[s]
    BY <1>1, SameSegment
  <1>2. CASE store'[s] = Zeroed /\ Attached(s)' = {}
    BY <1>2, FreedSegment
  <1> QED
    BY <1>1, <1>2 DEF GoneOr

\* A step that neither registers nor locks.
LEMMA QuietSegment ==
  ASSUME Types, NEW h \in Handles, Act(h), NEW s \in Segments,
         pc[h] \notin {"live", "writing"} \/ seg[h] # s,
         pc'[h] \notin {"live", "writing"} \/ seg'[h] # s
  PROVE  Reg(s)' = Reg(s) /\ Holders(s)' = Holders(s)
  <1>1. \A g \in Handles \ {h} : pc'[g] = pc[g] /\ seg'[g] = seg[g] /\ reader'[g] = reader[g]
    BY OtherHandles
  <1>2. Reg(s)' = Reg(s)
    BY <1>1 DEF Reg, Attached, Registered
  <1>3. Holders(s)' = Holders(s)
    BY <1>1 DEF Holders, Attached
  <1> QED
    BY <1>2, <1>3

\* A step of h leaves what the others are to a segment.
LEMMA OwnSegment ==
  ASSUME Types, NEW h \in Handles, Act(h), NEW s \in Segments
  PROVE  /\ Reg(s)' = IF seg'[h] = s /\ Registered(h)' THEN Reg(s) \cup {h} ELSE Reg(s) \ {h}
         /\ Holders(s)' = IF seg'[h] = s /\ pc'[h] = "writing" THEN Holders(s) \cup {h}
                          ELSE Holders(s) \ {h}
         /\ h \in Reg(s) <=> seg[h] = s /\ Registered(h)
         /\ h \in Holders(s) <=> seg[h] = s /\ pc[h] = "writing"
  <1>1. \A g \in Handles \ {h} : pc'[g] = pc[g] /\ seg'[g] = seg[g] /\ reader'[g] = reader[g]
    BY OtherHandles
  <1>2. Reg(s)' = IF seg'[h] = s /\ Registered(h)' THEN Reg(s) \cup {h} ELSE Reg(s) \ {h}
    BY <1>1 DEF Reg, Attached, Registered
  <1>3. Holders(s)' = IF seg'[h] = s /\ pc'[h] = "writing" THEN Holders(s) \cup {h}
                      ELSE Holders(s) \ {h}
    BY <1>1 DEF Holders, Attached
  <1>4. /\ h \in Reg(s) <=> seg[h] = s /\ Registered(h)
        /\ h \in Holders(s) <=> seg[h] = s /\ pc[h] = "writing"
    BY DEF Reg, Holders, Attached
  <1> QED
    BY <1>2, <1>3, <1>4

LEMMA QuietCreate ==
  ASSUME Types, NoGhosts, NEW h \in Handles, CreateOpen(h), NEW s \in Segments
  PROVE  CountOK(s)' /\ LockOK(s)'
  <1>1. Reg(s)' = Reg(s) /\ Holders(s)' = Holders(s)
    BY QuietSegment DEF Act, CreateOpen, Begin, Goto, Types
  <1>2. PICK t \in Segments : store' = [store EXCEPT ![t] = Emptied(t)]
    BY DEF CreateOpen
  <1>3. CASE s = t
    <2>1. store'[s] = Emptied(s)
      BY <1>2, <1>3 DEF Types
    <2>2. Attached(s) = {} => Reg(s) = {} /\ Holders(s) = {}
      BY DEF Reg, Holders
    <2>3. Cardinality(Reg(s)') \in Nat
      BY <1>1, RegFinite
    <2> QED
      BY <1>1, <2>1, <2>2, <2>3, EmptiedType, EmptySegment
  <1>4. CASE s # t
    <2>1. store'[s] = store[s]
      BY <1>2, <1>4 DEF Types
    <2> QED
      BY <1>1, <2>1, NoGhostsParts, SameOrGone DEF GoneOr
  <1> QED
    BY <1>3, <1>4

LEMMA QuietSteps ==
  ASSUME Types, NoGhosts, NEW h \in Handles, NEW s \in Segments,
         Resize(h) \/ Open(h) \/ Stat(h) \/ Map(h) \/ Closes(h)
  PROVE  CountOK(s)' /\ LockOK(s)'
  <1>1. Act(h)
    BY DEF Act, Closes
  <1>2. pc[h] \notin {"live", "writing"} /\ pc'[h] \notin {"live", "writing"}
    BY DEF Resize, Open, Begin, Stat, Map, Closes, MapFail, Unmap, Unlink, Goto, Types
  <1>3. Reg(s)' = Reg(s) /\ Holders(s)' = Holders(s)
    BY <1>1, <1>2, QuietSegment
  <1>4. CASE Resize(h)
    <2>1. seg[h] \in Segments /\ store[s] \in Fields
      BY <1>4 DEF Resize, Goto, Types
    <2>2. /\ store'[s].consumers = store[s].consumers
          /\ store'[s].deadReaders = store[s].deadReaders
          /\ store'[s].locked = store[s].locked
          /\ store'[s].deadWriter = store[s].deadWriter
          /\ store'[s].reused = store[s].reused
      BY <1>4, <2>1 DEF Resize, Types, Fields
    <2> QED
      BY <1>3, <2>2, NoGhostsParts, SameSegment
  <1>5. CASE Open(h) \/ Stat(h) \/ Map(h)
    <2>1. store' = store
      BY <1>5 DEF Open, Stat, Map
    <2> QED
      BY <1>3, <2>1, NoGhostsParts, SameOrGone DEF GoneOr
  <1>6. CASE Closes(h)
    <2>1. store' = Freed(store) /\ store \in [Segments -> Fields]
      BY <1>6 DEF Closes, MapFail, Unmap, Unlink, Types
    <2>2. GoneOr(s, store[s])
      BY <2>1, FreedCases
    <2> QED
      BY <1>3, <2>2, NoGhostsParts, SameOrGone
  <1> QED
    BY <1>4, <1>5, <1>6

\* add_reader and remove_reader count in the header what the handle becomes.
LEMMA RegisterGhosts ==
  ASSUME Types, NoGhosts, NEW h \in Handles, Register(h), NEW s \in Segments
  PROVE  CountOK(s)' /\ LockOK(s)'
  <1>1. Act(h) /\ seg[h] \in Segments /\ store \in [Segments -> Fields]
    BY DEF Act, Register, Goto, Types
  <1>2. /\ pc[h] = "register" /\ pc'[h] = "live" /\ seg' = seg
        /\ store' = IF reader'[h] THEN [store EXCEPT ![seg[h]].consumers = @ + 1] ELSE store
    BY DEF Register, Goto, Types
  <1>3. CASE s = seg[h] /\ reader'[h]
    <2>1. /\ Reg(s)' = Reg(s) \cup {h} /\ h \notin Reg(s)
          /\ Holders(s)' = Holders(s)
      <3>1. /\ seg'[h] = s /\ Registered(h)' /\ ~Registered(h)
            /\ pc'[h] # "writing" /\ pc[h] # "writing"
        BY <1>2, <1>3 DEF Registered
      <3>2. Reg(s)' = Reg(s) \cup {h} /\ Holders(s)' = Holders(s) \ {h}
        BY <1>1, <3>1, OwnSegment
      <3>3. h \notin Reg(s) /\ h \notin Holders(s)
        BY <1>1, <3>1, OwnSegment
      <3> QED
        BY <3>2, <3>3
    <2>2. Cardinality(Reg(s)') = Cardinality(Reg(s)) + 1
      BY <2>1, RegFinite, FS_AddElement
    <2>3. /\ store'[s].consumers = store[s].consumers + 1
          /\ store'[s].deadReaders = store[s].deadReaders
          /\ store'[s].locked = store[s].locked
          /\ store'[s].deadWriter = store[s].deadWriter
          /\ store'[s].reused = store[s].reused
      BY <1>1, <1>2, <1>3 DEF Fields
    <2>4. store[s].consumers \in Nat /\ store[s].deadReaders \in Nat
      BY <1>1, StoreUpdates, MapperAssumption
    <2>5. CountOK(s)'
      BY <2>2, <2>3, <2>4, RegFinite, NoGhostsParts DEF CountOK
    <2>6. LockOK(s)'
      <3>1. LockOK(s) /\ Holders(s)' = Holders(s)
        BY <2>1, NoGhostsParts
      <3> QED
        BY <2>3, <3>1, SameLock
    <2> QED
      BY <2>5, <2>6
  <1>4. CASE s # seg[h] \/ ~reader'[h]
    <2>1. Reg(s)' = Reg(s) /\ Holders(s)' = Holders(s)
      <3>1. /\ h \notin Reg(s) /\ h \notin Holders(s)
            /\ ~(seg'[h] = s /\ Registered(h)') /\ pc'[h] # "writing"
        BY <1>1, <1>2, <1>4, OwnSegment DEF Registered
      <3>2. Reg(s)' = Reg(s) \ {h} /\ Holders(s)' = Holders(s) \ {h}
        BY <1>1, <3>1, OwnSegment
      <3> QED
        BY <3>1, <3>2
    <2>2. store'[s] = store[s]
      BY <1>1, <1>2, <1>4
    <2> QED
      BY <2>1, <2>2, NoGhostsParts, SameOrGone DEF GoneOr
  <1> QED
    BY <1>3, <1>4

LEMMA UnregisterGhosts ==
  ASSUME Types, NoGhosts, NEW h \in Handles, Unregister(h), NEW s \in Segments
  PROVE  CountOK(s)' /\ LockOK(s)'
  <1>1. Act(h) /\ seg[h] \in Segments /\ store \in [Segments -> Fields]
    BY DEF Act, Unregister, Goto, Types
  <1>2. /\ pc[h] = "live" /\ pc'[h] = "unmap" /\ seg' = seg /\ reader' = reader
        /\ store' = IF reader[h] /\ store[seg[h]].consumers > 0
                    THEN [store EXCEPT ![seg[h]].consumers = @ - 1] ELSE store
    BY DEF Unregister, Goto, mapper, Types
  <1>3. CASE s = seg[h] /\ reader[h]
    <2>1. /\ Reg(s)' = Reg(s) \ {h} /\ h \in Reg(s)
          /\ Holders(s)' = Holders(s)
      BY SMTT(30), <1>1, <1>2, <1>3, OwnSegment DEF Registered
    <2>2. /\ Cardinality(Reg(s)') = Cardinality(Reg(s)) - 1
          /\ Cardinality(Reg(s)) # 0
      BY <2>1, RegFinite, FS_RemoveElement, FS_EmptySet
    <2>4. store[s].consumers \in Nat /\ store[s].deadReaders \in Nat
      BY <1>1, StoreUpdates, MapperAssumption
    <2>5. ~store[s].reused => store[s].consumers > 0
      BY <2>2, <2>4, RegFinite, NoGhostsParts DEF CountOK
    <2>3. /\ store'[s].consumers = IF store[s].consumers > 0 THEN store[s].consumers - 1
                                   ELSE store[s].consumers
          /\ store'[s].deadReaders = store[s].deadReaders
          /\ store'[s].locked = store[s].locked
          /\ store'[s].deadWriter = store[s].deadWriter
          /\ store'[s].reused = store[s].reused
      BY <1>1, <1>2, <1>3 DEF Fields
    <2>6. CountOK(s)'
      BY <2>2, <2>3, <2>4, <2>5, RegFinite, NoGhostsParts DEF CountOK
    <2>7. LockOK(s)'
      <3>1. LockOK(s) /\ Holders(s)' = Holders(s)
        BY <2>1, NoGhostsParts
      <3> QED
        BY <2>3, <3>1, SameLock
    <2> QED
      BY <2>6, <2>7
  <1>4. CASE s # seg[h] \/ ~reader[h]
    <2>1. Reg(s)' = Reg(s) /\ Holders(s)' = Holders(s)
      <3>1. /\ h \notin Reg(s) /\ h \notin Holders(s)
            /\ ~(seg'[h] = s /\ Registered(h)') /\ pc'[h] # "writing"
        BY <1>1, <1>2, <1>4, OwnSegment DEF Registered
      <3>2. Reg(s)' = Reg(s) \ {h} /\ Holders(s)' = Holders(s) \ {h}
        BY <1>1, <3>1, OwnSegment
      <3> QED
        BY <3>1, <3>2
    <2>2. store'[s] = store[s]
      BY <1>1, <1>2, <1>4
    <2> QED
      BY <2>1, <2>2, NoGhostsParts, SameOrGone DEF GoneOr
  <1> QED
    BY <1>3, <1>4

\* The lock is taken only when no handle, living or dead, has it, and given back
\* by the only one that has it.
LEMMA LockGhosts ==
  ASSUME Types, NoGhosts, WriterAlone, NEW h \in Handles, NEW s \in Segments,
         LockWriter(h) \/ UnlockWriter(h)
  PROVE  CountOK(s)' /\ LockOK(s)'
  <1>1. Act(h) /\ seg[h] \in Segments /\ store \in [Segments -> Fields]
    BY DEF Act, LockWriter, UnlockWriter, Goto, Types
  <1>2. seg' = seg /\ reader' = reader /\ ~reader[h]
    BY DEF LockWriter, UnlockWriter, Goto, mapper, WriterAlone
  <1>r. Reg(s)' = Reg(s)
    BY <1>1, <1>2, OwnSegment DEF Registered
  <1>3. CASE s = seg[h]
    <2>1. /\ store'[s].consumers = store[s].consumers
          /\ store'[s].deadReaders = store[s].deadReaders
          /\ store'[s].deadWriter = store[s].deadWriter
          /\ store'[s].reused = store[s].reused
      BY <1>1, <1>3 DEF LockWriter, UnlockWriter, Fields
    <2>2. CountOK(s)'
      BY <1>r, <2>1, NoGhostsParts DEF CountOK
    <2>3. CASE LockWriter(h)
      <3>1. Holders(s)' # {}
        BY <1>1, <1>2, <1>3, <2>3, OwnSegment DEF LockWriter, Goto, Types
      <3>2. store'[s].locked = TRUE
        BY <1>1, <1>3, <2>3 DEF LockWriter, Fields
      <3> QED
        BY <2>2, <3>1, <3>2 DEF LockOK
    <2>4. CASE UnlockWriter(h)
      <3>1. pc[h] = "writing" /\ pc'[h] = "live"
        BY <2>4 DEF UnlockWriter, Goto, Types
      <3>2. ~store[s].reused => Holders(s) \subseteq {h}
        BY <1>3, <3>1 DEF WriterAlone, Intact, Holders, Attached
      <3>3. ~store[s].reused => Holders(s)' = {}
        BY <1>1, <3>1, <3>2, OwnSegment
      <3>4. store'[s].locked = FALSE
        BY <1>1, <1>3, <2>4 DEF UnlockWriter, Fields
      <3>5. ~store[s].reused => store'[s].deadWriter = FALSE
        BY <1>1, <1>3, <2>1, <3>1, StoreUpdates DEF WriterAlone, Intact
      <3> QED
        BY <2>1, <2>2, <3>3, <3>4, <3>5 DEF LockOK
    <2> QED
      BY <2>2, <2>3, <2>4
  <1>4. CASE s # seg[h]
    <2>1. Reg(s)' = Reg(s) /\ Holders(s)' = Holders(s)
      BY <1>1, <1>2, <1>4, QuietSegment
    <2>2. store'[s] = store[s]
      BY <1>1, <1>4 DEF LockWriter, UnlockWriter
    <2> QED
      BY <2>1, <2>2, NoGhostsParts, SameOrGone DEF GoneOr
  <1> QED
    BY <1>3, <1>4

\* Who dies leaves its registration and its lock in the header, as a dead one's.
LEMMA CrashGhosts ==
  ASSUME Types, NoGhosts, NEW h \in Handles, Crash(h), NEW s \in Segments
  PROVE  CountOK(s)' /\ LockOK(s)'
  <1>1. Act(h) /\ store \in [Segments -> Fields]
    BY DEF Act, Types
  <1>2. seg[h] \in Segments /\ GoneOr(s, Died(h)[s])
    BY DiedType, FreedCases
  <1>3. pc'[h] = "none" /\ seg'[h] = None /\ None # s
    BY MapperAssumption DEF Crash, Closed, Types
  <1>4. Reg(s)' = Reg(s) \ {h} /\ Holders(s)' = Holders(s) \ {h}
    BY <1>1, <1>3, OwnSegment
  <1>5. CASE store'[s] = Zeroed /\ Attached(s)' = {}
    BY <1>5, FreedSegment
  <1>6. CASE store'[s] = Died(h)[s] /\ s # seg[h]
    <2>1. Died(h)[s] = store[s]
      BY <1>1, <1>2, <1>6 DEF Died
    <2>2. Reg(s)' = Reg(s) /\ Holders(s)' = Holders(s)
      BY <1>1, <1>3, <1>6, QuietSegment
    <2> QED
      BY <1>6, <2>1, <2>2, NoGhostsParts, SameOrGone DEF GoneOr
  <1>7. CASE store'[s] = Died(h)[s] /\ s = seg[h]
    <2>1. /\ store'[s].consumers = store[s].consumers
          /\ store'[s].locked = store[s].locked
          /\ store'[s].reused = store[s].reused
      BY <1>1, <1>2, <1>7 DEF Died, Fields
    <2>2. store'[s].deadReaders = IF Registered(h) THEN store[s].deadReaders + 1
                                  ELSE store[s].deadReaders
      BY <1>1, <1>2, <1>7 DEF Died, Fields
    <2>3. store'[s].deadWriter = (store[s].deadWriter \/ pc[h] = "writing")
      BY <1>1, <1>2, <1>7 DEF Died, Fields
    <2>4. store[s].consumers \in Nat /\ store[s].deadReaders \in Nat
      BY <1>1, StoreUpdates, MapperAssumption
    <2>5. h \in Reg(s) <=> Registered(h)
      BY <1>1, <1>7, OwnSegment
    <2>6. h \in Holders(s) <=> pc[h] = "writing"
      BY <1>1, <1>7, OwnSegment
    <2>7. CountOK(s)'
      <3>1. CASE Registered(h)
        <4>1. Cardinality(Reg(s)') = Cardinality(Reg(s)) - 1
          BY ZenonT(40), <1>4, <2>5, <3>1, RegFinite, FS_RemoveElement
        <4> QED
          BY <2>1, <2>2, <2>4, <3>1, <4>1, RegFinite, NoGhostsParts DEF CountOK
      <3>2. CASE ~Registered(h)
        <4>1. Reg(s)' = Reg(s)
          BY <1>4, <2>5, <3>2
        <4> QED
          BY <2>1, <2>2, <3>2, <4>1, NoGhostsParts DEF CountOK
      <3> QED
        BY <3>1, <3>2
    <2>8. LockOK(s)'
      <3>1. CASE pc[h] = "writing"
        <4>1. ~store[s].reused => store[s].locked = TRUE
          BY <2>6, <3>1, NoGhostsParts DEF LockOK
        <4>2. store'[s].deadWriter = TRUE
          BY <2>3, <3>1
        <4> QED
          BY <2>1, <4>1, <4>2 DEF LockOK
      <3>2. CASE pc[h] # "writing"
        <4>1. Holders(s)' = Holders(s)
          BY <1>4, <2>6, <3>2
        <4>2. store'[s].deadWriter = store[s].deadWriter
          BY <1>1, <2>3, <3>2, StoreUpdates
        <4> QED
          BY <2>1, <4>1, <4>2, NoGhostsParts, SameLock
      <3> QED
        BY <3>1, <3>2
    <2> QED
      BY <2>7, <2>8
  <1> QED
    BY <1>2, <1>5, <1>6, <1>7 DEF GoneOr

LEMMA StepNoGhosts ==
  ASSUME Types, GhostInv, NEW h \in Handles, Act(h) PROVE NoGhosts'
  <1>1. ASSUME NEW s \in Segments PROVE CountOK(s)' /\ LockOK(s)'
    BY QuietCreate, QuietSteps, RegisterGhosts, UnregisterGhosts, LockGhosts, CrashGhosts
    DEF Act, Closes, GhostInv
  <1> QED
    BY <1>1 DEF NoGhosts, CountOK, LockOK, Reg, Holders

\* A holder of the lock stays the only one: the lock keeps the others out, and
\* of a segment in use the record of the dead changes by a death only.
LEMMA StepWriterAlone ==
  ASSUME Types, GhostInv, NEW h \in Handles, Act(h) PROVE WriterAlone'
  <1>o. \A g \in Handles \ {h} : pc'[g] = pc[g] /\ seg'[g] = seg[g] /\ reader'[g] = reader[g]
    BY OtherHandles
  <1>t. store \in [Segments -> Fields]
    BY DEF Types
  <1>s. \A g \in Handles : pc[g] = "writing" => seg[g] \in Segments
    BY DEF Types
  <1>1. CASE LockWriter(h)
    <2>1. /\ pc[h] = "live" /\ pc' = [pc EXCEPT ![h] = "writing"] /\ ~reader[h]
          /\ seg' = seg /\ reader' = reader /\ seg[h] \in Segments
          /\ ~store[seg[h]].locked
          /\ store' = [store EXCEPT ![seg[h]].locked = TRUE]
      BY <1>1 DEF LockWriter, Goto, mapper, Types
    <2>2. LockOK(seg[h])
      BY <2>1, NoGhostsParts DEF GhostInv
    <2>3. Intact(h) => ~store[seg[h]].deadWriter /\ Holders(seg[h]) = {}
      BY <1>t, <2>1, <2>2, StoreUpdates DEF LockOK, Intact
    <2>4. \A g \in Handles : Intact(h) /\ pc[g] = "writing" => seg[g] # seg[h]
      BY <2>3 DEF Holders, Attached
    <2>5. \A s \in Segments : /\ store'[s].deadWriter = store[s].deadWriter
                              /\ store'[s].reused = store[s].reused
      BY <1>t, <2>1 DEF Fields
    <2>9. \A g \in Handles : seg[g] \in Segments => (Intact(g)' <=> Intact(g))
      BY <2>1, <2>5 DEF Intact
    <2>6. \A g \in Handles : pc'[g] = "writing" => g = h \/ pc[g] = "writing"
      BY <2>1 DEF Types
    <2>7. \A g \in Handles : pc'[g] = "writing" =>
            ~reader'[g] /\ (Intact(g)' => ~store'[seg'[g]].deadWriter)
      BY <1>s, <2>1, <2>3, <2>5, <2>6, <2>9 DEF GhostInv, WriterAlone
    <2>8. ASSUME NEW f \in Handles, NEW g \in Handles, pc'[f] = "writing", pc'[g] = "writing",
                 seg'[f] = seg'[g], Intact(g)'
          PROVE  f = g
      <3>1. seg[f] = seg[g] /\ seg[g] \in Segments /\ Intact(g) /\ Intact(f)
        BY <1>s, <2>1, <2>6, <2>8, <2>9 DEF Intact
      <3>2. CASE f # h /\ g # h
        BY <2>6, <2>8, <3>1, <3>2 DEF GhostInv, WriterAlone
      <3>3. CASE f = h \/ g = h
        BY <2>4, <2>6, <2>8, <3>1, <3>3
      <3> QED
        BY <3>2, <3>3
    <2> QED
      BY <2>7, <2>8 DEF WriterAlone
  <1>2. CASE ~LockWriter(h)
    <2>1. pc'[h] # "writing"
      BY <1>2 DEF Act, CreateOpen, Open, Begin, Resize, Stat, Map, MapFail, Register,
         UnlockWriter, Unregister, Unmap, Unlink, Crash, Goto, Types
    <2>4. ASSUME NEW g \in Handles \ {h}, pc[g] = "writing", Intact(g)' PROVE Intact(g)
      BY <1>o, <2>4, KeepsSize
    <2>2. ASSUME NEW g \in Handles \ {h}, pc[g] = "writing", Intact(g)'
          PROVE  store'[seg[g]].deadWriter = FALSE
      <3>1. seg[g] \in Segments /\ store[seg[g]].deadWriter = FALSE /\ Intact(g)
        BY <1>t, <1>s, <2>2, <2>4, StoreUpdates DEF GhostInv, WriterAlone
      <3>2. CASE Resize(h)
        <4>1. seg[h] \in Segments
          BY <3>2 DEF Resize, Goto, Types
        <4>2. store' = store \/ \E n \in Sizes : store' = [store EXCEPT ![seg[h]].size = n]
          BY <3>2 DEF Resize
        <4>3. ASSUME NEW n \in Sizes, NEW s \in Segments
              PROVE  [store EXCEPT ![seg[h]].size = n][s].deadWriter = store[s].deadWriter
          BY <1>t, <4>1 DEF Fields
        <4> QED
          BY ZenonT(40), <3>1, <4>2, <4>3
      <3>6. CASE CreateOpen(h) \/ Open(h) \/ Stat(h) \/ Map(h)
        <4>1. store'[seg[g]] = store[seg[g]] \/ store'[seg[g]] = Emptied(seg[g])
          BY <1>t, <3>1, <3>6 DEF CreateOpen, Open, Stat, Map
        <4> QED
          BY <3>1, <4>1, EmptiedType
      <3>3. CASE Register(h) \/ UnlockWriter(h) \/ Unregister(h)
        <4>1. seg[h] \in Segments
          BY <3>3 DEF Register, UnlockWriter, Unregister, Goto, Types
        <4> QED
          BY <1>t, <3>1, <3>3, <4>1 DEF Register, UnlockWriter, Unregister, Fields
      <3>4. CASE Closes(h)
        <4>1. store' = Freed(store)
          BY <3>4 DEF Closes, MapFail, Unmap, Unlink
        <4>2. store'[seg[g]] = store[seg[g]]
          BY <1>t, <1>o, <3>1, <4>1, FreedStore
        <4> QED
          BY <3>1, <4>2
      <3>5. CASE Crash(h)
        <4>1. pc[h] = "writing" => seg[h] # seg[g]
          BY <2>2, <3>1 DEF GhostInv, WriterAlone
        <4>2. store'[seg[g]] = Died(h)[seg[g]] /\ seg[h] \in Segments
          BY <1>o, <3>1, <3>5, DiedType, FreedStore
        <4>3. Died(h)[seg[g]].deadWriter = FALSE
          BY <1>t, <3>1, <4>1, <4>2 DEF Died, Fields
        <4> QED
          BY <4>2, <4>3
      <3> QED
        BY <1>2, <3>2, <3>3, <3>4, <3>5, <3>6 DEF Act, Closes
    <2>3. \A g \in Handles : pc'[g] = "writing" =>
            g # h /\ pc[g] = "writing" /\ seg'[g] = seg[g] /\ reader'[g] = reader[g]
      BY <1>o, <2>1
    <2>5. ASSUME NEW f \in Handles, NEW g \in Handles, pc'[f] = "writing", pc'[g] = "writing",
                 seg'[f] = seg'[g], Intact(g)'
          PROVE  f = g
      BY <2>3, <2>4, <2>5 DEF GhostInv, WriterAlone
    <2>6. ASSUME NEW g \in Handles, pc'[g] = "writing"
          PROVE  ~reader'[g] /\ (Intact(g)' => ~store'[seg'[g]].deadWriter)
      BY <2>2, <2>3, <2>6 DEF GhostInv, WriterAlone
    <2> QED
      BY <2>5, <2>6 DEF WriterAlone
  <1> QED
    BY <1>1, <1>2

LEMMA GhostInvariance == Spec => [](Types /\ GhostInv)
  <1>1. Init => GhostInv
    <2> SUFFICES ASSUME Init PROVE GhostInv
      OBVIOUS
    <2>1. \A s \in Segments : Attached(s) = {}
      BY MapperAssumption DEF Init, Attached
    <2>2. \A s \in Segments : Reg(s) = {} /\ Holders(s) = {}
      BY <2>1 DEF Reg, Holders
    <2>3. \A s \in Segments : /\ store[s].consumers = 0 /\ store[s].deadReaders = 0
                              /\ store[s].locked = FALSE /\ store[s].deadWriter = FALSE
      BY DEF Init, Zeroed
    <2>4. Cardinality({}) = 0
      BY FS_EmptySet
    <2>5. \A s \in Segments : CountOK(s)
      BY <2>2, <2>3, <2>4 DEF CountOK
    <2>6. \A s \in Segments : LockOK(s)
      BY <2>2, <2>3 DEF LockOK
    <2>7. WriterAlone
      BY DEF Init, WriterAlone
    <2> QED
      BY <2>5, <2>6, <2>7, NoGhostsParts DEF GhostInv
  <1>2. Types /\ GhostInv /\ [Next]_vars => GhostInv'
    <2> SUFFICES ASSUME Types, GhostInv, [Next]_vars PROVE GhostInv'
      OBVIOUS
    <2>1. ASSUME NEW h \in Handles, Act(h) PROVE GhostInv'
      BY <2>1, StepNoGhosts, StepWriterAlone DEF GhostInv
    <2>2. CASE UNCHANGED vars
      BY <2>2 DEF vars, mapper, GhostInv, WriterAlone, Intact, NoGhosts, Attached, Registered
    <2> QED
      BY <2>1, <2>2 DEF Next, Act
  <1>3. SizeInv => Types
    BY DEF SizeInv
  <1> QED
    BY <1>1, <1>2, <1>3, SizeInvariance, PTL DEF Spec

\* add_reader, remove_reader and writer_mutex leave no ghosts in the header
\* (python/message.rs, PythonSharedMessage::new and drop): for any finite number
\* of processes, a registration or a lock that the header shows belongs to a
\* living handle or to one that died since the last create(), and the header
\* shows them all unless that create() emptied it in use.
THEOREM MapperNoGhosts == Spec => []NoGhosts
  <1>1. GhostInv => NoGhosts
    BY DEF GhostInv
  <1> QED
    BY <1>1, GhostInvariance, PTL

\* The types of MemoryMapper: among them, consumers_count in the header is at
\* most the handles there are and the registered ones that died.
THEOREM MapperTypes == Spec => []TypeOK
  <1>1. SizeInv /\ Types /\ GhostInv => TypeOK
    <2> SUFFICES ASSUME SizeInv, Types, GhostInv PROVE TypeOK
      OBVIOUS
    <2>1. ASSUME NEW s \in Segments
          PROVE  store[s].consumers \in 0..(Cardinality(Handles) + DeathLimit)
      <3>1. Reg(s) \subseteq Handles
        BY DEF Reg, Attached
      <3>2. /\ Cardinality(Reg(s)) <= Cardinality(Handles)
            /\ Cardinality(Reg(s)) \in Nat /\ Cardinality(Handles) \in Nat
        BY <3>1, FS_Subset, FS_CardinalityType, MapperAssumption
      <3>3. store[s].deadReaders \in 0..DeathLimit
        BY StoreUpdates DEF Types
      <3>4. CountOK(s)
        BY NoGhostsParts DEF GhostInv
      <3>5. store[s].consumers \in Nat
        BY StoreUpdates DEF Types
      <3> QED
        BY <3>2, <3>3, <3>4, <3>5, MapperAssumption DEF CountOK
    <2>2. store \in [Segments -> [size: Sizes \cup {0},
                               consumers: 0..(Cardinality(Handles) + DeathLimit),
                               locked: BOOLEAN,
                               deadReaders: 0..DeathLimit,
                               deadWriter: BOOLEAN,
                               reused: BOOLEAN]]
      BY <2>1 DEF Types, Fields
    <2> QED
      BY <2>2 DEF TypeOK, Types, PC, SizeInv, MappingSize
  <1> QED
    BY <1>1, SizeInvariance, GhostInvariance, PTL
=============================================================================
