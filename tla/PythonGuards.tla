---------------------------- MODULE PythonGuards ----------------------------
(***************************************************************************)
(* The ReadGuard and WriteGuard objects of python/guards.rs, in a process  *)
(* that has a writing and a reading handle of one message, each a mapping  *)
(* of its own of the same segment.                                         *)
(*                                                                         *)
(* A guard object has inner = Some((handle, slot guard)) until it is left, *)
(* published or deallocated.  The interpreter counts references: variables *)
(* and memoryviews refer to guard objects, variables and guards with an    *)
(* inner refer to handles, and what nobody refers to is deallocated at     *)
(* once.  A handle takes its mapping with it.                              *)
(*                                                                         *)
(* The slot is used as SharedMessage provides it: start_write waits for    *)
(* writer_mutex and for active readers and raises the flag; read() waits   *)
(* for a new message and a lowered flag.  The policy does not wait for     *)
(* readers (Count(0)) and nobody stops.  A guard's method borrows the      *)
(* object, so methods of one guard do not overlap, but threads switch      *)
(* between the steps of a destructor or of publish().                      *)
(***************************************************************************)
EXTENDS Naturals, Sequences, FiniteSets

CONSTANTS
    WriteGuards,  \* guard objects of the writing handle
    ReadGuards,   \* guard objects of the reading handle
    None,         \* the owner of a free writer_mutex
    Capacity,     \* payload bytes of the mapping
    Positions,    \* the positions seek() is called with
    MessageLimit  \* bound: the messages that are published

Guards == WriteGuards \cup ReadGuards

ASSUME GuardAssumption ==
    /\ WriteGuards \cap ReadGuards = {}
    /\ IsFiniteSet(ReadGuards)
    /\ None \notin WriteGuards
    /\ Capacity \in Nat
    /\ Positions \subseteq Nat
    /\ MessageLimit \in Nat

VARIABLES
    sequence,   \* of the message in the slot
    writing,    \* WRITING_IN_PROGRESS
    owner,      \* the write guard whose slot guard has writer_mutex
    active,     \* active_readers
    data_size,  \* length of the published message
    data,       \* the buffer; a byte is the number of the message it was written for
    handles,    \* the handles some variable refers to
    mapped,     \* the handles whose mapping exists
    named,      \* the guard objects some variable refers to
    inner,      \* what inner is, or which step of leaving it the guard is at
    cursor,     \* position of the file-like interface, 0 once nothing uses it
    exported,   \* the guards a memoryview refers to
    message,    \* history: the bytes that were published
    plain,      \* history: guards in use on which seek() was not called
    whole,      \* history: the message is a plain guard's, published without size
    got,        \* history: what read() of a read guard returned
    stray       \* history: a view was written to after its guard was left

slot    == <<sequence, writing, owner, active, data_size, data>>
objects == <<handles, mapped, named, inner, exported>>
history == <<message, plain, whole, got, stray>>
vars    == <<slot, objects, cursor, history>>

HandleOf(g) == IF g \in WriteGuards THEN "write" ELSE "read"

\* A byte that is written when nobody should.
Stray == MessageLimit + 1

Init ==
    /\ sequence = 0
    /\ writing = FALSE
    /\ owner = None
    /\ active = 0
    /\ data_size = 0
    /\ data = [i \in 1..Capacity |-> 0]
    /\ handles = {"write", "read"}
    /\ mapped = {"write", "read"}
    /\ named = {}
    /\ inner = [g \in Guards |-> "absent"]
    /\ cursor = [g \in Guards |-> 0]
    /\ exported = {}
    /\ message = <<>>
    /\ plain = {}
    /\ whole = FALSE
    /\ got = [g \in Guards |-> <<>>]
    /\ stray = FALSE

----------------------------------------------------------------------------
(* The interpreter's references.                                           *)

\* The handle stays mapped as long as a variable or an inner refers to it.
MappedAfter(h) ==
    mapped' = IF h \in handles' \/ \E g \in Guards : HandleOf(g) = h /\ inner'[g] \in {"some", "storing"}
              THEN mapped ELSE mapped \ {h}

\* A guard object without its inner, as long as something refers to it.
Emptied(g) == IF g \in named' \cup exported' THEN "empty" ELSE "absent"

\* Nobody reads or writes through the guard any more.
Retired(g) ==
    /\ cursor' = [cursor EXCEPT ![g] = 0]
    /\ plain' = plain \ {g}
    /\ got' = [got EXCEPT ![g] = <<>>]

\* drop(inner.take()): the tuple drops the handle first, which may be its end,
\* and then, in a step of its own, the slot guard.
TakeInner(g) ==
    /\ inner' = [inner EXCEPT ![g] = "leaving"]
    /\ MappedAfter(HandleOf(g))
    /\ Retired(g)

\* A reference to the guard object goes away; the last one deallocates it.
Dereference(g) ==
    IF g \in named' \cup exported'
    THEN UNCHANGED <<inner, mapped, cursor, plain, got>>
    ELSE \/ /\ inner[g] = "some"
            /\ TakeInner(g)
         \/ /\ inner[g] = "empty"
            /\ inner' = [inner EXCEPT ![g] = "absent"]
            /\ UNCHANGED <<mapped, cursor, plain, got>>
         \/ /\ inner[g] \in {"leaving", "storing"}
            /\ UNCHANGED <<inner, mapped, cursor, plain, got>>

NewGuard(g) ==
    /\ inner[g] = "absent"
    /\ HandleOf(g) \in handles
    /\ inner' = [inner EXCEPT ![g] = "some"]
    /\ named' = named \cup {g}
    /\ cursor' = [cursor EXCEPT ![g] = 0]
    /\ plain' = plain \cup {g}
    /\ UNCHANGED <<handles, mapped, exported>>

DropName(g) ==
    /\ g \in named
    /\ named' = named \ {g}
    /\ UNCHANGED <<slot, handles, exported, message, whole, stray>>
    /\ Dereference(g)

DropHandle(h) ==
    /\ h \in handles
    /\ handles' = handles \ {h}
    /\ UNCHANGED <<slot, named, inner, exported, cursor, history>>
    /\ MappedAfter(h)

----------------------------------------------------------------------------
(* write_guard() and read_guard().                                         *)

AcquireWrite(g) ==
    /\ NewGuard(g)
    /\ sequence < MessageLimit
    /\ owner = None
    /\ active = 0
    /\ owner' = g
    /\ writing' = TRUE
    /\ UNCHANGED <<sequence, active, data_size, data, message, whole, got, stray>>

\* Threads that wait in read() may have loaded last_read_sequence long ago, so
\* several may get a guard on one message, now or later.
AcquireRead(g) ==
    /\ NewGuard(g)
    /\ sequence > 0
    /\ ~writing
    /\ active' = active + 1
    /\ got' = [got EXCEPT ![g] = <<>>]
    /\ UNCHANGED <<sequence, writing, owner, data_size, data, message, whole, stray>>

----------------------------------------------------------------------------
(* Leaving a guard: __exit__, __clear__, or its deallocation.              *)

\* Wrong variant: the slot guard is dropped and inner stays.
ExitTwice(g) ==
    /\ g \in named
    /\ inner[g] = "some"
    /\ active' = IF g \in ReadGuards THEN active - 1 ELSE active
    /\ owner' = IF g \in WriteGuards THEN None ELSE owner
    /\ UNCHANGED <<sequence, writing, data_size, data, objects, cursor, history>>

Exit(g) ==
    /\ g \in named
    /\ inner[g] = "some"
    /\ UNCHANGED <<slot, handles, named, exported, message, whole, stray>>
    /\ TakeInner(g)

\* The destructor of the slot guard writes to the mapping: release_active_reader,
\* or the unlock of writer_mutex, which leaves the flag up.
DropSlotGuard(g) ==
    /\ inner[g] = "leaving"
    /\ active' = IF g \in ReadGuards THEN active - 1 ELSE active
    /\ owner' = IF g \in WriteGuards THEN None ELSE owner
    /\ UNCHANGED <<sequence, writing, data_size, data, handles, mapped, named,
                   exported, cursor, history>>
    /\ inner' = [inner EXCEPT ![g] = Emptied(g)]

----------------------------------------------------------------------------
(* The file-like interface.                                                *)

\* seek() goes anywhere.  (It does so on a guard that was left as well, where
\* nothing but tell() looks at the cursor any more.)
Seek(g, pos) ==
    /\ g \in named
    /\ inner[g] = "some"
    /\ cursor' = [cursor EXCEPT ![g] = pos]
    /\ plain' = plain \ {g}
    /\ got' = [got EXCEPT ![g] = <<>>]
    /\ UNCHANGED <<slot, objects, message, whole, stray>>

\* write() of n bytes; one that does not fit is refused and changes nothing.
Write(g, n) ==
    /\ g \in named
    /\ inner[g] = "some"
    /\ cursor[g] + n <= Capacity
    /\ data' = [i \in 1..Capacity |->
                   IF i \in (cursor[g] + 1)..(cursor[g] + n) THEN sequence + 1 ELSE data[i]]
    /\ cursor' = [cursor EXCEPT ![g] = @ + n]
    /\ UNCHANGED <<sequence, writing, owner, active, data_size, objects, history>>

\* guard.data(): as many bytes as data_size says.
Shown == SubSeq(data, 1, data_size)

Available(g) == IF cursor[g] < data_size THEN data_size - cursor[g] ELSE 0

\* Wrong variant: all is handed out and the cursor moves by what was asked for.
ReadOvershoots(g, n) ==
    /\ g \in named
    /\ inner[g] = "some"
    /\ got' = [got EXCEPT ![g] = @ \o SubSeq(Shown, cursor[g] + 1, data_size)]
    /\ cursor' = [cursor EXCEPT ![g] = @ + n]
    /\ UNCHANGED <<slot, objects, message, plain, whole, stray>>

\* read(size): at most what is left, and nothing when the cursor is past the
\* end; without a size, or with a negative one, all that is left.
Read(g, n) ==
    LET count == IF n < Available(g) THEN n ELSE Available(g)
    IN  /\ g \in named
        /\ inner[g] = "some"
        /\ got' = [got EXCEPT ![g] =
                      IF g \in plain THEN @ \o SubSeq(Shown, cursor[g] + 1, cursor[g] + count) ELSE @]
        /\ cursor' = [cursor EXCEPT ![g] = @ + count]
        /\ UNCHANGED <<slot, objects, message, plain, whole, stray>>

----------------------------------------------------------------------------
(* Buffer views.                                                           *)

\* memoryview(guard): refused once the guard is left.
GetBuffer(g) ==
    /\ g \in named
    /\ inner[g] = "some"
    /\ exported' = exported \cup {g}
    /\ UNCHANGED <<slot, handles, mapped, named, inner, cursor, history>>

ReleaseBuffer(g) ==
    /\ g \in exported
    /\ exported' = exported \ {g}
    /\ UNCHANGED <<slot, handles, named, message, whole, stray>>
    /\ Dereference(g)

\* A view of a write guard overwrites the buffer, for as long as the view exists;
\* on a mapping that is gone the process would be killed.
WriteView(g) ==
    /\ g \in exported
    /\ "write" \in mapped
    /\ data' = [i \in 1..Capacity |-> IF inner[g] = "some" THEN sequence + 1 ELSE Stray]
    /\ stray' = (stray \/ inner[g] # "some")
    /\ UNCHANGED <<sequence, writing, owner, active, data_size, objects, cursor,
                   message, plain, whole, got>>

----------------------------------------------------------------------------
(* publish().                                                              *)

Install(g, size) ==
    /\ data_size' = size
    /\ sequence' = sequence + 1
    /\ writing' = FALSE
    /\ owner' = None
    /\ message' = SubSeq(data, 1, size)
    /\ whole' = (g \in plain /\ size = cursor[g])
    /\ UNCHANGED <<active, data, stray>>

\* Wrong variants: inner is used and not taken; the default is the capacity.
PublishKeeps(g, size) ==
    /\ g \in named
    /\ inner[g] = "some"
    /\ size <= Capacity
    /\ Install(g, size)
    /\ UNCHANGED <<objects, cursor, plain, got>>

PublishAll(g, size) ==
    /\ g \in named
    /\ inner[g] = "some"
    /\ data_size' = Capacity
    /\ sequence' = sequence + 1
    /\ writing' = FALSE
    /\ owner' = None
    /\ message' = SubSeq(data, 1, Capacity)
    /\ whole' = (g \in plain /\ size = cursor[g])
    /\ inner' = [inner EXCEPT ![g] = "storing"]
    /\ Retired(g)
    /\ UNCHANGED <<active, data, stray, handles, mapped, named, exported>>

\* publish(size), or publish() with the cursor for the size.
Publish(g, size) ==
    /\ g \in named
    /\ inner[g] = "some"
    /\ size <= Capacity
    /\ Install(g, size)
    /\ inner' = [inner EXCEPT ![g] = "storing"]
    /\ Retired(g)
    /\ UNCHANGED <<handles, mapped, named, exported>>

\* A size above the capacity: None, and the slot guard is dropped.
PublishRefused(g, size) ==
    /\ g \in named
    /\ inner[g] = "some"
    /\ size > Capacity
    /\ owner' = None
    /\ inner' = [inner EXCEPT ![g] = "storing"]
    /\ Retired(g)
    /\ UNCHANGED <<sequence, writing, active, data_size, data, handles, mapped,
                   named, exported, message, whole, stray>>

\* Wrong variant: one reference to the handle too many is given back.
StoreWrittenUnmaps(g) ==
    /\ inner[g] = "storing"
    /\ UNCHANGED <<slot, handles, named, exported, cursor, history>>
    /\ inner' = [inner EXCEPT ![g] = Emptied(g)]
    /\ mapped' = mapped \ {"write"}

\* last_written_sequence is stored in the handle, and only then the handle let go.
StoreWritten(g) ==
    /\ inner[g] = "storing"
    /\ UNCHANGED <<slot, handles, named, exported, cursor, history>>
    /\ inner' = [inner EXCEPT ![g] = Emptied(g)]
    /\ MappedAfter("write")

----------------------------------------------------------------------------
\* The destructor of a slot guard is about to write to a mapping that is gone,
\* which ends the process.
Faulted == \E g \in Guards : inner[g] = "leaving" /\ HandleOf(g) \notin mapped

Next ==
    /\ ~Faulted
    /\ \/ \E g \in Guards :
             \/ DropName(g) \/ Exit(g) \/ DropSlotGuard(g) \/ GetBuffer(g) \/ ReleaseBuffer(g)
             \/ \E pos \in Positions : Seek(g, pos)
       \/ \E g \in WriteGuards :
             \/ AcquireWrite(g) \/ WriteView(g) \/ StoreWritten(g)
             \/ \E n \in 1..Capacity : Write(g, n)
             \/ \E size \in 0..(Capacity + 1) : Publish(g, size) \/ PublishRefused(g, size)
       \/ \E g \in ReadGuards :
             \/ AcquireRead(g)
             \/ \E n \in 1..Capacity : Read(g, n)
       \/ \E h \in {"write", "read"} : DropHandle(h)

Spec == Init /\ [][Next]_vars

----------------------------------------------------------------------------
Bytes == 0..Stray

\* Guards and handles are at a stage of their life, and the slot, the cursors
\* and the histories within their bounds.
TypeOK ==
    /\ sequence \in 0..MessageLimit
    /\ owner \in WriteGuards \cup {None}
    /\ active \in 0..Cardinality(ReadGuards)
    /\ data_size \in 0..Capacity
    /\ data \in [1..Capacity -> Bytes]
    /\ handles \subseteq mapped
    /\ mapped \subseteq {"write", "read"}
    /\ inner \in [Guards -> {"absent", "some", "leaving", "storing", "empty"}]
    /\ \A g \in Guards : inner[g] = "absent" => g \notin named \cup exported
    /\ cursor \in [Guards -> Nat]

Holds(g) == inner[g] \in {"some", "leaving"}

\* Every guard object lets go of the slot exactly once, however it is left
\* (with its block, published, refused, forgotten, kept alive by a view): the
\* readers the slot counts are the read guards not yet left, and writer_mutex is
\* held for the one write guard not yet left or published.
ReleasedOnce ==
    /\ active = Cardinality({g \in ReadGuards : Holds(g)})
    /\ \A g \in WriteGuards : Holds(g) <=> owner = g

\* What a read guard shows, through to_bytes, read and its views, is the message
\* that was published and stays it, unless somebody writes through a view of a
\* write guard that was left or published.
GuardShowsMessage ==
    ~stray => \A g \in ReadGuards : inner[g] = "some" => Shown = message

\* The chunks that read() hands out make up the message in order, whatever their
\* sizes, as pickle.load needs it.
ChunksInOrder ==
    ~stray => \A g \in ReadGuards \cap plain :
        inner[g] = "some" =>
            cursor[g] <= Len(message) /\ got[g] = SubSeq(message, 1, cursor[g])

\* publish() without a size publishes what was written through this guard and
\* no byte of an earlier message, if seek() was not used.
NoStaleBytes ==
    ~stray /\ whole => \A i \in DOMAIN message : message[i] = sequence

----------------------------------------------------------------------------
\* guards.rs:26 as it stands: the handle, and so the mapping, is alive for as
\* long as the guard is, its destructor included.
OwnerOutlivesGuard == \A g \in Guards : Holds(g) => HandleOf(g) \in mapped
=============================================================================
