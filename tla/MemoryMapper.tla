---------------------------- MODULE MemoryMapper ----------------------------
(***************************************************************************)
(* The named shared-memory segment under a message: memory_mapper.rs, with *)
(* the creation, opening and dropping of handles in python/message.rs.     *)
(*                                                                         *)
(* Processes create, open and drop handles on one name; handles on other   *)
(* names share nothing with them.  One action is one system call or one    *)
(* access to the header in the mapping.  A process may die at any point:   *)
(* its destructors do not run, the kernel closes its mapping, and the name *)
(* and the header stay as they are.  A process that touches a page its     *)
(* segment no longer has is killed, which is such a death too.             *)
(*                                                                         *)
(* Nothing keeps create() from a name in use.  It empties the segment      *)
(* under those who use it, and the one of two creators that fails or is    *)
(* dropped first takes the name from the other.  Both happen here; the     *)
(* properties say what holds of a segment that was not emptied under its   *)
(* users (reused) and of a creator that met no other (rivals).             *)
(***************************************************************************)
EXTENDS Naturals, FiniteSets

CONSTANTS
    Handles,   \* SharedMemoryMapper values, each in a process of its own
    Segments,  \* storage objects; as many as there are handles suffice
    None,      \* no segment
    Header,    \* SharedMessage::size_of_fields
    Sizes,     \* the sizes create() is called with, all above Header
    DeathLimit \* bound: registered readers that die between two create() calls

ASSUME MapperAssumption ==
    /\ IsFiniteSet(Handles)
    /\ None \notin Segments
    /\ Header \in Nat \ {0}
    /\ Sizes \subseteq Nat
    /\ \A n \in Sizes : n > Header
    /\ DeathLimit \in Nat

VARIABLES
    name,      \* the segment the name stands for
    store,     \* the segments: size and header, and a history
    pc,        \* where each handle is in its life
    seg,       \* the segment its file descriptor is open on
    mapped,    \* the size fstat gave, and then its mapped_size
    created,   \* the created flag: made by create(), not by open()
    reader,    \* op_mode.can_read()
    rivals     \* history: creators that were there at the same time

mapper == <<seg, mapped, created, reader, rivals>>
vars   == <<name, store, pc, mapper>>

\* Of the header, the number of registered readers and whether writer_mutex is held
\* matter here.  History: deadReaders and deadWriter are what died with them since
\* create(), reused that a create() found the segment in use.
Zeroed == [size |-> 0, consumers |-> 0, locked |-> FALSE,
           deadReaders |-> 0, deadWriter |-> FALSE, reused |-> FALSE]

Goto(h, from, to) == pc[h] = from /\ pc' = [pc EXCEPT ![h] = to]

Attached(s) == {h \in Handles : seg[h] = s}

Init ==
    /\ name = None
    /\ store = [s \in Segments |-> Zeroed]
    /\ pc = [h \in Handles |-> "none"]
    /\ seg = [h \in Handles |-> None]
    /\ mapped = [h \in Handles |-> 0]
    /\ created = [h \in Handles |-> FALSE]
    /\ reader = [h \in Handles |-> FALSE]
    /\ rivals = {}

----------------------------------------------------------------------------
(* create() and open().                                                    *)

\* A handle begins with a descriptor on segment s.
Begin(h, s, to) ==
    /\ Goto(h, "none", to)
    /\ seg' = [seg EXCEPT ![h] = s]
    /\ UNCHANGED <<mapped, reader>>

\* The name's segment, or for an unused name a new one.
Target(s) == s = name \/ (name = None /\ Attached(s) = {})

Emptied(s) == [Zeroed EXCEPT !.reused = Attached(s) # {}]

\* The other creators there are, which this one meets.
Rivals(h) ==
    LET others == {g \in Handles : created[g]}
    IN  IF others = {} THEN {} ELSE others \cup {h}

\* Wrong variant: shm_open without O_TRUNC.
CreateOpenKeeps(h) ==
    \E s \in Segments :
        /\ Target(s)
        /\ Begin(h, s, "resize")
        /\ created' = [created EXCEPT ![h] = TRUE]
        /\ rivals' = rivals \cup Rivals(h)
        /\ name' = s
        /\ store' = [store EXCEPT ![s].deadReaders = 0, ![s].deadWriter = FALSE,
                                  ![s].reused = Attached(s) # {}]

\* shm_open(O_CREAT | O_RDWR | O_TRUNC): a segment that exists is emptied.
CreateOpen(h) ==
    \E s \in Segments :
        /\ Target(s)
        /\ Begin(h, s, "resize")
        /\ created' = [created EXCEPT ![h] = TRUE]
        /\ rivals' = rivals \cup Rivals(h)
        /\ name' = s
        /\ store' = [store EXCEPT ![s] = Emptied(s)]

\* Wrong variant: the size is that of the payload alone.
ResizeShort(h) ==
    /\ Goto(h, "resize", "stat")
    /\ \E n \in Sizes : store' = [store EXCEPT ![seg[h]].size = n - Header]
    /\ UNCHANGED <<name, mapper>>

\* ftruncate fills up with zeros, or fails, and create() removes the name.
Resize(h) ==
    /\ \/ /\ Goto(h, "resize", "stat")
          /\ \E n \in Sizes : store' = [store EXCEPT ![seg[h]].size = n]
       \/ /\ Goto(h, "resize", "unlink")
          /\ UNCHANGED store
    /\ UNCHANGED <<name, mapper>>

\* shm_open(O_RDWR); without the name open() fails and nothing changes.
Open(h) ==
    /\ name # None
    /\ Begin(h, name, "stat")
    /\ UNCHANGED <<name, store, created, rivals>>

\* Wrong variant: the size is assumed and not read.
StatAssumed(h) ==
    /\ Goto(h, "stat", "map")
    /\ \E n \in Sizes : mapped' = [mapped EXCEPT ![h] = n]
    /\ UNCHANGED <<name, store, seg, created, reader, rivals>>

\* map_and_init reads the size with fstat ...
Stat(h) ==
    /\ Goto(h, "stat", "map")
    /\ mapped' = [mapped EXCEPT ![h] = store[seg[h]].size]
    /\ UNCHANGED <<name, store, seg, created, reader, rivals>>

\* ... and maps as much; cast_from_void_ptr accepts it if it has a payload.
Map(h) ==
    /\ Goto(h, "map", "register")
    /\ mapped[h] > Header
    /\ UNCHANGED <<name, store, mapper>>

\* The handle is no more, and a segment without handles and name is freed.
Closed(h) ==
    /\ seg' = [seg EXCEPT ![h] = None]
    /\ mapped' = [mapped EXCEPT ![h] = 0]
    /\ created' = [created EXCEPT ![h] = FALSE]
    /\ reader' = [reader EXCEPT ![h] = FALSE]
    /\ rivals' = rivals \ {h}

Freed(after) ==
    [s \in Segments |->
        IF name' # s /\ (\A h \in Handles : seg'[h] # s) THEN Zeroed ELSE after[s]]

\* mmap fails, as it always does for an empty segment, or the cast is refused;
\* create() then removes the name.
MapFail(h) ==
    /\ Goto(h, "map", IF created[h] THEN "unlink" ELSE "none")
    /\ UNCHANGED name
    /\ IF created[h] THEN UNCHANGED mapper ELSE Closed(h)
    /\ store' = Freed(store)

\* PythonSharedMessage::new: a reading handle registers; op_mode matters from
\* here on.
Register(h) ==
    /\ Goto(h, "register", "live")
    /\ store[seg[h]].size > 0
    /\ \E r \in BOOLEAN :
          /\ reader' = [reader EXCEPT ![h] = r]
          /\ store' = IF r THEN [store EXCEPT ![seg[h]].consumers = @ + 1] ELSE store
    /\ UNCHANGED <<name, seg, mapped, created, rivals>>

----------------------------------------------------------------------------
(* The life of a handle, as far as the header has it, and its end.         *)

\* check_write_permission: a reading handle does not write.
LockWriter(h) ==
    /\ Goto(h, "live", "writing")
    /\ ~reader[h]
    /\ store[seg[h]].size > 0
    /\ ~store[seg[h]].locked
    /\ store' = [store EXCEPT ![seg[h]].locked = TRUE]
    /\ UNCHANGED <<name, mapper>>

UnlockWriter(h) ==
    /\ Goto(h, "writing", "live")
    /\ store[seg[h]].size > 0
    /\ store' = [store EXCEPT ![seg[h]].locked = FALSE]
    /\ UNCHANGED <<name, mapper>>

\* PythonSharedMessage::drop; remove_reader panics on a count of zero.
Unregister(h) ==
    /\ Goto(h, "live", "unmap")
    /\ store[seg[h]].size > 0
    /\ store' = IF reader[h] /\ store[seg[h]].consumers > 0
                THEN [store EXCEPT ![seg[h]].consumers = @ - 1] ELSE store
    /\ UNCHANGED <<name, mapper>>

\* Wrong variant: whoever unmaps also unlinks.
UnmapUnlinks(h) ==
    /\ Goto(h, "unmap", "unlink")
    /\ UNCHANGED <<name, store, mapper>>

\* SharedMemoryMapper::drop, with the last Arc: munmap, and the creator unlinks.
Unmap(h) ==
    /\ Goto(h, "unmap", IF created[h] THEN "unlink" ELSE "none")
    /\ UNCHANGED name
    /\ IF created[h] THEN UNCHANGED mapper ELSE Closed(h)
    /\ store' = Freed(store)

\* shm_unlink goes by name, whatever segment has it by now.
Unlink(h) ==
    /\ Goto(h, "unlink", "none")
    /\ name' = None
    /\ Closed(h)
    /\ store' = Freed(store)

Registered(h) == reader[h] /\ pc[h] = "live"

\* The process dies; a registration or the lock it had stays in the header.
Crash(h) ==
    /\ pc[h] # "none"
    /\ Registered(h) => store[seg[h]].deadReaders < DeathLimit
    /\ pc' = [pc EXCEPT ![h] = "none"]
    /\ UNCHANGED name
    /\ Closed(h)
    /\ store' = Freed([store EXCEPT
            ![seg[h]].deadReaders = IF Registered(h) THEN @ + 1 ELSE @,
            ![seg[h]].deadWriter = @ \/ pc[h] = "writing"])

----------------------------------------------------------------------------
Next ==
    \E h \in Handles :
        \/ CreateOpen(h) \/ Resize(h) \/ Open(h) \/ Stat(h) \/ Map(h) \/ MapFail(h)
        \/ Register(h) \/ LockWriter(h) \/ UnlockWriter(h)
        \/ Unregister(h) \/ Unmap(h) \/ Unlink(h) \/ Crash(h)

Spec == Init /\ [][Next]_vars

----------------------------------------------------------------------------
Mapping(h) == pc[h] \in {"register", "live", "writing", "unmap"}

\* The name stands for a segment or for nothing, a handle has a descriptor as
\* long as it exists, and a mapping has a size that create() was asked for.
TypeOK ==
    /\ name \in Segments \cup {None}
    /\ store \in [Segments -> [size: Sizes \cup {0},
                               consumers: 0..(Cardinality(Handles) + DeathLimit),
                               locked: BOOLEAN,
                               deadReaders: 0..DeathLimit,
                               deadWriter: BOOLEAN,
                               reused: BOOLEAN]]
    /\ pc \in [Handles -> {"none", "resize", "stat", "map", "register", "live", "writing",
                           "unmap", "unlink"}]
    /\ seg \in [Handles -> Segments \cup {None}]
    /\ \A h \in Handles : pc[h] = "none" <=> seg[h] = None
    /\ mapped \in [Handles -> Sizes \cup {0}]
    /\ \A h \in Handles : Mapping(h) => mapped[h] \in Sizes
    /\ created \in [Handles -> BOOLEAN]
    /\ reader \in [Handles -> BOOLEAN]
    /\ rivals \subseteq {h \in Handles : created[h]}

\* A mapping is as large as its segment, so that capacity() bytes are really
\* there: open() in the middle of a create(), of a drop or after a crash either
\* fails or sees the final size.  The exception is a segment that a later
\* create() has emptied under its users.
MappingBacked ==
    \A h \in Handles :
        Mapping(h) /\ ~store[seg[h]].reused => mapped[h] = store[seg[h]].size

\* The header holds nothing of a process from before the last create(): each
\* registration, and the writer's lock, belongs to a handle that is there or to
\* one that died since.  A restart by create() thus recovers from a crash.  The
\* converse, that the header has them all, is lost when it was emptied in use.
NoGhosts ==
    \A s \in Segments :
        LET registered == Cardinality({h \in Attached(s) : Registered(h)})
                              + store[s].deadReaders
            locked     == store[s].deadWriter \/ \E h \in Attached(s) : pc[h] = "writing"
        IN  /\ store[s].consumers <= registered
            /\ store[s].locked => locked
            /\ ~store[s].reused =>
                  store[s].consumers = registered /\ store[s].locked = locked

\* "keep shared memory alive for other processes" (rs_ipc.pyi:11): the name
\* stands for a creator's segment as long as its handle lives, unless it met
\* another creator, on this segment or on one that had the name before.  No
\* failure, drop or death of a handle that was opened takes the name.
CreatorKeepsName ==
    \A h \in Handles : Mapping(h) /\ created[h] /\ h \notin rivals => name = seg[h]
=============================================================================
