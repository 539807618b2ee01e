# TLA+ specification of rs_ipc

rs_ipc hands messages from writers to readers, in any number of processes, through
a single slot in POSIX shared memory. There is no broker: all coordination is done with
atomic words, a futex lock and two futex condition variables inside the mapping. This
directory models that coordination, model-checks it on small instances, and proves its
safety properties for any number of threads, processes or guards.

File references are relative to the repository (`mod.rs` is
`src/shared_message/mod.rs`).

## The system

| Component | State | Operations | Interacts with |
|---|---|---|---|
| `SharedMessage` (`shared_message/mod.rs`, `guard.rs`) | `sequence_and_flags` and `readers_state` (one packed atomic word each), `data_size`, `data`, `writer_mutex`, `writer_condvar`, `reader_done_condvar` | `write`, `write_slice`, `publish`, dropping a write guard, `read`, dropping a read guard, `add_reader`, `remove_reader`, `set_target_read_count`, `stop` | everything below shares its memory |
| Packed words (`shared_message/packed.rs`) | none | conversion between `u64` and the two structs, `get_target_consumed` | used by every access of `SharedMessage` |
| `FutexLock`, `SharedMutex` (`sync/lock/`) | one lock word | `try_lock`, `lock`, `unlock` | futex calls; `writer_mutex` |
| `SharedCondvar` (`sync/condvar.rs`) | one 32-bit counter | `value`, `wait`, `notify_all` (`notify_one` is unused) | futex calls; both condition variables |
| Futex calls (`sync/futex.rs`) | the kernel's wait queues | `futex_wait`, `futex_wake_one`, `futex_wake_all` | external: the kernel |
| `SharedMemoryMapper` (`memory_mapper.rs`) | a named segment and a mapping | create, open, drop | several processes, the file system's names |
| Python `SharedMessage` (`python/message.rs`, `queue_data.rs`, ...) | last read and last written sequence, a background thread with its queue, the operation mode | `write`, `read`, `read_guard`, `write_guard`, `stop`, `last_written_version`, ... | calls `SharedMessage`; threads of the interpreter |
| Python guards (`python/guards.rs`) | an optional pair of mapping and guard, a cursor | enter, exit, publish, the file-like and buffer interfaces | hold the mapping alive for the guard |
| `read_all`, `read_all_map` (`python/mod.rs`) | none | read from several handles | Python `SharedMessage` |

### How a message travels

A writer takes `writer_mutex`, waits until the readers the policy counts are done with the
previous message (the *policy loop*, `mod.rs:92-105`), raises `WRITING_IN_PROGRESS`, waits until
no reader is registered (the *drain loop*, `mod.rs:111-122`), fills the buffer, and publishes:
size, `data_consumed = 0`, then one exchange that moves the sequence on and lowers the flag,
then `notify_all`. Dropping the guard frees the mutex.

A reader takes a ticket of `writer_condvar`, loads the word once, and returns, sleeps or
registers (`active_readers + 1`); it then loads the word again, and either has its guard
or takes the registration back and retries. Dropping the guard lowers `active_readers`,
raises `data_consumed` and, if it was the last active reader, notifies the writers.

### What is hard, and what correct means

* **Interleaving.** The two sides meet without a lock: "raise the flag, look at the count"
  against "raise the count, look at the flag". Correct: a writer that owns the buffer shares
  it with nobody, and a guard shows one whole, current message.
* **Sleeping.** Four places sleep on a ticket taken earlier. Correct: nobody sleeps while
  what it waits for has already happened and no notification is on its way.
* **Giving up.** `stop`, a write guard that is dropped, `write_slice` that panics and a `publish`
  that is refused leave through other doors. Correct: what the documentation promises of them.
* **Policy.** Writers wait for as many different readers as asked for, while readers join,
  leave and retry, and the target changes.
* **Edges.** The sequence wraps and skips zero; `u16` counters that share a word; the lock word's
  third value; a notification counter that wraps; the cursor of a Python guard past the end.
* **Life and death.** A name, a segment, a mapping, a handle, a guard and a view each have a life
  of their own, and processes die. Correct: nothing is used after its end, a mapping is as large
  as its segment, and creating a message anew starts clean.

`PROJECT.json` lists each hazard at its line, with the property that covers it or why
none does.

## Modules

| Module | What it is |
|---|---|
| `Mutex` | what a mutex promises: `Lock` when nobody owns it, `Unlock` by the owner |
| `EventCount` | what a condition variable of this kind promises: the set of threads whose ticket is current; a notification empties it; a stale waiter returns |
| `FutexLock` | `futex_lock.rs` and `mutex.rs`, one action per atomic access or futex call; implements `Mutex` |
| `Condvar` | `condvar.rs`, likewise; implements `EventCount` |
| `SharedMessage` | `mod.rs` and `guard.rs`, one action per atomic access; uses `Mutex` and `EventCount` for its lock and its two condition variables |
| `Slot` | what `SharedMessage` promises: a slot in which the acquisition of a guard and its release are single steps, and a write is two: it announces itself (`WRITING_IN_PROGRESS`) and takes effect, or is given up; `SharedMessage` implements it |
| `Words` | what `SharedMessage` assumes of its two atomic words: two structs, each updated in single steps |
| `PackedWords` | `packed.rs` and the loops of `mod.rs` that update the words, one action per access; implements `Words` |
| `PythonMessage` | `python/message.rs` and `python/mod.rs`: a writing and a reading handle in their sync and async modes, with background threads and queues; uses `Slot` |
| `PythonGuards` | `python/guards.rs`: the guard objects, the references that keep them and their mapping alive, the file-like interface, buffer views |
| `MemoryMapper` | `memory_mapper.rs`, with `create`, `open` and `drop` of Python handles: names, segments and mappings of several processes |
| `MCSharedMessage`, `MCPythonGuards`, `MCMemoryMapper` | symmetry sets for model checking |
| `FutexLockProofs`, `CondvarProofs`, `PackedWordsProofs`, `MemoryMapperProofs`, `PythonMessageProofs`, `PythonGuardsProofs` | theorems and proofs about the module of that name |
| `SharedMessageProofs` | types, exclusion and integrity of `SharedMessage`, and that no wake-up is lost; the base of the next |
| `PolicyProofs` | the consumption policy, and that `SharedMessage` implements `Slot` |

`SharedMessage` is thus composed with the two abstract modules and not with the futex code:
`FutexLock` and `Condvar` are shown to implement them, so the interleavings inside a lock or
a notification need not be multiplied with those of the protocol. In the same way its records
stand on `PackedWords` implementing `Words`, and `PythonMessage` is composed with `Slot`.
`PythonGuards` and `MemoryMapper` carry the few facts of the slot they need themselves.

### SharedMessage: state and actions

* The two packed words are records, `sequence_and_flags` and `readers_state`. Their fields
  keep a width (`SequenceMask`, `U16Max`) and wrap as the release build does (`Inc16`,
  `Dec16`). Both compare-exchange loops (`update_reader_state`, `publish_write`) are one atomic
  update here; `PackedWords` is where that is checked.
* `data` is the message the buffer's bytes are: a payload, or `Mixed` while a copy is under way;
  `data_size` is the published length. Payload *n* is *n* bytes long, so a message that does
  not fit is a payload above `Capacity`.
* `pc[t]` says where a thread is in its call. `BeginWrite ... UnlockWriter` are
  `start_write`, the copy, `publish_write` and the drop of the mutex guard, in the code's
  order; `BeginRead ... ReleaseNotify` are `read` and the drop of the read guard. `job`,
  `snap`, `block` are locals of these calls.
* `seen[r]` is the `last_seen_seq` argument: a reader passes the sequence of the last message
  it got, as the Python handle does. A reader is one handle: `AddReader` when it is opened,
  `RemoveReader` when it is dropped for good.
* `stopCall` is the one `stop()` call, in its three steps.
* `published`, `consumedBy`, `discarded`, `unmarked` are history variables, read by properties only:
  a write was abandoned (`discarded`), or gave up on `stop` with its flag up (`unmarked`).
* `Ops` selects the calls the clients of an instance make; the actions themselves are always
  the code's.
* The operators introduced by the comment "Wrong variant" are not part of the specification.
  They are mistakes the code could have made, each used to see that a property notices it.

### PythonMessage: state and actions

* One writing and one reading handle; `writeMode` and `readMode` are their `op_mode`, chosen in
  `Init`. `Producers` and `Consumers` are the interpreter threads that use them.
* `sender` is the channel the writing handle has open; each channel has its queue and its
  writer thread (`pc[g]`), since a write after `stop` makes a new one while the old thread may
  still be at work. A channel whose thread has ended refuses messages.
* `Background` is the thread of a `ReadAsync` handle, `inbox` the queue behind it, `receiver` the
  mutex that `read_async` holds across `recv()`.
* A write is `WriteSync` or `WriterStart` (the call), `Mark` (the flag is up), and `Publish`, `GiveUp` or,
  for a `write_guard` dropped unpublished, `Abandon`, which leaves the flag up. `GiveUp` with the
  flag up lowers it and notifies nobody, as `mod.rs:115` does; the history variable `unmarked` records it.
  While the flag is up no reader gets its guard.
* `Stranded(r)` says that `start_write` has left a reader asleep: its message is unread, and its flag is
  that of an abandoned write or was lowered silently.
* `last_written` and `last_read` are stored in steps of their own, as in the code.
* `Policy` is the `ReaderWaitPolicy`, of which `to_count` makes the target.
* `ReadAll` is `read_all` or `read_all_map`: all reading threads poll at once.
* `sent` and `delivered` are histories. `sent` is the order in which `write` took messages: the
  order of the queue for `WriteAsync`, of publication for `WriteSync`.

### PackedWords: state and actions

* The two words are natural numbers. A shift by a field's width is a multiplication or division
  by `U16Size`, a cast a remainder, `|` of fields that do not overlap a sum.
* `packed[t]` is what a loop has loaded, `call[t]` what it was asked to do, `answer[t]` what it
  returned. `Begin` starts a call; `LoadReaders`, `ExchangeReaders`, `LoadSequence`, `ExchangeSequence`
  and `Fetch` are the accesses. `Look` is the body of the loop of `update_reader_state`, with its early
  return when the word would not change and the panics of `add_reader` and `remove_reader`.
* `role[t]` keeps the threads to the order in which `mod.rs` makes these calls.
* `Words` does each call in one step. The refinement mapping is the code's own: `FromSequence`
  and `FromReaders` of the words.

### MemoryMapper: state and actions

* `name` is the segment the name stands for; `store` has the segments with their size and what
  matters of the header; `seg`, `mapped`, `created` are the fields of a `SharedMemoryMapper`.
* `CreateOpen`, `Resize`, `Open`, `Stat`, `Map`, `MapFail`, `Unmap`, `Unlink` are the system calls in the
  code's order, with their failures; `Register`, `Unregister`, `LockWriter`, `UnlockWriter` are the
  marks a living handle leaves in the header. `Crash` ends a process anywhere.
* `create` is unconditional, as `shm_open(O_CREAT | O_TRUNC)` is. On a name in use it empties the
  segment under its users; the history field `reused` records it. Of two creators the first to fail
  or to be dropped takes the name from the other, since `shm_unlink` goes by name; the history
  variable `rivals` has the creators that were there at the same time. A process that touches a
  segment emptied under it is killed, which is a `Crash`.

### PythonGuards: state and actions

* `handles`, `named` and `exported` say what variables and memoryviews refer to, `mapped` which
  handles still have their mapping. What nobody refers to is deallocated at once.
* `inner[g]` is the `Option` of the guard object and the step of leaving it: `TakeInner` drops the
  handle, `DropSlotGuard` then the slot guard, since a tuple is dropped in field order; `publish`
  keeps the handle until the sequence is stored (`StoreWritten`).
* `cursor`, `Seek`, `Write`, `Read` are the file-like interface; `GetBuffer`, `ReleaseBuffer` and `WriteView`
  the buffer interface. A byte is the number of the message it was written for, or `Stray` when it
  was written through a view of a guard that was left.
* `message`, `plain`, `whole`, `got`, `stray` are history variables.

### Memory model

Memory is sequentially consistent. The code's orderings are weaker (a `Release` on the
reader's registration and on the writer's flag, followed by a load of the other word), but
every one of those stores is a locked read-modify-write on x86-64, which is a full fence
there. On a weaker architecture the pair in `mod.rs:108-113` and `mod.rs:284-287` would have to
be looked at again.

## Runs

Passing runs:

| Run | Instance | Checks |
|---|---|---|
| `handover` | 2 writers (also changing the target between 1 and 2), 2 readers that may leave, sequence wraps at 2 | `TypeOK`, `ReadWriteExclusion`, `PolicyRespected`, `ImplementsSlot` |
| `lifecycle` | 2 writers using both APIs, messages of two sizes and one that does not fit, guards dropped at any point, 1 reader the policy does not count and that may poll, `stop` at any point | `GuardIntegrity`, `ReaderWakeup`, `DrainWakeup`, `PollWaitsForWriter` |
| `progress` | 2 writers that may write for ever, 2 readers the policy waits for | `ReaderGetsMessage` |
| `stop_progress` | 2 writers with guards published or dropped, 1 reader that may or may not register, `stop` | `DrainCompletes`, `StopReleasesWriters`, `StopReleasesIdleReaders` |
| `words` | 2 threads making all calls, fields of 4 values, 3 sequence numbers | `TypeOK`, `ImplementsWords`, `StopSticks`, `RetryEnds` |
| `lock` | 3 threads | `MutualExclusion`, `SleepersCovered`, `LockProgress`, `ImplementsMutex` |
| `condvar` | 3 threads, a counter modulo 3 | `StaleSleepersCovered`, `ImplementsEventCount`, `StaleWaiterReturns` |
| `handles` | both modes of both handles, 1 producing and 2 consuming threads, 2 channels, 2 messages, `write_guard`s dropped, `read_all`, `stop` on either handle, drops | `DeliveredInOrder`, `LastReadGrows`, `LastWrittenGrows`, `StopEndsWriters`, `StopEndsBackground`, `StopReleasesConsumers`, `PollReturns` |
| `guards` | 1 write and 2 read guard objects, reused, 2 bytes, 2 messages, both handles dropped at any point | `TypeOK`, `ReleasedOnce`, `GuardShowsMessage`, `ChunksInOrder`, `NoStaleBytes` |
| `mapper` | 3 processes that come back as often as they like and create also what is in use, 2 segments, 1 size, failures and deaths | `TypeOK`, `MappingBacked`, `NoGhosts`, `CreatorKeepsName` |

What they show:

* `ReadWriteExclusion`: from the end of `start_write` to the exchange of `publish_write` no reader
  holds a guard. This is the safety comment of `data_mut` (`mod.rs:152-154`).
* `GuardIntegrity`: a guard shows the last published message, whole, with its size, and stays
  current for as long as it lives. The one exception the code has is part of the statement: a
  write was dropped unpublished and the message was then stopped.
* `DrainWakeup`: a draining writer does not sleep on a current ticket when its readers are gone, or
  after `stop`, with no notification pending. `ReaderWakeup`: a reader without new data does not sleep
  through a `stop`; one with an unread message sleeps only while a writer is at work or a
  notification is pending, apart from two cases that the code has and the statement names: the
  flag is that of an abandoned write (`LeftUp`), or a writer gave up on `stop` (`unmarked`).
* `PollWaitsForWriter`: `read(block = false)` does sleep. It then has a writer at work on the slot, or
  one about to notify it; in the same two cases it has nobody, and may sleep for ever.
* `PolicyRespected`: a writer past the policy loop has as many *different* readers done with
  the previous message as the policy asks for at that moment.
* `ReaderGetsMessage`, `DrainCompletes`, `StopReleasesWriters`, `StopReleasesIdleReaders`: progress.
  A reader is sure of a message only if the policy waits for it, which is why `progress` has
  every reader counted; a reader the policy does not wait for is what sends writers into
  the drain loop, which is why the other runs have one.
* `ImplementsSlot`: the whole of `mod.rs` looks to its callers like the steps of `Slot`.
  It holds where no reader joins: `add_reader` between a writer's policy check and its publish
  raises the requirement too late to be waited for, which is why `handover` has no late readers.
* `DeliveredInOrder`: what `read` has returned is a prefix of what `write` took, in order and with no gap,
  through both queues and across `stop`. It says nothing of a tail that is lost at `stop`. A `ReadSync` handle used by two threads may return its newest
  message to both.
* `LastReadGrows` holds because every store of `last_read_sequence` is made with a guard, or the
  receiver's mutex, held. `LastWrittenGrows` is stated for `WriteAsync`: two threads of a `WriteSync`
  handle store after their writes are over, and may do so in the wrong order.
* `StopEndsWriters`: `stop` on the writing handle ends its writer thread. `stop` on another handle
  does not reach one that sleeps in `recv()`.
* `StopEndsBackground`, `StopReleasesConsumers`: after a `stop` the thread of a `ReadAsync` handle ends and a
  read that waits returns, unless it, or the thread that feeds it, stays stranded for ever.
* `PollReturns`: a poll comes back, unless another thread of a `ReadAsync` handle keeps the receiver's
  mutex while it waits in `recv()`, or the poll stays stranded for ever.
* `ImplementsWords`: whatever happens between a load and its exchange, a call changes its own field of
  its own word, once, and answers with what it stored; fields at their limits wrap inside
  themselves. With it, `TypeOK` (no carry out of the word), `StopSticks` (a `stop` that hits the loop of
  `publish_write` survives) and `RetryEnds` (the loops end once the word is left alone).
* `ReleasedOnce`: whichever way a Python guard is left, and with views on it, the slot is let go
  exactly once. `GuardShowsMessage`, `ChunksInOrder`, `NoStaleBytes`: what readers see through a guard is
  what was published, in order, without bytes of an older message. The exception the code has, a
  view written to after `publish`, is part of the statements.
* `MappingBacked`: `capacity()` bytes are really there, also for a process that opened in the
  middle of a `create`, unless the segment was emptied in use. `NoGhosts`: the header has no
  registration and no lock from before the last `create`, so creating a message anew recovers from
  a crash; and it has all of those since, unless that `create` hit users. `CreatorKeepsName`: a creator
  that meets no other keeps its name; no failure, drop or death of an opened handle takes it.
* `LockProgress`, `StaleWaiterReturns`: progress inside the lock and the condition variable.

Runs expected to fail. Each checks one statement taken from a comment or a test, on the smallest
instance where the code contradicts it:

| Run | Statement | What the code does |
|---|---|---|
| `policy_wakeup` | a writer wakes when the policy is satisfied (`tests.rs:188`) | `readers_state` is loaded (`mod.rs:86`) before the ticket is taken (`mod.rs:90`); a release in between is lost |
| `guard_lifetime` | the owner of the mapping is kept alive alongside the guard (`guards.rs:26`) | the handle is dropped before the guard; if it was the last reference, the guard's destructor writes to memory that is unmapped |

More disagreements were met while modelling and have no run of their own. Most are visible in what
the passing properties except:

* a writer that gives up on `stop` lowers the flag without notifying, and a reader of an unread
  message that slept because of it is not woken (`mod.rs:115`, against `mod.rs:318`); with it a
  background thread may never end (against `rs_ipc.pyi:250`). Hence `StopReleasesIdleReaders` is about
  readers without new data, and the exceptions `unmarked` and `Stranded`;
* after an abandoned write the flag stays up with nobody to lower it, and a poll with an unread
  message sleeps until another write (`mod.rs:277`, against `rs_ipc.pyi:193` and `mod.rs:257`); hence
  the exceptions `LeftUp` and `Stranded`;
* a second `create` on a name that is in use empties the segment under its users, and whichever of
  the two creators fails or is dropped first (`memory_mapper.rs:40`, `53`, `122`) takes the name from the
  other (against `rs_ipc.pyi:11`); hence the exceptions `reused` and `rivals`;
* the bytes of a write guard dropped unpublished become readable when a later writer gives up on
  `stop` (`mod.rs:116`, against `rs_ipc.pyi:123`); hence the exception in `GuardIntegrity`. Until
  then the flag hides the message published before;
* `remove_reader` lowers what the policy asks for and notifies nobody (`mod.rs:340`): a writer that
  waits for the reader that left sleeps on;
* `publish` of a guard taken before `stop` goes through after it;
* the reads of a reader that has left still count for those that stay.

### Bounds

* `WriteLimit` stops new calls of `write` at that sequence number; with `SequenceMask` below it
  (`handover`, `progress`) the sequence wraps first and writing goes on for ever.
  Otherwise up to two messages are published, the least at which a message has a predecessor.
* `handover` has messages of one kind: what it checks does not depend on the bytes. Messages that
  differ in size are in `lifecycle`, and `GuardIntegrity` is proved for all of them.
* Two writers are needed for a second `start_write` to find what the first left; two readers
  for a count that is not simply on or off, and for a retry beside a held guard. Mutual exclusion
  inside the lock and the aliasing of tickets need three threads.
* `U16Max = 3` can count the readers there are and leaves one value to spare; the proofs are for any
  width that can count them. A counter of readers that overflows is excluded, as `add_reader` does
  by panicking.
* A sequence that wraps at 2 makes a reader that sleeps through two messages mistake the third
  for the one it has; with 62 bits this needs as many messages during one sleep, and no property
  depends on it.
* `Condvar` excludes a counter that comes all the way round to a ticket still in use (2^32
  notifications within one wait); the guard of `Increment` says so.
* `handles` has one producing thread, which is enough for two writer threads of one handle to be
  alive (stop, then write again), and two consuming threads for the unlocked stores. Two messages
  suffice to see one reordered, repeated or skipped.
* `words`: with 4 values a field of `readers_state` wraps, meets `add_reader`'s limit (two readers of
  other processes are there from the start), and leaves room for a carry into its neighbour to
  show; 3 sequence numbers wrap and skip zero. Two threads are enough for a retry, and one thread
  may beat the other any number of times.
* `mapper`: the header is as small as it can be (`Header = 1`) and the size above it. One size is
  enough: a segment is resized once for each `create`, a second one is `reused`, and a mapping that is
  too large or too small is seen against a size of zero. Three handles allow two creators and a third
  that opens, fails or dies; two segments one that has the name and one that has lost it. The proofs
  have any number of each. `DeathLimit` bounds the registered readers that die between two `create`
  calls, so that the count in the header stays finite.
* `guards`: guard objects are reused, so few suffice; two read guards beside a write guard show a
  count that is not on or off. Two bytes allow a message shorter than the one before, chunks, and a
  `seek` past the end (`Positions`); two messages allow stale bytes. The policy is `Count(0)`, so a writer
  does not wait for reads, only for guards.
* Deadlock is not checked in the `SharedMessage`, `PythonMessage` and `PythonGuards` runs: clients may stop calling, and after
  `stop` the system does stop. What must go on is stated as liveness.

### Fairness

`Fairness` is weak fairness of the steps a thread takes by itself inside a call: the operating
system schedules every runnable thread, `futex_wait` returns when the ticket is stale, and a
client that holds a guard publishes or drops it. Nothing obliges a client to call, a kernel
to wake a sleeper unasked (`SpuriousWakeup`), or the lock to be fair: `LockWriter` has weak
fairness only, so a writer may be overtaken for ever. `StopReleasesWriters` does not need more,
since no new write starts after `stop`.

In `PythonMessage`, weak fairness of a step that uses the slot says that a call of the slot returns when
it can. Only what `SharedMessage` provides is assumed:

* `Mark` has none: the policy loop loses wake-ups (`policy_wakeup`, and a reader that leaves). No property
  depends on a write getting past it, and after `stop` `StopReleasesWriters` gets it out.
* `Acquire` has it while `~unmarked` only. Until a write gives up with the flag up, a reader with an
  unread message and the flag down is not left asleep, which is the theorem
  `SharedMessageReaderWakeup`; afterwards it may have been.
* `Publish`, `GiveUp` and `Abandon` have it together: `DrainCompletes` gets a marked writer to the buffer or
  out, and a client ends its guard one way or the other.

In `PackedWords`, weak fairness of a thread inside a call says that it is scheduled and that
`compare_exchange_weak` does not fail spuriously for ever.

## Proofs

All theorems hold for every value of the constants that satisfies the named assumptions of the
modules, which TLC evaluates in the runs:

* `SharedMessage`: writers, readers and `NoThread` are different; payloads are naturals and `Mixed` is
  not one; the widths are positive and `U16Max` can count the readers; the policy's targets fit in
  16 bits.
* `PackedWords`: fields have at least two values; `NoCall` is not a call. The widths need not be powers
  of two, nor those of the code.
* `PythonMessage`: the threads of the two handles, the background threads and `Nobody` are different; channels
  are numbered from 1, 0 being no channel; the sequence numbers are more than the messages written
  (`SequenceMask > MessageLimit`): 2^62 are not used up. Neither the threads nor the channels need be finite in number.
* `MemoryMapper`, `PythonGuards`: finitely many processes and guard objects, since both count them;
  every size is above the header, since `create` adds the capacity to it (`message.rs:45`), which
  is at least a megabyte.

Each argument is an inductive invariant; the property itself is one in few cases.

`SharedMessageProofs`:

* `SharedMessageTypes`: `TypeOK` is inductive as it stands, since every update of a packed word
  is within its width (`WordUpdates`).
* `SharedMessageExclusion`: `ReadWriteExclusion` is not inductive. `ExclusionInv` adds that whoever is
  past `lock()` owns the mutex (`WriterHolds`), that the flag is up from `MarkWriting` until
  the same writer lowers it (`MarkedWriting`; needs the mutex), and that `active_readers` is exactly
  the number of registered readers (`ActiveCount`; needs that the field cannot wrap). The two steps that
  could bring the sides together are then impossible: `DrainActive` with a zero count finds no reader
  registered, `Verify` with the flag down finds no owner.
* `SharedMessageGuardIntegrity`: `IntegrityInv`, on top of `ExclusionInv`, says that the buffer is
  clean whenever the flag is down (`CleanWhenIdle`), that before any write was dropped it is clean
  unless an owner is busy with it (`CleanUnlessDirty`), that the owner's bytes are those of its
  job (`FilledData`), that a guard's sequence is the current one (`GuardCurrent`), and that the flag
  is lowered without a publish only after `stop` (`UnmarkStopped`), which is where the exception in
  the statement comes from.
* `SharedMessageReaderWakeup`, `SharedMessagePollWaits`: what a reader found when it loaded the word
  stays true until it is notified. The invariant ties the flag to the progress of `stop`
  (`StopFlagged`) and needs `UnmarkStopped`: the flag goes down under a sleeping reader by a publish,
  which notifies, or by giving up, which is `unmarked`. A flag that is up has a writer that raised it
  or was left by an abandoned write (`FlagOwned`).
* `SharedMessageDrainWakeup`: `DrainWakeup` is not inductive. `DrainReaders` extends it backwards from the
  wait to the check of `active_readers`, since the readers may leave, and notify, while the writer looks
  for `stop`; `DrainStop` says that a ticket still current after a `stop` has its third step to come.

`PolicyProofs`:

* `SharedMessageCountExact`: `data_consumed` is the number of different readers that are done with the
  message (`ConsumedCount`), except between its reset and the publish. `CountInv` adds why no reader counts
  twice: whoever is in `consumedBy` has `seen` the current sequence (`ConsumedSeen`), and a reader past its
  load goes for one it has not seen (`SnapFresh`); and that the count is still zero at the publish
  (`PublishZero`; needs that no reader holds a guard then).
* `SharedMessagePolicy`: `PolicyRespected` follows by carrying the comparison of the policy loop to the
  publish. Its hypothesis `"join" \notin Ops` says that no reader registers while the system runs. It is
  needed: `add_reader` raises what the policy asks for behind a writer that has already checked it. Readers
  may leave and targets change at any time.
* `SharedMessageImplementsSlot`, under the same hypothesis: raising and lowering the flag, `publish_write`'s exchange, the second load of
  `read`, the release of a guard, `set_target_read_count`, `remove_reader` and `stop` are the steps of
  `Slot`; all others are stutters. Exclusion gives that nobody holds a guard at a publish, integrity that a
  guard is on the published message, the policy that it may be replaced.

`FutexLockProofs`, `CondvarProofs`:

* `FutexLockExclusion`, `FutexLockCoversSleepers`, `FutexLockRefinesMutex`: a thread past `lock()` implies
  a word that is not `UNLOCKED`; the refinement maps the holder to the abstract owner.
* `CondvarCoversSleepers`, `CondvarRefinesEventCount`: the refinement maps the tickets equal to the counter
  to `fresh`; it needs that an increment meets no ticket in use.

`PackedWordsProofs`:

* The digits of a sum of shifted fields are the fields (`DigitsUnique`, `Digits`), so both conversions are
  inverse to packing (`ReadersRoundTrip`, `SequenceRoundTrip`), `fetch_or` and `fetch_and` touch their flag
  only (`FetchSets`), and what `publish_write` stores is the next sequence with the stopped flag kept
  (`PublishedWord`).
* `PackedWordsTypes`, `PackedImplementWords`, `PackedStopSticks`: `WordsInv` adds to the types which loop
  a call is in (`Stage`) and that at its exchange a thread has a word on which its closure did not panic
  (`Checked`). An exchange that succeeds found the word it loaded, and is the abstract step; a failed one,
  a load and the start of a call are stutters or the call's own step of `Words`.

`MemoryMapperProofs`:

* `MapperMappingBacked`, `MapperCreatorKeepsName`: `SizeInv` says that a creator not among the `rivals` is
  the only one, and has the name from `shm_open` to `shm_unlink` (`CreatorNamed`); that a segment not emptied in
  use has one creator at most (`OneCreator`), is empty until that one resizes it (`EmptyUntilResized`), and
  that a size of it read by `fstat` is zero or still right (`StatSize`).
* `MapperNoGhosts`, `MapperTypes`: the count and the lock of a header are followed segment by segment.
  `WriterAlone` adds that a segment is locked for one living handle or for a dead one, not both.

`PythonMessageProofs`, with the steps split by side (`NextCases`) and one frame lemma for each
(`WriterFrame`, `ReaderFrame`):

* `HandlesLastWrittenGrows`: `StoreInv`, that only one writer thread of a `WriteAsync` handle has a sequence to
  store and that it is the newest, rests on `WriteInv`. Its part `Channelled` says that two channels have been made
  only after a `stop`, so that of their threads one at most is past `start_write`: the other finds the flag and
  ends. `Queued` numbers what is in the queue without a gap, and `Counted` counts the messages that
  `WriteSync` threads still hold; both give that a publish never exceeds the messages accepted, so that the
  sequence does not wrap. `Recorded` says that the slot holds what was sent under its number.
* `HandlesLastReadGrows`: `ReadInv`. A guard is on the message in the slot as long as it is held (`Guarded`), since a
  publish waits for guards; no remembered sequence is ahead of the slot's (`Behind`); the receiver's mutex is
  held from `lock()` to the store (`Locked`); and from `last_read` over the message in hand and `inbox` to what the
  background thread has read the numbers grow (`Rising`). No hypothesis on the policy: messages may be
  missed, yet none is reported late.
* `HandlesDeliveredInOrder`, where the policy waits (`to_count(Policy) # 0`; with `Count(0)` a message may be
  overwritten unread and the property is false): `DeliveryInv`, on top of the two. While the reading handle is open
  the slot is at most one message ahead of it and level with it once consumed (`SyncDelivery`); for `ReadAsync`
  the delivered messages, the one in hand, `inbox` and the one the background thread is sending are
  numbered 1, 2, 3, ... without a gap (`AsyncDelivery`), and each is what was sent under its number (`Genuine`). A handle
  that was dropped delivers nothing (`Closed`), so that the promise may lapse with it.

`PythonGuardsProofs`, with one invariant `GuardsInv`:

* All rest on `RefInv`: what a variable, a view or a guard refers to exists.
* `GuardsReleasedOnce`: `HoldInv`, `active_readers` is the number of read guards not yet dropped, a write guard
  holds the slot exactly if it owns the mutex, and the flag keeps readers and writer apart.
* `GuardsShowMessage`, `GuardsChunksInOrder`, `GuardsNoStaleBytes`, `GuardsTypes`: `DataInv`, while the flag is
  down the buffer is the message (`Settled`), and a write guard used without `seek` has written the buffer up
  to its cursor for the message to come (`Written`).

Only model-checked: every liveness property, since the prover has neither fairness nor `ENABLED`:
`ReaderGetsMessage`, `DrainCompletes`, `StopReleasesWriters`, `StopReleasesIdleReaders`, `LockProgress`,
`StaleWaiterReturns`, `RetryEnds`, `StopEndsWriters`, `StopEndsBackground`, `StopReleasesConsumers`, `PollReturns`. Every
other property of a passing run is a theorem.

## Not modelled

All components with state have a module, and every safety property that a passing run checks is proved.

Left out of `PythonMessage`: several handles of a kind, so that the effect of a dropped `ReadAsync` handle
or of a `ReadSync` handle shared by two threads on the *other* readers is not stated; `read_guard` on
a `ReadAsync` and `write_guard` on a `WriteAsync` handle, which go past the queue. Adding the guards on
async handles was tried and takes the run beyond any useful time. `read_all` on a handle opened for
writing, which no check refuses (`python/mod.rs:38`). `RustPyBytes` is a private copy of a message and has
no state of its own.

Left out of `PythonGuards`: reading through a view whose guard was left, which the code does not
make safe once the handle is gone as well. Left out of `MemoryMapper`: the mapping that leaks when the cast is refused (`memory_mapper.rs:95`), and the policy being
set after the name is visible (`message.rs:47`), which needs it composed with `SharedMessage`.

Nor are there modules for: the benchmarks, `notify_one` (unused), the getters of `SharedMessage` (they change
nothing), weak memory, and, in `SharedMessage`, a process that dies with the lock or a registration held:
the code recovers from neither but by `create` (`NoGhosts`), so safety is what the model says of a
thread that takes no more steps, and progress is lost.
