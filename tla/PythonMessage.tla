--------------------------- MODULE PythonMessage ---------------------------
(***************************************************************************)
(* The Python handles of python/message.rs over the slot: one handle that  *)
(* writes and one that reads, each used by several interpreter threads, in *)
(* any of their operation modes.  WriteAsync puts a queue and a background *)
(* thread before the slot, ReadAsync a background thread and a queue       *)
(* behind it.                                                              *)
(*                                                                         *)
(* The slot is the abstract one that SharedMessage implements.  The GIL is *)
(* released around every call that may block and the module does not need  *)
(* it otherwise (python/mod.rs:20), so threads interleave freely.  What    *)
(* runs under the mutex around the sender is one step, since nothing in it *)
(* blocks; the mutex around the receiver is held during recv() and is      *)
(* modelled as such.                                                       *)
(***************************************************************************)
EXTENDS Naturals, Sequences

CONSTANTS
    Producers,    \* threads that use the writing handle
    Consumers,    \* threads that use the reading handle
    Background,   \* the thread of a ReadAsync handle
    Nobody,       \* the owner of a free receiver mutex
    Channels,     \* 1..n: bound on the channels a WriteAsync handle makes
    Policy,       \* the ReaderWaitPolicy of create(): All or the n of Count(n)
    All,          \* ReaderWaitPolicy::All
    U16Max,       \* largest u16
    MessageLimit, \* bound: the messages writers are given
    SequenceMask  \* largest sequence number, above MessageLimit

Readers == Consumers \cup {Background}
Writers == Producers \cup Channels
Actors  == Readers \cup Writers

ASSUME HandleAssumption ==
    /\ Nobody \notin Consumers
    /\ Channels \subseteq Nat \ {0}
    /\ Producers \cap Channels = {}
    /\ Readers \cap Writers = {}
    /\ Background \notin Consumers
    /\ U16Max \in Nat \ {0}
    /\ Policy \in 0..U16Max \cup {All}
    /\ MessageLimit \in Nat
    /\ SequenceMask \in Nat
    /\ SequenceMask > MessageLimit

VARIABLES
    writeMode, readMode,  \* op_mode of the two handles
    sequence, message, stopped, writing, holding, consumed, need, seen,  \* the slot
    sender,               \* the open channel of the writing handle, 0 if none
    queue,                \* contents of each channel
    receiver,             \* who holds the mutex around the receiver
    inbox,                \* contents of the reading handle's channel
    last_written, last_read,
    pc,                   \* where each thread is
    item,                 \* the message a thread is busy with
    block,                \* the block argument of read()
    open,                 \* the handles that are not dropped
    accepted,             \* history: number of messages writers were given
    sent,                 \* history: messages in the order write() took them
    delivered,            \* history: what read() returned, with its sequence
    unmarked              \* history: some write gave up with the flag up

slot    == <<sequence, message, stopped, writing, holding, consumed, need, seen>>
channel == <<sender, queue, inbox>>
modes   == <<writeMode, readMode>>
history == <<accepted, sent, delivered, unmarked>>
vars    == <<modes, slot, channel, receiver, last_written, last_read, pc, item, block,
             open, history>>

Shared == INSTANCE Slot WITH Messages <- 1..MessageLimit

to_count(policy) == IF policy = All THEN U16Max ELSE policy

NoItem == [sequence |-> 0, message |-> 0]

Goto(t, from, to) == pc[t] = from /\ pc' = [pc EXCEPT ![t] = to]

\* create() and open() are done: the reader is registered and, for ReadAsync,
\* the background thread runs.
Init ==
    /\ writeMode \in {"WriteSync", "WriteAsync"}
    /\ readMode \in {"ReadSync", "ReadAsync"}
    /\ need = IF to_count(Policy) = 0 THEN 0 ELSE 1
    /\ Shared!Init
    /\ sender = 0
    /\ queue = [g \in Channels |-> <<>>]
    /\ receiver = Nobody
    /\ inbox = <<>>
    /\ last_written = 0
    /\ last_read = 0
    /\ pc = [t \in Actors |->
                CASE t \in Channels   -> "unborn"
                  [] t = Background   -> IF readMode = "ReadAsync" THEN "check" ELSE "ended"
                  [] OTHER            -> "idle"]
    /\ item = [t \in Actors |-> NoItem]
    /\ block = [c \in Consumers |-> TRUE]
    /\ open = {"write", "read"}
    /\ accepted = 0
    /\ sent = <<>>
    /\ delivered = <<>>
    /\ unmarked = FALSE

----------------------------------------------------------------------------
(* write(), write_guard(): the handle's calling thread.                    *)

NewMessage == accepted + 1

\* write_sync or write_guard is called: start_write refuses when stopped.
WriteSync(p) ==
    /\ writeMode = "WriteSync"
    /\ "write" \in open
    /\ accepted < MessageLimit
    /\ ~stopped
    /\ Goto(p, "idle", "writing")
    /\ item' = [item EXCEPT ![p].message = NewMessage]
    /\ accepted' = NewMessage
    /\ UNCHANGED <<modes, slot, channel, receiver, last_written, last_read, block, open,
                   sent, delivered, unmarked>>

\* Alive as long as its thread is: a thread that ends drops the receiver.
Alive(g) == pc[g] \notin {"unborn", "ended"}

\* Wrong variant: the new message goes to the front of the queue.
EnqueueFirst(g, m) == queue' = [queue EXCEPT ![g] = <<m>> \o @]

Enqueue(g, m) == queue' = [queue EXCEPT ![g] = Append(@, m)]

\* write_async: the first write, and the first after a stop(), makes a channel
\* and its thread; a channel whose thread has ended refuses the message.
WriteAsync(p) ==
    /\ writeMode = "WriteAsync"
    /\ "write" \in open
    /\ accepted < MessageLimit
    /\ pc[p] = "idle"
    /\ \/ /\ sender # 0
          /\ Alive(sender)
          /\ Enqueue(sender, NewMessage)
          /\ UNCHANGED <<sender, pc>>
       \/ /\ sender = 0
          /\ \E g \in Channels :
                /\ pc[g] = "unborn"
                /\ \A h \in Channels : h < g => pc[h] # "unborn"
                /\ sender' = g
                /\ Enqueue(g, NewMessage)
                /\ pc' = [pc EXCEPT ![g] = "recv"]
    /\ accepted' = NewMessage
    /\ sent' = Append(sent, NewMessage)
    /\ UNCHANGED <<modes, slot, inbox, receiver, last_written, last_read, item, block,
                   open, delivered, unmarked>>

----------------------------------------------------------------------------
(* The writer thread of a channel, and the write both kinds of writer make.*)

\* recv(): what is queued comes first, then the error that the sender is gone.
WriterRecv(g) ==
    \/ /\ queue[g] # <<>>
       /\ Goto(g, "recv", "start")
       /\ item' = [item EXCEPT ![g].message = Head(queue[g])]
       /\ queue' = [queue EXCEPT ![g] = Tail(@)]
       /\ UNCHANGED <<modes, slot, sender, inbox, receiver, last_written, last_read,
                      block, open, history>>
    \/ /\ queue[g] = <<>>
       /\ sender # g
       /\ Goto(g, "recv", "ended")
       /\ UNCHANGED <<modes, slot, channel, receiver, last_written, last_read, item, block,
                      open, history>>

\* Wrong variant: the thread writes on after a stop.
WriterStartUnchecked(g) ==
    /\ Goto(g, "start", "writing")
    /\ UNCHANGED <<modes, slot, channel, receiver, last_written, last_read, item, block,
                   open, history>>

\* write_slice begins: a stopped message ends the thread, and its queue.
WriterStart(g) ==
    /\ Goto(g, "start", IF stopped THEN "ended" ELSE "writing")
    /\ queue' = IF stopped THEN [queue EXCEPT ![g] = <<>>] ELSE queue
    /\ UNCHANGED <<modes, slot, sender, inbox, receiver, last_written, last_read, item,
                   block, open, history>>

\* start_write has writer_mutex, the policy is satisfied and the flag goes up.
Mark(w) ==
    /\ \A v \in Writers : pc[v] # "marked"
    /\ Goto(w, "writing", "marked")
    /\ Shared!Mark
    /\ UNCHANGED <<modes, channel, receiver, last_written, last_read, item, block, open,
                   history>>

\* The message is in the slot; its sequence is still to be stored.
Publish(w) ==
    /\ Goto(w, "marked", "store")
    /\ Shared!Publish(item[w].message)
    /\ item' = [item EXCEPT ![w].sequence = sequence']
    /\ sent' = IF writeMode = "WriteSync" THEN Append(sent, item[w].message) ELSE sent
    /\ UNCHANGED <<modes, channel, receiver, last_written, last_read, block, open,
                   accepted, delivered, unmarked>>

\* start_write returns None after a stop: before it has raised the flag, or
\* because of a reader, when it lowers the flag and notifies nobody.
GiveUp(w) ==
    /\ \/ /\ pc[w] = "writing"
          /\ stopped
          /\ UNCHANGED <<slot, unmarked>>
       \/ /\ pc[w] = "marked"
          /\ \E r \in Readers : pc[r] = "reading" \/ r \in holding
          /\ Shared!Unmark
          /\ unmarked' = TRUE
    /\ pc' = [pc EXCEPT ![w] = IF w \in Channels THEN "ended" ELSE "idle"]
    /\ queue' = IF w \in Channels THEN [queue EXCEPT ![w] = <<>>] ELSE queue
    /\ item' = [item EXCEPT ![w] = NoItem]
    /\ UNCHANGED <<modes, sender, inbox, receiver, last_written, last_read, block, open,
                   accepted, sent, delivered>>

\* A write_guard is dropped unpublished; its flag stays up.
Abandon(p) ==
    /\ holding = {}
    /\ Goto(p, "marked", "idle")
    /\ item' = [item EXCEPT ![p] = NoItem]
    /\ UNCHANGED <<modes, slot, channel, receiver, last_written, last_read, block, open,
                   history>>

StoreWritten(w) ==
    /\ Goto(w, "store", IF w \in Channels THEN "recv" ELSE "idle")
    /\ last_written' = item[w].sequence
    /\ item' = [item EXCEPT ![w] = NoItem]
    /\ UNCHANGED <<modes, slot, channel, receiver, last_read, block, open, history>>

----------------------------------------------------------------------------
(* stop(), and the drop of the writing handle.                             *)

StopShared(p) ==
    /\ "write" \in open
    /\ Goto(p, "idle", "closing")
    /\ Shared!Stop
    /\ UNCHANGED <<modes, channel, receiver, last_written, last_read, item, block, open,
                   history>>

\* Wrong variant: the sender stays where it is.
StopCloseMissing(p) ==
    /\ Goto(p, "closing", "idle")
    /\ UNCHANGED <<modes, slot, channel, receiver, last_written, last_read, item, block,
                   open, history>>

StopClose(p) ==
    /\ Goto(p, "closing", "idle")
    /\ sender' = 0
    /\ UNCHANGED <<modes, slot, queue, inbox, receiver, last_written, last_read, item,
                   block, open, history>>

\* stop() on the reading handle, which has no sender to close: the writing one
\* keeps its channel.
StopReading(c) ==
    /\ "read" \in open
    /\ pc[c] = "idle"
    /\ Shared!Stop
    /\ UNCHANGED <<modes, channel, receiver, last_written, last_read, pc, item, block,
                   open, history>>

\* The interpreter drops a handle when no call uses it any more.
DropWriteHandle ==
    /\ "write" \in open
    /\ \A p \in Producers : pc[p] = "idle"
    /\ open' = open \ {"write"}
    /\ sender' = 0
    /\ UNCHANGED <<modes, slot, queue, inbox, receiver, last_written, last_read, pc, item,
                   block, history>>

----------------------------------------------------------------------------
(* read() and read_guard() on a ReadSync handle.                           *)

LoadLastRead(c) ==
    /\ readMode = "ReadSync"
    /\ "read" \in open
    /\ Goto(c, "idle", "reading")
    /\ seen' = [seen EXCEPT ![c] = last_read]
    /\ \E b \in BOOLEAN : block' = [block EXCEPT ![c] = b]
    /\ UNCHANGED <<modes, sequence, message, stopped, writing, holding, consumed, need,
                   channel, receiver, last_written, last_read, item, open, history>>

Acquire(r) ==
    /\ Goto(r, "reading", "copy")
    /\ Shared!Acquire(r)
    /\ item' = [item EXCEPT ![r] = [sequence |-> sequence, message |-> message]]
    /\ UNCHANGED <<modes, channel, receiver, last_written, last_read, block, open, history>>

ReadNone(c) ==
    /\ sequence = seen[c]
    /\ stopped \/ ~block[c]
    /\ Goto(c, "reading", "idle")
    /\ block' = [block EXCEPT ![c] = TRUE]
    /\ UNCHANGED <<modes, slot, channel, receiver, last_written, last_read, item,
                   open, history>>

\* read_all() and read_all_map() have a pool of threads call read(false) on the
\* handles they are given; one that is listed twice is read by two at once.
ReadAll ==
    /\ "read" \in open
    /\ \A c \in Consumers : pc[c] = "idle"
    /\ block' = [c \in Consumers |-> FALSE]
    /\ pc' = [t \in Actors |->
                 IF t \notin Consumers THEN pc[t]
                 ELSE IF readMode = "ReadSync" THEN "reading" ELSE "lock"]
    /\ seen' = [r \in Readers |->
                   IF r \in Consumers /\ readMode = "ReadSync" THEN last_read ELSE seen[r]]
    /\ UNCHANGED <<modes, sequence, message, stopped, writing, holding, consumed, need,
                   channel, receiver, last_written, last_read, item, open, history>>

\* The sequence is stored while the guard is held.
StoreRead(c) ==
    /\ Goto(c, "copy", "drop")
    /\ last_read' = item[c].sequence
    /\ UNCHANGED <<modes, slot, channel, receiver, last_written, item, block, open, history>>

\* read() has copied the bytes, or the holder of a ReadGuard lets go of it.
DropGuard(c) ==
    /\ Goto(c, "drop", "idle")
    /\ Shared!Release(c)
    /\ delivered' = Append(delivered, item[c])
    /\ item' = [item EXCEPT ![c] = NoItem]
    /\ block' = [block EXCEPT ![c] = TRUE]
    /\ UNCHANGED <<modes, channel, receiver, last_written, last_read, open,
                   accepted, sent, unmarked>>

----------------------------------------------------------------------------
(* The background thread of a ReadAsync handle.                            *)

\* Wrong variant: the loop does not look at the flag.
BackgroundCheckBlind ==
    /\ Goto(Background, "check", "reading")
    /\ UNCHANGED <<modes, slot, channel, receiver, last_written, last_read, item, block,
                   open, history>>

BackgroundCheck ==
    /\ Goto(Background, "check", IF stopped THEN "ended" ELSE "reading")
    /\ UNCHANGED <<modes, slot, channel, receiver, last_written, last_read, item, block,
                   open, history>>

BackgroundNone ==
    /\ stopped
    /\ sequence = seen[Background]
    /\ Goto(Background, "reading", "check")
    /\ UNCHANGED <<modes, slot, channel, receiver, last_written, last_read, item, block,
                   open, history>>

\* The bytes are copied and the guard is dropped before the message is sent on.
BackgroundRelease ==
    /\ Goto(Background, "copy", "send")
    /\ Shared!Release(Background)
    /\ UNCHANGED <<modes, channel, receiver, last_written, last_read, item, block, open,
                   history>>

\* send() fails once the handle, and with it the receiver, is dropped.
BackgroundSend ==
    /\ Goto(Background, "send", IF "read" \in open THEN "check" ELSE "ended")
    /\ inbox' = IF "read" \in open THEN Append(inbox, item[Background]) ELSE inbox
    /\ item' = [item EXCEPT ![Background] = NoItem]
    /\ UNCHANGED <<modes, slot, sender, queue, receiver, last_written, last_read,
                   block, open, history>>

----------------------------------------------------------------------------
(* read() on a ReadAsync handle.                                           *)

ReadAsync(c) ==
    /\ readMode = "ReadAsync"
    /\ "read" \in open
    /\ Goto(c, "idle", "lock")
    /\ \E b \in BOOLEAN : block' = [block EXCEPT ![c] = b]
    /\ UNCHANGED <<modes, slot, channel, receiver, last_written, last_read, item, open,
                   history>>

LockReceiver(c) ==
    /\ receiver = Nobody
    /\ receiver' = c
    /\ Goto(c, "lock", "recv")
    /\ UNCHANGED <<modes, slot, channel, last_written, last_read, item, block, open,
                   history>>

\* Wrong variant: the mutex is free again before the sequence is stored.
RecvUnlocks(c) ==
    /\ inbox # <<>>
    /\ Goto(c, "recv", "storeAsync")
    /\ item' = [item EXCEPT ![c] = Head(inbox)]
    /\ inbox' = Tail(inbox)
    /\ receiver' = Nobody
    /\ UNCHANGED <<modes, slot, sender, queue, last_written, last_read, block, open,
                   history>>

\* recv() or try_recv() has a message.
Recv(c) ==
    /\ inbox # <<>>
    /\ Goto(c, "recv", "storeAsync")
    /\ item' = [item EXCEPT ![c] = Head(inbox)]
    /\ inbox' = Tail(inbox)
    /\ UNCHANGED <<modes, slot, sender, queue, receiver, last_written, last_read, block,
                   open, history>>

\* Wrong variants: recv() is called for try_recv(); recv() does not notice that
\* the thread is gone.
RecvNoneWaits(c) ==
    /\ inbox = <<>>
    /\ pc[Background] = "ended"
    /\ Goto(c, "recv", "idle")
    /\ receiver' = Nobody
    /\ UNCHANGED <<modes, slot, channel, last_written, last_read, item, block, open,
                   history>>

RecvNoneDeaf(c) ==
    /\ inbox = <<>>
    /\ ~block[c]
    /\ Goto(c, "recv", "idle")
    /\ receiver' = Nobody
    /\ UNCHANGED <<modes, slot, channel, last_written, last_read, item, block, open,
                   history>>

\* Nothing is queued: try_recv() returns, recv() does when the thread is gone.
RecvNone(c) ==
    /\ inbox = <<>>
    /\ ~block[c] \/ pc[Background] = "ended"
    /\ Goto(c, "recv", "idle")
    /\ receiver' = Nobody
    /\ block' = [block EXCEPT ![c] = TRUE]
    /\ UNCHANGED <<modes, slot, channel, last_written, last_read, item, open,
                   history>>

\* The sequence is stored with the mutex held.
StoreAsync(c) ==
    /\ Goto(c, "storeAsync", "idle")
    /\ last_read' = item[c].sequence
    /\ receiver' = Nobody
    /\ delivered' = Append(delivered, item[c])
    /\ item' = [item EXCEPT ![c] = NoItem]
    /\ block' = [block EXCEPT ![c] = TRUE]
    /\ UNCHANGED <<modes, slot, channel, last_written, open, accepted, sent,
                   unmarked>>

\* Drop: remove_reader, then the receiver goes.  The background thread stays
\* in its read() and finds out at its next send().
DropReadHandle ==
    /\ "read" \in open
    /\ \A c \in Consumers : pc[c] = "idle"
    /\ open' = open \ {"read"}
    /\ need' = 0
    /\ inbox' = <<>>
    /\ UNCHANGED <<modes, sequence, message, stopped, writing, holding, consumed, seen,
                   sender, queue, receiver, last_written, last_read, pc, item, block, history>>

----------------------------------------------------------------------------
ProducerStep(p) ==
    Publish(p) \/ GiveUp(p) \/ Abandon(p) \/ StoreWritten(p) \/ StopClose(p)
ChannelStep(g) ==
    WriterRecv(g) \/ WriterStart(g) \/ Publish(g) \/ GiveUp(g) \/ StoreWritten(g)
BackgroundStep ==
    BackgroundCheck \/ BackgroundNone \/ BackgroundRelease \/ BackgroundSend
ConsumerStep(c) ==
    \/ ReadNone(c) \/ StoreRead(c) \/ DropGuard(c)
    \/ LockReceiver(c) \/ Recv(c) \/ RecvNone(c) \/ StoreAsync(c)

Next ==
    \/ \E p \in Producers : WriteSync(p) \/ WriteAsync(p) \/ StopShared(p) \/ ProducerStep(p)
    \/ \E g \in Channels : ChannelStep(g)
    \/ \E w \in Writers : Mark(w)
    \/ \E c \in Consumers : LoadLastRead(c) \/ ReadAsync(c) \/ StopReading(c) \/ ConsumerStep(c)
    \/ BackgroundStep
    \/ \E r \in Readers : Acquire(r)
    \/ ReadAll
    \/ DropWriteHandle \/ DropReadHandle

Spec == Init /\ [][Next]_vars

\* Threads inside a call are scheduled, and a client that has a guard ends it.
\* The policy loop owes nobody a wake-up, so Mark has no fairness.  read() owes
\* a reader the unread message until some write gives up with the flag up
\* (ReaderWakeup of SharedMessage); from then on it may have been left asleep.
\* Nobody is obliged to write, to read, to stop or to drop a handle.
Fairness ==
    /\ \A p \in Producers : WF_vars(ProducerStep(p))
    /\ \A g \in Channels : WF_vars(ChannelStep(g))
    /\ \A c \in Consumers : WF_vars(ConsumerStep(c))
    /\ WF_vars(BackgroundStep)
    /\ \A r \in Readers : WF_vars(~unmarked /\ Acquire(r))

FairSpec == Spec /\ Fairness

----------------------------------------------------------------------------
\* With a policy that waits for the reading handle, read() returns what write()
\* took, in that order and with nothing left out, through both queues and
\* across stop(); a ReadAsync handle returns no message twice, and the threads
\* of a ReadSync handle repeat one at most while it is the newest.
DeliveredInOrder ==
    \A i \in DOMAIN delivered :
        LET before == IF i = 1 THEN 0 ELSE delivered[i - 1].sequence
        IN  /\ delivered[i].message = sent[delivered[i].sequence]
            /\ \/ delivered[i].sequence = before + 1
               \/ readMode = "ReadSync" /\ delivered[i].sequence = before

\* last_read_version() never goes back, although the threads of a handle store
\* it without a lock: each does so while it holds a guard, or the receiver.
LastReadGrows == [][last_read' >= last_read]_vars

\* last_written_version() of a WriteAsync handle never goes back, not even when
\* a stop() and a later write() leave two writer threads at work.
LastWrittenGrows == [][writeMode = "WriteAsync" => last_written' >= last_written]_vars

\* "eventually stops background threads" (rs_ipc.pyi:250): stop() on the writing
\* handle ends its writer thread, whether it sleeps, writes or has a queue.
StopEndsWriters ==
    \A p \in Producers, g \in Channels :
        pc[p] = "closing" /\ Alive(g) ~> pc[g] = "ended"

\* A reader that start_write has left asleep with an unread message: on the
\* flag of an abandoned write, or on one that was lowered on giving up.
Stranded(r) ==
    /\ pc[r] = "reading"
    /\ sequence # seen[r]
    /\ unmarked \/ (writing /\ \A w \in Writers : pc[w] # "marked")

\* The same of the thread of a ReadAsync handle, wherever stop() was called:
\* it ends unless it is stranded for good, which mod.rs:115 and mod.rs:277
\* allow and rs_ipc.pyi:250 does not mention.
StopEndsBackground ==
    stopped ~> pc[Background] = "ended" \/ []Stranded(Background)

\* read(block = false), alone or in read_all(), returns, unless another thread
\* of the ReadAsync handle has the receiver's mutex, which one that waits in
\* recv() keeps.  A poll of a ReadSync handle does wait for a writer that is at
\* work, and for ever when it is stranded (rs_ipc.pyi:193 says it does not).
PollReturns ==
    \A c \in Consumers :
        pc[c] \in {"reading", "lock", "recv"} /\ ~block[c] ~>
            pc[c] = "idle" \/ receiver \in Consumers \ {c} \/ []Stranded(c)

\* After a stop() a read() that waits, for the slot or for the queue, returns,
\* unless it or the thread that feeds its queue is stranded for good.
StopReleasesConsumers ==
    \A c \in Consumers :
        stopped /\ pc[c] \in {"reading", "recv"} ~>
            pc[c] = "idle" \/ []Stranded(c) \/ []Stranded(Background)
=============================================================================
