------------------------ MODULE PythonMessageProofs ------------------------
(***************************************************************************)
(* Proofs about PythonMessage, for any number of interpreter threads,      *)
(* channels and messages: messages are delivered in order and complete,    *)
(* and the version numbers of both handles only grow.                      *)
(***************************************************************************)
EXTENDS PythonMessage, FiniteSetTheorems, SequenceTheorems, TLAPS

----------------------------------------------------------------------------
(* Types, and where the threads can be in either mode.                     *)

Items == [sequence: Nat, message: Nat]

SlotTypes ==
    /\ sequence \in Nat
    /\ message \in Nat
    /\ stopped \in BOOLEAN
    /\ writing \in BOOLEAN
    /\ holding \subseteq Readers
    /\ consumed \in Nat
    /\ need \in Nat
    /\ seen \in [Readers -> Nat]

HandleTypes ==
    /\ writeMode \in {"WriteSync", "WriteAsync"}
    /\ readMode \in {"ReadSync", "ReadAsync"}
    /\ sender \in Channels \cup {0}
    /\ queue \in [Channels -> Seq(Nat)]
    /\ receiver \in Consumers \cup {Nobody}
    /\ inbox \in Seq(Items)
    /\ last_written \in Nat
    /\ last_read \in Nat
    /\ item \in [Actors -> Items]
    /\ accepted \in 0..MessageLimit
    /\ sent \in Seq(Nat)
    /\ delivered \in Seq(Items)

ProducerPlaces == IF writeMode = "WriteSync"
                  THEN {"idle", "writing", "marked", "store", "closing"}
                  ELSE {"idle", "closing"}
ChannelPlaces == IF writeMode = "WriteSync" THEN {"unborn"}
                 ELSE {"unborn", "recv", "start", "writing", "marked", "store", "ended"}
ConsumerPlaces == IF readMode = "ReadSync" THEN {"idle", "reading", "copy", "drop"}
                  ELSE {"idle", "lock", "recv", "storeAsync"}
BackgroundPlaces == IF readMode = "ReadSync" THEN {"ended"}
                    ELSE {"check", "reading", "copy", "send", "ended"}

Places ==
    /\ DOMAIN pc = Actors
    /\ \A p \in Producers : pc[p] \in ProducerPlaces
    /\ \A g \in Channels : pc[g] \in ChannelPlaces
    /\ \A c \in Consumers : pc[c] \in ConsumerPlaces
    /\ pc[Background] \in BackgroundPlaces

Types == SlotTypes /\ HandleTypes /\ Places

----------------------------------------------------------------------------
(* The writing side.                                                       *)

Busy == {p \in Producers : pc[p] \in {"writing", "marked"}}

\* Each message a WriteSync handle publishes was given to a thread of its own,
\* and is taken from it at the publish; one that is given up or abandoned is
\* published by nobody.
Counted ==
    writeMode = "WriteSync" =>
        IsFiniteSet(Busy) /\ sequence + Cardinality(Busy) <= accepted

\* Places between WriterStart and the end of StoreWritten.
InWrite(l) == l \in {"writing", "marked", "store"}

\* A second channel is made after a stop only, and so gets nothing to publish.
Channelled ==
    /\ \A p \in Producers : pc[p] = "closing" => stopped
    /\ sender # 0 => pc[sender] # "unborn"
    /\ \A g \in Channels : pc[g] = "unborn" => queue[g] = <<>>
    /\ "write" \in open /\ ~stopped /\ sender = 0 => \A g \in Channels : pc[g] = "unborn"
    /\ \A g, h \in Channels : pc[g] # "unborn" /\ pc[h] # "unborn" /\ g # h => stopped
    /\ \A g, h \in Channels :
          InWrite(pc[g]) /\ InWrite(pc[h]) => g = h

\* The last message that is published or about to be.
Taken(g) == IF pc[g] \in {"start", "writing", "marked"} THEN sequence + 1 ELSE sequence

\* The messages of the channel follow each other and those published before.
Lined(g) ==
    /\ pc[g] \in {"writing", "marked"} =>
          item[g].message = sequence + 1 /\ sequence < accepted
    /\ Alive(g) /\ ~stopped =>
          /\ pc[g] = "start" => item[g].message = sequence + 1
          /\ accepted = Taken(g) + Len(queue[g])
          /\ \A i \in 1..Len(queue[g]) : queue[g][i] = Taken(g) + i

Queued ==
    writeMode = "WriteAsync" =>
        /\ \A g \in Channels : Lined(g)
        /\ ~stopped /\ (\A g \in Channels : pc[g] = "unborn") => accepted = 0

\* What is in the slot is what was sent under this number.
Recorded ==
    /\ sequence <= accepted
    /\ sequence <= Len(sent)
    /\ sequence > 0 => message = sent[sequence]
    /\ writeMode = "WriteSync" => Len(sent) = sequence
    /\ writeMode = "WriteAsync" =>
          Len(sent) = accepted /\ \A i \in 1..Len(sent) : sent[i] = i

WriteInv == Counted /\ Channelled /\ Queued /\ Recorded

\* Only one thread of a WriteAsync handle has a sequence to store.
StoreInv ==
    writeMode = "WriteAsync" =>
        /\ last_written <= sequence
        /\ \A g \in Channels : pc[g] = "store" => item[g].sequence = sequence

----------------------------------------------------------------------------
(* The reading side.                                                       *)

\* A guard is on the message in the slot for as long as it is held.
Guarded ==
    /\ \A r \in Readers : r \in holding <=> pc[r] \in {"copy", "drop"}
    /\ \A r \in holding :
          sequence > 0 /\ item[r] = [sequence |-> sequence, message |-> message]

\* No sequence is ahead of the slot's.
Behind ==
    /\ last_read <= sequence
    /\ \A r \in Readers : seen[r] <= sequence

\* The receiver's mutex is held from lock() to the store.
Locked == \A c \in Consumers : pc[c] \in {"recv", "storeAsync"} <=> receiver = c

\* Between the background thread and last_read_sequence the numbers grow.
Rising ==
    readMode = "ReadAsync" =>
        /\ last_read <= seen[Background]
        /\ pc[Background] = "send" => item[Background].sequence = seen[Background]
        /\ \A i \in 1..Len(inbox) :
              last_read <= inbox[i].sequence /\ inbox[i].sequence <= seen[Background]
        /\ \A i, j \in 1..Len(inbox) : i <= j => inbox[i].sequence <= inbox[j].sequence
        /\ \A c \in Consumers : pc[c] = "storeAsync" =>
              /\ last_read <= item[c].sequence
              /\ item[c].sequence <= seen[Background]
              /\ \A i \in 1..Len(inbox) : item[c].sequence <= inbox[i].sequence

ReadInv == Guarded /\ Behind /\ Locked /\ Rising

----------------------------------------------------------------------------
(* Delivery, with a policy that waits.                                     *)

\* An item is a message as it was sent.
GenuineIn(s, x) == x.sequence \in 1..Len(s) /\ x.message = s[x.sequence]
Genuine(x) == GenuineIn(sent, x)

Last == IF delivered = <<>> THEN 0 ELSE delivered[Len(delivered)].sequence

\* The messages in hand between read() and the background thread.
InHand == IF \E c \in Consumers : pc[c] = "storeAsync" THEN 1 ELSE 0

\* The number of the last message the background thread has sent on.
Passed == Len(delivered) + InHand + Len(inbox)

Traced == \A i \in 1..Len(delivered) : Genuine(delivered[i])

\* A dropped handle is used no more.
Closed == "read" \notin open => \A c \in Consumers : pc[c] = "idle"

SyncDelivery ==
    readMode = "ReadSync" /\ "read" \in open =>
        /\ Last <= sequence /\ sequence <= Last + 1
        /\ consumed > 0 => Last = sequence

AsyncDelivery ==
    readMode = "ReadAsync" =>
        /\ \A i \in 1..Len(delivered) : delivered[i].sequence = i
        /\ "read" \in open =>
              /\ \A c \in Consumers : pc[c] = "storeAsync" =>
                    item[c].sequence = Len(delivered) + 1 /\ Genuine(item[c])
              /\ \A i \in 1..Len(inbox) :
                    inbox[i].sequence = Len(delivered) + InHand + i /\ Genuine(inbox[i])
              /\ pc[Background] = "copy" => sequence = seen[Background] + 1
              /\ pc[Background] = "send" => Genuine(item[Background])
              /\ seen[Background] = IF pc[Background] = "send" THEN Passed + 1 ELSE Passed
              /\ sequence <= seen[Background] + 1
              /\ consumed > 0 => sequence = seen[Background]

DeliveryInv ==
    /\ "read" \in open => need = 1
    /\ Closed
    /\ SyncDelivery
    /\ AsyncDelivery
    /\ Traced
    /\ DeliveredInOrder

----------------------------------------------------------------------------
(* The steps of Next, by side.                                             *)

\* The writing side, but for the publish itself.
WriterQuiet ==
    \/ \E p \in Producers : WriteSync(p) \/ WriteAsync(p) \/ StopShared(p) \/ StopClose(p)
    \/ \E w \in Writers : GiveUp(w) \/ StoreWritten(w)
    \/ \E w \in Writers : Mark(w)
    \/ \E p \in Producers : Abandon(p)
    \/ \E g \in Channels : WriterRecv(g) \/ WriterStart(g)
    \/ DropWriteHandle

CallStep(c) ==
    \/ LoadLastRead(c) \/ ReadAsync(c) \/ StopReading(c) \/ ReadNone(c) \/ StoreRead(c)
    \/ DropGuard(c) \/ LockReceiver(c) \/ Recv(c) \/ RecvNone(c) \/ StoreAsync(c)

ThreadStep ==
    BackgroundCheck \/ BackgroundNone \/ BackgroundRelease \/ BackgroundSend

ReaderSide ==
    \/ \E c \in Consumers : CallStep(c)
    \/ \E r \in Readers : Acquire(r)
    \/ ThreadStep
    \/ ReadAll
    \/ DropReadHandle

LEMMA NextCases ==
  ASSUME Next PROVE WriterQuiet \/ (\E w \in Writers : Publish(w)) \/ ReaderSide
  BY DEF Next, ProducerStep, ChannelStep, ConsumerStep, BackgroundStep, WriterQuiet, CallStep,
         ThreadStep, ReaderSide, Readers, Writers

LEMMA Kinds ==
  /\ \A p \in Producers : p \in Writers /\ p \in Actors /\ p \notin Channels /\ p \notin Readers
  /\ \A g \in Channels : /\ g \in Writers /\ g \in Actors /\ g \notin Producers /\ g \notin Readers
                         /\ g # 0 /\ g \in Nat
  /\ \A c \in Consumers : /\ c \in Readers /\ c \in Actors /\ c \notin Writers
                          /\ c # Background /\ c # Nobody
  /\ Background \in Readers /\ Background \in Actors /\ Background \notin Writers
  /\ Background \notin Consumers
  /\ \A w \in Writers : w \in Actors /\ w \notin Readers /\ (w \in Producers \/ w \in Channels)
  /\ \A r \in Readers : r \in Actors /\ r \notin Writers
  BY HandleAssumption DEF Readers, Writers, Actors

\* The steps that touch the flag, by what else they do.
LEMMA MarkFrame ==
  ASSUME NEW w \in Writers, Mark(w)
  PROVE  /\ Goto(w, "writing", "marked")
         /\ UNCHANGED <<modes, sequence, message, stopped, holding, consumed, need, seen>>
         /\ UNCHANGED <<channel, receiver, last_written, last_read, item, block, open, history>>
         /\ writing' = TRUE
  BY DEF Mark, Shared!Mark

LEMMA GiveUpFrame ==
  ASSUME NEW w \in Writers, GiveUp(w)
  PROVE  /\ pc[w] \in {"writing", "marked"} /\ stopped
         /\ pc' = [pc EXCEPT ![w] = IF w \in Channels THEN "ended" ELSE "idle"]
         /\ queue' = IF w \in Channels THEN [queue EXCEPT ![w] = <<>>] ELSE queue
         /\ item' = [item EXCEPT ![w] = NoItem]
         /\ UNCHANGED <<modes, sequence, message, stopped, holding, consumed, need, seen>>
         /\ UNCHANGED <<sender, inbox, receiver, last_written, last_read, block, open>>
         /\ UNCHANGED <<accepted, sent, delivered>>
         /\ writing' = writing \/ writing' = FALSE
  BY DEF GiveUp, Shared!Unmark, slot

\* What a handle's thread is busy with keeps its type.
LEMMA ItemTypes ==
  ASSUME HandleTypes, NEW t \in Actors, NEW n \in Nat
  PROVE  /\ NoItem \in Items
         /\ [item EXCEPT ![t] = NoItem] \in [Actors -> Items]
         /\ [item EXCEPT ![t].message = n] \in [Actors -> Items]
         /\ [item EXCEPT ![t].sequence = n] \in [Actors -> Items]
         /\ \A x \in Items : [item EXCEPT ![t] = x] \in [Actors -> Items]
  <1>1. item[t] \in Items /\ item \in [Actors -> Items]
    BY DEF HandleTypes
  <1>2. NoItem \in Items
    BY DEF NoItem, Items
  <1>3. [item[t] EXCEPT !.message = n] \in Items /\ [item[t] EXCEPT !.sequence = n] \in Items
    BY <1>1 DEF Items
  <1> QED
    BY <1>1, <1>2, <1>3

----------------------------------------------------------------------------
(* The types are invariant.                                                *)

LEMMA InitTypes == Init => Types
  <1> SUFFICES ASSUME Init PROVE Types
    OBVIOUS
  <1>1. SlotTypes
    BY DEF Init, Shared!Init, SlotTypes
  <1>2. HandleTypes
    <2>1. queue \in [Channels -> Seq(Nat)] /\ inbox \in Seq(Items) /\ sent \in Seq(Nat)
          /\ delivered \in Seq(Items)
      BY EmptySeq DEF Init
    <2>2. item \in [Actors -> Items]
      BY DEF Init, NoItem, Items
    <2>3. accepted \in 0..MessageLimit
      BY HandleAssumption DEF Init
    <2> QED
      BY <2>1, <2>2, <2>3 DEF Init, HandleTypes
  <1>3. Places
    BY Kinds DEF Init, Places, ProducerPlaces, ChannelPlaces, ConsumerPlaces, BackgroundPlaces
  <1> QED
    BY <1>1, <1>2, <1>3 DEF Types

\* A step of one thread.
LEMMA OneMoves ==
  ASSUME Places, UNCHANGED modes, NEW t \in Actors, NEW v, pc' = [pc EXCEPT ![t] = v],
         t \in Producers => v \in ProducerPlaces,
         t \in Channels => v \in ChannelPlaces,
         t \in Consumers => v \in ConsumerPlaces,
         t = Background => v \in BackgroundPlaces
  PROVE  /\ Places' /\ pc'[t] = v /\ \A u \in Actors \ {t} : pc'[u] = pc[u]
  <1>1. pc'[t] = v /\ (\A u \in Actors \ {t} : pc'[u] = pc[u]) /\ DOMAIN pc' = Actors
    BY DEF Places
  <1>2. /\ ProducerPlaces' = ProducerPlaces /\ ChannelPlaces' = ChannelPlaces
        /\ ConsumerPlaces' = ConsumerPlaces /\ BackgroundPlaces' = BackgroundPlaces
    BY DEF modes, ProducerPlaces, ChannelPlaces, ConsumerPlaces, BackgroundPlaces
  <1> QED
    BY <1>1, <1>2, Kinds DEF Places

LEMMA WriterPlaces ==
  ASSUME Types, WriterQuiet \/ \E w \in Writers : Publish(w)
  PROVE  Places'
  <1> USE DEF Types, Goto, ProducerPlaces, ChannelPlaces, ConsumerPlaces, BackgroundPlaces
  <1>1. ASSUME NEW p \in Producers, WriteSync(p) \/ StopShared(p) \/ StopClose(p)
        PROVE  Places'
    <2>1. PICK v \in {"idle", "writing", "closing"} :
             pc' = [pc EXCEPT ![p] = v] /\ (v = "writing" => writeMode = "WriteSync")
      BY <1>1 DEF WriteSync, StopShared, StopClose
    <2> QED
      BY <1>1, <2>1, OneMoves, Kinds DEF WriteSync, StopShared, StopClose
  <1>2. ASSUME NEW p \in Producers, WriteAsync(p) PROVE Places'
    <2>1. CASE UNCHANGED pc
      BY <1>2, <2>1 DEF WriteAsync, modes, Places
    <2>2. CASE \E g \in Channels : pc' = [pc EXCEPT ![g] = "recv"]
      BY <1>2, <2>2, OneMoves, Kinds DEF WriteAsync
    <2> QED
      BY <1>2, <2>1, <2>2 DEF WriteAsync
  <1>3. ASSUME NEW w \in Writers,
               GiveUp(w) \/ StoreWritten(w) \/ Mark(w) \/ Publish(w) \/ (w \in Producers /\ Abandon(w))
        PROVE  Places'
    <2>1. /\ pc[w] \in {"writing", "marked", "store"}
          /\ UNCHANGED modes
          /\ \E v \in {"ended", "recv", "idle", "store", "marked"} :
                /\ pc' = [pc EXCEPT ![w] = v]
                /\ v \in {"ended", "recv"} => w \in Channels
                /\ v = "idle" => w \in Producers
      BY <1>3, GiveUpFrame, MarkFrame, Kinds DEF StoreWritten, Publish, Abandon
    <2>2. PICK v \in {"ended", "recv", "idle", "store", "marked"} :
                /\ pc' = [pc EXCEPT ![w] = v]
                /\ v \in {"ended", "recv"} => w \in Channels
                /\ v = "idle" => w \in Producers
      BY <2>1
    <2>3. CASE w \in Producers
      <3>1. writeMode = "WriteSync"
        BY <2>1, <2>3 DEF Places
      <3>2. v \in ProducerPlaces
        BY <2>2, <2>3, <3>1, Kinds
      <3> QED
        BY <2>1, <2>2, <2>3, <3>2, OneMoves, Kinds
    <2>4. CASE w \in Channels
      <3>1. writeMode = "WriteAsync"
        BY <2>1, <2>4 DEF Places, HandleTypes
      <3>2. v \in ChannelPlaces
        BY <2>2, <2>4, <3>1, Kinds
      <3> QED
        BY <2>1, <2>2, <2>4, <3>2, OneMoves, Kinds
    <2> QED
      BY <2>3, <2>4, Kinds
  <1>4. ASSUME NEW g \in Channels, WriterRecv(g) \/ WriterStart(g) PROVE Places'
    <2>1. writeMode = "WriteAsync"
      BY <1>4 DEF WriterRecv, WriterStart, Places, HandleTypes
    <2>2. PICK v \in {"start", "ended", "writing"} : pc' = [pc EXCEPT ![g] = v]
      BY <1>4 DEF WriterRecv, WriterStart
    <2> QED
      BY <1>4, <2>1, <2>2, OneMoves, Kinds DEF WriterRecv, WriterStart
  <1>5. CASE DropWriteHandle
    BY <1>5 DEF DropWriteHandle, modes, Places
  <1> QED
    BY <1>1, <1>2, <1>3, <1>4, <1>5, Kinds DEF WriterQuiet

LEMMA ReaderPlaces ==
  ASSUME Types, ReaderSide PROVE Places'
  <1> USE DEF Types, Goto, ProducerPlaces, ChannelPlaces, ConsumerPlaces, BackgroundPlaces
  <1>1. ASSUME NEW c \in Consumers, LoadLastRead(c) \/ StoreRead(c) \/ ReadNone(c) \/ DropGuard(c)
        PROVE  Places'
    <2>1. readMode = "ReadSync"
      BY <1>1 DEF LoadLastRead, StoreRead, ReadNone, DropGuard, Places, HandleTypes
    <2>2. PICK v \in {"reading", "drop", "idle"} : pc' = [pc EXCEPT ![c] = v]
      BY <1>1 DEF LoadLastRead, StoreRead, ReadNone, DropGuard
    <2> QED
      BY <1>1, <2>1, <2>2, OneMoves, Kinds DEF LoadLastRead, StoreRead, ReadNone, DropGuard
  <1>2. ASSUME NEW c \in Consumers,
               ReadAsync(c) \/ LockReceiver(c) \/ Recv(c) \/ RecvNone(c) \/ StoreAsync(c)
        PROVE  Places'
    <2>1. readMode = "ReadAsync"
      BY <1>2 DEF ReadAsync, LockReceiver, Recv, RecvNone, StoreAsync, Places, HandleTypes
    <2>2. PICK v \in {"lock", "recv", "storeAsync", "idle"} : pc' = [pc EXCEPT ![c] = v]
      BY <1>2 DEF ReadAsync, LockReceiver, Recv, RecvNone, StoreAsync
    <2> QED
      BY <1>2, <2>1, <2>2, OneMoves, Kinds
      DEF ReadAsync, LockReceiver, Recv, RecvNone, StoreAsync
  <1>3. ASSUME NEW c \in Consumers, StopReading(c) PROVE Places'
    BY <1>3 DEF StopReading, modes, Places
  <1>4. ASSUME NEW r \in Readers, Acquire(r) PROVE Places'
    <2>1. r \in Consumers => "copy" \in ConsumerPlaces
      BY <1>4 DEF Acquire, Places, HandleTypes
    <2>2. r = Background => "copy" \in BackgroundPlaces
      BY <1>4 DEF Acquire, Places, HandleTypes
    <2> QED
      BY <1>4, <2>1, <2>2, OneMoves, Kinds DEF Acquire
  <1>5. CASE ThreadStep
    <2>1. readMode = "ReadAsync"
      BY <1>5 DEF ThreadStep, BackgroundCheck, BackgroundNone, BackgroundRelease, BackgroundSend,
         Places, HandleTypes
    <2>2. PICK v \in {"ended", "reading", "check", "send"} : pc' = [pc EXCEPT ![Background] = v]
      BY <1>5 DEF ThreadStep, BackgroundCheck, BackgroundNone, BackgroundRelease, BackgroundSend
    <2> QED
      BY <1>5, <2>1, <2>2, OneMoves, Kinds
      DEF ThreadStep, BackgroundCheck, BackgroundNone, BackgroundRelease, BackgroundSend
  <1>6. CASE ReadAll
    <2>1. \A t \in Actors : pc'[t] = IF t \notin Consumers THEN pc[t]
                                     ELSE IF readMode = "ReadSync" THEN "reading" ELSE "lock"
      BY <1>6 DEF ReadAll
    <2>2. DOMAIN pc' = Actors /\ UNCHANGED modes
      BY <1>6 DEF ReadAll
    <2> QED
      BY <2>1, <2>2, Kinds DEF modes, Places
  <1>7. CASE DropReadHandle
    BY <1>7 DEF DropReadHandle, modes, Places
  <1> QED
    BY <1>1, <1>2, <1>3, <1>4, <1>5, <1>6, <1>7 DEF ReaderSide, CallStep

\* What the writing side leaves alone.
LEMMA WriterFrame ==
  ASSUME Types, WriterQuiet \/ \E w \in Writers : Publish(w)
  PROVE  /\ UNCHANGED <<modes, holding, need, seen, receiver, inbox, last_read, delivered>>
         /\ \A r \in Readers : pc'[r] = pc[r] /\ item'[r] = item[r]
         /\ "read" \in open' <=> "read" \in open
         /\ WriterQuiet => UNCHANGED <<sequence, message, consumed>>
  <1> USE DEF Types, Places, HandleTypes, Goto, slot, channel, history
  <1>1. ASSUME NEW p \in Producers,
               WriteSync(p) \/ WriteAsync(p) \/ StopShared(p) \/ StopClose(p)
        PROVE  /\ UNCHANGED <<modes, holding, need, seen, receiver, inbox, last_read, delivered>>
               /\ UNCHANGED <<sequence, message, consumed, open>>
               /\ \A r \in Readers : pc'[r] = pc[r] /\ item'[r] = item[r]
    BY <1>1, Kinds DEF WriteSync, WriteAsync, StopShared, StopClose, Shared!Stop
  <1>2. ASSUME NEW w \in Writers, GiveUp(w) \/ StoreWritten(w) \/ Mark(w) \/ Abandon(w)
        PROVE  /\ UNCHANGED <<modes, holding, need, seen, receiver, inbox, last_read, delivered>>
               /\ UNCHANGED <<sequence, message, consumed, open>>
               /\ \A r \in Readers : pc'[r] = pc[r] /\ item'[r] = item[r]
    <2>1. CASE GiveUp(w)
      <3>1. /\ UNCHANGED <<modes, holding, need, seen, receiver, inbox, last_read, delivered>>
            /\ UNCHANGED <<sequence, message, consumed, open>>
        BY <2>1, GiveUpFrame
      <3>2. /\ \E v : pc' = [pc EXCEPT ![w] = v]
            /\ item' = [item EXCEPT ![w] = NoItem]
        BY <2>1, GiveUpFrame
      <3> QED
        BY <3>1, <3>2, Kinds
    <2>2. CASE Mark(w)
      BY <2>2, MarkFrame, Kinds
    <2>3. CASE StoreWritten(w) \/ Abandon(w)
      BY <2>3, Kinds DEF StoreWritten, Abandon
    <2> QED
      BY <1>2, <2>1, <2>2, <2>3
  <1>3. ASSUME NEW g \in Channels, WriterRecv(g) \/ WriterStart(g)
        PROVE  /\ UNCHANGED <<modes, holding, need, seen, receiver, inbox, last_read, delivered>>
               /\ UNCHANGED <<sequence, message, consumed, open>>
               /\ \A r \in Readers : pc'[r] = pc[r] /\ item'[r] = item[r]
    BY <1>3, Kinds DEF WriterRecv, WriterStart
  <1>4. CASE DropWriteHandle
    BY <1>4, Kinds DEF DropWriteHandle
  <1>5. ASSUME NEW w \in Writers, Publish(w)
        PROVE  /\ UNCHANGED <<modes, holding, need, seen, receiver, inbox, last_read, delivered>>
               /\ UNCHANGED open
               /\ \A r \in Readers : pc'[r] = pc[r] /\ item'[r] = item[r]
    BY <1>5, Kinds DEF Publish, Shared!Publish
  <1>6. WriterQuiet => UNCHANGED <<sequence, message, consumed>>
    BY <1>1, <1>2, <1>3, <1>4, Kinds DEF WriterQuiet, DropWriteHandle
  <1> QED
    BY <1>1, <1>2, <1>3, <1>4, <1>5, <1>6, Kinds DEF WriterQuiet

\* What the reading side leaves alone.
LEMMA ReaderFrame ==
  ASSUME Types, ReaderSide
  PROVE  /\ UNCHANGED <<modes, sequence, message, sender, queue, last_written, accepted, sent>>
         /\ \A w \in Writers : pc'[w] = pc[w] /\ item'[w] = item[w]
         /\ "write" \in open' <=> "write" \in open
         /\ stopped => stopped'
  <1> USE DEF Types, Places, HandleTypes, Goto, slot, channel, history
  <1>1. ASSUME NEW c \in Consumers, CallStep(c)
        PROVE  /\ UNCHANGED <<modes, sequence, message, sender, queue, last_written>>
               /\ UNCHANGED <<accepted, sent, open>>
               /\ \A w \in Writers : pc'[w] = pc[w] /\ item'[w] = item[w]
               /\ stopped => stopped'
    <2>1. CASE LoadLastRead(c) \/ ReadAsync(c) \/ ReadNone(c)
      BY <2>1, Kinds DEF LoadLastRead, ReadAsync, ReadNone
    <2>2. CASE StopReading(c)
      BY <2>2, Kinds DEF StopReading, Shared!Stop
    <2>3. CASE StoreRead(c) \/ DropGuard(c)
      BY <2>3, Kinds DEF StoreRead, DropGuard, Shared!Release
    <2>4. CASE LockReceiver(c) \/ Recv(c) \/ RecvNone(c) \/ StoreAsync(c)
      BY <2>4, Kinds DEF LockReceiver, Recv, RecvNone, StoreAsync
    <2> QED
      BY <1>1, <2>1, <2>2, <2>3, <2>4 DEF CallStep
  <1>2. ASSUME NEW r \in Readers, Acquire(r)
        PROVE  /\ UNCHANGED <<modes, sequence, message, sender, queue, last_written>>
               /\ UNCHANGED <<accepted, sent, open, stopped>>
               /\ \A w \in Writers : pc'[w] = pc[w] /\ item'[w] = item[w]
    BY <1>2, Kinds DEF Acquire, Shared!Acquire
  <1>3. CASE ThreadStep
    BY <1>3, Kinds DEF ThreadStep, BackgroundCheck, BackgroundNone, BackgroundRelease,
       BackgroundSend, Shared!Release
  <1>4. CASE ReadAll
    BY <1>4, Kinds DEF ReadAll
  <1>5. CASE DropReadHandle
    BY <1>5, Kinds DEF DropReadHandle
  <1> QED
    BY <1>1, <1>2, <1>3, <1>4, <1>5 DEF ReaderSide

LEMMA StepSlotTypes ==
  ASSUME Types, Next PROVE SlotTypes'
  <1> USE DEF Types, SlotTypes, slot
  <1>1. CASE WriterQuiet
    <2>1. stopped' \in BOOLEAN /\ writing' \in BOOLEAN
      <3>1. ASSUME NEW w \in Writers, GiveUp(w) \/ Mark(w)
            PROVE  stopped' \in BOOLEAN /\ writing' \in BOOLEAN
        BY <3>1, GiveUpFrame, MarkFrame
      <3> QED
        BY <1>1, <3>1 DEF WriterQuiet, WriteSync, WriteAsync, StopShared, StopClose, Abandon,
           StoreWritten, WriterRecv, WriterStart, DropWriteHandle, Shared!Stop
    <2> QED
      BY <1>1, <2>1, WriterFrame
  <1>2. ASSUME NEW w \in Writers, Publish(w) PROVE SlotTypes'
    <2>1. item[w].message \in Nat
      BY <1>2, Kinds DEF HandleTypes, Items
    <2>2. writing' \in BOOLEAN
      BY <1>2, Zenon DEF Publish, Shared!Publish
    <2> QED
      BY <1>2, <2>1, <2>2 DEF Publish, Shared!Publish
  <1>3. CASE ReaderSide
    <2>1. CASE UNCHANGED slot
      BY <2>1
    <2>2. ASSUME NEW c \in Consumers, LoadLastRead(c) PROVE SlotTypes'
      BY <2>2, Kinds DEF LoadLastRead, HandleTypes
    <2>3. ASSUME NEW c \in Consumers, StopReading(c) PROVE SlotTypes'
      <3>1. stopped' \in BOOLEAN
        BY <2>3, Zenon DEF StopReading, Shared!Stop
      <3> QED
        BY <2>3, <3>1 DEF StopReading, Shared!Stop
    <2>4. ASSUME NEW r \in Readers, Shared!Acquire(r) \/ Shared!Release(r) PROVE SlotTypes'
      BY <2>4 DEF Shared!Acquire, Shared!Release
    <2>5. CASE ReadAll
      BY <2>5 DEF ReadAll, HandleTypes
    <2>6. CASE DropReadHandle
      BY <2>6 DEF DropReadHandle
    <2>7. ASSUME NEW c \in Consumers, CallStep(c) PROVE SlotTypes'
      BY <2>1, <2>2, <2>3, <2>4, <2>7, Kinds DEF CallStep, ReadAsync, ReadNone, StoreRead, DropGuard,
         LockReceiver, Recv, RecvNone, StoreAsync
    <2>8. CASE ThreadStep
      BY <2>1, <2>4, <2>8, Kinds DEF ThreadStep, BackgroundCheck, BackgroundNone,
         BackgroundRelease, BackgroundSend
    <2> QED
      BY <1>3, <2>4, <2>5, <2>6, <2>7, <2>8 DEF ReaderSide, Acquire
  <1> QED
    BY <1>1, <1>2, <1>3, NextCases

LEMMA StepHandleTypes ==
  ASSUME Types, Next PROVE HandleTypes'
  <1> USE DEF Types, HandleTypes, modes, slot, channel, history
  <1>1. ASSUME NEW p \in Producers, WriteSync(p) \/ StopShared(p) \/ StopClose(p)
        PROVE  HandleTypes'
    <2>1. NewMessage \in Nat
      BY HandleAssumption DEF NewMessage
    <2>2. CASE WriteSync(p)
      <3>1. item' \in [Actors -> Items]
        BY <2>1, <2>2, ItemTypes, Kinds DEF WriteSync
      <3>2. accepted' \in 0..MessageLimit
        BY <2>2, HandleAssumption DEF WriteSync, NewMessage
      <3> QED
        BY <2>2, <3>1, <3>2 DEF WriteSync
    <2>3. CASE StopShared(p) \/ StopClose(p)
      BY <2>3 DEF StopShared, StopClose
    <2> QED
      BY <1>1, <2>2, <2>3
  <1>2. ASSUME NEW p \in Producers, WriteAsync(p) PROVE HandleTypes'
    <2>1. NewMessage \in Nat /\ accepted' \in 0..MessageLimit
      BY <1>2, HandleAssumption DEF NewMessage, WriteAsync
    <2>2. sent' \in Seq(Nat)
      BY <1>2, <2>1, AppendProperties DEF WriteAsync
    <2>3. PICK g \in Channels : Enqueue(g, NewMessage) /\ (sender' = sender \/ sender' = g)
      BY <1>2 DEF WriteAsync
    <2>4. Append(queue[g], NewMessage) \in Seq(Nat)
      BY <2>1, AppendProperties
    <2>5. queue' \in [Channels -> Seq(Nat)]
      BY <2>3, <2>4 DEF Enqueue
    <2> QED
      BY <1>2, <2>1, <2>2, <2>3, <2>5 DEF WriteAsync
  <1>3. ASSUME NEW w \in Writers, GiveUp(w) \/ StoreWritten(w) \/ Mark(w) \/ Abandon(w)
        PROVE  HandleTypes'
    <2>1. item' \in [Actors -> Items]
      <3>1. item' = [item EXCEPT ![w] = NoItem] \/ item' = item
        BY <1>3, GiveUpFrame, MarkFrame DEF StoreWritten, Abandon
      <3>2. [item EXCEPT ![w] = NoItem] \in [Actors -> Items]
        BY ItemTypes, Kinds
      <3> QED
        BY <3>1, <3>2
    <2>2. queue' \in [Channels -> Seq(Nat)]
      <3>1. <<>> \in Seq(Nat) /\ queue \in [Channels -> Seq(Nat)]
        BY EmptySeq
      <3>2. queue' = queue \/ queue' = [queue EXCEPT ![w] = <<>>]
        BY <1>3, GiveUpFrame, MarkFrame DEF StoreWritten, Abandon
      <3> QED
        BY <3>1, <3>2
    <2>3. last_written' \in Nat
      <3>1. item[w] \in Items
        BY Kinds
      <3>2. last_written' = last_written \/ last_written' = item[w].sequence
        BY <1>3, GiveUpFrame, MarkFrame DEF StoreWritten, Abandon
      <3> QED
        BY <3>1, <3>2 DEF Items
    <2>4. UNCHANGED <<modes, sender, receiver, inbox, last_read, accepted, sent, delivered>>
      BY <1>3, GiveUpFrame, MarkFrame DEF StoreWritten, Abandon
    <2> QED
      BY <2>1, <2>2, <2>3, <2>4
  <1>4. ASSUME NEW g \in Channels, WriterRecv(g) \/ WriterStart(g) PROVE HandleTypes'
    <2>1. queue[g] # <<>> => Head(queue[g]) \in Nat /\ Tail(queue[g]) \in Seq(Nat)
      BY HeadTailProperties
    <2>2. item' \in [Actors -> Items]
      <3>1. item' = item \/ \E n \in Nat : item' = [item EXCEPT ![g].message = n]
        BY <1>4, <2>1 DEF WriterRecv, WriterStart
      <3>2. ASSUME NEW n \in Nat PROVE [item EXCEPT ![g].message = n] \in [Actors -> Items]
        BY ItemTypes, Kinds
      <3> QED
        BY <3>1, <3>2
    <2>3. queue' \in [Channels -> Seq(Nat)]
      BY <1>4, <2>1, EmptySeq DEF WriterRecv, WriterStart
    <2> QED
      BY <1>4, <2>2, <2>3 DEF WriterRecv, WriterStart
  <1>5. CASE DropWriteHandle
    BY <1>5 DEF DropWriteHandle
  <1>6. ASSUME NEW w \in Writers, Publish(w) PROVE HandleTypes'
    <2>1. sequence' \in Nat
      BY <1>6 DEF Publish, Shared!Publish, SlotTypes
    <2>2. item' \in [Actors -> Items]
      BY <1>6, <2>1, ItemTypes, Kinds DEF Publish
    <2>3. item[w].message \in Nat
      BY Kinds DEF Items
    <2>4. sent' \in Seq(Nat)
      BY <1>6, <2>3, AppendProperties DEF Publish
    <2> QED
      BY <1>6, <2>2, <2>4 DEF Publish
  <1>7. ASSUME NEW c \in Consumers, CallStep(c) PROVE HandleTypes'
    <2>1. CASE LoadLastRead(c) \/ ReadAsync(c) \/ StopReading(c) \/ ReadNone(c) \/ LockReceiver(c)
               \/ RecvNone(c)
      BY <2>1 DEF LoadLastRead, ReadAsync, StopReading, ReadNone, LockReceiver, RecvNone
    <2>2. CASE StoreRead(c)
      BY <2>2, Kinds DEF StoreRead, Items
    <2>3. CASE DropGuard(c) \/ StoreAsync(c)
      <3>1. item[c] \in Items /\ item[c].sequence \in Nat
        BY Kinds DEF Items
      <3>2. delivered' \in Seq(Items)
        <4>1. delivered' = Append(delivered, item[c])
          BY <2>3 DEF DropGuard, StoreAsync
        <4> QED
          BY <3>1, <4>1, AppendProperties
      <3>3. item' \in [Actors -> Items]
        <4>1. item' = [item EXCEPT ![c] = NoItem]
          BY <2>3 DEF DropGuard, StoreAsync
        <4> QED
          BY <4>1, ItemTypes, Kinds
      <3> QED
        BY <2>3, <3>1, <3>2, <3>3 DEF DropGuard, StoreAsync
    <2>4. CASE Recv(c)
      <3>1. Head(inbox) \in Items /\ Tail(inbox) \in Seq(Items)
        BY <2>4, HeadTailProperties DEF Recv
      <3>2. item' \in [Actors -> Items]
        BY <2>4, <3>1, ItemTypes, Kinds DEF Recv
      <3> QED
        BY <2>4, <3>1, <3>2 DEF Recv
    <2> QED
      BY <1>7, <2>1, <2>2, <2>3, <2>4 DEF CallStep
  <1>8. ASSUME NEW r \in Readers, Acquire(r) PROVE HandleTypes'
    <2>1. [sequence |-> sequence, message |-> message] \in Items
      BY DEF Items, SlotTypes
    <2>2. item' \in [Actors -> Items]
      BY <1>8, <2>1, ItemTypes, Kinds DEF Acquire
    <2> QED
      BY <1>8, <2>2 DEF Acquire
  <1>9. CASE ThreadStep
    <2>1. CASE BackgroundCheck \/ BackgroundNone \/ BackgroundRelease
      BY <2>1 DEF BackgroundCheck, BackgroundNone, BackgroundRelease
    <2>2. CASE BackgroundSend
      <3>1. item' \in [Actors -> Items]
        BY <2>2, ItemTypes, Kinds DEF BackgroundSend
      <3>2. inbox' \in Seq(Items)
        BY <2>2, AppendProperties, Kinds DEF BackgroundSend
      <3> QED
        BY <2>2, <3>1, <3>2 DEF BackgroundSend
    <2> QED
      BY <1>9, <2>1, <2>2 DEF ThreadStep
  <1>10. CASE ReadAll
    BY <1>10 DEF ReadAll
  <1>11. CASE DropReadHandle
    BY <1>11, EmptySeq DEF DropReadHandle
  <1> QED
    BY <1>1, <1>2, <1>3, <1>4, <1>5, <1>6, <1>7, <1>8, <1>9, <1>10, <1>11, NextCases, Kinds
    DEF WriterQuiet, ReaderSide

\* The types of the slot and of both handles.
LEMMA TypesInvariance == Spec => []Types
  <1>1. Types /\ [Next]_vars => Types'
    <2> SUFFICES ASSUME Types, [Next]_vars PROVE Types'
      OBVIOUS
    <2>1. CASE Next
      BY <2>1, StepSlotTypes, StepHandleTypes, WriterPlaces, ReaderPlaces, NextCases DEF Types
    <2>2. CASE UNCHANGED vars
      BY <2>2 DEF vars, modes, slot, channel, history, Types, SlotTypes, HandleTypes, Places,
         ProducerPlaces, ChannelPlaces, ConsumerPlaces, BackgroundPlaces
    <2> QED
      BY <2>1, <2>2
  <1> QED
    BY <1>1, InitTypes, PTL DEF Spec

----------------------------------------------------------------------------
(* The writing side: what is published, and in which order.                *)

LEMMA LinedKept ==
  ASSUME NEW g, Lined(g), UNCHANGED <<pc[g], item[g], queue[g], sequence, accepted>>,
         stopped => stopped'
  PROVE  Lined(g)'
  <1>1. Taken(g)' = Taken(g) /\ (Alive(g)' <=> Alive(g))
    BY DEF Taken, Alive
  <1>2. pc'[g] \in {"writing", "marked"} =>
           item'[g].message = sequence' + 1 /\ sequence' < accepted'
    BY DEF Lined
  <1>3. ASSUME Alive(g)', ~stopped'
        PROVE  /\ pc'[g] = "start" => item'[g].message = sequence' + 1
               /\ accepted' = Taken(g)' + Len(queue'[g])
               /\ \A i \in 1..Len(queue'[g]) : queue'[g][i] = Taken(g)' + i
    BY <1>1, <1>3 DEF Lined
  <1> QED
    BY <1>2, <1>3 DEF Lined

LEMMA ReaderKeepsWrites ==
  ASSUME Types, WriteInv, ReaderSide PROVE WriteInv'
  <1> USE ReaderFrame, Kinds DEF Types, HandleTypes, modes
  <1>1. \A g \in Channels : pc'[g] = pc[g] /\ item'[g] = item[g]
    OBVIOUS
  <1>2. Counted'
    <2>1. Busy' = Busy
      BY DEF Busy
    <2> QED
      BY <2>1 DEF WriteInv, Counted
  <1>3. Channelled'
    BY <1>1 DEF WriteInv, Channelled
  <1>4. Queued'
    <2>1. ASSUME NEW g \in Channels, Lined(g) PROVE Lined(g)'
      BY <1>1, <2>1, LinedKept
    <2> QED
      BY <1>1, <2>1 DEF WriteInv, Queued
  <1>5. Recorded'
    BY DEF WriteInv, Recorded
  <1> QED
    BY <1>2, <1>3, <1>4, <1>5 DEF WriteInv

\* The bound on the messages keeps the sequence from wrapping.
LEMMA PublishNext ==
  ASSUME Types, WriteInv, NEW w \in Writers, Publish(w)
  PROVE  /\ sequence' = sequence + 1 /\ sequence < accepted
         /\ message' = item[w].message /\ consumed' = 0
         /\ holding = {} /\ (sequence > 0 => consumed >= need)
         /\ pc[w] = "marked" /\ pc'[w] = "store" /\ item'[w].sequence = sequence'
         /\ \A u \in Actors \ {w} : pc'[u] = pc[u] /\ item'[u] = item[u]
         /\ UNCHANGED <<modes, stopped, queue, sender, open, accepted, last_written>>
         /\ sent' = IF writeMode = "WriteSync" THEN Append(sent, item[w].message) ELSE sent
  <1>t. /\ w \in Actors /\ pc[w] = "marked" /\ sequence \in Nat /\ accepted \in 0..MessageLimit
        /\ item \in [Actors -> Items] /\ DOMAIN pc = Actors
    BY Kinds DEF Publish, Goto, Types, SlotTypes, HandleTypes, Places
  <1>1. sequence < accepted
    <2>1. CASE w \in Producers
      <3>1. writeMode = "WriteSync" /\ w \in Busy
        BY <1>t, <2>1 DEF Types, Places, ProducerPlaces, HandleTypes, Busy
      <3>2. IsFiniteSet(Busy) /\ sequence + Cardinality(Busy) <= accepted
        BY <3>1 DEF WriteInv, Counted
      <3>3. Cardinality(Busy) \in Nat /\ Cardinality(Busy) # 0
        BY <3>1, <3>2, FS_CardinalityType, FS_EmptySet
      <3> QED
        BY <1>t, <3>2, <3>3, HandleAssumption
    <2>2. CASE w \in Channels
      <3>1. writeMode = "WriteAsync"
        BY <1>t, <2>2 DEF Types, Places, ChannelPlaces, HandleTypes
      <3> QED
        BY <1>t, <2>2, <3>1 DEF WriteInv, Queued, Lined
    <2> QED
      BY <2>1, <2>2, Kinds
  <1>2. sequence # SequenceMask
    BY <1>t, <1>1, HandleAssumption
  <1>3. /\ sequence' = sequence + 1 /\ message' = item[w].message /\ consumed' = 0
        /\ holding = {} /\ (sequence > 0 => consumed >= need) /\ UNCHANGED stopped
    BY <1>2 DEF Publish, Shared!Publish
  <1>4. /\ item'[w] = [item[w] EXCEPT !.sequence = sequence']
        /\ \A u \in Actors \ {w} : item'[u] = item[u]
    BY <1>t DEF Publish
  <1>5. item[w] \in Items
    BY <1>t
  <1>6. item'[w].sequence = sequence'
    BY <1>4, <1>5 DEF Items
  <1>7. pc'[w] = "store" /\ \A u \in Actors \ {w} : pc'[u] = pc[u]
    BY <1>t DEF Publish, Goto
  <1> QED
    BY <1>t, <1>1, <1>3, <1>4, <1>6, <1>7 DEF Publish, channel

LEMMA StepCounted ==
  ASSUME Types, WriteInv, WriterQuiet \/ \E w \in Writers : Publish(w)
  PROVE  Counted'
  <1> SUFFICES ASSUME writeMode' = "WriteSync"
               PROVE  IsFiniteSet(Busy') /\ sequence' + Cardinality(Busy') <= accepted'
    BY DEF Counted
  <1>t. /\ writeMode = "WriteSync" /\ sequence \in Nat /\ accepted \in 0..MessageLimit
        /\ DOMAIN pc = Actors /\ \A g \in Channels : pc[g] = "unborn"
    BY WriterFrame DEF modes, Types, SlotTypes, HandleTypes, Places, ChannelPlaces
  <1>i. IsFiniteSet(Busy) /\ Cardinality(Busy) \in Nat /\ sequence + Cardinality(Busy) <= accepted
    BY <1>t, FS_CardinalityType DEF WriteInv, Counted
  <1>1. ASSUME NEW p \in Producers, WriteSync(p)
        PROVE  IsFiniteSet(Busy') /\ sequence' + Cardinality(Busy') <= accepted'
    <2>1. p \notin Busy /\ Busy' = Busy \cup {p}
      BY <1>1, <1>t, Kinds DEF WriteSync, Goto, Busy
    <2>2. sequence' = sequence /\ accepted' = accepted + 1
      BY <1>1 DEF WriteSync, slot, NewMessage
    <2>3. IsFiniteSet(Busy') /\ Cardinality(Busy') = Cardinality(Busy) + 1
      BY <1>i, <2>1, FS_AddElement
    <2> QED
      BY <1>t, <1>i, <2>2, <2>3, HandleAssumption
  <1>2. ASSUME NEW p \in Producers, StopShared(p) \/ StopClose(p) \/ StoreWritten(p) \/ Mark(p)
        PROVE  IsFiniteSet(Busy') /\ sequence' + Cardinality(Busy') <= accepted'
    <2>1. Busy' = Busy
      BY <1>2, <1>t, Kinds DEF StopShared, StopClose, StoreWritten, Mark, Goto, Busy
    <2>2. sequence' = sequence /\ accepted' = accepted
      BY <1>2 DEF StopShared, StopClose, StoreWritten, Mark, slot, history, Shared!Stop, Shared!Mark
    <2> QED
      BY <1>i, <2>1, <2>2
  <1>3. ASSUME NEW p \in Producers, GiveUp(p) \/ Publish(p) \/ Abandon(p)
        PROVE  IsFiniteSet(Busy') /\ sequence' + Cardinality(Busy') <= accepted'
    <2>1. p \in Busy /\ Busy' = Busy \ {p}
      <3>1. /\ pc[p] \in {"writing", "marked"}
            /\ \E v \in {"idle", "store"} : pc' = [pc EXCEPT ![p] = v]
        BY <1>3, GiveUpFrame, Kinds DEF Publish, Abandon, Goto
      <3> QED
        BY <1>t, <3>1, Kinds DEF Busy
    <2>2. sequence' \in {sequence, sequence + 1} /\ accepted' = accepted
      BY <1>3, PublishNext, GiveUpFrame, Kinds DEF Abandon, slot, history
    <2>3. IsFiniteSet(Busy') /\ Cardinality(Busy') = Cardinality(Busy) - 1
      BY <1>i, <2>1, FS_RemoveElement
    <2> QED
      BY <1>t, <1>i, <2>2, <2>3, HandleAssumption
  <1>4. CASE DropWriteHandle
    BY <1>i, <1>4 DEF DropWriteHandle, slot, history, Busy
  <1>5. \A g \in Channels :
           ~(GiveUp(g) \/ StoreWritten(g) \/ Mark(g) \/ Publish(g) \/ WriterRecv(g) \/ WriterStart(g))
    BY <1>t DEF GiveUp, StoreWritten, Mark, Publish, WriterRecv, WriterStart, Goto
  <1>6. \A p \in Producers : ~WriteAsync(p)
    BY <1>t DEF WriteAsync
  <1> QED
    BY <1>1, <1>2, <1>3, <1>4, <1>5, <1>6, Kinds DEF WriterQuiet

LEMMA StepRecorded ==
  ASSUME Types, WriteInv, WriterQuiet \/ \E w \in Writers : Publish(w)
  PROVE  Recorded'
  <1>t. /\ sequence \in Nat /\ accepted \in Nat /\ sent \in Seq(Nat) /\ Len(sent) \in Nat
        /\ Recorded /\ UNCHANGED modes
    BY WriterFrame, HandleAssumption, LenProperties DEF Types, SlotTypes, HandleTypes, WriteInv
  <1>1. ASSUME NEW p \in Producers, WriteAsync(p) PROVE Recorded'
    <2>1. /\ sequence' = sequence /\ message' = message /\ writeMode = "WriteAsync"
          /\ accepted' = accepted + 1 /\ sent' = Append(sent, accepted + 1)
      BY <1>1 DEF WriteAsync, slot, NewMessage
    <2>2. /\ Len(sent') = Len(sent) + 1 /\ sent'[Len(sent) + 1] = accepted + 1
          /\ \A i \in 1..Len(sent) : sent'[i] = sent[i]
      BY <1>t, <2>1, AppendProperties
    <2> QED
      BY <1>t, <2>1, <2>2 DEF Recorded, modes
  <1>2. ASSUME NEW w \in Writers, Publish(w) PROVE Recorded'
    <2>1. CASE writeMode = "WriteSync"
      <3>1. item[w].message \in Nat
        BY Kinds DEF Types, HandleTypes, Items
      <3>2. /\ sequence' = sequence + 1 /\ sequence < accepted /\ accepted' = accepted
            /\ message' = item[w].message /\ sent' = Append(sent, item[w].message)
        BY <1>2, <2>1, PublishNext
      <3>3. Len(sent') = Len(sent) + 1 /\ sent'[Len(sent) + 1] = item[w].message
        BY <1>t, <3>1, <3>2, AppendProperties
      <3> QED
        BY <1>t, <2>1, <3>2, <3>3 DEF Recorded, modes
    <2>2. CASE writeMode = "WriteAsync"
      <3>1. w \in Channels /\ pc[w] = "marked"
        BY <1>2, <2>2, PublishNext, Kinds DEF Types, Places, ProducerPlaces
      <3>2. item[w].message = sequence + 1
        BY <2>2, <3>1 DEF WriteInv, Queued, Lined
      <3>3. /\ sequence' = sequence + 1 /\ sequence < accepted /\ accepted' = accepted
            /\ message' = item[w].message /\ sent' = sent
        BY <1>2, <2>2, PublishNext
      <3> QED
        BY <1>t, <2>2, <3>2, <3>3 DEF Recorded, modes
    <2> QED
      BY <2>1, <2>2 DEF Types, HandleTypes
  <1>3. CASE /\ UNCHANGED <<sequence, message, sent>>
             /\ accepted' = accepted \/ (writeMode = "WriteSync" /\ accepted' = accepted + 1)
    BY <1>t, <1>3 DEF Recorded, modes
  <1>4. ASSUME WriterQuiet, \A p \in Producers : ~WriteAsync(p)
        PROVE  /\ UNCHANGED <<sequence, message, sent>>
               /\ accepted' = accepted \/ (writeMode = "WriteSync" /\ accepted' = accepted + 1)
    <2>1. ASSUME NEW p \in Producers, WriteSync(p) \/ StopShared(p) \/ StopClose(p)
          PROVE  /\ UNCHANGED sent
                 /\ accepted' = accepted \/ (writeMode = "WriteSync" /\ accepted' = accepted + 1)
      BY <2>1 DEF WriteSync, StopShared, StopClose, history, NewMessage
    <2>2. ASSUME NEW w \in Writers, GiveUp(w) \/ StoreWritten(w) \/ Mark(w) \/ Abandon(w)
          PROVE  UNCHANGED <<sent, accepted>>
      BY <2>2, GiveUpFrame DEF StoreWritten, Mark, Abandon, history
    <2>3. ASSUME NEW g \in Channels, WriterRecv(g) \/ WriterStart(g)
          PROVE  UNCHANGED <<sent, accepted>>
      BY <2>3 DEF WriterRecv, WriterStart, history
    <2>4. DropWriteHandle => UNCHANGED <<sent, accepted>>
      BY DEF DropWriteHandle, history
    <2> QED
      BY <1>4, <2>1, <2>2, <2>3, <2>4, WriterFrame, Kinds DEF WriterQuiet
  <1> QED
    BY <1>1, <1>2, <1>3, <1>4

LEMMA StepChannelled ==
  ASSUME Types, WriteInv, WriterQuiet \/ \E w \in Writers : Publish(w)
  PROVE  Channelled'
  <1> USE DEF Channelled, InWrite
  <1>t. /\ Channelled /\ DOMAIN pc = Actors /\ sender \in Channels \cup {0}
        /\ queue \in [Channels -> Seq(Nat)]
        /\ \A p \in Producers : p \in Actors /\ p \notin Channels
        /\ \A g \in Channels : g \in Actors /\ g \notin Producers /\ g # 0
    BY Kinds DEF WriteInv, Types, Places, HandleTypes
  <1>1. ASSUME NEW p \in Producers, WriteSync(p) PROVE Channelled'
    BY <1>1, <1>t DEF WriteSync, Goto, slot, channel
  <1>2. ASSUME NEW p \in Producers, WriteAsync(p) PROVE Channelled'
    <2>1. CASE UNCHANGED <<sender, pc>> /\ sender # 0 /\ Enqueue(sender, NewMessage)
      <3>1. \A g \in Channels : pc[g] = "unborn" => queue'[g] = queue[g]
        BY <1>t, <2>1 DEF Enqueue
      <3> QED
        BY <1>2, <1>t, <2>1, <3>1 DEF WriteAsync, slot
    <2>2. ASSUME NEW g \in Channels, sender = 0, pc[g] = "unborn", sender' = g,
                 pc' = [pc EXCEPT ![g] = "recv"], Enqueue(g, NewMessage)
          PROVE  Channelled'
      <3>1. \A h \in Channels \ {g} : queue'[h] = queue[h]
        BY <1>t, <2>2 DEF Enqueue
      <3> QED
        BY <1>2, <1>t, <2>2, <3>1 DEF WriteAsync, slot
    <2> QED
      BY <1>2, <2>1, <2>2 DEF WriteAsync
  <1>3. ASSUME NEW p \in Producers, StopShared(p) PROVE Channelled'
    BY <1>3, <1>t DEF StopShared, Goto, channel, Shared!Stop
  <1>4. ASSUME NEW p \in Producers, StopClose(p) PROVE Channelled'
    BY <1>4, <1>t, SMTT(30) DEF StopClose, Goto, slot
  <1>5. ASSUME NEW w \in Writers, GiveUp(w) \/ StoreWritten(w) \/ (w \in Producers /\ Abandon(w))
        PROVE  Channelled'
    <2>1. /\ w \in Actors /\ InWrite(pc[w])
          /\ pc'[w] \in IF w \in Channels THEN {"ended", "recv"} ELSE {"idle"}
      <3>1. CASE GiveUp(w)
        <4>1. /\ pc[w] \in {"writing", "marked"}
              /\ pc' = [pc EXCEPT ![w] = IF w \in Channels THEN "ended" ELSE "idle"]
          BY <3>1, GiveUpFrame
        <4> QED
          BY <1>t, <4>1, Kinds
      <3>2. CASE StoreWritten(w) \/ (w \in Producers /\ Abandon(w))
        BY <3>2, <1>t, Kinds DEF StoreWritten, Abandon, Goto
      <3> QED
        BY <1>5, <3>1, <3>2
    <2>2. /\ \A u \in Actors \ {w} : pc'[u] = pc[u]
          /\ UNCHANGED <<stopped, sender, open>>
      BY <1>5, <1>t, GiveUpFrame DEF StoreWritten, Abandon, Goto, slot, channel
    <2>3. \A h \in Channels \ {w} : queue'[h] = queue[h]
      BY <1>5, <1>t, GiveUpFrame DEF StoreWritten, Abandon, channel
    <2>4. \A h \in Channels : pc'[h] # pc[h] => pc[h] # "unborn" /\ pc'[h] \in {"ended", "recv"}
      BY <1>t, <2>1, <2>2
    <2>5. \A h \in Channels : pc'[h] = "unborn" => pc[h] = "unborn" /\ queue'[h] = queue[h]
      BY <1>t, <2>1, <2>2, <2>3, <2>4
    <2>6. \A p \in Producers : pc'[p] = "closing" => pc[p] = "closing"
      BY <1>t, <2>1, <2>2, Kinds
    <2> QED
      BY <1>t, <2>2, <2>4, <2>5, <2>6
  <1>6. ASSUME NEW g \in Channels, WriterRecv(g) PROVE Channelled'
    <2>1. pc[g] = "recv" /\ pc'[g] \in {"start", "ended"} /\ \A u \in Actors \ {g} : pc'[u] = pc[u]
      BY <1>6, <1>t DEF WriterRecv, Goto
    <2>2. UNCHANGED <<stopped, sender, open>> /\ \A h \in Channels \ {g} : queue'[h] = queue[h]
      BY <1>6, <1>t DEF WriterRecv, slot, channel
    <2> QED
      BY <1>t, <2>1, <2>2, SMTT(30)
  <1>7. ASSUME NEW g \in Channels, WriterStart(g) PROVE Channelled'
    <2>1. /\ pc[g] = "start" /\ pc'[g] = IF stopped THEN "ended" ELSE "writing"
          /\ \A u \in Actors \ {g} : pc'[u] = pc[u]
          /\ UNCHANGED <<stopped, sender, open>>
          /\ \A h \in Channels \ {g} : queue'[h] = queue[h]
      BY <1>7, <1>t DEF WriterStart, Goto, slot
    <2>2. ASSUME ~stopped, NEW h \in Channels, h # g PROVE pc[h] = "unborn"
      BY <1>t, <2>1, <2>2, SMTT(30)
    <2>3. \A h, k \in Channels :
             InWrite(pc'[h]) /\ InWrite(pc'[k]) => h = k
      BY <1>t, <2>1, <2>2
    <2> QED
      BY <1>t, <2>1, <2>3, SMTT(30)
  <1>8. CASE DropWriteHandle
    BY <1>8, <1>t DEF DropWriteHandle, slot
  <1>9. ASSUME NEW w \in Writers, Mark(w) \/ Publish(w) PROVE Channelled'
    <2>1. /\ w \in Actors /\ InWrite(pc[w]) /\ pc'[w] \in {"marked", "store"}
          /\ \A u \in Actors \ {w} : pc'[u] = pc[u]
          /\ UNCHANGED <<stopped, sender, open, queue>>
      <3>1. CASE Mark(w)
        <4>1. /\ pc[w] = "writing" /\ pc' = [pc EXCEPT ![w] = "marked"]
              /\ UNCHANGED <<stopped, sender, open, queue>>
          BY <3>1, MarkFrame DEF Goto, channel
        <4> QED
          BY <1>t, <4>1, Kinds
      <3>2. CASE Publish(w)
        BY <3>2, PublishNext, Kinds
      <3> QED
        BY <1>9, <3>1, <3>2
    <2> QED
      BY <1>t, <2>1
  <1> QED
    BY <1>1, <1>2, <1>3, <1>4, <1>5, <1>6, <1>7, <1>8, <1>9, Kinds DEF WriterQuiet

\* Another step of the writing side leaves a channel and its messages in line.
LEMMA OthersLined ==
  ASSUME Types, WriteInv, writeMode = "WriteAsync",
         NEW g \in Channels, UNCHANGED <<pc[g], item[g], queue[g], sequence, accepted>>,
         stopped => stopped'
  PROVE  Lined(g)'
  BY LinedKept DEF WriteInv, Queued

LEMMA StepQueued ==
  ASSUME Types, WriteInv, WriterQuiet \/ \E w \in Writers : Publish(w)
  PROVE  Queued'
  <1> SUFFICES ASSUME writeMode' = "WriteAsync"
               PROVE  /\ \A g \in Channels : Lined(g)'
                      /\ ~stopped' /\ (\A g \in Channels : pc'[g] = "unborn") => accepted' = 0
    BY DEF Queued
  <1>t. /\ writeMode = "WriteAsync" /\ sequence \in Nat /\ accepted \in Nat /\ stopped \in BOOLEAN
        /\ DOMAIN pc = Actors /\ item \in [Actors -> Items] /\ queue \in [Channels -> Seq(Nat)]
        /\ \A p \in Producers : pc[p] \in {"idle", "closing"}
    BY WriterFrame, HandleAssumption
    DEF modes, Types, SlotTypes, HandleTypes, Places, ProducerPlaces
  <1>q. /\ \A g \in Channels : Lined(g)
        /\ ~stopped /\ (\A g \in Channels : pc[g] = "unborn") => accepted = 0
        /\ \A g, h \in Channels : pc[g] # "unborn" /\ pc[h] # "unborn" /\ g # h => stopped
    BY <1>t DEF WriteInv, Queued, Channelled
  <1>k. \A g \in Channels : g \in Actors /\ g \notin Producers /\ g # 0
    BY Kinds
  <1> DEFINE Goal == /\ \A g \in Channels : Lined(g)'
                     /\ ~stopped' /\ (\A g \in Channels : pc'[g] = "unborn") => accepted' = 0
  <1>1. ASSUME NEW p \in Producers, StopShared(p) \/ StopClose(p) PROVE Goal
    <2>1. /\ UNCHANGED <<sequence, accepted, queue, item>> /\ (stopped => stopped')
          /\ \A g \in Channels : pc'[g] = pc[g]
      BY <1>1, <1>t, <1>k DEF StopShared, StopClose, Goto, slot, channel, history, Shared!Stop
    <2>2. ASSUME NEW g \in Channels PROVE Lined(g)'
      BY <1>t, <2>1, OthersLined
    <2> QED
      BY <1>q, <2>1, <2>2
  <1>2. CASE DropWriteHandle
    <2>1. UNCHANGED <<sequence, accepted, queue, item, pc, stopped>>
      BY <1>2 DEF DropWriteHandle, slot, history
    <2>2. ASSUME NEW g \in Channels PROVE Lined(g)'
      BY <1>t, <2>1, OthersLined
    <2> QED
      BY <1>q, <2>1, <2>2
  <1>3. ASSUME NEW p \in Producers, WriteAsync(p) PROVE Goal
    <2>1. /\ accepted' = accepted + 1 /\ UNCHANGED <<sequence, item, stopped>>
      BY <1>3 DEF WriteAsync, slot, NewMessage
    <2>2. PICK g \in Channels :
             /\ Enqueue(g, accepted + 1) /\ sender' = g
             /\ \/ Alive(g) /\ UNCHANGED pc
                \/ /\ pc[g] = "unborn" /\ pc' = [pc EXCEPT ![g] = "recv"]
                   /\ sender = 0 /\ "write" \in open
      BY <1>3 DEF WriteAsync, NewMessage, Types, HandleTypes
    <2>3. /\ queue'[g] = Append(queue[g], accepted + 1)
          /\ \A h \in Channels \ {g} : queue'[h] = queue[h] /\ pc'[h] = pc[h]
      BY <1>t, <1>k, <2>2 DEF Enqueue
    <2>4. queue[g] \in Seq(Nat) /\ accepted + 1 \in Nat /\ Len(queue[g]) \in Nat
      BY <1>t, LenProperties
    <2>5. /\ Len(queue'[g]) = Len(queue[g]) + 1
          /\ queue'[g][Len(queue[g]) + 1] = accepted + 1
          /\ \A i \in 1..Len(queue[g]) : queue'[g][i] = queue[g][i]
      BY <2>3, <2>4, AppendProperties
    <2>6. pc'[g] # "unborn"
      BY <1>t, <1>k, <2>2 DEF Alive
    <2>7. Lined(g)'
      <3>1. CASE Alive(g) /\ UNCHANGED pc
        <4>1. Taken(g)' = Taken(g) /\ Taken(g) \in Nat
          BY <1>t, <2>1, <3>1 DEF Taken
        <4>2. pc'[g] \in {"writing", "marked"} =>
                 item'[g].message = sequence' + 1 /\ sequence' < accepted'
          BY <1>t, <1>q, <2>1, <3>1 DEF Lined
        <4>3. ASSUME ~stopped'
              PROVE  /\ pc'[g] = "start" => item'[g].message = sequence' + 1
                     /\ accepted' = Taken(g)' + Len(queue'[g])
                     /\ \A i \in 1..Len(queue'[g]) : queue'[g][i] = Taken(g)' + i
          <5>1. /\ pc[g] = "start" => item[g].message = sequence + 1
                /\ accepted = Taken(g) + Len(queue[g])
                /\ \A i \in 1..Len(queue[g]) : queue[g][i] = Taken(g) + i
            BY <1>q, <2>1, <3>1, <4>3 DEF Lined
          <5>2. accepted' = Taken(g)' + Len(queue'[g])
            BY <1>t, <2>1, <2>4, <2>5, <4>1, <5>1
          <5>3. ASSUME NEW i \in 1..Len(queue'[g]) PROVE queue'[g][i] = Taken(g)' + i
            <6>1. i \in 1..Len(queue[g]) \/ i = Len(queue[g]) + 1
              BY <2>4, <2>5
            <6> QED
              BY <1>t, <2>4, <2>5, <4>1, <5>1, <6>1
          <5> QED
            BY <2>1, <3>1, <5>1, <5>2, <5>3
        <4> QED
          BY <4>2, <4>3 DEF Lined
      <3>2. CASE pc[g] = "unborn" /\ pc' = [pc EXCEPT ![g] = "recv"] /\ sender = 0 /\ "write" \in open
        <4>1. pc'[g] = "recv" /\ Taken(g)' = sequence
          BY <1>t, <1>k, <2>1, <3>2 DEF Taken
        <4>2. ASSUME ~stopped'
              PROVE  /\ accepted' = Taken(g)' + Len(queue'[g])
                     /\ \A i \in 1..Len(queue'[g]) : queue'[g][i] = Taken(g)' + i
          <5>1. \A h \in Channels : pc[h] = "unborn"
            BY <2>1, <3>2, <4>2 DEF WriteInv, Channelled
          <5>2. accepted = 0 /\ sequence = 0
            BY <1>t, <1>q, <2>1, <4>2, <5>1 DEF WriteInv, Recorded
          <5>3. queue[g] = <<>>
            BY <3>2 DEF WriteInv, Channelled
          <5>4. Len(queue[g]) = 0
            BY <5>3
          <5> QED
            BY <2>1, <2>5, <4>1, <5>2, <5>4
        <4> QED
          BY <4>1, <4>2 DEF Lined
      <3> QED
        BY <2>2, <3>1, <3>2
    <2>8. ASSUME NEW h \in Channels, h # g PROVE Lined(h)'
      <3>1. pc'[h] = pc[h] /\ queue'[h] = queue[h] /\ item'[h] = item[h]
        BY <2>1, <2>3, <2>8
      <3>2. CASE pc[h] = "unborn"
        BY <3>1, <3>2 DEF Lined, Alive
      <3>3. CASE pc[h] # "unborn"
        <4>1. stopped
          BY <1>q, <2>2, <2>6, <2>8, <3>3 DEF Alive, WriteInv, Channelled
        <4> QED
          BY <1>t, <1>q, <2>1, <3>1, <4>1 DEF Lined
      <3> QED
        BY <3>2, <3>3
    <2> QED
      BY <2>6, <2>7, <2>8
  <1>4. ASSUME NEW g \in Channels, WriterRecv(g) PROVE Goal
    <2>1. /\ UNCHANGED <<sequence, accepted, stopped>> /\ pc[g] = "recv"
          /\ \A h \in Channels \ {g} : pc'[h] = pc[h] /\ queue'[h] = queue[h] /\ item'[h] = item[h]
      BY <1>4, <1>t, <1>k DEF WriterRecv, Goto, slot, channel, history
    <2>2. pc'[g] \in {"start", "ended"}
      BY <1>4, <1>t, <1>k DEF WriterRecv, Goto
    <2>3. pc'[g] = "ended" => Lined(g)'
      BY DEF Lined, Alive
    <2>4. ASSUME pc'[g] = "start" PROVE Lined(g)'
      <3>1. /\ queue[g] # <<>> /\ item'[g] = [item[g] EXCEPT !.message = Head(queue[g])]
            /\ queue'[g] = Tail(queue[g])
        BY <1>4, <1>t, <1>k, <2>4 DEF WriterRecv, Goto
      <3>2. queue[g] \in Seq(Nat) /\ Len(queue[g]) \in Nat \ {0}
        BY <1>t, <3>1, EmptySeq
      <3>3. /\ Head(queue[g]) = queue[g][1] /\ Len(queue'[g]) = Len(queue[g]) - 1
            /\ \A i \in 1..Len(queue'[g]) : queue'[g][i] = queue[g][i + 1]
        BY <3>1, <3>2, HeadTailProperties
      <3>4. item'[g].message = queue[g][1]
        <4>1. item[g] \in Items
          BY <1>t, <1>k
        <4> QED
          BY <3>1, <3>3, <4>1 DEF Items
      <3>5. ASSUME ~stopped' PROVE Lined(g)'
        <4>1. /\ Taken(g) = sequence /\ Taken(g)' = sequence + 1
          BY <2>1, <2>4 DEF Taken
        <4>2. accepted = sequence + Len(queue[g]) /\ \A i \in 1..Len(queue[g]) : queue[g][i] = sequence + i
          BY <1>q, <2>1, <3>5, <4>1 DEF Lined, Alive
        <4>3. item'[g].message = sequence' + 1 /\ accepted' = Taken(g)' + Len(queue'[g])
          BY <1>t, <2>1, <3>2, <3>3, <3>4, <4>1, <4>2
        <4>4. ASSUME NEW i \in 1..Len(queue'[g]) PROVE queue'[g][i] = Taken(g)' + i
          <5>1. i + 1 \in 1..Len(queue[g])
            BY <3>2, <3>3
          <5> QED
            BY <1>t, <3>3, <4>1, <4>2, <5>1
        <4> QED
          BY <2>4, <4>3, <4>4 DEF Lined
      <3> QED
        BY <2>4, <3>5 DEF Lined
    <2>5. ASSUME NEW h \in Channels, h # g PROVE Lined(h)'
      BY <1>t, <2>1, <2>5, OthersLined
    <2> QED
      BY <1>q, <2>1, <2>2, <2>3, <2>4, <2>5
  <1>5. ASSUME NEW g \in Channels, WriterStart(g) PROVE Goal
    <2>1. /\ UNCHANGED <<sequence, accepted, stopped, item>> /\ pc[g] = "start"
          /\ pc'[g] = IF stopped THEN "ended" ELSE "writing"
          /\ ~stopped => queue' = queue
          /\ \A h \in Channels \ {g} : pc'[h] = pc[h] /\ queue'[h] = queue[h]
      BY <1>5, <1>t, <1>k DEF WriterStart, Goto, slot, history
    <2>2. stopped => Lined(g)'
      BY <2>1 DEF Lined, Alive
    <2>3. ASSUME ~stopped PROVE Lined(g)'
      <3>1. Taken(g)' = Taken(g) /\ Taken(g) = sequence + 1 /\ Len(queue[g]) \in Nat
        BY <1>t, <2>1, <2>3, LenProperties DEF Taken
      <3>2. /\ item[g].message = sequence + 1
            /\ accepted = Taken(g) + Len(queue[g])
            /\ \A i \in 1..Len(queue[g]) : queue[g][i] = Taken(g) + i
        BY <1>q, <2>1, <2>3 DEF Lined, Alive
      <3>3. sequence < accepted
        BY <1>t, <3>1, <3>2
      <3> QED
        BY <2>1, <2>3, <3>1, <3>2, <3>3 DEF Lined
    <2>4. ASSUME NEW h \in Channels, h # g PROVE Lined(h)'
      BY <1>t, <2>1, <2>4, OthersLined
    <2> QED
      BY <2>1, <2>2, <2>3, <2>4
  <1>6. ASSUME NEW w \in Writers, GiveUp(w) \/ StoreWritten(w) \/ Mark(w) PROVE Goal
    <2>1. w \in Channels
      BY <1>6, <1>t, GiveUpFrame, Kinds DEF StoreWritten, Mark, Goto
    <2>2. /\ UNCHANGED <<sequence, accepted, stopped>>
          /\ \A h \in Channels \ {w} : pc'[h] = pc[h] /\ queue'[h] = queue[h] /\ item'[h] = item[h]
      <3>1. CASE GiveUp(w)
        <4>1. /\ pc' = [pc EXCEPT ![w] = "ended"] /\ queue' = [queue EXCEPT ![w] = <<>>]
              /\ item' = [item EXCEPT ![w] = NoItem] /\ UNCHANGED <<sequence, accepted, stopped>>
          BY <2>1, <3>1, GiveUpFrame
        <4> QED
          BY <1>t, <1>k, <2>1, <4>1
      <3>2. CASE Mark(w)
        BY <3>2, <1>t, <1>k, <2>1, MarkFrame DEF Goto, channel, history
      <3>3. CASE StoreWritten(w)
        BY <3>3, <1>t, <1>k, <2>1 DEF StoreWritten, Goto, slot, channel, history
      <3> QED
        BY <1>6, <3>1, <3>2, <3>3
    <2>3. CASE GiveUp(w)
      <3>1. pc'[w] = "ended"
        BY <1>t, <1>k, <2>1, <2>3, GiveUpFrame
      <3> QED
        <4>1. Lined(w)'
          BY <3>1 DEF Lined, Alive
        <4>2. ASSUME NEW h \in Channels, h # w PROVE Lined(h)'
          BY <1>t, <2>2, <4>2, OthersLined
        <4> QED
          BY <2>1, <3>1, <4>1, <4>2
    <2>4. CASE StoreWritten(w)
      <3>1. pc[w] = "store" /\ pc'[w] = "recv" /\ queue' = queue
        BY <1>t, <1>k, <2>1, <2>4 DEF StoreWritten, Goto, channel
      <3>2. Taken(w)' = sequence /\ Taken(w) = sequence
        BY <2>2, <3>1 DEF Taken
      <3>3. Lined(w)'
        BY <1>q, <2>1, <2>2, <3>1, <3>2 DEF Lined, Alive
      <3> QED
        BY <1>t, <2>1, <2>2, <3>1, <3>3, OthersLined
    <2>5. CASE Mark(w)
      <3>1. pc[w] = "writing" /\ pc'[w] = "marked" /\ queue' = queue /\ item' = item
        BY <1>t, <1>k, <2>1, <2>5, MarkFrame DEF Goto, channel
      <3>2. Taken(w)' = Taken(w)
        BY <2>2, <3>1 DEF Taken
      <3>3. Lined(w)'
        BY <1>q, <2>1, <2>2, <3>1, <3>2 DEF Lined, Alive
      <3> QED
        BY <1>t, <2>1, <2>2, <3>1, <3>3, OthersLined
    <2> QED
      BY <1>6, <2>3, <2>4, <2>5
  <1>7. ASSUME NEW w \in Writers, Publish(w) PROVE Goal
    <2>1. w \in Channels
      BY <1>7, <1>t, Kinds DEF Publish, Goto
    <2>2. /\ sequence' = sequence + 1 /\ UNCHANGED <<accepted, stopped, queue>>
          /\ pc[w] = "marked" /\ pc'[w] = "store"
          /\ \A h \in Channels \ {w} : pc'[h] = pc[h] /\ item'[h] = item[h]
      BY <1>7, <1>k, PublishNext
    <2>3. Lined(w)'
      <3>1. Taken(w)' = sequence' /\ Taken(w) = sequence + 1
        BY <2>2 DEF Taken
      <3>2. ~stopped => /\ accepted = Taken(w) + Len(queue[w])
                        /\ \A i \in 1..Len(queue[w]) : queue[w][i] = Taken(w) + i
        BY <1>q, <2>1, <2>2 DEF Lined, Alive
      <3> QED
        BY <2>2, <3>1, <3>2 DEF Lined
    <2>4. ASSUME NEW h \in Channels, h # w PROVE Lined(h)'
      <3>1. CASE pc[h] = "unborn"
        BY <2>2, <2>4, <3>1 DEF Lined, Alive
      <3>2. CASE pc[h] # "unborn"
        <4>1. stopped' /\ ~InWrite(pc'[h])
          BY <1>q, <2>1, <2>2, <2>4, <3>2 DEF WriteInv, Channelled, InWrite
        <4> QED
          BY <4>1 DEF Lined, InWrite
      <3> QED
        BY <3>1, <3>2
    <2> QED
      BY <2>1, <2>2, <2>3, <2>4
  <1>8. \A p \in Producers : ~WriteSync(p) /\ ~Abandon(p)
    BY <1>t DEF WriteSync, Abandon, Goto
  <1> QED
    BY <1>1, <1>2, <1>3, <1>4, <1>5, <1>6, <1>7, <1>8 DEF WriterQuiet

LEMMA InitWrites == Init => WriteInv /\ StoreInv
  <1> SUFFICES ASSUME Init PROVE WriteInv /\ StoreInv
    OBVIOUS
  <1>1. /\ \A p \in Producers : pc[p] = "idle"
        /\ \A g \in Channels : pc[g] = "unborn" /\ queue[g] = <<>>
    BY Kinds DEF Init
  <1>2. sequence = 0 /\ accepted = 0 /\ Len(sent) = 0 /\ sender = 0 /\ last_written = 0
    BY DEF Init, Shared!Init
  <1>3. Counted
    <2>1. Busy = {}
      BY <1>1 DEF Busy
    <2> QED
      BY <1>2, <2>1, FS_EmptySet DEF Counted
  <1>4. Channelled /\ Queued /\ StoreInv
    BY <1>1, <1>2 DEF Channelled, InWrite, Queued, Lined, Alive, StoreInv
  <1>5. Recorded
    BY <1>2 DEF Recorded
  <1> QED
    BY <1>3, <1>4, <1>5 DEF WriteInv

LEMMA WriteInvariance == Spec => []WriteInv
  <1>1. Types /\ WriteInv /\ [Next]_vars => WriteInv'
    <2> SUFFICES ASSUME Types, WriteInv, [Next]_vars PROVE WriteInv'
      OBVIOUS
    <2>1. CASE Next
      <3>1. CASE WriterQuiet \/ \E w \in Writers : Publish(w)
        BY <3>1, StepCounted, StepChannelled, StepQueued, StepRecorded DEF WriteInv
      <3> QED
        BY <2>1, <3>1, NextCases, ReaderKeepsWrites
    <2>2. CASE UNCHANGED vars
      <3>1. Counted' /\ Channelled' /\ Recorded'
        BY <2>2 DEF vars, modes, slot, channel, history, WriteInv, Counted, Busy, Channelled, Recorded
      <3>2. Queued'
        <4>1. ASSUME NEW g \in Channels, Lined(g) PROVE Lined(g)'
          BY <2>2, <4>1, LinedKept DEF vars, slot, channel, history
        <4> QED
          BY <2>2, <4>1 DEF vars, modes, slot, history, WriteInv, Queued
      <3> QED
        BY <3>1, <3>2 DEF WriteInv
    <2> QED
      BY <2>1, <2>2
  <1> QED
    BY <1>1, InitWrites, TypesInvariance, PTL DEF Spec

LEMMA StepStores ==
  ASSUME Types, WriteInv, StoreInv, Next
  PROVE  StoreInv' /\ (writeMode = "WriteAsync" => last_written' >= last_written)
  <1>1. CASE writeMode = "WriteSync"
    <2>1. writeMode' = "WriteSync"
      BY <1>1, NextCases, WriterFrame, ReaderFrame DEF modes
    <2> QED
      BY <1>1, <2>1 DEF StoreInv
  <1>2. CASE writeMode = "WriteAsync"
    <2>t. /\ last_written \in Nat /\ sequence \in Nat /\ last_written <= sequence
          /\ \A g \in Channels : pc[g] = "store" => item[g].sequence = sequence
          /\ DOMAIN pc = Actors /\ item \in [Actors -> Items]
          /\ \A p \in Producers : pc[p] \in {"idle", "closing"}
          /\ \A g \in Channels : g \in Actors /\ g \notin Producers
      BY <1>2, Kinds DEF Types, SlotTypes, HandleTypes, Places, ProducerPlaces, StoreInv
    <2>1. ASSUME NEW w \in Writers, Publish(w) PROVE StoreInv' /\ last_written' >= last_written
      <3>1. w \in Channels
        BY <2>1, <2>t, Kinds DEF Publish, Goto
      <3>2. /\ sequence' = sequence + 1 /\ last_written' = last_written
            /\ pc[w] = "marked" /\ item'[w].sequence = sequence'
            /\ \A g \in Channels \ {w} : pc'[g] = pc[g] /\ item'[g] = item[g]
        BY <2>1, <2>t, PublishNext
      <3>3. \A g \in Channels \ {w} : pc[g] # "store"
        BY <3>1, <3>2 DEF WriteInv, Channelled, InWrite
      <3> QED
        BY <2>t, <3>2, <3>3 DEF StoreInv
    <2>2. ASSUME NEW w \in Writers, StoreWritten(w) PROVE StoreInv' /\ last_written' >= last_written
      <3>1. w \in Channels
        BY <2>2, <2>t, Kinds DEF StoreWritten, Goto
      <3>2. /\ sequence' = sequence /\ last_written' = item[w].sequence
            /\ pc[w] = "store" /\ pc'[w] = "recv"
            /\ \A g \in Channels \ {w} : pc'[g] = pc[g] /\ item'[g] = item[g]
        BY <2>2, <2>t, <3>1 DEF StoreWritten, Goto, slot
      <3> QED
        BY <2>t, <3>1, <3>2 DEF StoreInv
    <2>3. CASE /\ UNCHANGED <<sequence, last_written>>
               /\ \A g \in Channels : pc'[g] = "store" => pc[g] = "store" /\ item'[g] = item[g]
      BY <2>t, <2>3 DEF StoreInv
    <2>4. ASSUME NEW p \in Producers, WriteAsync(p) \/ StopShared(p) \/ StopClose(p)
          PROVE  /\ UNCHANGED <<sequence, last_written>>
                 /\ \A g \in Channels : pc'[g] = "store" => pc[g] = "store" /\ item'[g] = item[g]
      BY <2>4, <2>t DEF WriteAsync, StopShared, StopClose, Goto, slot, Shared!Stop
    <2>5. ASSUME NEW w \in Writers, GiveUp(w) \/ Mark(w)
          PROVE  /\ UNCHANGED <<sequence, last_written>>
                 /\ \A g \in Channels : pc'[g] = "store" => pc[g] = "store" /\ item'[g] = item[g]
      BY <2>5, <2>t, GiveUpFrame, MarkFrame DEF Goto
    <2>6. ASSUME NEW h \in Channels, WriterRecv(h) \/ WriterStart(h)
          PROVE  /\ UNCHANGED <<sequence, last_written>>
                 /\ \A g \in Channels : pc'[g] = "store" => pc[g] = "store" /\ item'[g] = item[g]
      BY <2>6, <2>t DEF WriterRecv, WriterStart, Goto, slot
    <2>7. CASE DropWriteHandle
      BY <2>3, <2>7 DEF DropWriteHandle, slot
    <2>8. \A p \in Producers : ~WriteSync(p) /\ ~Abandon(p)
      BY <1>2, <2>t DEF WriteSync, Abandon, Goto
    <2>9. CASE ReaderSide
      <3>1. UNCHANGED <<sequence, last_written>> /\ \A w \in Writers : pc'[w] = pc[w] /\ item'[w] = item[w]
        BY <2>9, ReaderFrame
      <3> QED
        BY <2>3, <3>1, Kinds
    <2> QED
      BY <2>1, <2>2, <2>3, <2>4, <2>5, <2>6, <2>7, <2>8, <2>9, NextCases DEF WriterQuiet
  <1> QED
    BY <1>1, <1>2 DEF Types, HandleTypes

\* last_written_version() of a WriteAsync handle (python/message.rs:199-226) never
\* goes back, for any number of calling threads, channels and messages: after a
\* stop() the thread of a later channel ends before it has anything to store.
THEOREM HandlesLastWrittenGrows == Spec => LastWrittenGrows
  <1>1. Types /\ WriteInv /\ StoreInv /\ [Next]_vars =>
          StoreInv' /\ [writeMode = "WriteAsync" => last_written' >= last_written]_vars
    <2> SUFFICES ASSUME Types, WriteInv, StoreInv, [Next]_vars
                 PROVE  StoreInv' /\ [writeMode = "WriteAsync" => last_written' >= last_written]_vars
      OBVIOUS
    <2>1. CASE Next
      BY <2>1, StepStores
    <2>2. CASE UNCHANGED vars
      BY <2>2 DEF vars, modes, slot, StoreInv
    <2> QED
      BY <2>1, <2>2
  <1> QED
    BY <1>1, InitWrites, TypesInvariance, WriteInvariance, PTL DEF Spec, LastWrittenGrows

----------------------------------------------------------------------------
(* The reading side: guards, and what is on its way to last_read.          *)

LEMMA WriterKeepsReads ==
  ASSUME Types, WriteInv, ReadInv, WriterQuiet \/ \E w \in Writers : Publish(w)
  PROVE  ReadInv'
  <1>t. sequence \in Nat /\ last_read \in Nat /\ seen \in [Readers -> Nat] /\ holding \subseteq Readers
    BY DEF Types, SlotTypes, HandleTypes
  <1>f. /\ UNCHANGED <<modes, holding, seen, receiver, inbox, last_read>>
        /\ \A r \in Readers : pc'[r] = pc[r] /\ item'[r] = item[r]
    BY WriterFrame
  <1>1. Locked'
    BY <1>f, Kinds DEF ReadInv, Locked
  <1>2. Rising'
    BY <1>f, Kinds DEF ReadInv, Rising, modes
  <1>3. CASE WriterQuiet
    <2>1. UNCHANGED <<sequence, message>>
      BY <1>3, WriterFrame
    <2>2. Guarded' /\ Behind'
      BY <1>t, <1>f, <2>1 DEF ReadInv, Guarded, Behind
    <2> QED
      BY <1>1, <1>2, <2>2 DEF ReadInv
  <1>4. ASSUME NEW w \in Writers, Publish(w) PROVE ReadInv'
    <2>1. sequence' = sequence + 1 /\ holding = {}
      BY <1>4, PublishNext
    <2>2. Guarded'
      BY <1>f, <2>1 DEF ReadInv, Guarded
    <2>3. Behind'
      BY <1>t, <1>f, <2>1 DEF ReadInv, Behind
    <2> QED
      BY <1>1, <1>2, <2>2, <2>3 DEF ReadInv
  <1> QED
    BY <1>3, <1>4

\* What the steps of a reading thread do to its guard.
LEMMA StepGuarded ==
  ASSUME Types, ReadInv, ReaderSide PROVE Guarded'
  <1>t. /\ sequence \in Nat /\ seen \in [Readers -> Nat] /\ holding \subseteq Readers
        /\ DOMAIN pc = Actors /\ item \in [Actors -> Items]
        /\ \A r \in Readers : r \in Actors
        /\ \A c \in Consumers : c \in Readers
        /\ Background \in Readers /\ Background \notin Consumers
        /\ UNCHANGED <<sequence, message>>
    BY ReaderFrame, Kinds DEF Types, SlotTypes, HandleTypes, Places
  <1>g. /\ \A r \in Readers : r \in holding <=> pc[r] \in {"copy", "drop"}
        /\ \A r \in holding : sequence > 0 /\ item[r] = [sequence |-> sequence, message |-> message]
    BY DEF ReadInv, Guarded
  <1>1. ASSUME NEW r \in Readers, Acquire(r) PROVE Guarded'
    <2>1. sequence > 0
      BY <1>1, <1>t DEF Acquire, Shared!Acquire, ReadInv, Behind
    <2>2. /\ holding' = holding \cup {r} /\ pc'[r] = "copy"
          /\ item'[r] = [sequence |-> sequence, message |-> message]
          /\ \A u \in Readers \ {r} : pc'[u] = pc[u] /\ item'[u] = item[u]
      BY <1>1, <1>t DEF Acquire, Goto, Shared!Acquire
    <2> QED
      BY <1>t, <1>g, <2>1, <2>2 DEF Guarded
  <1>2. ASSUME NEW r \in Readers, holding' = holding \ {r}, pc'[r] \notin {"copy", "drop"},
               \A u \in Readers \ {r} : pc'[u] = pc[u] /\ item'[u] = item[u]
        PROVE  Guarded'
    BY <1>t, <1>g, <1>2 DEF Guarded
  <1>3. ASSUME UNCHANGED holding,
               \A r \in Readers : pc'[r] \in {"copy", "drop"} <=> pc[r] \in {"copy", "drop"},
               \A r \in Readers : pc[r] \in {"copy", "drop"} => item'[r] = item[r]
        PROVE  Guarded'
    BY <1>t, <1>g, <1>3 DEF Guarded
  <1>4. ASSUME NEW c \in Consumers, CallStep(c) PROVE Guarded'
    <2>1. CASE LoadLastRead(c) \/ ReadAsync(c) \/ ReadNone(c) \/ StoreRead(c) \/ StopReading(c)
      BY <1>3, <1>t, <2>1 DEF LoadLastRead, ReadAsync, ReadNone, StoreRead, StopReading, Goto, slot,
         Shared!Stop
    <2>2. CASE LockReceiver(c) \/ Recv(c) \/ RecvNone(c) \/ StoreAsync(c)
      BY <1>3, <1>t, <2>2 DEF LockReceiver, Recv, RecvNone, StoreAsync, Goto, slot
    <2>3. CASE DropGuard(c)
      BY <1>2, <1>t, <2>3 DEF DropGuard, Goto, Shared!Release
    <2> QED
      BY <1>4, <2>1, <2>2, <2>3 DEF CallStep
  <1>5. CASE ThreadStep
    <2>1. CASE BackgroundCheck \/ BackgroundNone \/ BackgroundSend
      BY <1>3, <1>t, <2>1 DEF BackgroundCheck, BackgroundNone, BackgroundSend, Goto, slot
    <2>2. CASE BackgroundRelease
      BY <1>2, <1>t, <2>2 DEF BackgroundRelease, Goto, Shared!Release
    <2> QED
      BY <1>5, <2>1, <2>2 DEF ThreadStep
  <1>6. CASE ReadAll
    <2>1. \A r \in Readers : pc'[r] \in {"copy", "drop"} <=> pc[r] \in {"copy", "drop"}
      BY <1>6, <1>t DEF ReadAll
    <2> QED
      BY <1>3, <1>6, <2>1 DEF ReadAll
  <1>7. CASE DropReadHandle
    BY <1>3, <1>7 DEF DropReadHandle
  <1> QED
    BY <1>1, <1>4, <1>5, <1>6, <1>7 DEF ReaderSide

LEMMA StepLocked ==
  ASSUME Types, ReadInv, ReaderSide PROVE Locked'
  <1>t. /\ DOMAIN pc = Actors /\ \A c \in Consumers : c \in Actors /\ c # Background /\ c # Nobody
        /\ \A c \in Consumers : pc[c] \in {"recv", "storeAsync"} <=> receiver = c
        /\ Background \in Actors
    BY Kinds DEF Types, Places, ReadInv, Locked
  <1>3. ASSUME UNCHANGED receiver, NEW t \in Actors,
               \A u \in Actors \ {t} : pc'[u] = pc[u],
               pc'[t] \in {"recv", "storeAsync"} <=> pc[t] \in {"recv", "storeAsync"}
        PROVE  Locked'
    BY <1>t, <1>3 DEF Locked
  <1>4. ASSUME NEW c \in Consumers, CallStep(c) PROVE Locked'
    <2>1. CASE LoadLastRead(c) \/ ReadAsync(c) \/ ReadNone(c) \/ StoreRead(c) \/ DropGuard(c) \/ Recv(c)
               \/ StopReading(c)
      BY <1>3, <1>t, <2>1 DEF LoadLastRead, ReadAsync, ReadNone, StoreRead, DropGuard, Recv, StopReading, Goto
    <2>2. CASE LockReceiver(c)
      BY <1>t, <2>2 DEF LockReceiver, Goto, Locked
    <2>3. CASE RecvNone(c) \/ StoreAsync(c)
      BY <1>t, <2>3 DEF RecvNone, StoreAsync, Goto, Locked
    <2> QED
      BY <1>4, <2>1, <2>2, <2>3 DEF CallStep
  <1>5. ASSUME NEW r \in Readers, Acquire(r) PROVE Locked'
    BY <1>3, <1>5, <1>t, Kinds DEF Acquire, Goto
  <1>6. CASE ThreadStep
    <2>1. UNCHANGED receiver /\ \A c \in Consumers : pc'[c] = pc[c]
      BY <1>6, <1>t DEF ThreadStep, BackgroundCheck, BackgroundNone, BackgroundRelease, BackgroundSend, Goto
    <2> QED
      BY <1>t, <2>1 DEF Locked
  <1>7. CASE ReadAll
    <2>1. \A c \in Consumers : pc[c] = "idle" /\ pc'[c] \in {"reading", "lock"}
      BY <1>7, <1>t DEF ReadAll
    <2> QED
      BY <1>7, <1>t, <2>1 DEF ReadAll, Locked
  <1>8. CASE DropReadHandle
    BY <1>8, <1>t DEF DropReadHandle, Locked
  <1> QED
    BY <1>4, <1>5, <1>6, <1>7, <1>8 DEF ReaderSide


\* A ReadSync handle: last_read_sequence is stored from under a guard.
LEMMA SyncReads ==
  ASSUME Types, ReadInv, ReaderSide, readMode = "ReadSync"
  PROVE  Behind' /\ last_read' >= last_read
  <1>t. /\ sequence \in Nat /\ last_read \in Nat /\ seen \in [Readers -> Nat]
        /\ last_read <= sequence /\ \A r \in Readers : seen[r] <= sequence
        /\ \A c \in Consumers : pc[c] \in {"idle", "reading", "copy", "drop"} /\ c \in Readers
        /\ pc[Background] = "ended" /\ sequence' = sequence
    BY ReaderFrame, Kinds DEF Types, SlotTypes, HandleTypes, Places, ConsumerPlaces, BackgroundPlaces,
       ReadInv, Behind
  <1>1. CASE UNCHANGED <<seen, last_read>>
    BY <1>1, <1>t DEF Behind
  <1>2. ASSUME NEW c \in Consumers, CallStep(c) PROVE Behind' /\ last_read' >= last_read
    <2>1. CASE ReadAsync(c) \/ StopReading(c) \/ ReadNone(c) \/ LockReceiver(c) \/ Recv(c) \/ RecvNone(c)
      BY <1>1, <2>1 DEF ReadAsync, StopReading, Shared!Stop, ReadNone, LockReceiver, Recv, RecvNone, slot
    <2>2. CASE LoadLastRead(c)
      BY <1>t, <2>2 DEF LoadLastRead, Behind
    <2>3. CASE StoreRead(c)
      <3>1. item[c].sequence = sequence
        BY <1>t, <2>3 DEF StoreRead, Goto, ReadInv, Guarded
      <3> QED
        BY <1>t, <2>3, <3>1 DEF StoreRead, slot, Behind
    <2>4. CASE DropGuard(c)
      BY <1>t, <2>4 DEF DropGuard, Shared!Release, Behind
    <2>5. ~StoreAsync(c)
      BY <1>t DEF StoreAsync, Goto
    <2> QED
      BY <1>2, <2>1, <2>2, <2>3, <2>4, <2>5 DEF CallStep
  <1>3. ASSUME NEW r \in Readers, Acquire(r) PROVE UNCHANGED <<seen, last_read>>
    BY <1>3 DEF Acquire, Shared!Acquire
  <1>4. ~ThreadStep
    BY <1>t DEF ThreadStep, BackgroundCheck, BackgroundNone, BackgroundRelease, BackgroundSend, Goto
  <1>5. CASE ReadAll
    BY <1>5, <1>t DEF ReadAll, Behind
  <1>6. CASE DropReadHandle
    BY <1>1, <1>6 DEF DropReadHandle
  <1> QED
    BY <1>1, <1>2, <1>3, <1>4, <1>5, <1>6 DEF ReaderSide

\* What a ReadAsync handle's threads do, one at a time.
LEMMA AsyncSteps ==
  ASSUME Types, ReadInv, ReaderSide, readMode = "ReadAsync"
  PROVE  \/ /\ UNCHANGED <<last_read, seen, inbox, consumed, delivered, need>>
            /\ "read" \in open' <=> "read" \in open
            /\ pc'[Background] = "copy" => pc[Background] = "copy" \/ sequence # seen[Background]
            /\ pc'[Background] = "send" <=> pc[Background] = "send"
            /\ pc[Background] = "send" => item'[Background] = item[Background]
            /\ \A c \in Consumers : pc'[c] = "storeAsync" <=> pc[c] = "storeAsync"
            /\ \A c \in Consumers : item'[c] = item[c]
            /\ "read" \notin open => \A c \in Consumers : pc[c] = "idle" => pc'[c] = "idle"
         \/ \E c \in Consumers : Recv(c) \/ StoreAsync(c)
         \/ BackgroundRelease \/ BackgroundSend \/ DropReadHandle
  <1> DEFINE Quiet ==
        /\ UNCHANGED <<last_read, seen, inbox, consumed, delivered, need>>
        /\ "read" \in open' <=> "read" \in open
        /\ pc'[Background] = "copy" => pc[Background] = "copy" \/ sequence # seen[Background]
        /\ pc'[Background] = "send" <=> pc[Background] = "send"
        /\ pc[Background] = "send" => item'[Background] = item[Background]
        /\ \A c \in Consumers : pc'[c] = "storeAsync" <=> pc[c] = "storeAsync"
        /\ \A c \in Consumers : item'[c] = item[c]
        /\ "read" \notin open => \A c \in Consumers : pc[c] = "idle" => pc'[c] = "idle"
  <1>t. /\ seen \in [Readers -> Nat] /\ DOMAIN pc = Actors /\ item \in [Actors -> Items]
        /\ \A c \in Consumers : pc[c] \in {"idle", "lock", "recv", "storeAsync"}
        /\ \A c \in Consumers : c \in Actors /\ c # Background /\ c \in Readers
        /\ Background \in Actors /\ Background \notin Consumers
        /\ \A r \in Readers : r \in Consumers \/ r = Background
    BY Kinds DEF Types, SlotTypes, HandleTypes, Places, ConsumerPlaces, Readers
  <1> USE DEF Goto, slot, channel, history
  <1>1. ASSUME NEW c \in Consumers, ReadAsync(c) \/ StopReading(c) PROVE Quiet
    BY <1>1, <1>t DEF ReadAsync, StopReading, Shared!Stop
  <1>2. ASSUME NEW c \in Consumers, LockReceiver(c) \/ RecvNone(c) PROVE Quiet
    BY <1>2, <1>t DEF LockReceiver, RecvNone
  <1>3. \A c \in Consumers : ~LoadLastRead(c) /\ ~ReadNone(c) /\ ~StoreRead(c) /\ ~DropGuard(c)
                             /\ ~Acquire(c)
    BY <1>t DEF LoadLastRead, ReadNone, StoreRead, DropGuard, Acquire
  <1>4. CASE Acquire(Background)
    BY <1>4, <1>t DEF Acquire, Shared!Acquire
  <1>5. CASE BackgroundCheck \/ BackgroundNone
    BY <1>5, <1>t DEF BackgroundCheck, BackgroundNone
  <1>6. CASE ReadAll
    <2>1. seen' = seen
      BY <1>6, <1>t DEF ReadAll
    <2> QED
      BY <1>6, <1>t, <2>1 DEF ReadAll
  <1> QED
    BY <1>1, <1>2, <1>3, <1>4, <1>5, <1>6, <1>t DEF ReaderSide, CallStep, ThreadStep

\* A ReadAsync handle: what is in the inbox lies between last_read_sequence and
\* the background thread's, and whoever takes from it stores before the next does.
LEMMA AsyncReads ==
  ASSUME Types, ReadInv, ReaderSide, readMode = "ReadAsync"
  PROVE  Behind' /\ Rising' /\ last_read' >= last_read
  <1>t. /\ sequence \in Nat /\ last_read \in Nat /\ seen \in [Readers -> Nat]
        /\ last_read <= sequence /\ \A r \in Readers : seen[r] <= sequence
        /\ sequence' = sequence /\ readMode' = readMode
        /\ \A c \in Consumers : c \in Actors /\ c \in Readers /\ c # Background
        /\ Background \in Actors /\ Background \in Readers /\ Background \notin Consumers
        /\ inbox \in Seq(Items) /\ item \in [Actors -> Items] /\ DOMAIN pc = Actors
        /\ seen[Background] \in Nat
        /\ \A x \in Items : x.sequence \in Nat
        /\ \A i \in 1..Len(inbox) : inbox[i] \in Items
    <2>1. /\ sequence \in Nat /\ last_read \in Nat /\ seen \in [Readers -> Nat]
          /\ last_read <= sequence /\ \A r \in Readers : seen[r] <= sequence
          /\ inbox \in Seq(Items) /\ item \in [Actors -> Items] /\ DOMAIN pc = Actors
      BY DEF Types, SlotTypes, HandleTypes, Places, ReadInv, Behind
    <2>2. sequence' = sequence /\ readMode' = readMode
      BY ReaderFrame DEF modes
    <2>3. /\ \A x \in Items : x.sequence \in Nat
          /\ \A i \in 1..Len(inbox) : inbox[i] \in Items
      <3>1. \A x \in Items : x.sequence \in Nat
        BY DEF Items
      <3> QED
        BY <2>1, <3>1
    <2> QED
      BY <2>1, <2>2, <2>3, Kinds
  <1>r. /\ last_read <= seen[Background]
        /\ pc[Background] = "send" => item[Background].sequence = seen[Background]
        /\ \A i \in 1..Len(inbox) :
              last_read <= inbox[i].sequence /\ inbox[i].sequence <= seen[Background]
        /\ \A i, j \in 1..Len(inbox) : i <= j => inbox[i].sequence <= inbox[j].sequence
        /\ \A c \in Consumers : pc[c] = "storeAsync" =>
              /\ last_read <= item[c].sequence
              /\ item[c].sequence <= seen[Background]
              /\ \A i \in 1..Len(inbox) : item[c].sequence <= inbox[i].sequence
    BY DEF ReadInv, Rising
  <1> DEFINE Goal == Behind' /\ Rising' /\ last_read' >= last_read
  <1>1. CASE /\ UNCHANGED <<last_read, seen, inbox>>
             /\ pc'[Background] = "send" <=> pc[Background] = "send"
             /\ pc[Background] = "send" => item'[Background] = item[Background]
             /\ \A c \in Consumers : pc'[c] = "storeAsync" <=> pc[c] = "storeAsync"
             /\ \A c \in Consumers : item'[c] = item[c]
    <2>1. Behind' /\ last_read' >= last_read
      BY <1>1, <1>t DEF Behind
    <2>2. Rising'
      BY <1>1, <1>t, <1>r DEF Rising
    <2> QED
      BY <2>1, <2>2
  <1>2. ASSUME NEW c \in Consumers, Recv(c) PROVE Goal
    <2>1. /\ inbox # <<>> /\ inbox' = Tail(inbox) /\ UNCHANGED <<last_read, seen>>
          /\ item'[c] = Head(inbox) /\ \A u \in Actors \ {c} : item'[u] = item[u] /\ pc'[u] = pc[u]
          /\ pc[c] = "recv"
      BY <1>2, <1>t DEF Recv, Goto, slot
    <2>2. \A d \in Consumers \ {c} : pc[d] # "storeAsync"
      BY <2>1 DEF ReadInv, Locked
    <2>3. /\ Len(inbox) \in Nat /\ Len(inbox) > 0 /\ Head(inbox) = inbox[1]
          /\ Len(Tail(inbox)) = Len(inbox) - 1
          /\ \A i \in 1..Len(Tail(inbox)) : Tail(inbox)[i] = inbox[i + 1]
      BY <1>t, <2>1
    <2>4. Behind' /\ last_read' >= last_read
      BY <1>t, <2>1 DEF Behind
    <2>5. /\ \A i \in 1..Len(inbox') : /\ i + 1 \in 1..Len(inbox) /\ inbox'[i] = inbox[i + 1]
                                       /\ inbox[1].sequence <= inbox[i + 1].sequence
          /\ 1 \in 1..Len(inbox)
      <3>1. 1 \in 1..Len(inbox)
        BY <2>3
      <3>2. ASSUME NEW i \in 1..Len(inbox')
            PROVE  i + 1 \in 1..Len(inbox) /\ inbox'[i] = inbox[i + 1] /\ 1 <= i + 1
        BY <2>1, <2>3
      <3> QED
        BY <1>r, <3>1, <3>2
    <2>6. \A i, j \in 1..Len(inbox') : i <= j => inbox'[i].sequence <= inbox'[j].sequence
      <3> SUFFICES ASSUME NEW i \in 1..Len(inbox'), NEW j \in 1..Len(inbox'), i <= j
                   PROVE  inbox[i + 1].sequence <= inbox[j + 1].sequence
        BY <2>5
      <3>1. i + 1 <= j + 1
        OBVIOUS
      <3> QED
        BY <1>r, <2>5, <3>1
    <2>7. \A i \in 1..Len(inbox') :
             last_read' <= inbox'[i].sequence /\ inbox'[i].sequence <= seen'[Background]
      BY <1>r, <2>1, <2>5
    <2>8. ASSUME NEW d \in Consumers, pc'[d] = "storeAsync"
          PROVE  /\ last_read' <= item'[d].sequence /\ item'[d].sequence <= seen'[Background]
                 /\ \A i \in 1..Len(inbox') : item'[d].sequence <= inbox'[i].sequence
      <3>1. d = c /\ item'[d] = inbox[1]
        BY <1>t, <2>1, <2>2, <2>3, <2>8
      <3> QED
        BY <1>r, <2>1, <2>5, <3>1
    <2>9. /\ last_read' <= seen'[Background]
          /\ pc'[Background] = "send" => item'[Background].sequence = seen'[Background]
      BY <1>t, <1>r, <2>1
    <2> QED
      BY <2>4, <2>6, <2>7, <2>8, <2>9 DEF Rising
  <1>3. ASSUME NEW c \in Consumers, StoreAsync(c) PROVE Goal
    <2>1. /\ UNCHANGED <<inbox, seen>> /\ last_read' = item[c].sequence
          /\ \A u \in Actors \ {c} : item'[u] = item[u] /\ pc'[u] = pc[u]
          /\ pc[c] = "storeAsync" /\ pc'[c] = "idle"
      BY <1>3, <1>t DEF StoreAsync, Goto, slot, channel
    <2>2. \A d \in Consumers : pc'[d] # "storeAsync"
      BY <1>t, <2>1 DEF ReadInv, Locked
    <2>3. item[c].sequence \in Nat /\ last_read <= item[c].sequence /\ item[c].sequence <= seen[Background]
          /\ \A i \in 1..Len(inbox) : item[c].sequence <= inbox[i].sequence
      BY <1>t, <1>r, <2>1
    <2>4. Behind' /\ last_read' >= last_read
      BY <1>t, <2>1, <2>3 DEF Behind
    <2>5. Rising'
      BY <1>t, <1>r, <2>1, <2>2, <2>3 DEF Rising
    <2> QED
      BY <2>4, <2>5
  <1>4. CASE BackgroundRelease
    <2>1. /\ UNCHANGED <<inbox, last_read, item>> /\ seen' = [seen EXCEPT ![Background] = sequence]
          /\ \A c \in Consumers : pc'[c] = pc[c]
          /\ item[Background].sequence = sequence
      BY <1>4, <1>t DEF BackgroundRelease, Goto, channel, Shared!Release, ReadInv, Guarded
    <2>2. Behind' /\ last_read' >= last_read
      BY <1>t, <2>1 DEF Behind
    <2>3. seen'[Background] = sequence /\ seen[Background] <= sequence
      BY <1>t, <2>1
    <2>4. \A i \in 1..Len(inbox) : inbox[i].sequence \in Nat /\ inbox[i].sequence <= sequence
      BY <1>t, <1>r, <2>3
    <2>5. \A c \in Consumers : item[c].sequence \in Nat
      BY <1>t
    <2>6. \A c \in Consumers : pc[c] = "storeAsync" => item[c].sequence <= sequence
      BY <1>t, <1>r, <2>3, <2>5
    <2>7. Rising'
      BY <1>t, <1>r, <2>1, <2>3, <2>4, <2>6 DEF Rising
    <2> QED
      BY <2>2, <2>7
  <1>5. CASE BackgroundSend
    <2>1. /\ UNCHANGED <<last_read, seen>>
          /\ \A c \in Consumers : pc'[c] = pc[c] /\ item'[c] = item[c]
          /\ pc[Background] = "send" /\ pc'[Background] # "send"
          /\ inbox' = inbox \/ inbox' = Append(inbox, item[Background])
      BY <1>5, <1>t DEF BackgroundSend, Goto, slot
    <2>2. Behind' /\ last_read' >= last_read
      BY <1>t, <2>1 DEF Behind
    <2>3. CASE inbox' = inbox
      BY <1>t, <1>r, <2>1, <2>2, <2>3 DEF Rising
    <2>4. CASE inbox' = Append(inbox, item[Background])
      <3>1. /\ Len(inbox) \in Nat /\ Len(inbox') = Len(inbox) + 1
            /\ \A i \in 1..Len(inbox) : inbox'[i] = inbox[i]
            /\ inbox'[Len(inbox) + 1] = item[Background]
        BY <1>t, <2>4
      <3>2. item[Background].sequence = seen[Background]
        BY <1>r, <2>1
      <3>3. \A i \in 1..Len(inbox') : i \in 1..Len(inbox) \/ i = Len(inbox) + 1
        BY <3>1
      <3>4. \A i \in 1..Len(inbox') :
               last_read <= inbox'[i].sequence /\ inbox'[i].sequence <= seen[Background]
        BY <1>t, <1>r, <3>1, <3>2, <3>3
      <3>5. \A i, j \in 1..Len(inbox') : i <= j => inbox'[i].sequence <= inbox'[j].sequence
        <4> SUFFICES ASSUME NEW i \in 1..Len(inbox'), NEW j \in 1..Len(inbox'), i <= j
                     PROVE  inbox'[i].sequence <= inbox'[j].sequence
          OBVIOUS
        <4>1. CASE j = Len(inbox) + 1
          BY <3>1, <3>2, <3>4, <4>1
        <4>2. CASE j \in 1..Len(inbox)
          <5>1. i \in 1..Len(inbox)
            BY <3>1, <4>2
          <5> QED
            BY <1>r, <3>1, <4>2, <5>1
        <4> QED
          BY <3>3, <4>1, <4>2
      <3>6. ASSUME NEW c \in Consumers, pc[c] = "storeAsync", NEW i \in 1..Len(inbox')
            PROVE  item[c].sequence <= inbox'[i].sequence
        BY <1>r, <3>1, <3>2, <3>3, <3>6
      <3> QED
        BY <1>t, <1>r, <2>1, <2>2, <3>4, <3>5, <3>6 DEF Rising
    <2> QED
      BY <2>1, <2>3, <2>4
  <1>6. CASE DropReadHandle
    <2>1. /\ UNCHANGED <<last_read, seen, pc, item>> /\ inbox' = <<>>
          /\ \A c \in Consumers : pc[c] = "idle"
      BY <1>6 DEF DropReadHandle
    <2>2. Behind' /\ last_read' >= last_read
      BY <1>t, <2>1 DEF Behind
    <2>3. Len(inbox') = 0
      BY <2>1
    <2> QED
      BY <1>t, <1>r, <2>1, <2>2, <2>3 DEF Rising
  <1> QED
    BY <1>1, <1>2, <1>3, <1>4, <1>5, <1>6, AsyncSteps

LEMMA InitReads == Init => ReadInv
  <1> SUFFICES ASSUME Init PROVE ReadInv
    OBVIOUS
  <1>1. /\ sequence = 0 /\ holding = {} /\ last_read = 0 /\ Len(inbox) = 0
        /\ \A r \in Readers : seen[r] = 0
        /\ receiver = Nobody
    BY DEF Init, Shared!Init
  <1>2. /\ \A c \in Consumers : pc[c] = "idle" /\ c # Nobody
        /\ pc[Background] \in {"check", "ended"}
    BY Kinds DEF Init
  <1>3. Guarded
    BY <1>1, <1>2 DEF Guarded, Readers
  <1>4. Behind /\ Locked
    BY <1>1, <1>2 DEF Behind, Locked
  <1>5. Rising
    BY <1>1, <1>2, Kinds DEF Rising
  <1> QED
    BY <1>3, <1>4, <1>5 DEF ReadInv

LEMMA StepReads ==
  ASSUME Types, WriteInv, ReadInv, [Next]_vars
  PROVE  ReadInv' /\ [last_read' >= last_read]_vars
  <1>1. CASE WriterQuiet \/ \E w \in Writers : Publish(w)
    <2>1. last_read' = last_read /\ last_read \in Nat
      BY <1>1, WriterFrame DEF Types, HandleTypes
    <2> QED
      BY <1>1, <2>1, WriterKeepsReads
  <1>2. CASE ReaderSide
    <2>1. CASE readMode = "ReadSync"
      <3>1. readMode' = "ReadSync"
        BY <1>2, <2>1, ReaderFrame DEF modes
      <3>2. Rising'
        BY <3>1 DEF Rising
      <3> QED
        BY <1>2, <2>1, <3>2, SyncReads, StepGuarded, StepLocked DEF ReadInv
    <2>2. CASE readMode = "ReadAsync"
      BY <1>2, <2>2, AsyncReads, StepGuarded, StepLocked DEF ReadInv
    <2> QED
      BY <2>1, <2>2 DEF Types, HandleTypes
  <1>3. CASE UNCHANGED vars
    BY <1>3 DEF vars, modes, slot, channel, ReadInv, Guarded, Behind, Locked, Rising
  <1> QED
    BY <1>1, <1>2, <1>3, NextCases

LEMMA ReadInvariance == Spec => []ReadInv
  BY StepReads, InitReads, TypesInvariance, WriteInvariance, PTL DEF Spec

\* last_read_version() (python/message.rs:248-296) never goes back, in either mode,
\* for any policy and any number of threads that share the handle: a ReadSync
\* handle stores it while a guard keeps the slot as it is, a ReadAsync one with
\* the receiver's mutex held.
THEOREM HandlesLastReadGrows == Spec => LastReadGrows
  BY StepReads, ReadInvariance, TypesInvariance, WriteInvariance, PTL DEF LastReadGrows, Spec

----------------------------------------------------------------------------
(* Delivery.                                                               *)

\* What was sent stays where it was.
LEMMA SentGrows ==
  ASSUME Types, Next
  PROVE  Len(sent) <= Len(sent') /\ \A i \in 1..Len(sent) : sent'[i] = sent[i]
  <1>t. /\ sent \in Seq(Nat) /\ accepted \in Nat /\ item \in [Actors -> Items]
        /\ \A w \in Writers : w \in Actors
    BY Kinds, HandleAssumption DEF Types, HandleTypes
  <1>1. CASE sent' = sent
    BY <1>1, <1>t
  <1>2. ASSUME NEW n \in Nat, sent' = Append(sent, n)
        PROVE  Len(sent) <= Len(sent') /\ \A i \in 1..Len(sent) : sent'[i] = sent[i]
    BY <1>2, <1>t
  <1>3. ASSUME NEW w \in Writers, Publish(w)
        PROVE  sent' = sent \/ \E n \in Nat : sent' = Append(sent, n)
    <2>1. item[w] \in Items
      BY <1>t
    <2>2. item[w].message \in Nat
      BY <2>1 DEF Items
    <2> QED
      BY <1>3, <2>2 DEF Publish
  <1>4. CASE WriterQuiet
    <2>1. ASSUME NEW p \in Producers, WriteAsync(p) PROVE \E n \in Nat : sent' = Append(sent, n)
      BY <1>t, <2>1 DEF WriteAsync, NewMessage
    <2>2. ASSUME NEW p \in Producers, WriteSync(p) \/ StopShared(p) \/ StopClose(p) PROVE sent' = sent
      BY <2>2 DEF WriteSync, StopShared, StopClose, history
    <2>3. ASSUME NEW w \in Writers, GiveUp(w) \/ StoreWritten(w) \/ Mark(w) \/ Abandon(w)
          PROVE  sent' = sent
      BY <2>3, GiveUpFrame DEF StoreWritten, Mark, Abandon, history
    <2>4. ASSUME NEW g \in Channels, WriterRecv(g) \/ WriterStart(g) PROVE sent' = sent
      BY <2>4 DEF WriterRecv, WriterStart, history
    <2>5. CASE DropWriteHandle
      BY <1>1, <2>5 DEF DropWriteHandle, history
    <2> QED
      BY <1>1, <1>2, <1>4, <2>1, <2>2, <2>3, <2>4, <2>5, Kinds DEF WriterQuiet
  <1>5. CASE ReaderSide
    BY <1>1, <1>5, ReaderFrame
  <1> QED
    BY <1>1, <1>2, <1>3, <1>4, <1>5, NextCases

LEMMA GenuineKept ==
  ASSUME Types, Next, NEW x, Genuine(x) PROVE GenuineIn(sent', x)
  <1>1. Len(sent) \in Nat /\ Len(sent') \in Nat
    <2>1. sent \in Seq(Nat) /\ sent' \in Seq(Nat)
      BY StepHandleTypes DEF Types, HandleTypes
    <2> QED
      BY <2>1
  <1> QED
    BY <1>1, SentGrows DEF Genuine, GenuineIn

\* The message in the slot, as a guard gives it out, is genuine.
LEMMA SlotGenuine ==
  ASSUME Types, WriteInv, ReadInv, NEW r \in holding PROVE Genuine(item[r])
  <1>1. sequence \in Nat /\ Len(sent) \in Nat
    BY DEF Types, SlotTypes, HandleTypes
  <1>2. sequence > 0 /\ item[r] = [sequence |-> sequence, message |-> message]
    BY DEF ReadInv, Guarded
  <1>3. sequence <= Len(sent) /\ message = sent[sequence]
    BY <1>2 DEF WriteInv, Recorded
  <1> QED
    BY <1>1, <1>2, <1>3 DEF Genuine, GenuineIn

\* Steps that deliver nothing.
LEMMA NothingDelivered ==
  ASSUME Types, Next, Traced, DeliveredInOrder, UNCHANGED <<delivered, readMode>>
  PROVE  Traced' /\ DeliveredInOrder' /\ Last' = Last
  <1>1. \A i \in 1..Len(delivered) : GenuineIn(sent', delivered[i])
    BY GenuineKept DEF Traced
  <1>2. DOMAIN delivered = 1..Len(delivered)
    BY DEF Types, HandleTypes
  <1>3. \A i \in DOMAIN delivered : delivered[i].message = sent'[delivered[i].sequence]
    BY <1>1, <1>2 DEF GenuineIn
  <1>4. DeliveredInOrder'
    BY <1>3 DEF DeliveredInOrder
  <1> QED
    BY <1>1, <1>4 DEF Traced, Last, Genuine

\* A step that delivers the next message, or the newest once more.
LEMMA OneDelivered ==
  ASSUME Types, Traced, DeliveredInOrder, UNCHANGED <<sent, readMode>>,
         NEW x \in Items, delivered' = Append(delivered, x), Genuine(x),
         x.sequence = Last + 1 \/ (readMode = "ReadSync" /\ x.sequence = Last)
  PROVE  /\ Traced' /\ DeliveredInOrder' /\ Last' = x.sequence
         /\ Len(delivered') = Len(delivered) + 1
         /\ \A i \in 1..Len(delivered) : delivered'[i] = delivered[i]
         /\ delivered'[Len(delivered) + 1] = x
  <1>1. /\ delivered \in Seq(Items) /\ Len(delivered) \in Nat
        /\ Len(delivered') = Len(delivered) + 1
        /\ \A i \in 1..Len(delivered) : delivered'[i] = delivered[i]
        /\ delivered'[Len(delivered) + 1] = x
        /\ DOMAIN delivered = 1..Len(delivered) /\ DOMAIN delivered' = 1..(Len(delivered) + 1)
    BY DEF Types, HandleTypes
  <1>2. \A i \in 1..Len(delivered') : i \in 1..Len(delivered) \/ i = Len(delivered) + 1
    BY <1>1
  <1>3. Traced'
    BY <1>1, <1>2 DEF Traced, Genuine
  <1>4. Last' = x.sequence
    <2>1. delivered' # <<>>
      BY <1>1
    <2> QED
      BY <1>1, <2>1 DEF Last
  <1>5. DeliveredInOrder'
    <2> SUFFICES ASSUME NEW i \in DOMAIN delivered'
                 PROVE  LET before == IF i = 1 THEN 0 ELSE delivered'[i - 1].sequence
                        IN  /\ delivered'[i].message = sent[delivered'[i].sequence]
                            /\ \/ delivered'[i].sequence = before + 1
                               \/ readMode = "ReadSync" /\ delivered'[i].sequence = before
      BY DEF DeliveredInOrder
    <2>1. CASE i = Len(delivered) + 1
      <3>1. x.message = sent[x.sequence]
        BY DEF Genuine, GenuineIn
      <3>2. CASE Len(delivered) = 0
        <4>1. Last = 0 /\ i = 1
          BY <1>1, <2>1, <3>2 DEF Last
        <4> QED
          BY <1>1, <2>1, <3>1, <4>1
      <3>3. CASE Len(delivered) # 0
        <4>1. /\ i # 1 /\ i - 1 = Len(delivered) /\ Len(delivered) \in 1..Len(delivered)
              /\ delivered # <<>>
          BY <1>1, <2>1, <3>3
        <4>2. delivered'[i - 1].sequence = Last
          BY <1>1, <4>1 DEF Last
        <4> QED
          BY <1>1, <2>1, <3>1, <4>1, <4>2
      <3> QED
        BY <3>2, <3>3
    <2>2. CASE i \in 1..Len(delivered)
      <3>1. delivered'[i] = delivered[i] /\ (i # 1 => delivered'[i - 1] = delivered[i - 1])
        BY <1>1, <2>2
      <3> QED
        BY <1>1, <2>2, <3>1 DEF DeliveredInOrder
    <2> QED
      BY <1>1, <1>2, <2>1, <2>2
  <1> QED
    BY <1>1, <1>3, <1>4, <1>5

LEMMA LastType == ASSUME Types PROVE Last \in Nat
  <1>1. delivered \in Seq(Items)
    BY DEF Types, HandleTypes
  <1>2. CASE delivered = <<>>
    BY <1>2 DEF Last
  <1>3. CASE delivered # <<>>
    <2>1. delivered[Len(delivered)] \in Items
      BY <1>1, <1>3
    <2> QED
      BY <1>3, <2>1 DEF Last, Items
  <1> QED
    BY <1>2, <1>3

\* The writing side publishes when the reading handle has had the last message.
LEMMA WriterKeepsDelivery ==
  ASSUME Types, WriteInv, ReadInv, DeliveryInv, Next,
         WriterQuiet \/ \E w \in Writers : Publish(w)
  PROVE  DeliveryInv'
  <1>t. /\ sequence \in Nat /\ consumed \in Nat /\ need \in Nat /\ seen[Background] \in Nat
        /\ Last \in Nat /\ Background \in Readers
        /\ \A c \in Consumers : c \in Readers
    BY LastType, Kinds DEF Types, SlotTypes
  <1>f. /\ UNCHANGED <<modes, holding, need, seen, receiver, inbox, delivered>>
        /\ readMode' = readMode
        /\ \A r \in Readers : pc'[r] = pc[r] /\ item'[r] = item[r]
        /\ "read" \in open' <=> "read" \in open
    BY WriterFrame DEF modes
  <1>1. Traced' /\ DeliveredInOrder' /\ Last' = Last
    BY <1>f, NothingDelivered DEF DeliveryInv
  <1>2. ("read" \in open' => need' = 1) /\ Closed'
    BY <1>f, <1>t DEF DeliveryInv, Closed
  <1>3. InHand' = InHand /\ Passed' = Passed
    BY <1>f, <1>t DEF InHand, Passed
  <1>4. \/ UNCHANGED <<sequence, consumed>>
        \/ /\ sequence' = sequence + 1 /\ consumed' = 0 /\ holding = {}
           /\ sequence > 0 => consumed >= need
    BY WriterFrame, PublishNext
  <1>5. SyncDelivery'
    BY <1>t, <1>f, <1>1, <1>4 DEF SyncDelivery, DeliveryInv
  <1>6. AsyncDelivery'
    <2> SUFFICES ASSUME readMode = "ReadAsync" PROVE AsyncDelivery'
      BY <1>f DEF AsyncDelivery
    <2>1. \A i \in 1..Len(delivered) : delivered[i].sequence = i
      BY DEF DeliveryInv, AsyncDelivery
    <2>2. CASE "read" \notin open
      BY <1>f, <2>1, <2>2 DEF AsyncDelivery
    <2>3. CASE "read" \in open
      <3>1. /\ \A c \in Consumers : pc[c] = "storeAsync" =>
                  item[c].sequence = Len(delivered) + 1 /\ Genuine(item[c])
            /\ \A i \in 1..Len(inbox) :
                  inbox[i].sequence = Len(delivered) + InHand + i /\ Genuine(inbox[i])
            /\ pc[Background] = "copy" => sequence = seen[Background] + 1
            /\ pc[Background] = "send" => Genuine(item[Background])
            /\ seen[Background] = IF pc[Background] = "send" THEN Passed + 1 ELSE Passed
            /\ sequence <= seen[Background] + 1
            /\ consumed > 0 => sequence = seen[Background]
        BY <2>3 DEF DeliveryInv, AsyncDelivery
      <3>2. \A c \in Consumers : pc'[c] = "storeAsync" =>
               item'[c].sequence = Len(delivered) + 1 /\ GenuineIn(sent', item'[c])
        BY <1>f, <1>t, <3>1, GenuineKept
      <3>3. \A i \in 1..Len(inbox) :
               inbox[i].sequence = Len(delivered) + InHand + i /\ GenuineIn(sent', inbox[i])
        BY <3>1, GenuineKept
      <3>4. pc'[Background] = "send" => GenuineIn(sent', item'[Background])
        BY <1>f, <1>t, <3>1, GenuineKept
      <3>5. /\ pc'[Background] = "copy" => sequence' = seen[Background] + 1
            /\ sequence' <= seen[Background] + 1
            /\ consumed' > 0 => sequence' = seen[Background]
        <4>1. CASE UNCHANGED <<sequence, consumed>>
          BY <1>f, <1>t, <3>1, <4>1
        <4>2. CASE /\ sequence' = sequence + 1 /\ consumed' = 0 /\ holding = {}
                   /\ sequence > 0 => consumed >= need
          <5>1. pc[Background] # "copy"
            BY <1>t, <4>2 DEF ReadInv, Guarded
          <5>2. need = 1 /\ seen[Background] <= sequence
            BY <1>t, <2>3 DEF DeliveryInv, ReadInv, Behind
          <5>3. sequence = seen[Background]
            BY <1>t, <3>1, <4>2, <5>2
          <5> QED
            BY <1>f, <1>t, <4>2, <5>1, <5>3
        <4> QED
          BY <1>4, <4>1, <4>2
      <3> QED
        BY <1>f, <1>t, <1>3, <2>1, <3>1, <3>2, <3>3, <3>4, <3>5 DEF AsyncDelivery, Genuine
    <2> QED
      BY <2>2, <2>3
  <1> QED
    BY <1>1, <1>2, <1>5, <1>6 DEF DeliveryInv

\* A ReadSync handle delivers from under the guard.
LEMMA SyncKeepsDelivery ==
  ASSUME Types, WriteInv, ReadInv, DeliveryInv, Next, ReaderSide, readMode = "ReadSync"
  PROVE  DeliveryInv'
  <1>t. /\ sequence \in Nat /\ consumed \in Nat /\ Last \in Nat
        /\ DOMAIN pc = Actors /\ item \in [Actors -> Items]
        /\ \A c \in Consumers : pc[c] \in {"idle", "reading", "copy", "drop"} /\ c \in Readers
                                /\ c \in Actors
        /\ pc[Background] = "ended" /\ UNCHANGED <<sequence, sent, readMode>>
        /\ \A r \in Readers : r \in Consumers \/ r = Background
    BY LastType, ReaderFrame, Kinds DEF Types, SlotTypes, HandleTypes, Places, ConsumerPlaces,
       BackgroundPlaces, Readers, modes
  <1>a. AsyncDelivery'
    BY <1>t DEF AsyncDelivery
  <1>c. "read" \notin open => \A c \in Consumers : pc[c] = "idle"
    BY DEF DeliveryInv, Closed
  <1> USE DEF Goto, slot, history
  <1>1. CASE /\ UNCHANGED <<consumed, delivered, need, open>>
             /\ "read" \notin open => UNCHANGED pc
    <2>1. Traced' /\ DeliveredInOrder' /\ Last' = Last
      BY <1>1, <1>t, NothingDelivered DEF DeliveryInv
    <2>2. SyncDelivery'
      BY <1>1, <1>t, <2>1 DEF DeliveryInv, SyncDelivery
    <2>3. Closed'
      BY <1>1, <1>c DEF Closed
    <2> QED
      BY <1>a, <1>1, <2>1, <2>2, <2>3 DEF DeliveryInv
  <1>2. ASSUME NEW c \in Consumers, CallStep(c) PROVE DeliveryInv'
    <2>1. CASE LoadLastRead(c) \/ ReadAsync(c)
      BY <1>1, <2>1 DEF LoadLastRead, ReadAsync
    <2>2. CASE StopReading(c)
      BY <1>1, <2>2 DEF StopReading, Shared!Stop
    <2>3. CASE ReadNone(c) \/ StoreRead(c) \/ LockReceiver(c) \/ Recv(c) \/ RecvNone(c)
      BY <1>1, <1>c, <2>3 DEF ReadNone, StoreRead, LockReceiver, Recv, RecvNone
    <2>4. CASE DropGuard(c)
      <3>1. /\ pc[c] = "drop" /\ pc' = [pc EXCEPT ![c] = "idle"] /\ c \in holding
            /\ delivered' = Append(delivered, item[c]) /\ UNCHANGED <<need, open>>
            /\ consumed' = consumed + 1
        BY <2>4 DEF DropGuard, Shared!Release
      <3>2. "read" \in open
        BY <1>c, <3>1
      <3>3. item[c].sequence = sequence /\ Genuine(item[c]) /\ item[c] \in Items
        BY <1>t, <3>1, SlotGenuine DEF ReadInv, Guarded
      <3>4. Last <= sequence /\ sequence <= Last + 1
        BY <3>2 DEF DeliveryInv, SyncDelivery
      <3>5. Traced' /\ DeliveredInOrder' /\ Last' = sequence
        <4>1. Traced /\ DeliveredInOrder
          BY DEF DeliveryInv
        <4>2. item[c].sequence = Last + 1 \/ (readMode = "ReadSync" /\ item[c].sequence = Last)
          BY <1>t, <3>3, <3>4
        <4> HIDE DEF history
        <4>3. UNCHANGED <<sent, readMode>>
          BY <1>t
        <4> QED
          BY <3>1, <3>3, <4>1, <4>2, <4>3, OneDelivered
      <3>6. SyncDelivery'
        BY <1>t, <3>5 DEF SyncDelivery
      <3>7. Closed'
        BY <3>1, <3>2 DEF Closed
      <3> QED
        BY <1>a, <3>1, <3>5, <3>6, <3>7 DEF DeliveryInv
    <2>5. ~StoreAsync(c)
      BY <1>t DEF StoreAsync
    <2> QED
      BY <1>2, <2>1, <2>2, <2>3, <2>4, <2>5 DEF CallStep
  <1>3. ASSUME NEW r \in Readers, Acquire(r) PROVE DeliveryInv'
    BY <1>1, <1>3, <1>c, <1>t DEF Acquire, Shared!Acquire
  <1>4. ~ThreadStep
    BY <1>t DEF ThreadStep, BackgroundCheck, BackgroundNone, BackgroundRelease, BackgroundSend
  <1>5. CASE ReadAll
    BY <1>1, <1>5 DEF ReadAll
  <1>6. CASE DropReadHandle
    <2>1. UNCHANGED <<delivered, pc>> /\ "read" \notin open' /\ \A c \in Consumers : pc[c] = "idle"
      BY <1>6 DEF DropReadHandle
    <2>2. Traced' /\ DeliveredInOrder'
      BY <1>t, <2>1, NothingDelivered DEF DeliveryInv
    <2> QED
      BY <1>a, <2>1, <2>2 DEF DeliveryInv, SyncDelivery, Closed
  <1> QED
    BY <1>2, <1>3, <1>4, <1>5, <1>6 DEF ReaderSide

\* A ReadAsync handle delivers what the background thread has read, one message
\* at a time; what is under way between the two is numbered without a gap.
LEMMA AsyncKeepsDelivery ==
  ASSUME Types, WriteInv, ReadInv, DeliveryInv, Next, ReaderSide, readMode = "ReadAsync"
  PROVE  DeliveryInv'
  <1>t. /\ sequence \in Nat /\ consumed \in Nat /\ seen \in [Readers -> Nat]
        /\ seen[Background] \in Nat /\ Len(delivered) \in Nat /\ Len(inbox) \in Nat
        /\ inbox \in Seq(Items) /\ item \in [Actors -> Items] /\ DOMAIN pc = Actors
        /\ delivered \in Seq(Items)
        /\ \A c \in Consumers : c \in Actors /\ c # Background
        /\ Background \in Readers /\ Background \in Actors /\ Background \notin Consumers
        /\ UNCHANGED <<sequence, sent, readMode>>
    <2>1. /\ sequence \in Nat /\ consumed \in Nat /\ seen \in [Readers -> Nat]
          /\ inbox \in Seq(Items) /\ item \in [Actors -> Items] /\ DOMAIN pc = Actors
          /\ delivered \in Seq(Items)
      BY DEF Types, SlotTypes, HandleTypes, Places
    <2>2. UNCHANGED <<sequence, sent, readMode>>
      BY ReaderFrame DEF modes
    <2> QED
      BY <2>1, <2>2, Kinds
  <1>s. SyncDelivery'
    BY <1>t DEF SyncDelivery
  <1>d. Traced /\ DeliveredInOrder /\ ("read" \in open => need = 1)
        /\ \A i \in 1..Len(delivered) : delivered[i].sequence = i
    BY DEF DeliveryInv, AsyncDelivery
  <1>c. "read" \notin open => \A c \in Consumers : pc[c] = "idle"
    BY DEF DeliveryInv, Closed
  <1>o. "read" \in open =>
          /\ \A c \in Consumers : pc[c] = "storeAsync" =>
                item[c].sequence = Len(delivered) + 1 /\ Genuine(item[c])
          /\ \A i \in 1..Len(inbox) :
                inbox[i].sequence = Len(delivered) + InHand + i /\ Genuine(inbox[i])
          /\ pc[Background] = "copy" => sequence = seen[Background] + 1
          /\ pc[Background] = "send" => Genuine(item[Background])
          /\ seen[Background] = IF pc[Background] = "send" THEN Passed + 1 ELSE Passed
          /\ sequence <= seen[Background] + 1
          /\ consumed > 0 => sequence = seen[Background]
    BY DEF DeliveryInv, AsyncDelivery
  <1>g. \A x : Genuine(x) => GenuineIn(sent', x)
    BY <1>t DEF Genuine
  <1>h. InHand \in {0, 1}
    BY DEF InHand
  <1>q. ASSUME UNCHANGED delivered PROVE Traced' /\ DeliveredInOrder' /\ Last' = Last
    BY <1>q, <1>d, <1>t, NothingDelivered
  <1> USE DEF Goto, slot, channel, history
  <1>1. CASE /\ UNCHANGED <<last_read, seen, inbox, consumed, delivered, need>>
             /\ "read" \in open' <=> "read" \in open
             /\ pc'[Background] = "copy" => pc[Background] = "copy" \/ sequence # seen[Background]
             /\ pc'[Background] = "send" <=> pc[Background] = "send"
             /\ pc[Background] = "send" => item'[Background] = item[Background]
             /\ \A c \in Consumers : pc'[c] = "storeAsync" <=> pc[c] = "storeAsync"
             /\ \A c \in Consumers : item'[c] = item[c]
             /\ "read" \notin open => \A c \in Consumers : pc[c] = "idle" => pc'[c] = "idle"
    <2>1. InHand' = InHand
      BY <1>1 DEF InHand
    <2>2. Passed' = Passed
      BY <1>1, <2>1 DEF Passed
    <2>3. Closed'
      BY <1>1, <1>c DEF Closed
    <2>4. AsyncDelivery'
      <3>1. CASE "read" \notin open
        BY <1>1, <1>t, <1>d, <3>1 DEF AsyncDelivery
      <3>2. CASE "read" \in open
        <4>1. seen[Background] <= sequence
          BY <1>t DEF ReadInv, Behind
        <4>2. pc'[Background] = "copy" => sequence = seen[Background] + 1
          BY <1>1, <1>t, <1>o, <3>2, <4>1
        <4> QED
          BY <1>1, <1>t, <1>d, <1>o, <1>g, <2>1, <2>2, <3>2, <4>2 DEF AsyncDelivery, Genuine
      <3> QED
        BY <3>1, <3>2
    <2> QED
      BY <1>1, <1>s, <1>d, <1>q, <2>3, <2>4 DEF DeliveryInv
  <1>2. ASSUME NEW c \in Consumers, Recv(c) PROVE DeliveryInv'
    <2>1. /\ inbox # <<>> /\ inbox' = Tail(inbox)
          /\ UNCHANGED <<seen, consumed, delivered, need, open>>
          /\ item'[c] = Head(inbox) /\ \A u \in Actors \ {c} : item'[u] = item[u] /\ pc'[u] = pc[u]
          /\ pc[c] = "recv" /\ pc'[c] = "storeAsync"
      BY <1>2, <1>t DEF Recv
    <2>2. "read" \in open
      BY <1>c, <2>1
    <2>3. \A d \in Consumers \ {c} : pc[d] # "storeAsync" /\ pc'[d] # "storeAsync"
      BY <1>t, <2>1 DEF ReadInv, Locked
    <2>4. InHand = 0 /\ InHand' = 1
      BY <2>1, <2>3 DEF InHand
    <2>5. /\ Len(inbox) > 0 /\ Head(inbox) = inbox[1] /\ Len(inbox') = Len(inbox) - 1
          /\ 1 \in 1..Len(inbox)
          /\ \A i \in 1..Len(inbox') : i + 1 \in 1..Len(inbox) /\ inbox'[i] = inbox[i + 1]
      <3>1. Len(inbox) > 0 /\ Head(inbox) = inbox[1] /\ Len(inbox') = Len(inbox) - 1
        BY <1>t, <2>1
      <3>2. ASSUME NEW i \in 1..Len(inbox') PROVE i + 1 \in 1..Len(inbox) /\ inbox'[i] = inbox[i + 1]
        BY <1>t, <2>1, <3>1
      <3> QED
        BY <1>t, <3>1, <3>2
    <2>6. Passed' = Passed
      BY <1>t, <2>1, <2>4, <2>5 DEF Passed
    <2>7. \A d \in Consumers : pc'[d] = "storeAsync" =>
             item'[d].sequence = Len(delivered) + 1 /\ GenuineIn(sent', item'[d])
      <3>1. inbox[1].sequence = Len(delivered) + 1 /\ Genuine(inbox[1])
        BY <1>t, <1>o, <2>2, <2>4, <2>5
      <3> QED
        BY <1>g, <2>1, <2>3, <2>5, <3>1
    <2>8. ASSUME NEW i \in 1..Len(inbox')
          PROVE  /\ inbox'[i].sequence = Len(delivered) + InHand' + i
                 /\ GenuineIn(sent', inbox'[i])
      <3>1. inbox[i + 1].sequence = Len(delivered) + InHand + (i + 1) /\ Genuine(inbox[i + 1])
        BY <1>o, <2>2, <2>5, <2>8
      <3>2. Len(delivered) + InHand + (i + 1) = Len(delivered) + InHand' + i
        BY <1>t, <2>4
      <3> QED
        BY <1>g, <2>5, <3>1, <3>2
    <2>9. AsyncDelivery'
      BY <1>t, <1>d, <1>o, <1>g, <2>1, <2>2, <2>6, <2>7, <2>8 DEF AsyncDelivery, Genuine
    <2> QED
      BY <1>s, <1>d, <1>q, <2>1, <2>2, <2>9 DEF DeliveryInv, Closed
  <1>3. ASSUME NEW c \in Consumers, StoreAsync(c) PROVE DeliveryInv'
    <2>1. /\ UNCHANGED <<inbox, seen, consumed, need, open>>
          /\ delivered' = Append(delivered, item[c])
          /\ \A u \in Actors \ {c} : item'[u] = item[u] /\ pc'[u] = pc[u]
          /\ pc[c] = "storeAsync" /\ pc'[c] = "idle"
      BY <1>3, <1>t DEF StoreAsync
    <2>2. "read" \in open
      BY <1>c, <2>1
    <2>3. \A d \in Consumers : pc'[d] # "storeAsync"
      BY <1>t, <2>1 DEF ReadInv, Locked
    <2>4. InHand = 1 /\ InHand' = 0
      BY <2>1, <2>3 DEF InHand
    <2>5. item[c].sequence = Len(delivered) + 1 /\ Genuine(item[c]) /\ item[c] \in Items
      BY <1>t, <1>o, <2>1, <2>2
    <2>6. Last = Len(delivered)
      <3>1. CASE Len(delivered) = 0
        BY <1>t, <3>1 DEF Last
      <3>2. CASE Len(delivered) # 0
        <4>1. delivered # <<>> /\ Len(delivered) \in 1..Len(delivered)
          BY <1>t, <3>2
        <4> QED
          BY <1>d, <4>1 DEF Last
      <3> QED
        BY <3>1, <3>2
    <2>7. /\ Traced' /\ DeliveredInOrder' /\ Len(delivered') = Len(delivered) + 1
          /\ \A i \in 1..Len(delivered) : delivered'[i] = delivered[i]
          /\ delivered'[Len(delivered) + 1] = item[c]
      <3> HIDE DEF history
      <3>1. UNCHANGED <<sent, readMode>>
        BY <1>t
      <3>2. item[c].sequence = Last + 1
        BY <2>5, <2>6
      <3> QED
        BY <1>d, <2>1, <2>5, <3>1, <3>2, OneDelivered
    <2>8. Passed' = Passed
      BY <1>t, <2>1, <2>4, <2>7 DEF Passed
    <2>9. \A i \in 1..Len(delivered') : delivered'[i].sequence = i
      <3>1. \A i \in 1..Len(delivered') : i \in 1..Len(delivered) \/ i = Len(delivered) + 1
        BY <1>t, <2>7
      <3> QED
        BY <1>d, <2>5, <2>7, <3>1
    <2>10. ASSUME NEW i \in 1..Len(inbox)
           PROVE  /\ inbox'[i].sequence = Len(delivered') + InHand' + i
                  /\ GenuineIn(sent', inbox'[i])
      <3>1. inbox[i].sequence = Len(delivered) + InHand + i /\ Genuine(inbox[i])
        BY <1>o, <2>2
      <3>2. Len(delivered) + InHand + i = Len(delivered') + InHand' + i
        BY <1>t, <2>4, <2>7
      <3> QED
        BY <1>g, <2>1, <3>1, <3>2
    <2>11. AsyncDelivery'
      BY <1>t, <1>o, <1>g, <2>1, <2>2, <2>3, <2>8, <2>9, <2>10 DEF AsyncDelivery, Genuine
    <2> QED
      BY <1>s, <1>d, <2>1, <2>2, <2>7, <2>11 DEF DeliveryInv, Closed
  <1>4. CASE BackgroundRelease
    <2>1. /\ UNCHANGED <<inbox, item, delivered, need, open>>
          /\ seen' = [seen EXCEPT ![Background] = sequence] /\ consumed' = consumed + 1
          /\ \A c \in Consumers : pc'[c] = pc[c]
          /\ pc[Background] = "copy" /\ pc'[Background] = "send" /\ Background \in holding
      BY <1>4, <1>t DEF BackgroundRelease, Shared!Release
    <2>2. Genuine(item[Background]) /\ seen'[Background] = sequence
      BY <1>t, <2>1, SlotGenuine
    <2>3. InHand' = InHand
      BY <2>1 DEF InHand
    <2>4. Passed' = Passed
      BY <2>1, <2>3 DEF Passed
    <2>5. AsyncDelivery'
      <3>1. CASE "read" \notin open
        BY <1>t, <1>d, <2>1, <3>1 DEF AsyncDelivery
      <3>2. CASE "read" \in open
        <4>1. seen'[Background] = Passed' + 1
          BY <1>o, <2>1, <2>2, <2>4, <3>2
        <4> QED
          BY <1>t, <1>d, <1>o, <1>g, <2>1, <2>2, <2>3, <3>2, <4>1 DEF AsyncDelivery, Genuine
      <3> QED
        BY <3>1, <3>2
    <2>6. Closed'
      BY <1>c, <2>1 DEF Closed
    <2> QED
      BY <1>s, <1>d, <1>q, <2>1, <2>5, <2>6 DEF DeliveryInv
  <1>5. CASE BackgroundSend
    <2>1. /\ UNCHANGED <<seen, consumed, delivered, need, open>>
          /\ \A c \in Consumers : pc'[c] = pc[c] /\ item'[c] = item[c]
          /\ pc[Background] = "send" /\ pc'[Background] \in {"check", "ended"}
          /\ inbox' = IF "read" \in open THEN Append(inbox, item[Background]) ELSE inbox
      BY <1>5, <1>t DEF BackgroundSend
    <2>2. InHand' = InHand
      BY <2>1 DEF InHand
    <2>3. AsyncDelivery'
      <3>1. CASE "read" \notin open
        BY <1>t, <1>d, <2>1, <3>1 DEF AsyncDelivery
      <3>2. CASE "read" \in open
        <4>1. /\ Len(inbox') = Len(inbox) + 1
              /\ \A i \in 1..Len(inbox) : inbox'[i] = inbox[i]
              /\ inbox'[Len(inbox) + 1] = item[Background]
          BY <1>t, <2>1, <3>2
        <4>2. Passed' = Passed + 1
          <5>1. Passed' = Len(delivered) + InHand + (Len(inbox) + 1)
            BY <2>1, <2>2, <4>1 DEF Passed
          <5> QED
            BY <1>t, <1>h, <5>1 DEF Passed
        <4>3. seen[Background] = Passed + 1 /\ Genuine(item[Background])
          BY <1>o, <2>1, <3>2
        <4>4. item[Background].sequence = Len(delivered) + InHand + (Len(inbox) + 1)
          <5>1. item[Background].sequence = seen[Background]
            BY <2>1 DEF ReadInv, Rising
          <5> QED
            BY <1>t, <1>h, <4>3, <5>1 DEF Passed
        <4>5. ASSUME NEW i \in 1..Len(inbox')
              PROVE  inbox'[i].sequence = Len(delivered) + InHand + i /\ GenuineIn(sent', inbox'[i])
          <5>1. i \in 1..Len(inbox) \/ i = Len(inbox) + 1
            BY <1>t, <4>1
          <5> QED
            BY <1>o, <1>g, <3>2, <4>1, <4>3, <4>4, <5>1
        <4> QED
          BY <1>t, <1>d, <1>o, <1>g, <2>1, <2>2, <3>2, <4>2, <4>3, <4>5 DEF AsyncDelivery, Genuine
      <3> QED
        BY <3>1, <3>2
    <2>4. Closed'
      BY <1>c, <2>1 DEF Closed
    <2> QED
      BY <1>s, <1>d, <1>q, <2>1, <2>3, <2>4 DEF DeliveryInv
  <1>6. CASE DropReadHandle
    <2>1. UNCHANGED <<delivered, pc>> /\ "read" \notin open' /\ \A c \in Consumers : pc[c] = "idle"
      BY <1>6 DEF DropReadHandle
    <2>2. AsyncDelivery'
      BY <1>d, <2>1 DEF AsyncDelivery
    <2> QED
      BY <1>s, <1>q, <2>1, <2>2 DEF DeliveryInv, Closed
  <1> QED
    BY <1>1, <1>2, <1>3, <1>4, <1>5, <1>6, AsyncSteps

LEMMA InitDelivery ==
  ASSUME to_count(Policy) # 0, Init PROVE DeliveryInv
  <1>1. /\ need = 1 /\ delivered = <<>> /\ Len(delivered) = 0 /\ Len(inbox) = 0 /\ sequence = 0
        /\ consumed = 0 /\ open = {"write", "read"} /\ seen[Background] = 0
        /\ DOMAIN delivered = {}
    BY Kinds DEF Init, Shared!Init
  <1>2. (\A c \in Consumers : pc[c] = "idle") /\ pc[Background] \in {"check", "ended"}
    BY Kinds DEF Init
  <1>3. Last = 0 /\ InHand = 0 /\ Passed = 0
    BY <1>1, <1>2 DEF Last, InHand, Passed
  <1>4. SyncDelivery /\ AsyncDelivery
    BY <1>1, <1>2, <1>3 DEF SyncDelivery, AsyncDelivery
  <1>5. Closed /\ Traced /\ DeliveredInOrder
    BY <1>1 DEF Closed, Traced, DeliveredInOrder
  <1> QED
    BY <1>1, <1>4, <1>5 DEF DeliveryInv

LEMMA StepDelivery ==
  ASSUME Types, WriteInv, ReadInv, DeliveryInv, [Next]_vars PROVE DeliveryInv'
  <1>1. CASE Next
    <2>1. readMode = "ReadSync" \/ readMode = "ReadAsync"
      BY DEF Types, HandleTypes
    <2> QED
      BY <1>1, <2>1, NextCases, WriterKeepsDelivery, SyncKeepsDelivery, AsyncKeepsDelivery
  <1>2. CASE UNCHANGED vars
    <2>1. /\ InHand' = InHand /\ Passed' = Passed /\ Last' = Last
          /\ UNCHANGED <<readMode, open, need, pc, item, inbox, delivered, sent, seen, sequence, consumed>>
      BY <1>2 DEF vars, modes, slot, channel, history, InHand, Passed, Last
    <2>2. Closed' /\ SyncDelivery' /\ Traced' /\ DeliveredInOrder'
      BY <2>1 DEF DeliveryInv, Closed, SyncDelivery, Traced, DeliveredInOrder, Genuine
    <2>3. AsyncDelivery'
      BY <2>1 DEF DeliveryInv, AsyncDelivery, Genuine
    <2> QED
      BY <2>1, <2>2, <2>3 DEF DeliveryInv
  <1> QED
    BY <1>1, <1>2

\* With a policy that waits, read() returns the messages in the order in which
\* write() took them, with nothing left out and through both queues, for any
\* number of threads and messages (python/message.rs:199-296): the slot is not
\* overwritten until the reading handle has had the message, and from there to
\* read() the numbers follow each other.
THEOREM HandlesDeliveredInOrder ==
  ASSUME to_count(Policy) # 0 PROVE Spec => []DeliveredInOrder
  <1>1. Init => DeliveryInv
    BY InitDelivery
  <1>2. DeliveryInv => DeliveredInOrder
    BY DEF DeliveryInv
  <1> QED
    BY <1>1, <1>2, StepDelivery, TypesInvariance, WriteInvariance, ReadInvariance, PTL DEF Spec
=============================================================================
