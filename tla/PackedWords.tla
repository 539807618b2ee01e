---------------------------- MODULE PackedWords ----------------------------
(***************************************************************************)
(* The two packed atomic words of a message (shared_message/packed.rs) and *)
(* the loops that update them (update_reader_state and publish_write in    *)
(* shared_message/mod.rs), one action per access to a word.                *)
(*                                                                         *)
(* A word is a natural number.  With a field of 2^16 values a shift by 16k *)
(* is a multiplication or division by U16Size^k, a cast to u16 is a        *)
(* remainder, and "|" of fields that do not overlap is a sum; U16Size and  *)
(* SequenceSize are smaller in the instances that are checked.             *)
(*                                                                         *)
(* The threads are those of SharedMessage: a reader registers and then     *)
(* releases or takes back, the owner of writer_mutex marks, resets and     *)
(* publishes or gives up, handles come and go, anybody stops.              *)
(***************************************************************************)
EXTENDS Naturals

CONSTANTS
    Threads, NoCall, NoAnswer,
    U16Size, SequenceSize,
    Targets, \* counts passed to set_target_read_count
    Others   \* readers registered by handles of other processes

ASSUME WidthAssumption ==
    /\ U16Size \in Nat \ {0, 1}
    /\ SequenceSize \in Nat \ {0, 1}
    /\ Targets \subseteq 0..(U16Size - 1)
    /\ Others \in 0..(U16Size - 1)

VARIABLES
    sequence_and_flags, \* AtomicU64
    readers_state,      \* AtomicU64
    pc,                 \* "idle", or where a thread is in its call
    packed,             \* the value a loop has loaded
    call, answer,       \* as in Words
    role                \* what a thread may call next, by the protocol of mod.rs

words == <<sequence_and_flags, readers_state>>
vars  == <<words, pc, packed, call, answer, role>>

----------------------------------------------------------------------------
(* packed.rs: SequenceState.                                               *)

WRITING_IN_PROGRESS_MASK == SequenceSize
STOPPED_MASK == 2 * SequenceSize

Bit(word, mask) == (word \div mask) % 2 = 1

FromSequence(word) ==
    [sequence            |-> word % SequenceSize,
     stopped             |-> Bit(word, STOPPED_MASK),
     writing_in_progress |-> Bit(word, WRITING_IN_PROGRESS_MASK)]

SequenceToPacked(s) ==
    (IF s.stopped THEN STOPPED_MASK ELSE 0)
    + (IF s.writing_in_progress THEN WRITING_IN_PROGRESS_MASK ELSE 0)
    + (s.sequence % SequenceSize)

\* Wrong variant: fetch_add for fetch_or.
FetchOrAdds(word, mask) == word + mask

FetchOr(word, mask) == IF Bit(word, mask) THEN word ELSE word + mask

FetchAndNot(word, mask) == IF Bit(word, mask) THEN word - mask ELSE word

(* packed.rs: ReadersStateCount.                                           *)

CONSUMERS == U16Size
ACTIVE    == U16Size * U16Size
CONSUMED  == U16Size * U16Size * U16Size

AsU16(n) == n % U16Size

FromReaders(word) ==
    [target_read    |-> AsU16(word),
     consumers      |-> AsU16(word \div CONSUMERS),
     active_readers |-> AsU16(word \div ACTIVE),
     data_consumed  |-> AsU16(word \div CONSUMED)]

\* Wrong variant: two fields share their bits.
ReadersToPackedOverlaps(s) ==
    s.target_read + s.consumers * CONSUMERS + s.active_readers * ACTIVE
    + s.data_consumed * ACTIVE

ReadersToPacked(s) ==
    s.target_read + s.consumers * CONSUMERS + s.active_readers * ACTIVE
    + s.data_consumed * CONSUMED

----------------------------------------------------------------------------
(* Who calls what.  The protocol of mod.rs as roles: the role a call needs *)
(* and the one it leads to.                                                *)

Needs == [add_reader |-> "free", register |-> "joined", unregister |-> "reader",
          release |-> "reader", remove_reader |-> "joined", set_target |-> "free",
          mark |-> "free", unmark |-> "marked", reset |-> "marked", publish |-> "filled",
          stop |-> "free"]
LeadsTo == [add_reader |-> "joined", register |-> "reader", unregister |-> "joined",
            release |-> "joined", remove_reader |-> "free", set_target |-> "free",
            mark |-> "marked", unmark |-> "free", reset |-> "filled", publish |-> "free",
            stop |-> "free"]

Calls ==
    [op: DOMAIN Needs \ {"set_target"}, arg: {0}] \cup [op: {"set_target"}, arg: Targets]

ASSUME CallAssumption == NoCall \notin Calls

AbstractWords == INSTANCE Words WITH
    sequence_and_flags <- FromSequence(sequence_and_flags),
    readers_state      <- FromReaders(readers_state),
    InitReaders        <- [target_read |-> 0, consumers |-> Others,
                           active_readers |-> 0, data_consumed |-> 0]

\* A new mapping is zeroed, and other processes have registered their readers.
Init ==
    /\ sequence_and_flags = 0
    /\ readers_state = Others * CONSUMERS
    /\ pc = [t \in Threads |-> "idle"]
    /\ packed = [t \in Threads |-> 0]
    /\ call = [t \in Threads |-> NoCall]
    /\ answer = [t \in Threads |-> NoAnswer]
    /\ role = [t \in Threads |-> "free"]

\* writer_mutex is free.
NoWriter ==
    \A t \in Threads :
        /\ role[t] \notin {"marked", "filled"}
        /\ call[t] # NoCall => call[t].op \notin {"mark", "set_target"}

Begin(t) ==
    /\ call[t] = NoCall
    /\ \E c \in Calls :
          /\ role[t] = Needs[c.op]
          /\ c.op \in {"mark", "set_target"} => NoWriter
          /\ call' = [call EXCEPT ![t] = c]
          /\ pc' = [pc EXCEPT ![t] =
                       IF c.op \in {"mark", "unmark", "stop"} THEN "fetch" ELSE "load"]
    /\ answer' = [answer EXCEPT ![t] = NoAnswer]
    /\ UNCHANGED <<words, packed, role>>

\* A write guard is dropped unpublished: the mutex is free and the flag stays.
DropWriteGuard(t) ==
    /\ call[t] = NoCall
    /\ role[t] = "marked"
    /\ role' = [role EXCEPT ![t] = "free"]
    /\ UNCHANGED <<words, pc, packed, call, answer>>

Leave(t, a, newRole) ==
    /\ pc' = [pc EXCEPT ![t] = "idle"]
    /\ packed' = [packed EXCEPT ![t] = 0]
    /\ call' = [call EXCEPT ![t] = NoCall]
    /\ answer' = [answer EXCEPT ![t] = a]
    /\ role' = [role EXCEPT ![t] = newRole]

Return(t, a) == Leave(t, a, LeadsTo[call[t].op])

Retry(t, word) ==
    /\ pc' = [pc EXCEPT ![t] = "exchange"]
    /\ packed' = [packed EXCEPT ![t] = word]
    /\ UNCHANGED <<call, answer, role>>

----------------------------------------------------------------------------
(* sequence_and_flags.                                                     *)

\* start_write's fetch_or and fetch_and, and stop()'s fetch_or.
Fetch(t) ==
    /\ pc[t] = "fetch"
    /\ sequence_and_flags' =
         CASE call[t].op = "mark"   -> FetchOr(sequence_and_flags, WRITING_IN_PROGRESS_MASK)
           [] call[t].op = "unmark" -> FetchAndNot(sequence_and_flags, WRITING_IN_PROGRESS_MASK)
           [] call[t].op = "stop"   -> FetchOr(sequence_and_flags, STOPPED_MASK)
    /\ Return(t, NoAnswer)
    /\ UNCHANGED readers_state

LoadSequence(t) ==
    /\ pc[t] = "load"
    /\ call[t].op = "publish"
    /\ Retry(t, sequence_and_flags)
    /\ UNCHANGED words

\* Wrong variant: the stopped flag is not carried over.
PublishedForgetsStop(word) ==
    LET next == (FromSequence(word).sequence + 1) % SequenceSize
    IN  [sequence |-> IF next = 0 THEN 1 ELSE next,
         stopped |-> FALSE, writing_in_progress |-> FALSE]

\* What publish_write makes of the word it has loaded; sequence 0 is skipped.
Published(word) ==
    LET next == (FromSequence(word).sequence + 1) % SequenceSize
    IN  [sequence |-> IF next = 0 THEN 1 ELSE next,
         stopped |-> FromSequence(word).stopped, writing_in_progress |-> FALSE]

\* compare_exchange_weak; a spurious failure leaves everything as it was.
ExchangeSequence(t) ==
    /\ pc[t] = "exchange"
    /\ call[t].op = "publish"
    /\ \/ /\ sequence_and_flags = packed[t]
          /\ sequence_and_flags' = SequenceToPacked(Published(packed[t]))
          /\ Return(t, Published(packed[t]).sequence)
       \/ /\ sequence_and_flags # packed[t]
          /\ Retry(t, sequence_and_flags)
          /\ UNCHANGED sequence_and_flags
    /\ UNCHANGED readers_state

----------------------------------------------------------------------------
(* readers_state: update_reader_state.                                     *)

Mutated(t, word) == AbstractWords!Mutate(call[t], FromReaders(word))

\* The body of the loop up to the exchange: the closure panics, or the word
\* would not change and the call is done, or the exchange is tried.
Look(t, word) ==
    \/ /\ AbstractWords!Panics(call[t], FromReaders(word))
       /\ Leave(t, NoAnswer, role[t])
    \/ /\ ~AbstractWords!Panics(call[t], FromReaders(word))
       /\ ReadersToPacked(Mutated(t, word)) = word
       /\ Return(t, Mutated(t, word))
    \/ /\ ~AbstractWords!Panics(call[t], FromReaders(word))
       /\ ReadersToPacked(Mutated(t, word)) # word
       /\ Retry(t, word)

LoadReaders(t) ==
    /\ pc[t] = "load"
    /\ call[t].op # "publish"
    /\ Look(t, readers_state)
    /\ UNCHANGED words

\* Wrong variants: the exchange does not compare; a failed one does not load
\* the new value.
ExchangeReadersBlind(t) ==
    /\ pc[t] = "exchange"
    /\ call[t].op # "publish"
    /\ readers_state' = ReadersToPacked(Mutated(t, packed[t]))
    /\ Return(t, Mutated(t, packed[t]))
    /\ UNCHANGED sequence_and_flags

ExchangeReadersStuck(t) ==
    /\ pc[t] = "exchange"
    /\ call[t].op # "publish"
    /\ readers_state = packed[t]
    /\ readers_state' = ReadersToPacked(Mutated(t, packed[t]))
    /\ Return(t, Mutated(t, packed[t]))
    /\ UNCHANGED sequence_and_flags

ExchangeReaders(t) ==
    /\ pc[t] = "exchange"
    /\ call[t].op # "publish"
    /\ \/ /\ readers_state = packed[t]
          /\ readers_state' = ReadersToPacked(Mutated(t, packed[t]))
          /\ Return(t, Mutated(t, packed[t]))
       \/ /\ readers_state # packed[t]
          /\ Look(t, readers_state)
          /\ UNCHANGED readers_state
    /\ UNCHANGED sequence_and_flags

----------------------------------------------------------------------------
Step(t) ==
    \/ Fetch(t) \/ LoadSequence(t) \/ ExchangeSequence(t)
    \/ LoadReaders(t) \/ ExchangeReaders(t)

Next == \E t \in Threads : Begin(t) \/ DropWriteGuard(t) \/ Step(t)

Spec == Init /\ [][Next]_vars

\* Threads inside a call are scheduled, and compare_exchange_weak does not fail
\* spuriously for ever.
FairSpec == Spec /\ \A t \in Threads : WF_vars(Step(t))

----------------------------------------------------------------------------
Roles == {"free", "joined", "reader", "marked", "filled"}

\* A word has 64 bits (here, as many as its fields have): no arithmetic on a
\* field carries out of the word, whichever field is at its limit.
TypeOK ==
    /\ sequence_and_flags \in 0..(4 * SequenceSize - 1)
    /\ readers_state \in 0..(U16Size * CONSUMED - 1)
    /\ pc \in [Threads -> {"idle", "fetch", "load", "exchange"}]
    /\ packed \in [Threads -> Nat]
    /\ call \in [Threads -> Calls \cup {NoCall}]
    /\ role \in [Threads -> Roles]

\* The packed words and their loops implement Words: every call changes its
\* own field of its own word, exactly once, whatever other threads do between
\* its load and its exchange, and answers with the word it stored, so that
\* release_active_reader knows whether it was the last.
ImplementsWords == AbstractWords!Spec

\* "keep the stopped flag" (mod.rs:168): a stop() that hits the loop of
\* publish_write between its load and its exchange is not lost.
StopSticks ==
    [][FromSequence(sequence_and_flags).stopped =>
            FromSequence(sequence_and_flags').stopped]_vars

\* A loop ends once the others leave the word alone: a failed exchange tries
\* again with the value that beat it.
RetryEnds ==
    \A t \in Threads :
        <>[](\A u \in Threads \ {t} : call[u] = NoCall) => []<>(call[t] = NoCall)
=============================================================================
