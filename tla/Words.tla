------------------------------- MODULE Words -------------------------------
(***************************************************************************)
(* What SharedMessage assumes of its two words: they are the structs       *)
(* SequenceState and ReadersStateCount, and a call updates one of them in  *)
(* a single step, exactly once, and answers with what it stored.           *)
(* PackedWords is shown to implement this module.                          *)
(***************************************************************************)
EXTENDS Naturals

CONSTANTS
    Threads,      \* threads that call the operations below
    NoCall,       \* a thread that is in none of them
    Calls,        \* records [op, arg]; arg is used by "set_target" only
    NoAnswer,     \* the answer of a call that returns nothing or panics
    U16Size,      \* number of values of a u16 field: 2^16
    SequenceSize, \* number of sequence numbers: 2^62
    InitReaders   \* the initial readers_state

VARIABLES
    sequence_and_flags, \* a SequenceState
    readers_state,      \* a ReadersStateCount
    call,               \* what each thread is asked to do
    answer              \* what its last call returned

vars == <<sequence_and_flags, readers_state, call, answer>>

SequenceState ==
    [sequence: 0..(SequenceSize - 1), stopped: BOOLEAN, writing_in_progress: BOOLEAN]
ReadersStateCount ==
    [target_read: 0..(U16Size - 1), consumers: 0..(U16Size - 1),
     active_readers: 0..(U16Size - 1), data_consumed: 0..(U16Size - 1)]

SequenceOps == {"mark", "unmark", "stop", "publish"}
ReaderOps == {"register", "unregister", "release", "reset", "set_target", "add_reader",
              "remove_reader"}

----------------------------------------------------------------------------
(* The closures passed to update_reader_state, with the arithmetic of a    *)
(* release build.                                                          *)

Inc16(n) == (n + 1) % U16Size
Dec16(n) == (n + U16Size - 1) % U16Size

Mutate(c, s) ==
    CASE c.op = "register"      -> [s EXCEPT !.active_readers = Inc16(@)]
      [] c.op = "unregister"    -> [s EXCEPT !.active_readers = Dec16(@)]
      [] c.op = "release"       -> [s EXCEPT !.active_readers = Dec16(@),
                                             !.data_consumed = Inc16(@)]
      [] c.op = "reset"         -> [s EXCEPT !.data_consumed = 0]
      [] c.op = "set_target"    -> [s EXCEPT !.target_read = c.arg]
      [] c.op = "add_reader"    -> [s EXCEPT !.consumers = Inc16(@)]
      [] c.op = "remove_reader" -> [s EXCEPT !.consumers = Dec16(@)]

\* add_reader and remove_reader panic before they store anything.
Panics(c, s) ==
    \/ c.op = "add_reader" /\ s.consumers = U16Size - 1
    \/ c.op = "remove_reader" /\ s.consumers = 0

NextSequence(n) == IF n + 1 = SequenceSize THEN 1 ELSE n + 1

\* fetch_or, fetch_and and the loop of publish_write.
Change(c, s) ==
    CASE c.op = "mark"    -> [s EXCEPT !.writing_in_progress = TRUE]
      [] c.op = "unmark"  -> [s EXCEPT !.writing_in_progress = FALSE]
      [] c.op = "stop"    -> [s EXCEPT !.stopped = TRUE]
      [] c.op = "publish" -> [s EXCEPT !.sequence = NextSequence(@),
                                       !.writing_in_progress = FALSE]

----------------------------------------------------------------------------
Init ==
    /\ sequence_and_flags =
         [sequence |-> 0, stopped |-> FALSE, writing_in_progress |-> FALSE]
    /\ readers_state = InitReaders
    /\ call = [t \in Threads |-> NoCall]
    /\ answer = [t \in Threads |-> NoAnswer]

Call(t) ==
    /\ call[t] = NoCall
    /\ \E c \in Calls : call' = [call EXCEPT ![t] = c]
    /\ answer' = [answer EXCEPT ![t] = NoAnswer]
    /\ UNCHANGED <<sequence_and_flags, readers_state>>

Returns(t, a) ==
    /\ call' = [call EXCEPT ![t] = NoCall]
    /\ answer' = [answer EXCEPT ![t] = a]

ApplySequence(t) ==
    /\ call[t] # NoCall
    /\ call[t].op \in SequenceOps
    /\ sequence_and_flags' = Change(call[t], sequence_and_flags)
    /\ Returns(t, IF call[t].op = "publish" THEN sequence_and_flags'.sequence ELSE NoAnswer)
    /\ UNCHANGED readers_state

ApplyReaders(t) ==
    /\ call[t] # NoCall
    /\ call[t].op \in ReaderOps
    /\ ~Panics(call[t], readers_state)
    /\ readers_state' = Mutate(call[t], readers_state)
    /\ Returns(t, readers_state')
    /\ UNCHANGED sequence_and_flags

Panic(t) ==
    /\ call[t] # NoCall
    /\ Panics(call[t], readers_state)
    /\ Returns(t, NoAnswer)
    /\ UNCHANGED <<sequence_and_flags, readers_state>>

Next == \E t \in Threads : Call(t) \/ ApplySequence(t) \/ ApplyReaders(t) \/ Panic(t)

Spec == Init /\ [][Next]_vars
=============================================================================
