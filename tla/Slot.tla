-------------------------------- MODULE Slot --------------------------------
(***************************************************************************)
(* What shared_message/mod.rs promises its callers: a slot for one message *)
(* in which a read is a single step and a write is two: it announces       *)
(* itself, and takes effect.  A message replaces its predecessor only when *)
(* no reader holds a guard on it and as many reads as the policy asks for  *)
(* are done; a reader gets a guard only on a message other than the last   *)
(* it got, and only while no write is announced.  A write may be given up  *)
(* with its announcement left standing.  SharedMessage is shown to         *)
(* implement this module; PythonMessage uses its operators.                *)
(***************************************************************************)
EXTENDS Naturals

CONSTANTS
    Readers,      \* threads that read
    Messages,     \* what may be written
    SequenceMask  \* largest sequence number

VARIABLES
    sequence,     \* number of the message in the slot, 0 when there is none
    message,      \* that message
    stopped,      \* stop() was called
    writing,      \* a write is announced: WRITING_IN_PROGRESS
    holding,      \* readers with a guard
    consumed,     \* reads of the message that are done
    need,         \* reads the policy asks for
    seen          \* the last_seen_seq each reader passes to read()

vars == <<sequence, message, stopped, writing, holding, consumed, need, seen>>

Init ==
    /\ sequence = 0
    /\ message = 0
    /\ stopped = FALSE
    /\ writing = FALSE
    /\ holding = {}
    /\ consumed = 0
    /\ need \in Nat
    /\ seen = [r \in Readers |-> 0]

\* start_write waits for the policy and raises the flag.  The flag may be up
\* already, left by a write that was given up.
Mark ==
    /\ sequence > 0 => consumed >= need
    /\ writing' = TRUE
    /\ UNCHANGED <<sequence, message, stopped, holding, consumed, need, seen>>

\* start_write waits for the readers and gives up on stop().
Unmark ==
    /\ stopped
    /\ writing' = FALSE
    /\ UNCHANGED <<sequence, message, stopped, holding, consumed, need, seen>>

\* publish_write, after stop() too if the write was past its checks by then.
Publish(m) ==
    /\ writing
    /\ holding = {}
    /\ sequence > 0 => consumed >= need
    /\ sequence' = IF sequence = SequenceMask THEN 1 ELSE sequence + 1
    /\ message' = m
    /\ writing' = FALSE
    /\ consumed' = 0
    /\ UNCHANGED <<stopped, holding, need, seen>>

\* read() returns a guard, after stop() too.
Acquire(r) ==
    /\ r \notin holding
    /\ sequence # seen[r]
    /\ ~writing
    /\ holding' = holding \cup {r}
    /\ UNCHANGED <<sequence, message, stopped, writing, consumed, need, seen>>

\* The guard is dropped; the caller remembers its sequence.
Release(r) ==
    /\ r \in holding
    /\ holding' = holding \ {r}
    /\ consumed' = consumed + 1
    /\ seen' = [seen EXCEPT ![r] = sequence]
    /\ UNCHANGED <<sequence, message, stopped, writing, need>>

Stop ==
    /\ stopped' = TRUE
    /\ UNCHANGED <<sequence, message, writing, holding, consumed, need, seen>>

\* set_target_read_count, add_reader and remove_reader.
SetNeed ==
    /\ need' \in Nat
    /\ UNCHANGED <<sequence, message, stopped, writing, holding, consumed, seen>>

Next ==
    \/ Mark \/ Unmark
    \/ \E m \in Messages : Publish(m)
    \/ \E r \in Readers : Acquire(r) \/ Release(r)
    \/ Stop
    \/ SetNeed

Spec == Init /\ [][Next]_vars
=============================================================================
