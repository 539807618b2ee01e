------------------------- MODULE PackedWordsProofs -------------------------
(***************************************************************************)
(* Proofs about PackedWords, for any width of the fields and any number of *)
(* threads: packing and unpacking are inverse to each other, no field runs *)
(* into the next one, and the loops update a word as Words says.           *)
(***************************************************************************)
EXTENDS PackedWords, TLAPS

SequenceState     == AbstractWords!SequenceState
ReadersStateCount == AbstractWords!ReadersStateCount

----------------------------------------------------------------------------
(* Digits: what shifts and casts find in a sum of shifted fields.          *)

LEMMA DivMod ==
  ASSUME NEW n \in Nat, NEW m \in Nat \ {0}
  PROVE  n = (n % m) + (n \div m) * m /\ n % m \in 0..(m - 1) /\ n \div m \in Nat
  OBVIOUS

LEMMA DigitsUnique ==
  ASSUME NEW m \in Nat \ {0}, NEW a \in 0..(m - 1), NEW b \in Nat,
         NEW c \in 0..(m - 1), NEW d \in Nat, a + b * m = c + d * m
  PROVE  a = c /\ b = d
  <1>1. ASSUME NEW x \in Nat, NEW y \in Nat, x < y
        PROVE  x * m + m <= y * m
    <2>1. PICK k \in Nat : y = x + 1 + k
      BY <1>1
    <2>2. y * m = x * m + m + k * m /\ k * m \in Nat
      BY <2>1
    <2> QED
      BY <2>2
  <1>2. ~(b < d)
    BY <1>1
  <1>3. ~(d < b)
    BY <1>1
  <1> QED
    BY <1>2, <1>3

LEMMA Digits ==
  ASSUME NEW m \in Nat \ {0}, NEW a \in 0..(m - 1), NEW b \in Nat
  PROVE  (a + b * m) % m = a /\ (a + b * m) \div m = b
  <1> DEFINE n == a + b * m
  <1>1. n \in Nat
    OBVIOUS
  <1>2. n = (n % m) + (n \div m) * m /\ n % m \in 0..(m - 1) /\ n \div m \in Nat
    BY <1>1, DivMod
  <1>3. PICK c \in 0..(m - 1), d \in Nat : c = n % m /\ d = n \div m
    BY <1>2
  <1>4. a + b * m = c + d * m
    BY <1>2, <1>3
  <1>5. a = c /\ b = d
    BY <1>4, DigitsUnique
  <1> QED
    BY <1>3, <1>5

\* A field below m and the one above it, below k, stay below m * k.
LEMMA DigitsBound ==
  ASSUME NEW m \in Nat \ {0}, NEW k \in Nat \ {0}, NEW a \in 0..(m - 1), NEW b \in 0..(k - 1)
  PROVE  a + b * m \in 0..(m * k - 1)
  <1>1. PICK j \in Nat : k = b + 1 + j
    OBVIOUS
  <1>2. m * k = b * m + m + j * m /\ j * m \in Nat /\ b * m \in Nat
    BY <1>1
  <1> QED
    BY <1>2

----------------------------------------------------------------------------
(* packed.rs: readers_state.                                               *)

U16 == 0..(U16Size - 1)

LEMMA Widths ==
  /\ CONSUMERS \in Nat \ {0} /\ ACTIVE \in Nat \ {0} /\ CONSUMED \in Nat \ {0}
  /\ ACTIVE = CONSUMERS * U16Size /\ CONSUMED = ACTIVE * U16Size
  /\ CONSUMERS = U16Size
  BY WidthAssumption DEF CONSUMERS, ACTIVE, CONSUMED

\* The fields of a packed word do not run into each other.
LEMMA ReadersDigits ==
  ASSUME NEW t \in U16, NEW c \in U16, NEW a \in U16, NEW d \in U16
  PROVE  LET w == t + c * CONSUMERS + a * ACTIVE + d * CONSUMED
         IN  /\ w \in 0..(U16Size * CONSUMED - 1)
             /\ AsU16(w) = t
             /\ AsU16(w \div CONSUMERS) = c
             /\ AsU16(w \div ACTIVE) = a
             /\ AsU16(w \div CONSUMED) = d
  <1> DEFINE w == t + c * CONSUMERS + a * ACTIVE + d * CONSUMED
  <1>u. U16Size \in Nat \ {0}
    BY WidthAssumption
  <1>t. t \in Nat /\ c \in Nat /\ a \in Nat /\ d \in Nat
    BY <1>u DEF U16
  <1>1. t + c * CONSUMERS \in 0..(ACTIVE - 1)
    BY <1>u, Widths, DigitsBound DEF U16
  <1>2. (t + c * CONSUMERS) + a * ACTIVE \in 0..(CONSUMED - 1)
    BY <1>u, <1>1, Widths, DigitsBound DEF U16
  <1>3. w \in 0..(CONSUMED * U16Size - 1)
    BY <1>u, <1>2, Widths, DigitsBound DEF U16
  <1>4. w \in 0..(U16Size * CONSUMED - 1)
    BY <1>u, <1>3, Widths
  <1>5. w \div CONSUMED = d
    <2> DEFINE low == (t + c * CONSUMERS) + a * ACTIVE
    <2>1. low \in 0..(CONSUMED - 1) /\ w = low + d * CONSUMED
      BY <1>2
    <2> HIDE DEF w, low
    <2>2. (low + d * CONSUMED) \div CONSUMED = d
      BY <1>t, <2>1, Widths, Digits
    <2> QED
      BY <2>1, <2>2
  <1>6. w \div ACTIVE = a + d * U16Size
    <2>1. w = (t + c * CONSUMERS) + (a + d * U16Size) * ACTIVE
      BY <1>u, <1>t, Widths
    <2>2. a + d * U16Size \in Nat
      BY <1>u, <1>t
    <2> DEFINE low == t + c * CONSUMERS
               rest == a + d * U16Size
    <2>3. w = low + rest * ACTIVE /\ low \in 0..(ACTIVE - 1) /\ rest \in Nat
      BY <1>1, <2>1, <2>2
    <2> HIDE DEF w, low, rest
    <2>4. (low + rest * ACTIVE) \div ACTIVE = rest
      BY <2>3, Widths, Digits
    <2> QED
      BY <2>3, <2>4 DEF rest
  <1>7. w \div CONSUMERS = c + (a + d * U16Size) * U16Size
    <2> DEFINE rest == c + (a + d * U16Size) * U16Size
    <2>1. w = t + rest * CONSUMERS
      BY <1>u, <1>t, Widths
    <2>2. rest \in Nat
      BY <1>u, <1>t
    <2>3. t \in 0..(CONSUMERS - 1)
      BY Widths DEF U16
    <2> HIDE DEF w, rest
    <2>4. (t + rest * CONSUMERS) \div CONSUMERS = rest
      BY <2>2, <2>3, Widths, Digits
    <2> QED
      BY <2>1, <2>4 DEF rest
  <1>8. AsU16(w) = t
    <2> DEFINE rest == c + (a + d * U16Size) * U16Size
    <2>1. w = t + rest * U16Size
      BY <1>u, <1>t, Widths
    <2>2. rest \in Nat
      BY <1>u, <1>t
    <2> HIDE DEF w, rest
    <2>3. AsU16(t + rest * U16Size) = t
      BY <1>u, <2>2, Digits DEF U16, AsU16
    <2> QED
      BY <2>1, <2>3
  <1>9. AsU16(w \div CONSUMERS) = c /\ AsU16(w \div ACTIVE) = a
    <2>1. a + d * U16Size \in Nat
      BY <1>u, <1>t
    <2>2. AsU16(a + d * U16Size) = a
      BY <1>u, <1>t, Digits DEF U16, AsU16
    <2> DEFINE rest == a + d * U16Size
    <2> HIDE DEF rest
    <2>3. rest \in Nat
      BY <2>1 DEF rest
    <2>4. AsU16(c + rest * U16Size) = c
      BY <1>u, <1>t, <2>3, Digits DEF U16, AsU16
    <2> QED
      BY <1>6, <1>7, <2>2, <2>4 DEF rest
  <1>10. AsU16(w \div CONSUMED) = d
    BY <1>u, <1>t, <1>5 DEF AsU16, U16
  <1> QED
    BY <1>4, <1>8, <1>9, <1>10

\* from_packed_u64 and to_packed_u64 of ReadersStateCount are inverse.
LEMMA ReadersRoundTrip ==
  ASSUME NEW s \in ReadersStateCount
  PROVE  /\ ReadersToPacked(s) \in 0..(U16Size * CONSUMED - 1)
         /\ FromReaders(ReadersToPacked(s)) = s
  <1>1. /\ s.target_read \in U16 /\ s.consumers \in U16
        /\ s.active_readers \in U16 /\ s.data_consumed \in U16
        /\ s = [target_read |-> s.target_read, consumers |-> s.consumers,
                active_readers |-> s.active_readers, data_consumed |-> s.data_consumed]
    BY DEF ReadersStateCount, AbstractWords!ReadersStateCount, U16
  <1>2. LET w == ReadersToPacked(s)
        IN  /\ w \in 0..(U16Size * CONSUMED - 1)
            /\ AsU16(w) = s.target_read /\ AsU16(w \div CONSUMERS) = s.consumers
            /\ AsU16(w \div ACTIVE) = s.active_readers
            /\ AsU16(w \div CONSUMED) = s.data_consumed
    BY <1>1, ReadersDigits DEF ReadersToPacked
  <1> QED
    BY <1>1, <1>2 DEF FromReaders

LEMMA FromReadersType ==
  ASSUME NEW w \in Nat PROVE FromReaders(w) \in ReadersStateCount
  <1>1. \A n \in Nat : AsU16(n) \in 0..(U16Size - 1)
    BY WidthAssumption DEF AsU16
  <1>2. w \div CONSUMERS \in Nat /\ w \div ACTIVE \in Nat /\ w \div CONSUMED \in Nat
    BY Widths, DivMod
  <1> QED
    BY <1>1, <1>2 DEF FromReaders, ReadersStateCount, AbstractWords!ReadersStateCount

----------------------------------------------------------------------------
(* packed.rs: sequence_and_flags.                                          *)

\* A word of two flags and a sequence number.
SequenceWord(stopped, writing, n) ==
    (IF stopped THEN STOPPED_MASK ELSE 0)
    + (IF writing THEN WRITING_IN_PROGRESS_MASK ELSE 0) + n

Numbers == 0..(SequenceSize - 1)

LEMMA SequenceDigits ==
  ASSUME NEW stopped \in BOOLEAN, NEW writing \in BOOLEAN, NEW n \in Numbers
  PROVE  LET w == SequenceWord(stopped, writing, n)
         IN  /\ w \in 0..(4 * SequenceSize - 1)
             /\ w % SequenceSize = n
             /\ Bit(w, STOPPED_MASK) <=> stopped
             /\ Bit(w, WRITING_IN_PROGRESS_MASK) <=> writing
  <1> DEFINE a == IF stopped THEN 1 ELSE 0
             b == IF writing THEN 1 ELSE 0
             w == SequenceWord(stopped, writing, n)
  <1>1. a \in {0, 1} /\ b \in {0, 1} /\ (a = 1 <=> stopped) /\ (b = 1 <=> writing)
    OBVIOUS
  <1>2. w = n + (2 * a + b) * SequenceSize
    BY WidthAssumption DEF SequenceWord, STOPPED_MASK, WRITING_IN_PROGRESS_MASK, Numbers
  <1> HIDE DEF a, b, w
  <1>3. SequenceSize \in Nat \ {0} /\ 2 * SequenceSize \in Nat \ {0}
    BY WidthAssumption
  <1>4. 2 * a + b \in 0..3
    BY <1>1
  <1>5. w \in 0..(SequenceSize * 4 - 1)
    BY <1>2, <1>3, <1>4, DigitsBound DEF Numbers
  <1>6. w % SequenceSize = n /\ w \div SequenceSize = 2 * a + b
    <2> DEFINE q == 2 * a + b
    <2>1. w = n + q * SequenceSize /\ q \in Nat
      BY <1>2, <1>4
    <2> HIDE DEF q
    <2>2. (n + q * SequenceSize) % SequenceSize = n /\ (n + q * SequenceSize) \div SequenceSize = q
      BY <1>3, <2>1, Digits DEF Numbers
    <2> QED
      BY <2>1, <2>2 DEF q
  <1>7. (2 * a + b) % 2 = b
    BY <1>1
  <1>8. w \div (2 * SequenceSize) = a
    <2>1. w = (n + b * SequenceSize) + a * (2 * SequenceSize)
      BY <1>1, <1>2, <1>3 DEF Numbers
    <2>2. n + b * SequenceSize \in 0..(2 * SequenceSize - 1)
      BY <1>1, <1>3 DEF Numbers
    <2>3. a \in Nat
      BY <1>1
    <2> DEFINE low == n + b * SequenceSize
               m == 2 * SequenceSize
    <2>4. w = low + a * m /\ low \in 0..(m - 1) /\ m \in Nat \ {0}
      BY <1>3, <2>1, <2>2
    <2> HIDE DEF low, m
    <2>5. (low + a * m) \div m = a
      BY <2>3, <2>4, Digits
    <2> QED
      BY <2>4, <2>5 DEF m
  <1>9. a % 2 = a
    BY <1>1
  <1>10. Bit(w, STOPPED_MASK) <=> stopped
    BY <1>1, <1>8, <1>9 DEF Bit, STOPPED_MASK
  <1>11. Bit(w, WRITING_IN_PROGRESS_MASK) <=> writing
    BY <1>1, <1>6, <1>7 DEF Bit, WRITING_IN_PROGRESS_MASK
  <1> QED
    BY <1>3, <1>5, <1>6, <1>10, <1>11 DEF w

\* Every word there is has that form.
LEMMA SequenceWords ==
  ASSUME NEW w \in 0..(4 * SequenceSize - 1)
  PROVE  \E stopped, writing \in BOOLEAN, n \in Numbers : w = SequenceWord(stopped, writing, n)
  <1>1. SequenceSize \in Nat \ {0} /\ w \in Nat
    BY WidthAssumption
  <1>2. PICK n \in Numbers, q \in Nat : w = n + q * SequenceSize
    BY <1>1, DivMod DEF Numbers
  <1>3. q \in 0..3
    <2>1. CASE q >= 4
      <3>1. PICK k \in Nat : q = 4 + k
        BY <2>1
      <3>2. q * SequenceSize = 4 * SequenceSize + k * SequenceSize /\ k * SequenceSize \in Nat
        BY <1>1, <3>1
      <3> QED
        BY <1>1, <1>2, <3>2 DEF Numbers
    <2> QED
      BY <2>1
  <1>4. q = 0 \/ q = 1 \/ q = 2 \/ q = 3
    BY <1>3
  <1>5. \/ w = SequenceWord(FALSE, FALSE, n) \/ w = SequenceWord(FALSE, TRUE, n)
        \/ w = SequenceWord(TRUE, FALSE, n) \/ w = SequenceWord(TRUE, TRUE, n)
    BY <1>1, <1>2, <1>4 DEF SequenceWord, STOPPED_MASK, WRITING_IN_PROGRESS_MASK, Numbers
  <1> QED
    BY <1>5, Zenon

Words64 == 0..(4 * SequenceSize - 1)

LEMMA StructEqual ==
  ASSUME NEW r \in SequenceState, NEW s \in SequenceState, r.sequence = s.sequence,
         r.stopped = s.stopped, r.writing_in_progress = s.writing_in_progress
  PROVE  r = s
  BY DEF SequenceState, AbstractWords!SequenceState

\* A SequenceState by its fields.
IsState(s, n, stopped, writing) ==
    /\ s \in SequenceState
    /\ s.sequence = n /\ s.stopped = stopped /\ s.writing_in_progress = writing

\* from_packed_u64 of SequenceState finds the fields.
LEMMA FromSequenceWord ==
  ASSUME NEW stopped \in BOOLEAN, NEW writing \in BOOLEAN, NEW n \in Numbers
  PROVE  /\ SequenceWord(stopped, writing, n) \in Words64
         /\ IsState(FromSequence(SequenceWord(stopped, writing, n)), n, stopped, writing)
  <1> DEFINE w == SequenceWord(stopped, writing, n)
  <1>1. /\ w \in Words64 /\ w % SequenceSize = n
        /\ (Bit(w, STOPPED_MASK) <=> stopped)
        /\ (Bit(w, WRITING_IN_PROGRESS_MASK) <=> writing)
    BY SequenceDigits DEF Words64
  <1> HIDE DEF w
  <1>2. Bit(w, STOPPED_MASK) = stopped /\ Bit(w, WRITING_IN_PROGRESS_MASK) = writing
    BY <1>1 DEF Bit
  <1>3. FromSequence(w) = [sequence |-> n, stopped |-> stopped, writing_in_progress |-> writing]
    BY <1>1, <1>2 DEF FromSequence
  <1>4. IsState(FromSequence(w), n, stopped, writing)
    BY <1>3 DEF IsState, SequenceState, AbstractWords!SequenceState, Numbers
  <1> QED
    BY <1>1, <1>4 DEF w

\* to_packed_u64 of SequenceState packs them.
LEMMA SequenceRoundTrip ==
  ASSUME NEW s \in SequenceState
  PROVE  SequenceToPacked(s) \in Words64 /\ FromSequence(SequenceToPacked(s)) = s
  <1>1. /\ s.sequence \in Numbers /\ s.stopped \in BOOLEAN /\ s.writing_in_progress \in BOOLEAN
    BY DEF SequenceState, AbstractWords!SequenceState, Numbers
  <1>2. s.sequence % SequenceSize = s.sequence
    BY <1>1, WidthAssumption DEF Numbers
  <1>3. SequenceToPacked(s) = SequenceWord(s.stopped, s.writing_in_progress, s.sequence)
    BY <1>2 DEF SequenceToPacked, SequenceWord
  <1>4. /\ SequenceToPacked(s) \in Words64
        /\ IsState(FromSequence(SequenceToPacked(s)), s.sequence, s.stopped,
                   s.writing_in_progress)
    BY <1>1, <1>3, FromSequenceWord
  <1> QED
    BY <1>4, StructEqual DEF IsState

LEMMA SetsWriting ==
  ASSUME NEW r \in SequenceState, NEW f \in SequenceState,
         f.sequence = r.sequence, f.stopped = r.stopped, f.writing_in_progress = TRUE
  PROVE  f = [r EXCEPT !.writing_in_progress = TRUE]
  <1> DEFINE e == [r EXCEPT !.writing_in_progress = TRUE]
  <1>1. e \in SequenceState
    BY DEF SequenceState, AbstractWords!SequenceState
  <1>2. /\ e.sequence = f.sequence /\ e.stopped = f.stopped
        /\ e.writing_in_progress = f.writing_in_progress
    BY DEF SequenceState, AbstractWords!SequenceState
  <1> HIDE DEF e
  <1>3. f = e
    BY <1>1, <1>2, StructEqual
  <1> QED
    BY <1>3 DEF e

LEMMA ClearsWriting ==
  ASSUME NEW r \in SequenceState, NEW f \in SequenceState,
         f.sequence = r.sequence, f.stopped = r.stopped, f.writing_in_progress = FALSE
  PROVE  f = [r EXCEPT !.writing_in_progress = FALSE]
  <1> DEFINE e == [r EXCEPT !.writing_in_progress = FALSE]
  <1>1. e \in SequenceState
    BY DEF SequenceState, AbstractWords!SequenceState
  <1>2. /\ e.sequence = f.sequence /\ e.stopped = f.stopped
        /\ e.writing_in_progress = f.writing_in_progress
    BY DEF SequenceState, AbstractWords!SequenceState
  <1> HIDE DEF e
  <1>3. f = e
    BY <1>1, <1>2, StructEqual
  <1> QED
    BY <1>3 DEF e

LEMMA SetsStopped ==
  ASSUME NEW r \in SequenceState, NEW f \in SequenceState,
         f.sequence = r.sequence, f.stopped = TRUE,
         f.writing_in_progress = r.writing_in_progress
  PROVE  f = [r EXCEPT !.stopped = TRUE]
  <1> DEFINE e == [r EXCEPT !.stopped = TRUE]
  <1>1. e \in SequenceState
    BY DEF SequenceState, AbstractWords!SequenceState
  <1>2. /\ e.sequence = f.sequence /\ e.stopped = f.stopped
        /\ e.writing_in_progress = f.writing_in_progress
    BY DEF SequenceState, AbstractWords!SequenceState
  <1> HIDE DEF e
  <1>3. f = e
    BY <1>1, <1>2, StructEqual
  <1> QED
    BY <1>3 DEF e

LEMMA SetsSequence ==
  ASSUME NEW r \in SequenceState, NEW f \in SequenceState,
         f.stopped = r.stopped, f.writing_in_progress = FALSE
  PROVE  f = [r EXCEPT !.sequence = f.sequence, !.writing_in_progress = FALSE]
  <1> DEFINE e == [r EXCEPT !.sequence = f.sequence, !.writing_in_progress = FALSE]
  <1>1. e \in SequenceState
    BY DEF SequenceState, AbstractWords!SequenceState
  <1>2. /\ e.sequence = f.sequence /\ e.stopped = f.stopped
        /\ e.writing_in_progress = f.writing_in_progress
    BY DEF SequenceState, AbstractWords!SequenceState
  <1> HIDE DEF e
  <1>3. f = e
    BY <1>1, <1>2, StructEqual
  <1> QED
    BY <1>3 DEF e

\* fetch_or and fetch_and reach the one flag they are meant for.
LEMMA FetchSets ==
  ASSUME NEW w \in Words64
  PROVE  /\ FetchOr(w, WRITING_IN_PROGRESS_MASK) \in Words64
         /\ FromSequence(FetchOr(w, WRITING_IN_PROGRESS_MASK)) =
              [FromSequence(w) EXCEPT !.writing_in_progress = TRUE]
         /\ FetchAndNot(w, WRITING_IN_PROGRESS_MASK) \in Words64
         /\ FromSequence(FetchAndNot(w, WRITING_IN_PROGRESS_MASK)) =
              [FromSequence(w) EXCEPT !.writing_in_progress = FALSE]
         /\ FetchOr(w, STOPPED_MASK) \in Words64
         /\ FromSequence(FetchOr(w, STOPPED_MASK)) = [FromSequence(w) EXCEPT !.stopped = TRUE]
         /\ FromSequence(w) \in SequenceState
  <1>1. PICK stopped \in BOOLEAN, writing \in BOOLEAN, n \in Numbers :
            w = SequenceWord(stopped, writing, n)
    BY SequenceWords DEF Words64
  <1>2. /\ Bit(w, STOPPED_MASK) <=> stopped
        /\ Bit(w, WRITING_IN_PROGRESS_MASK) <=> writing
    BY <1>1, SequenceDigits
  <1>3. n \in Nat /\ STOPPED_MASK \in Nat /\ WRITING_IN_PROGRESS_MASK \in Nat
    BY WidthAssumption DEF Numbers, STOPPED_MASK, WRITING_IN_PROGRESS_MASK
  <1>4. /\ FetchOr(w, WRITING_IN_PROGRESS_MASK) = SequenceWord(stopped, TRUE, n)
        /\ FetchAndNot(w, WRITING_IN_PROGRESS_MASK) = SequenceWord(stopped, FALSE, n)
        /\ FetchOr(w, STOPPED_MASK) = SequenceWord(TRUE, writing, n)
    BY <1>1, <1>2, <1>3 DEF FetchOr, FetchAndNot, SequenceWord
  <1>5. IsState(FromSequence(w), n, stopped, writing)
    BY <1>1, FromSequenceWord
  <1>6. /\ FetchOr(w, WRITING_IN_PROGRESS_MASK) \in Words64
        /\ IsState(FromSequence(FetchOr(w, WRITING_IN_PROGRESS_MASK)), n, stopped, TRUE)
    BY <1>4, FromSequenceWord
  <1>7. /\ FetchAndNot(w, WRITING_IN_PROGRESS_MASK) \in Words64
        /\ IsState(FromSequence(FetchAndNot(w, WRITING_IN_PROGRESS_MASK)), n, stopped, FALSE)
    BY <1>4, FromSequenceWord
  <1>8. /\ FetchOr(w, STOPPED_MASK) \in Words64
        /\ IsState(FromSequence(FetchOr(w, STOPPED_MASK)), n, TRUE, writing)
    BY <1>4, FromSequenceWord
  <1>9. FromSequence(w) \in SequenceState
    BY <1>5 DEF IsState
  <1>10. FromSequence(FetchOr(w, WRITING_IN_PROGRESS_MASK)) =
           [FromSequence(w) EXCEPT !.writing_in_progress = TRUE]
    BY <1>5, <1>6, SetsWriting DEF IsState
  <1>11. FromSequence(FetchAndNot(w, WRITING_IN_PROGRESS_MASK)) =
           [FromSequence(w) EXCEPT !.writing_in_progress = FALSE]
    BY <1>5, <1>7, ClearsWriting DEF IsState
  <1>12. FromSequence(FetchOr(w, STOPPED_MASK)) = [FromSequence(w) EXCEPT !.stopped = TRUE]
    BY <1>5, <1>8, SetsStopped DEF IsState
  <1> QED
    BY <1>6, <1>7, <1>8, <1>9, <1>10, <1>11, <1>12

\* publish_write goes to the next sequence number, skips 0 and keeps stopped.
LEMMA PublishedWord ==
  ASSUME NEW w \in Words64
  PROVE  /\ Published(w) \in SequenceState
         /\ Published(w) =
              [FromSequence(w) EXCEPT
                 !.sequence = AbstractWords!NextSequence(FromSequence(w).sequence),
                 !.writing_in_progress = FALSE]
  <1> DEFINE n == FromSequence(w).sequence
             next == (n + 1) % SequenceSize
             follow == IF next = 0 THEN 1 ELSE next
  <1>1. FromSequence(w) \in SequenceState
    BY FetchSets
  <1>2. n \in 0..(SequenceSize - 1) /\ FromSequence(w).stopped \in BOOLEAN
    BY <1>1 DEF SequenceState, AbstractWords!SequenceState
  <1>3. follow = AbstractWords!NextSequence(n) /\ follow \in 0..(SequenceSize - 1)
    BY <1>2, WidthAssumption DEF AbstractWords!NextSequence
  <1>4. Published(w) = [sequence |-> follow, stopped |-> FromSequence(w).stopped,
                        writing_in_progress |-> FALSE]
    BY DEF Published
  <1> HIDE DEF follow
  <1>5. Published(w) \in SequenceState
    BY <1>2, <1>3, <1>4 DEF SequenceState, AbstractWords!SequenceState
  <1>6. /\ Published(w).sequence = follow /\ Published(w).stopped = FromSequence(w).stopped
        /\ Published(w).writing_in_progress = FALSE
    BY <1>4
  <1>7. Published(w) =
          [FromSequence(w) EXCEPT !.sequence = Published(w).sequence,
                                  !.writing_in_progress = FALSE]
    BY <1>1, <1>5, <1>6, SetsSequence
  <1> QED
    BY <1>3, <1>5, <1>6, <1>7

----------------------------------------------------------------------------
(* The calls.                                                              *)

Ops == DOMAIN Needs

LEMMA OpNames == Ops = AbstractWords!SequenceOps \cup AbstractWords!ReaderOps
  BY DEF Ops, Needs, AbstractWords!SequenceOps, AbstractWords!ReaderOps

LEMMA RolesLead == \A o \in Ops : LeadsTo[o] \in Roles
  BY DEF Ops, Needs, LeadsTo, Roles

LEMMA CallOps ==
  ASSUME NEW c \in Calls
  PROVE  c.op \in Ops /\ (c.op = "set_target" => c.arg \in 0..(U16Size - 1))
  <1>1. "set_target" \in Ops
    BY DEF Ops, Needs
  <1> QED
    BY <1>1, WidthAssumption DEF Calls, Ops

\* The closures keep the fields in their width.
LEMMA MutateType ==
  ASSUME NEW c \in Calls, c.op \in AbstractWords!ReaderOps, NEW s \in ReadersStateCount
  PROVE  AbstractWords!Mutate(c, s) \in ReadersStateCount
  <1>1. \A n \in 0..(U16Size - 1) : /\ AbstractWords!Inc16(n) \in 0..(U16Size - 1)
                                   /\ AbstractWords!Dec16(n) \in 0..(U16Size - 1)
    BY WidthAssumption DEF AbstractWords!Inc16, AbstractWords!Dec16
  <1>2. c.op = "set_target" => c.arg \in 0..(U16Size - 1)
    BY CallOps
  <1>3. 0 \in 0..(U16Size - 1)
    BY WidthAssumption
  <1> QED
    BY <1>1, <1>2, <1>3 DEF AbstractWords!Mutate, AbstractWords!ReaderOps, ReadersStateCount,
       AbstractWords!ReadersStateCount

----------------------------------------------------------------------------
(* Where a thread is, and what it has checked by then.                     *)

LoopOps == AbstractWords!ReaderOps \cup {"publish"}

\* A thread is in its call from Begin to Leave, in the loop that the call needs.
Stage ==
    \A t \in Threads :
        /\ pc[t] = "idle" <=> call[t] = NoCall
        /\ pc[t] = "fetch" => call[t].op \in {"mark", "unmark", "stop"}
        /\ pc[t] \in {"load", "exchange"} => call[t].op \in LoopOps

\* The exchange is tried with a word on which the closure did not panic.
Checked ==
    \A t \in Threads :
        pc[t] = "exchange" /\ call[t].op # "publish" =>
            ~AbstractWords!Panics(call[t], FromReaders(packed[t]))

WordsInv == TypeOK /\ Stage /\ Checked

\* The part that is the threads' own.
ThreadsOK ==
    /\ pc \in [Threads -> {"idle", "fetch", "load", "exchange"}]
    /\ packed \in [Threads -> Nat]
    /\ call \in [Threads -> Calls \cup {NoCall}]
    /\ role \in [Threads -> Roles]
    /\ Stage
    /\ Checked

LEMMA WordsParts ==
  WordsInv <=> /\ sequence_and_flags \in Words64
               /\ readers_state \in 0..(U16Size * CONSUMED - 1)
               /\ ThreadsOK
  BY DEF WordsInv, TypeOK, ThreadsOK, Words64

LEMMA InCall ==
  ASSUME ThreadsOK, NEW t \in Threads, pc[t] # "idle"
  PROVE  call[t] # NoCall /\ call[t] \in Calls /\ call[t].op \in Ops
  BY CallOps DEF ThreadsOK, Stage

LEMMA BeginKeeps == ASSUME ThreadsOK, NEW t \in Threads, Begin(t) PROVE ThreadsOK'
  <1>1. PICK c \in Calls :
          /\ call' = [call EXCEPT ![t] = c]
          /\ pc' = [pc EXCEPT ![t] = IF c.op \in {"mark", "unmark", "stop"} THEN "fetch" ELSE "load"]
    BY DEF Begin
  <1>2. packed' = packed /\ role' = role
    BY DEF Begin
  <1>3. c # NoCall /\ (c.op \notin {"mark", "unmark", "stop"} => c.op \in LoopOps)
    BY CallAssumption, CallOps, OpNames DEF LoopOps, AbstractWords!SequenceOps
  <1>4. call'[t] = c /\ pc'[t] \in {"fetch", "load"}
        /\ (pc'[t] = "fetch" <=> c.op \in {"mark", "unmark", "stop"})
    BY <1>1 DEF ThreadsOK
  <1>5. \A u \in Threads \ {t} : call'[u] = call[u] /\ pc'[u] = pc[u]
    BY <1>1 DEF ThreadsOK
  <1>6. Stage'
    BY <1>3, <1>4, <1>5 DEF Stage, ThreadsOK
  <1>7. Checked'
    BY <1>2, <1>4, <1>5 DEF Checked, ThreadsOK
  <1> QED
    BY <1>1, <1>2, <1>6, <1>7 DEF ThreadsOK

LEMMA LeaveKeeps ==
  ASSUME ThreadsOK, NEW t \in Threads, NEW a, NEW r \in Roles, Leave(t, a, r) PROVE ThreadsOK'
  <1>1. /\ pc'[t] = "idle" /\ call'[t] = NoCall
        /\ \A u \in Threads \ {t} : call'[u] = call[u] /\ pc'[u] = pc[u] /\ packed'[u] = packed[u]
    BY DEF ThreadsOK, Leave
  <1>2. Stage' /\ Checked'
    BY <1>1 DEF ThreadsOK, Stage, Checked
  <1> QED
    BY <1>2 DEF ThreadsOK, Leave

LEMMA ReturnKeeps ==
  ASSUME ThreadsOK, NEW t \in Threads, NEW a, pc[t] # "idle", Return(t, a) PROVE ThreadsOK'
  BY InCall, RolesLead, LeaveKeeps DEF Return

LEMMA RetryKeeps ==
  ASSUME ThreadsOK, NEW t \in Threads, pc[t] \in {"load", "exchange"}, NEW word \in Nat,
         call[t].op # "publish" => ~AbstractWords!Panics(call[t], FromReaders(word)),
         Retry(t, word)
  PROVE  ThreadsOK'
  <1>1. /\ pc'[t] = "exchange" /\ packed'[t] = word /\ call' = call /\ role' = role
        /\ \A u \in Threads \ {t} : pc'[u] = pc[u] /\ packed'[u] = packed[u]
    BY DEF ThreadsOK, Retry
  <1>2. Stage' /\ Checked'
    BY <1>1 DEF ThreadsOK, Stage, Checked
  <1> QED
    BY <1>2 DEF ThreadsOK, Retry

----------------------------------------------------------------------------
(* Each step keeps the invariant and is a step of Words, or none.          *)

Stutters == UNCHANGED AbstractWords!vars

LEMMA BeginCalls ==
  ASSUME WordsInv, NEW t \in Threads, Begin(t)
  PROVE  WordsInv' /\ AbstractWords!Call(t)
  <1>1. UNCHANGED words
    BY DEF Begin
  <1>2. WordsInv'
    BY <1>1, WordsParts, BeginKeeps DEF words, WordsInv, TypeOK, ThreadsOK
  <1>3. AbstractWords!Call(t)
    BY <1>1 DEF Begin, AbstractWords!Call, words
  <1> QED
    BY <1>2, <1>3

LEMMA FetchApplies ==
  ASSUME WordsInv, NEW t \in Threads, Fetch(t)
  PROVE  WordsInv' /\ AbstractWords!ApplySequence(t)
  <1>1. sequence_and_flags \in Words64 /\ ThreadsOK
    BY WordsParts
  <1>2. pc[t] = "fetch" /\ Return(t, NoAnswer) /\ readers_state' = readers_state
    BY DEF Fetch
  <1>3. call[t] # NoCall /\ call[t].op \in {"mark", "unmark", "stop"}
    BY <1>1, <1>2, InCall DEF ThreadsOK, Stage
  <1>4. /\ sequence_and_flags' \in Words64
        /\ FromSequence(sequence_and_flags') =
             AbstractWords!Change(call[t], FromSequence(sequence_and_flags))
    <2>1. CASE call[t].op = "mark"
      BY <1>1, <2>1, FetchSets DEF Fetch, AbstractWords!Change
    <2>2. CASE call[t].op = "unmark"
      BY <1>1, <2>2, FetchSets DEF Fetch, AbstractWords!Change
    <2>3. CASE call[t].op = "stop"
      BY <1>1, <2>3, FetchSets DEF Fetch, AbstractWords!Change
    <2> QED
      BY <1>3, <2>1, <2>2, <2>3
  <1>5. ThreadsOK'
    BY <1>1, <1>2, ReturnKeeps
  <1>6. WordsInv'
    BY <1>2, <1>4, <1>5, WordsParts DEF WordsInv, TypeOK, ThreadsOK, Words64
  <1>7. AbstractWords!ApplySequence(t)
    BY <1>2, <1>3, <1>4 DEF AbstractWords!ApplySequence, AbstractWords!SequenceOps,
       AbstractWords!Returns, Return, Leave
  <1> QED
    BY <1>6, <1>7

LEMMA PublishApplies ==
  ASSUME WordsInv, NEW t \in Threads, LoadSequence(t) \/ ExchangeSequence(t)
  PROVE  WordsInv' /\ (AbstractWords!ApplySequence(t) \/ Stutters)
  <1>1. sequence_and_flags \in Words64 /\ ThreadsOK /\ readers_state' = readers_state
    BY WordsParts DEF LoadSequence, ExchangeSequence, words
  <1>2. pc[t] \in {"load", "exchange"} /\ call[t].op = "publish" /\ call[t] # NoCall
    BY <1>1, InCall DEF LoadSequence, ExchangeSequence
  <1>3. CASE Retry(t, sequence_and_flags) /\ UNCHANGED sequence_and_flags
    <2>1. sequence_and_flags \in Nat
      BY <1>1, WidthAssumption DEF Words64
    <2>2. ThreadsOK'
      BY <1>1, <1>2, <1>3, <2>1, RetryKeeps
    <2>3. WordsInv'
      BY <1>1, <1>3, <2>2, WordsParts DEF WordsInv, TypeOK, ThreadsOK, Words64
    <2>4. Stutters
      BY <1>1, <1>3 DEF Stutters, AbstractWords!vars, Retry
    <2> QED
      BY <2>3, <2>4
  <1>4. CASE /\ sequence_and_flags = packed[t]
             /\ sequence_and_flags' = SequenceToPacked(Published(packed[t]))
             /\ Return(t, Published(packed[t]).sequence)
    <2>1. Published(sequence_and_flags) \in SequenceState
      BY <1>1, PublishedWord
    <2>2. /\ sequence_and_flags' \in Words64
          /\ FromSequence(sequence_and_flags') = Published(sequence_and_flags)
      BY <1>4, <2>1, SequenceRoundTrip
    <2>3. Published(sequence_and_flags) =
            AbstractWords!Change(call[t], FromSequence(sequence_and_flags))
      BY <1>1, <1>2, PublishedWord DEF AbstractWords!Change
    <2>4. ThreadsOK'
      BY <1>1, <1>2, <1>4, ReturnKeeps
    <2>5. WordsInv'
      BY <1>1, <2>2, <2>4, WordsParts DEF WordsInv, TypeOK, ThreadsOK, Words64
    <2>6. AbstractWords!ApplySequence(t)
      BY <1>1, <1>2, <1>4, <2>2, <2>3 DEF AbstractWords!ApplySequence,
         AbstractWords!SequenceOps, AbstractWords!Returns, Return, Leave
    <2> QED
      BY <2>5, <2>6
  <1> QED
    BY <1>3, <1>4 DEF LoadSequence, ExchangeSequence, words

\* A look at the word that ends in a panic, in no change, or in an exchange.
LEMMA LookApplies ==
  ASSUME WordsInv, NEW t \in Threads, pc[t] \in {"load", "exchange"}, call[t].op # "publish",
         Look(t, readers_state), UNCHANGED words
  PROVE  WordsInv' /\ (AbstractWords!ApplyReaders(t) \/ AbstractWords!Panic(t) \/ Stutters)
  <1> DEFINE w == readers_state
  <1>1. w \in 0..(U16Size * CONSUMED - 1) /\ ThreadsOK /\ UNCHANGED <<sequence_and_flags, readers_state>>
    BY WordsParts DEF words
  <1>2. w \in Nat
    BY <1>1, Widths, WidthAssumption
  <1>3. call[t] # NoCall /\ call[t] \in Calls /\ call[t].op \in AbstractWords!ReaderOps
    BY <1>1, InCall DEF ThreadsOK, Stage, LoopOps
  <1>4. /\ FromReaders(w)' = FromReaders(w)
        /\ FromSequence(sequence_and_flags)' = FromSequence(sequence_and_flags)
    BY <1>1
  <1>w. ThreadsOK' => WordsInv'
    BY <1>1, WordsParts DEF WordsInv, TypeOK, ThreadsOK
  <1>5. CASE AbstractWords!Panics(call[t], FromReaders(w)) /\ Leave(t, NoAnswer, role[t])
    <2>1. ThreadsOK'
      BY <1>1, <1>5, LeaveKeeps DEF ThreadsOK
    <2>2. AbstractWords!Panic(t)
      BY <1>3, <1>4, <1>5 DEF AbstractWords!Panic, AbstractWords!Returns, Leave
    <2> QED
      BY <1>w, <2>1, <2>2
  <1>6. CASE /\ ~AbstractWords!Panics(call[t], FromReaders(w))
             /\ ReadersToPacked(Mutated(t, w)) = w
             /\ Return(t, Mutated(t, w))
    <2>1. Mutated(t, w) \in ReadersStateCount
      BY <1>2, <1>3, FromReadersType, MutateType DEF Mutated
    <2>2. FromReaders(w) = Mutated(t, w)
      BY <1>6, <2>1, ReadersRoundTrip
    <2>3. ThreadsOK'
      BY <1>1, <1>6, ReturnKeeps
    <2>4. AbstractWords!ApplyReaders(t)
      BY <1>3, <1>4, <1>6, <2>2
      DEF AbstractWords!ApplyReaders, AbstractWords!Returns, Return, Leave, Mutated
    <2> QED
      BY <1>w, <2>3, <2>4
  <1>7. CASE ~AbstractWords!Panics(call[t], FromReaders(w)) /\ Retry(t, w)
    <2>1. ThreadsOK'
      BY <1>1, <1>2, <1>7, RetryKeeps
    <2>2. Stutters
      BY <1>4, <1>7 DEF Stutters, AbstractWords!vars, Retry
    <2> QED
      BY <1>w, <2>1, <2>2
  <1> QED
    BY <1>5, <1>6, <1>7 DEF Look

LEMMA ReadersApply ==
  ASSUME WordsInv, NEW t \in Threads, LoadReaders(t) \/ ExchangeReaders(t)
  PROVE  WordsInv' /\ (AbstractWords!ApplyReaders(t) \/ AbstractWords!Panic(t) \/ Stutters)
  <1>1. /\ pc[t] \in {"load", "exchange"} /\ call[t].op # "publish"
        /\ sequence_and_flags' = sequence_and_flags
    BY DEF LoadReaders, ExchangeReaders, words
  <1>2. CASE Look(t, readers_state) /\ UNCHANGED readers_state
    BY <1>1, <1>2, LookApplies DEF words
  <1>3. CASE /\ pc[t] = "exchange"
             /\ readers_state = packed[t]
             /\ readers_state' = ReadersToPacked(Mutated(t, packed[t]))
             /\ Return(t, Mutated(t, packed[t]))
    <2>1. readers_state \in 0..(U16Size * CONSUMED - 1) /\ ThreadsOK /\ sequence_and_flags \in Words64
      BY WordsParts
    <2>2. readers_state \in Nat
      BY <2>1, Widths, WidthAssumption
    <2>3. call[t] # NoCall /\ call[t] \in Calls /\ call[t].op \in AbstractWords!ReaderOps
      BY <1>1, <2>1, InCall DEF ThreadsOK, Stage, LoopOps
    <2>4. Mutated(t, readers_state) \in ReadersStateCount
      BY <2>2, <2>3, FromReadersType, MutateType DEF Mutated
    <2>5. /\ readers_state' \in 0..(U16Size * CONSUMED - 1)
          /\ FromReaders(readers_state') = Mutated(t, readers_state)
      BY <1>3, <2>4, ReadersRoundTrip
    <2>6. ~AbstractWords!Panics(call[t], FromReaders(readers_state))
      BY <1>1, <1>3, <2>1 DEF ThreadsOK, Checked
    <2>7. ThreadsOK'
      BY <1>3, <2>1, ReturnKeeps
    <2>8. WordsInv'
      BY <1>1, <2>1, <2>5, <2>7, WordsParts DEF WordsInv, TypeOK, ThreadsOK, Words64
    <2>9. AbstractWords!ApplyReaders(t)
      BY <1>1, <1>3, <2>3, <2>5, <2>6
      DEF AbstractWords!ApplyReaders, AbstractWords!Returns, Return, Leave, Mutated
    <2> QED
      BY <2>8, <2>9
  <1> QED
    BY <1>2, <1>3 DEF LoadReaders, ExchangeReaders, words

LEMMA DropStutters ==
  ASSUME WordsInv, NEW t \in Threads, DropWriteGuard(t)
  PROVE  WordsInv' /\ Stutters
  <1>1. UNCHANGED <<sequence_and_flags, readers_state, pc, packed, call, answer>>
    BY DEF DropWriteGuard, words
  <1>2. role' \in [Threads -> Roles]
    BY DEF DropWriteGuard, WordsInv, TypeOK, Roles
  <1>3. WordsInv'
    BY <1>1, <1>2 DEF WordsInv, TypeOK, Stage, Checked
  <1>4. Stutters
    BY <1>1 DEF Stutters, AbstractWords!vars
  <1> QED
    BY <1>3, <1>4

LEMMA InitWords == Init => WordsInv /\ AbstractWords!Init
  <1> SUFFICES ASSUME Init PROVE WordsInv /\ AbstractWords!Init
    OBVIOUS
  <1> DEFINE r == [target_read |-> 0, consumers |-> Others,
                   active_readers |-> 0, data_consumed |-> 0]
  <1>1. 0 \in 0..(U16Size - 1) /\ Others \in 0..(U16Size - 1) /\ Others \in Nat
    BY WidthAssumption
  <1>2. r \in ReadersStateCount
    BY <1>1 DEF ReadersStateCount, AbstractWords!ReadersStateCount
  <1>3. ReadersToPacked(r) = Others * CONSUMERS
    BY <1>1, Widths DEF ReadersToPacked
  <1>4. /\ readers_state \in 0..(U16Size * CONSUMED - 1)
        /\ FromReaders(readers_state) = r
    BY <1>2, <1>3, ReadersRoundTrip DEF Init
  <1>5. sequence_and_flags = SequenceWord(FALSE, FALSE, 0) /\ 0 \in Numbers
    BY WidthAssumption DEF Init, SequenceWord, Numbers
  <1>6. /\ sequence_and_flags \in Words64
        /\ IsState(FromSequence(sequence_and_flags), 0, FALSE, FALSE)
    BY <1>5, FromSequenceWord
  <1>7. FromSequence(sequence_and_flags) =
          [sequence |-> 0, stopped |-> FALSE, writing_in_progress |-> FALSE]
    <2> DEFINE z == [sequence |-> 0, stopped |-> FALSE, writing_in_progress |-> FALSE]
    <2>1. z \in SequenceState
      BY <1>5 DEF SequenceState, AbstractWords!SequenceState, Numbers
    <2>2. z.sequence = 0 /\ z.stopped = FALSE /\ z.writing_in_progress = FALSE
      OBVIOUS
    <2> HIDE DEF z
    <2>3. FromSequence(sequence_and_flags) = z
      BY <1>6, <2>1, <2>2, StructEqual DEF IsState
    <2> QED
      BY <2>3 DEF z
  <1>8. ThreadsOK
    BY CallAssumption DEF Init, ThreadsOK, Stage, Checked, Roles
  <1>9. WordsInv
    BY <1>4, <1>6, <1>8, WordsParts
  <1>10. AbstractWords!Init
    BY <1>4, <1>7 DEF Init, AbstractWords!Init
  <1> QED
    BY <1>9, <1>10

LEMMA StepWords ==
  ASSUME WordsInv, [Next]_vars
  PROVE  WordsInv' /\ [AbstractWords!Next]_AbstractWords!vars
  <1>1. ASSUME NEW t \in Threads, Begin(t) \/ DropWriteGuard(t) \/ Step(t)
        PROVE  WordsInv' /\ (\/ AbstractWords!Call(t) \/ AbstractWords!ApplySequence(t)
                             \/ AbstractWords!ApplyReaders(t) \/ AbstractWords!Panic(t)
                             \/ Stutters)
    BY <1>1, BeginCalls, DropStutters, FetchApplies, PublishApplies, ReadersApply DEF Step
  <1>2. CASE UNCHANGED vars
    <2>1. WordsInv'
      BY <1>2 DEF vars, words, WordsInv, TypeOK, Stage, Checked
    <2>2. Stutters
      BY <1>2 DEF vars, words, Stutters, AbstractWords!vars
    <2> QED
      BY <2>1, <2>2 DEF Stutters
  <1> QED
    BY <1>1, <1>2 DEF Next, AbstractWords!Next, Stutters

\* The words of packed.rs for any width of their fields: no call carries from a
\* field into the next one or out of the word.
THEOREM PackedWordsTypes == Spec => []TypeOK
  <1>1. Init => WordsInv
    BY InitWords
  <1>2. WordsInv /\ [Next]_vars => WordsInv'
    BY StepWords
  <1>3. WordsInv => TypeOK
    BY DEF WordsInv
  <1> QED
    BY <1>1, <1>2, <1>3, PTL DEF Spec

\* update_reader_state, publish_write, fetch_or and fetch_and (mod.rs) do to the
\* packed words what Words says of the structs, in one step and exactly once, for
\* any number of threads and any width: the round trips of packed.rs lose nothing,
\* and an exchange stores what the closure made of the word that is still there.
THEOREM PackedImplementWords == Spec => ImplementsWords
  <1>1. Init => WordsInv /\ AbstractWords!Init
    BY InitWords
  <1>2. WordsInv /\ [Next]_vars => WordsInv' /\ [AbstractWords!Next]_AbstractWords!vars
    BY StepWords
  <1> QED
    BY <1>1, <1>2, PTL DEF Spec, ImplementsWords, AbstractWords!Spec

\* "keep the stopped flag" (mod.rs:168): no step of any thread lowers it.
THEOREM PackedStopSticks == Spec => StopSticks
  <1>1. Init => WordsInv
    BY InitWords
  <1>2. WordsInv /\ [Next]_vars =>
          WordsInv' /\ [FromSequence(sequence_and_flags).stopped =>
                          FromSequence(sequence_and_flags').stopped]_vars
    <2> SUFFICES ASSUME WordsInv, [Next]_vars
                 PROVE  WordsInv' /\ (FromSequence(sequence_and_flags).stopped =>
                                        FromSequence(sequence_and_flags').stopped)
      OBVIOUS
    <2>1. FromSequence(sequence_and_flags) \in SequenceState
      BY WordsParts, FetchSets
    <2>2. CASE UNCHANGED FromSequence(sequence_and_flags)
      BY <2>2, StepWords
    <2>3. ASSUME NEW t \in Threads, AbstractWords!ApplySequence(t)
          PROVE  FromSequence(sequence_and_flags).stopped =>
                   FromSequence(sequence_and_flags').stopped
      <3>1. /\ call[t].op \in {"mark", "unmark", "stop", "publish"}
            /\ FromSequence(sequence_and_flags') =
                 AbstractWords!Change(call[t], FromSequence(sequence_and_flags))
        BY <2>3 DEF AbstractWords!ApplySequence, AbstractWords!SequenceOps
      <3>2. ASSUME NEW s \in SequenceState, s.stopped
            PROVE  AbstractWords!Change(call[t], s).stopped
        BY <3>1, <3>2 DEF AbstractWords!Change, SequenceState, AbstractWords!SequenceState
      <3> QED
        BY <2>1, <3>1, <3>2
    <2> QED
      BY <2>2, <2>3, StepWords DEF AbstractWords!Next, AbstractWords!vars, AbstractWords!Call,
         AbstractWords!ApplyReaders, AbstractWords!Panic
  <1> QED
    BY <1>1, <1>2, PTL DEF Spec, StopSticks
=============================================================================
