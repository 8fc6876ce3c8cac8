-------------------------- MODULE KeyQueueProofs --------------------------
(***************************************************************************)
(* Theorems about the keyboard buffer, for every capacity, every set of    *)
(* keys and every bound on the typist, under the one assumption that       *)
(* separates the two builds: either the overflow assertion is compiled in  *)
(* (Debug), or the typist never gets a full buffer ahead.                  *)
(***************************************************************************)
EXTENDS KeyQueue, SequenceTheorems, TLAPS

USE KeyQueueAssumption

Guarded == Debug \/ MaxBacklog < SIZE

-----------------------------------------------------------------------------
(* Arithmetic of the ring.                                                 *)

(* The remainder of a slot number is itself. *)
LEMMA ModSmall ==
  ASSUME NEW x \in Int, 0 <= x, x < SIZE
  PROVE  x % SIZE = x
BY SMT

(* The remainder of a negative difference of slots. *)
LEMMA ModNegative ==
  ASSUME NEW x \in Int, -SIZE <= x, x < 0
  PROVE  x % SIZE = x + SIZE
BY SMT

(* The remainder of a sum of slots that passes the end once. *)
LEMMA ModLarge ==
  ASSUME NEW x \in Int, SIZE <= x, x < 2 * SIZE
  PROVE  x % SIZE = x - SIZE
BY SMT

(* The next slot, the wrap at the end taken apart. *)
LEMMA SuccValue ==
  ASSUME NEW i \in Slots
  PROVE  /\ Succ(i) = IF i = SIZE - 1 THEN 0 ELSE i + 1
         /\ Succ(i) \in Slots
<1>1. i \in Int /\ 0 <= i /\ i <= SIZE - 1
  BY DEF Slots
<1>2. CASE i = SIZE - 1
  BY <1>1, <1>2, ModLarge, i + 1 = SIZE DEF Succ, Slots
<1>3. CASE i # SIZE - 1
  BY <1>1, <1>3, ModSmall DEF Succ, Slots
<1> QED BY <1>2, <1>3

(* The number of keys between two indices, without the remainder. *)
Distance(i, o) == (i - o - 1) % SIZE

(* Its value: the indices in order, or wrapped. *)
LEMMA DistanceValue ==
  ASSUME NEW i \in Slots, NEW o \in Slots
  PROVE  Distance(i, o) = IF i > o THEN i - o - 1 ELSE i - o - 1 + SIZE
<1>1. i - o - 1 \in Int /\ -SIZE <= i - o - 1 /\ i - o - 1 < SIZE
  BY DEF Slots
<1>2. CASE i > o
  BY <1>1, <1>2, ModSmall DEF Distance, Slots
<1>3. CASE ~(i > o)
  BY <1>1, <1>3, ModNegative DEF Distance, Slots
<1> QED BY <1>2, <1>3

(* What the two tests on the indices mean, and how a push and a pop change
   the distance. *)
LEMMA DistanceFacts ==
  ASSUME NEW i \in Slots, NEW o \in Slots
  PROVE  /\ Distance(i, o) \in 0 .. SIZE - 1
         /\ Distance(i, o) = 0 <=> Succ(o) = i
         /\ Distance(i, o) = SIZE - 1 <=> i = o
         /\ Distance(i, o) # SIZE - 1 => Distance(Succ(i), o) = Distance(i, o) + 1
         /\ Distance(i, o) # 0 => Distance(i, Succ(o)) = Distance(i, o) - 1
<1>1. i \in Int /\ 0 <= i /\ i <= SIZE - 1 /\ o \in Int /\ 0 <= o /\ o <= SIZE - 1
  BY DEF Slots
<1>2. Distance(i, o) = IF i > o THEN i - o - 1 ELSE i - o - 1 + SIZE
  BY DistanceValue
<1>3. /\ Succ(i) = IF i = SIZE - 1 THEN 0 ELSE i + 1
      /\ Succ(i) \in Slots
      /\ Succ(o) = IF o = SIZE - 1 THEN 0 ELSE o + 1
      /\ Succ(o) \in Slots
  BY SuccValue
<1>4. /\ Distance(Succ(i), o) =
           IF Succ(i) > o THEN Succ(i) - o - 1 ELSE Succ(i) - o - 1 + SIZE
      /\ Distance(i, Succ(o)) =
           IF i > Succ(o) THEN i - Succ(o) - 1 ELSE i - Succ(o) - 1 + SIZE
  BY <1>3, DistanceValue
<1> QED BY <1>1, <1>2, <1>3, <1>4

(* The slots of the pending keys: the last of them ends where the writer
   stands, and none of them is the writer's. *)
LEMMA PendingSlot ==
  ASSUME NEW i \in Slots, NEW o \in Slots, NEW j \in 0 .. SIZE
  PROVE  /\ (o + j) % SIZE \in Slots
         /\ j \in 1 .. Distance(i, o) => (o + j) % SIZE # i
         /\ j = Distance(i, o) + 1 => (o + j) % SIZE = i
<1>1. i \in Int /\ 0 <= i /\ i <= SIZE - 1 /\ o \in Int /\ 0 <= o /\ o <= SIZE - 1
  BY DEF Slots
<1>2. Distance(i, o) = IF i > o THEN i - o - 1 ELSE i - o - 1 + SIZE
  BY DistanceValue
<1>3. o + j \in Int /\ 0 <= o + j /\ o + j < 2 * SIZE
  BY <1>1
<1>4. (o + j) % SIZE = IF o + j < SIZE THEN o + j ELSE o + j - SIZE
  <2>1. CASE o + j < SIZE
    BY <2>1, <1>3, ModSmall
  <2>2. CASE ~(o + j < SIZE)
    <3>1. SIZE <= o + j
      BY <2>2, <1>3
    <3>2. (o + j) % SIZE = (o + j) - SIZE
      BY <3>1, <1>3, ModLarge
    <3> QED BY <3>2, <2>2, <1>1
  <2> QED BY <2>1, <2>2
<1> HIDE DEF Distance
<1> QED BY <1>1, <1>2, <1>3, <1>4 DEF Slots

(* Seen from the next slot, the pending slots shift by one. *)
LEMMA PendingShift ==
  ASSUME NEW o \in Slots, NEW j \in 0 .. SIZE - 1
  PROVE  (Succ(o) + j) % SIZE = (o + (j + 1)) % SIZE
<1>1. o \in Int /\ 0 <= o /\ o <= SIZE - 1
  BY DEF Slots
<1>2. Succ(o) = IF o = SIZE - 1 THEN 0 ELSE o + 1
  BY SuccValue
<1>3. CASE o = SIZE - 1
  <2>1. (Succ(o) + j) % SIZE = j
    BY <1>2, <1>3, ModSmall
  <2>2. (o + (j + 1)) % SIZE = j
    BY <1>3, ModLarge, o + (j + 1) = SIZE + j
  <2> QED BY <2>1, <2>2
<1>4. CASE o # SIZE - 1
  BY <1>1, <1>2, <1>4, Succ(o) + j = o + (j + 1)
<1> QED BY <1>3, <1>4

(* The backlog is the distance between the two indices. *)
LEMMA BacklogIsDistance == Backlog = Distance(inIdx, outIdx)
BY DEF Backlog, Distance

-----------------------------------------------------------------------------
(* The inductive invariant: the counters agree with the indices, the reader
   is past a successful test before it pops, and a debug build that has not
   stopped keeps one slot between writer and reader. *)
Counting ==
  /\ pressed - taken = Distance(inIdx, outIdx)
  /\ pressed - taken <= MaxBacklog
  /\ ~halted /\ pc = "pop" => Distance(inIdx, outIdx) # 0
  /\ Debug /\ ~halted => Distance(inIdx, outIdx) # SIZE - 1

IInv == TypeOK /\ Counting

(* The constructor's indices are those of an empty buffer. *)
LEMMA InitIInv == Init => IInv
<1> SUFFICES ASSUME Init PROVE IInv
  OBVIOUS
<1>1. inIdx = 0 /\ outIdx = SIZE - 1 /\ 0 \in Slots /\ SIZE - 1 \in Slots
  BY DEF Init, Slots
<1>2. Distance(0, SIZE - 1) = 0
  BY <1>1, DistanceValue
<1>3. data \in [Slots -> Keys \cup {NoKey}]
  BY DEF Init
<1>4. TypeOK
  BY <1>1, <1>3 DEF Init, TypeOK
<1>5. Counting
  BY <1>1, <1>2 DEF Init, Counting
<1> QED BY <1>4, <1>5 DEF IInv

(* A push: the counters and the writer's index move together. *)
LEMMA PushIInv ==
  ASSUME Guarded, IInv, NEW k \in Keys, Push(k)
  PROVE  IInv'
<1>1. inIdx \in Slots /\ outIdx \in Slots /\ inIdx' = Succ(inIdx) /\ outIdx' = outIdx
  BY DEF IInv, TypeOK, Push
<1>2. inIdx' \in Slots
  BY <1>1, SuccValue
<1>3. TypeOK'
  BY <1>1, <1>2 DEF IInv, TypeOK, Push, Slots
<1>4. Distance(inIdx, outIdx) # SIZE - 1
  BY <1>1, DistanceFacts DEF IInv, Counting, Push, Guarded, TypeOK
<1>5. /\ Distance(inIdx, outIdx) \in Nat
      /\ Distance(inIdx', outIdx') = Distance(inIdx, outIdx) + 1
      /\ Distance(inIdx', outIdx') = SIZE - 1 <=> inIdx' = outIdx'
  BY <1>1, <1>2, <1>4, DistanceFacts
<1>6. Counting'
  BY <1>1, <1>5 DEF IInv, Counting, Push, TypeOK
<1> QED BY <1>3, <1>6 DEF IInv

(* The first half of Pop: likewise for the reader's index. *)
LEMMA PopIndexIInv ==
  ASSUME IInv, PopIndex
  PROVE  IInv'
<1>1. inIdx \in Slots /\ outIdx \in Slots /\ outIdx' = Succ(outIdx) /\ inIdx' = inIdx
  BY DEF IInv, TypeOK, PopIndex
<1>2. outIdx' \in Slots
  BY <1>1, SuccValue
<1>3. TypeOK'
  BY <1>1, <1>2 DEF IInv, TypeOK, PopIndex
<1>4. Distance(inIdx, outIdx) # 0
  BY DEF IInv, Counting, PopIndex
<1>5. /\ Distance(inIdx, outIdx) \in 0 .. SIZE - 1
      /\ Distance(inIdx', outIdx') = Distance(inIdx, outIdx) - 1
  BY <1>1, <1>4, DistanceFacts
<1>6. Counting'
  BY <1>1, <1>5 DEF IInv, Counting, PopIndex, TypeOK
<1> QED BY <1>3, <1>6 DEF IInv

(* Every step of either side keeps the count of keys. *)
LEMMA StepIInv == Guarded /\ IInv /\ [Next]_vars => IInv'
<1> SUFFICES ASSUME Guarded, IInv, [Next]_vars PROVE IInv'
  OBVIOUS
<1>1. ASSUME NEW k \in Keys, Push(k) PROVE IInv'
  BY <1>1, PushIInv
<1>2. CASE TestEmpty
  <2>1. TypeOK' /\ inIdx' = inIdx /\ outIdx' = outIdx /\ inIdx \in Slots /\ outIdx \in Slots
    BY <1>2 DEF TestEmpty, IInv, TypeOK, queue
  <2>2. pc' = "pop" => Distance(inIdx, outIdx) # 0
    BY <1>2, <2>1, DistanceFacts DEF TestEmpty, IsEmpty
  <2> QED BY <1>2, <2>1, <2>2 DEF TestEmpty, IInv, Counting
<1>3. CASE PopIndex
  BY <1>3, PopIndexIInv
<1>4. CASE PopRead
  <2>1. data[outIdx] \in Keys \cup {NoKey}
    BY DEF IInv, TypeOK
  <2> QED BY <1>4, <2>1 DEF PopRead, IInv, TypeOK, Counting, queue
<1>5. CASE Convert
  BY <1>5 DEF Convert, IInv, TypeOK, Counting, queue
<1>6. CASE Echo
  BY <1>6 DEF Echo, IInv, TypeOK, Counting, queue
<1>7. CASE UNCHANGED vars
  BY <1>7 DEF vars, IInv, TypeOK, Counting
<1> QED BY <1>1, <1>2, <1>3, <1>4, <1>5, <1>6, <1>7 DEF Next, Main

(* The counters agree with the indices in every reachable state. *)
THEOREM QueueInvariant == ASSUME Guarded PROVE Spec => []IInv
<1>1. Init => IInv
  BY InitIInv
<1>2. IInv /\ [Next]_vars => IInv'
  BY StepIInv
<1> QED BY <1>1, <1>2, PTL DEF Spec

(* The buffer and its reader keep to their types. *)
THEOREM QueueTypeCorrect == ASSUME Guarded PROVE Spec => []TypeOK
<1>1. IInv => TypeOK
  BY DEF IInv
<1> QED BY <1>1, QueueInvariant, PTL

(* No key disappears from the buffer: the indices never pass each other. *)
THEOREM KeysNeverLost == ASSUME Guarded PROVE Spec => []NothingLost
<1>1. IInv => NothingLost
  BY BacklogIsDistance DEF IInv, Counting, NothingLost
<1> QED BY <1>1, QueueInvariant, PTL

(* Pop's underflow assertion cannot fail, wherever the interrupts fall. *)
THEOREM PopNeverUnderflows == ASSUME Guarded PROVE Spec => []NoUnderflow
<1>1. IInv => NoUnderflow
  BY DistanceFacts DEF IInv, TypeOK, Counting, NoUnderflow
<1> QED BY <1>1, QueueInvariant, PTL

(* In a debug build the slot being read is never the one being written. *)
THEOREM SlotNeverRewritten == ASSUME Debug PROVE Spec => []SlotNotRewritten
<1>1. IInv => SlotNotRewritten
  BY DistanceFacts DEF IInv, TypeOK, Counting, SlotNotRewritten
<1> QED BY <1>1, QueueInvariant, PTL DEF Guarded

-----------------------------------------------------------------------------
(* The buffer implements a FIFO.                                           *)

(* Only keys are pending, and a key is in the reader's hands exactly between
   the first half of Pop and the use of its result. *)
Reading ==
  /\ \A j \in 1 .. Distance(inIdx, outIdx) : data[(outIdx + j) % SIZE] \in Keys
  /\ pc \in {"test", "stuck", "pop", "read"} => key = NoKey
  /\ pc = "read" => data[outIdx] \in Keys
  /\ pc \in {"convert", "echo"} => key \in Keys

RInv == IInv /\ Reading

Hand == IF pc = "read" THEN data[outIdx] ELSE key

(* Under the invariant the pending keys are a sequence of known length. *)
PendingIsSeq(s, n, d, o) ==
  /\ s \in Seq(Keys)
  /\ Len(s) = n
  /\ \A j \in 1 .. n : s[j] = d[(o + j) % SIZE]

(* Pending is the sequence of slots between the indices. *)
LEMMA PendingSeq ==
  ASSUME RInv
  PROVE  PendingIsSeq(Pending, Distance(inIdx, outIdx), data, outIdx)
<1>1. Distance(inIdx, outIdx) \in Nat
  BY DistanceFacts DEF RInv, IInv, TypeOK
<1>2. Pending = [j \in 1 .. Distance(inIdx, outIdx) |-> data[(outIdx + j) % SIZE]]
  BY BacklogIsDistance DEF Pending
<1>3. Pending \in [1 .. Distance(inIdx, outIdx) -> Keys]
  BY <1>2 DEF RInv, Reading
<1> QED BY <1>1, <1>2, <1>3 DEF PendingIsSeq

(* The same in the next state. *)
LEMMA PendingSeqNext ==
  ASSUME RInv'
  PROVE  PendingIsSeq(Pending', Distance(inIdx', outIdx'), data', outIdx')
<1>1. Distance(inIdx', outIdx') \in Nat
  BY DistanceFacts DEF RInv, IInv, TypeOK
<1>2. Pending' = [j \in 1 .. Distance(inIdx', outIdx') |-> data'[(outIdx' + j) % SIZE]]
  BY DEF Pending, Backlog, Distance
<1>3. Pending' \in [1 .. Distance(inIdx', outIdx') -> Keys]
  BY <1>2 DEF RInv, Reading
<1> QED BY <1>1, <1>2, <1>3 DEF PendingIsSeq

(* Nothing is being read at first. *)
LEMMA InitReading == Init => Reading
<1> SUFFICES ASSUME Init PROVE Reading
  OBVIOUS
<1>1. Distance(inIdx, outIdx) = 0
  BY DistanceValue DEF Init, Slots
<1> QED BY <1>1 DEF Init, Reading

(* A push writes the slot behind the pending keys and no other, so the keys
   already there, and the one being read, stay what they are. *)
LEMMA PushKeepsSlots ==
  ASSUME Guarded, RInv, NEW k \in Keys, Push(k)
  PROVE  /\ Distance(inIdx', outIdx') = Distance(inIdx, outIdx) + 1
         /\ \A j \in 1 .. Distance(inIdx, outIdx) :
              data'[(outIdx' + j) % SIZE] = data[(outIdx + j) % SIZE]
         /\ data'[(outIdx' + (Distance(inIdx, outIdx) + 1)) % SIZE] = k
         /\ data'[outIdx'] = data[outIdx]
<1>1. /\ inIdx \in Slots /\ outIdx \in Slots /\ inIdx' = Succ(inIdx) /\ outIdx' = outIdx
      /\ data' = [data EXCEPT ![inIdx] = k] /\ data \in [Slots -> Keys \cup {NoKey}]
  BY DEF RInv, IInv, TypeOK, Push
<1>2. Distance(inIdx, outIdx) # SIZE - 1
  BY <1>1, DistanceFacts DEF RInv, IInv, Counting, Push, Guarded, TypeOK
<1>3. Distance(inIdx, outIdx) \in 0 .. SIZE - 1 /\ inIdx # outIdx
  BY <1>1, <1>2, DistanceFacts
<1>4. Distance(inIdx', outIdx') = Distance(inIdx, outIdx) + 1
  BY <1>1, <1>2, DistanceFacts
<1>5. ASSUME NEW j \in 1 .. Distance(inIdx, outIdx)
      PROVE  data'[(outIdx' + j) % SIZE] = data[(outIdx + j) % SIZE]
  <2>1. j \in 0 .. SIZE
    BY <1>3
  <2>2. (outIdx + j) % SIZE \in Slots /\ (outIdx + j) % SIZE # inIdx
    BY <1>1, <2>1, PendingSlot
  <2> QED BY <1>1, <2>2
<1>6. data'[(outIdx' + (Distance(inIdx, outIdx) + 1)) % SIZE] = k
  <2>1. Distance(inIdx, outIdx) + 1 \in 0 .. SIZE
    BY <1>3
  <2>2. (outIdx + (Distance(inIdx, outIdx) + 1)) % SIZE = inIdx
    BY <1>1, <2>1, PendingSlot
  <2> QED BY <1>1, <2>2
<1>7. data'[outIdx'] = data[outIdx]
  BY <1>1, <1>3
<1> QED BY <1>4, <1>5, <1>6, <1>7

(* Taking the first key leaves the others in their slots. *)
LEMMA PopKeepsSlots ==
  ASSUME RInv, PopIndex
  PROVE  /\ Distance(inIdx, outIdx) \in 1 .. SIZE - 1
         /\ Distance(inIdx', outIdx') = Distance(inIdx, outIdx) - 1
         /\ data'[outIdx'] = data[(outIdx + 1) % SIZE]
         /\ \A j \in 1 .. Distance(inIdx, outIdx) - 1 :
              data'[(outIdx' + j) % SIZE] = data[(outIdx + (j + 1)) % SIZE]
<1>1. /\ inIdx \in Slots /\ outIdx \in Slots /\ outIdx' = Succ(outIdx) /\ inIdx' = inIdx
      /\ data' = data
  BY DEF RInv, IInv, TypeOK, PopIndex
<1>2. Distance(inIdx, outIdx) # 0
  BY DEF RInv, IInv, Counting, PopIndex
<1>3. /\ Distance(inIdx, outIdx) \in 1 .. SIZE - 1
      /\ Distance(inIdx', outIdx') = Distance(inIdx, outIdx) - 1
  BY <1>1, <1>2, DistanceFacts
<1>4. data'[outIdx'] = data[(outIdx + 1) % SIZE]
  BY <1>1 DEF Succ
<1>5. ASSUME NEW j \in 1 .. Distance(inIdx, outIdx) - 1
      PROVE  data'[(outIdx' + j) % SIZE] = data[(outIdx + (j + 1)) % SIZE]
  <2>1. j \in 0 .. SIZE - 1
    BY <1>3
  <2> QED BY <1>1, <2>1, PendingShift
<1> QED BY <1>3, <1>4, <1>5

(* The key Pop is about to return stays in its slot while the interrupt
   pushes others. *)
LEMMA StepReading == Guarded /\ RInv /\ [Next]_vars => Reading'
<1> SUFFICES ASSUME Guarded, RInv, [Next]_vars PROVE Reading'
  OBVIOUS
<1>1. ASSUME NEW k \in Keys, Push(k) PROVE Reading'
  <2>1. Distance(inIdx, outIdx) \in Nat
    BY DistanceFacts DEF RInv, IInv, TypeOK
  <2>2. ASSUME NEW j \in 1 .. Distance(inIdx, outIdx) + 1
        PROVE  data'[(outIdx' + j) % SIZE] \in Keys
    <3>1. CASE j = Distance(inIdx, outIdx) + 1
      BY <1>1, <3>1, PushKeepsSlots
    <3>2. CASE j # Distance(inIdx, outIdx) + 1
      <4>1. j \in 1 .. Distance(inIdx, outIdx)
        BY <3>2, <2>1
      <4> QED BY <1>1, <4>1, PushKeepsSlots DEF RInv, Reading
    <3> QED BY <3>1, <3>2
  <2>3. \A j \in 1 .. Distance(inIdx', outIdx') : data'[(outIdx' + j) % SIZE] \in Keys
    BY <1>1, <2>2, PushKeepsSlots
  <2>4. pc' = pc /\ key' = key /\ data'[outIdx'] = data[outIdx]
    BY <1>1, PushKeepsSlots DEF Push
  <2> QED BY <2>3, <2>4 DEF RInv, Reading
<1>2. CASE PopIndex
  <2>1. ASSUME NEW j \in 1 .. Distance(inIdx', outIdx')
        PROVE  data'[(outIdx' + j) % SIZE] \in Keys
    <3>1. /\ j \in 1 .. Distance(inIdx, outIdx) - 1
          /\ Distance(inIdx, outIdx) \in 1 .. SIZE - 1
          /\ data'[(outIdx' + j) % SIZE] = data[(outIdx + (j + 1)) % SIZE]
      BY <1>2, PopKeepsSlots
    <3>2. j + 1 \in 1 .. Distance(inIdx, outIdx)
      BY <3>1
    <3> QED BY <3>1, <3>2 DEF RInv, Reading
  <2>2. data'[outIdx'] \in Keys
    <3>1. /\ 1 \in 1 .. Distance(inIdx, outIdx)
          /\ data'[outIdx'] = data[(outIdx + 1) % SIZE]
      BY <1>2, PopKeepsSlots
    <3> QED BY <3>1 DEF RInv, Reading
  <2>3. pc' = "read" /\ key' = NoKey
    BY <1>2 DEF PopIndex, RInv, Reading
  <2> QED BY <2>1, <2>2, <2>3 DEF Reading
<1>3. CASE TestEmpty
  BY <1>3 DEF TestEmpty, RInv, Reading, queue
<1>4. CASE PopRead
  BY <1>4 DEF PopRead, RInv, Reading, queue
<1>5. CASE Convert
  BY <1>5 DEF Convert, RInv, Reading, queue
<1>6. CASE Echo
  BY <1>6 DEF Echo, RInv, Reading, queue
<1>7. CASE UNCHANGED vars
  BY <1>7 DEF vars, RInv, Reading
<1> QED BY <1>1, <1>2, <1>3, <1>4, <1>5, <1>6, <1>7 DEF Next, Main

(* A push appends to the pending keys. *)
LEMMA PushPuts ==
  ASSUME Guarded, RInv, RInv', NEW k \in Keys, Push(k)
  PROVE  Pending' = Append(Pending, k) /\ Hand' = Hand
<1> DEFINE n == Distance(inIdx, outIdx)
<1>1. /\ Pending \in Seq(Keys) /\ Len(Pending) = n /\ n \in Nat
      /\ \A j \in 1 .. n : Pending[j] = data[(outIdx + j) % SIZE]
  BY PendingSeq, LenProperties DEF PendingIsSeq
<1>2. /\ Pending' \in Seq(Keys) /\ Len(Pending') = n + 1
      /\ \A j \in 1 .. n + 1 : Pending'[j] = data'[(outIdx' + j) % SIZE]
  <2>1. Distance(inIdx', outIdx') = n + 1
    BY PushKeepsSlots
  <2> QED BY <2>1, PendingSeqNext DEF PendingIsSeq
<1>3. /\ \A j \in 1 .. n : data'[(outIdx' + j) % SIZE] = data[(outIdx + j) % SIZE]
      /\ data'[(outIdx' + (n + 1)) % SIZE] = k
      /\ data'[outIdx'] = data[outIdx]
  BY PushKeepsSlots
<1>4. pc' = pc /\ key' = key
  BY DEF Push
<1> HIDE DEF n
<1>5. /\ Append(Pending, k) \in Seq(Keys) /\ Len(Append(Pending, k)) = n + 1
      /\ \A j \in 1 .. n : Append(Pending, k)[j] = Pending[j]
      /\ Append(Pending, k)[n + 1] = k
  BY <1>1, AppendProperties
<1>6. \A j \in 1 .. n + 1 : Pending'[j] = Append(Pending, k)[j]
  <2> TAKE j \in 1 .. n + 1
  <2>1. CASE j = n + 1
    BY <2>1, <1>2, <1>3, <1>5
  <2>2. CASE j # n + 1
    <3>1. j \in 1 .. n
      BY <2>2, <1>1
    <3> QED BY <3>1, <1>1, <1>2, <1>3, <1>5
  <2> QED BY <2>1, <2>2
<1>7. Pending' = Append(Pending, k)
  BY <1>2, <1>5, <1>6, SeqEqual
<1> QED BY <1>3, <1>4, <1>7 DEF Hand

(* The first half of Pop takes the head of the pending keys. *)
LEMMA PopTakes ==
  ASSUME RInv, RInv', PopIndex
  PROVE  /\ Hand = NoKey /\ Pending # <<>>
         /\ Hand' = Head(Pending) /\ Pending' = Tail(Pending)
<1> DEFINE n == Distance(inIdx, outIdx)
<1>1. /\ Pending \in Seq(Keys) /\ Len(Pending) = n
      /\ \A j \in 1 .. n : Pending[j] = data[(outIdx + j) % SIZE]
  BY PendingSeq DEF PendingIsSeq
<1>2. /\ n \in 1 .. SIZE - 1
      /\ data'[outIdx'] = data[(outIdx + 1) % SIZE]
      /\ \A j \in 1 .. n - 1 :
           data'[(outIdx' + j) % SIZE] = data[(outIdx + (j + 1)) % SIZE]
  BY PopKeepsSlots
<1>3. /\ Pending' \in Seq(Keys) /\ Len(Pending') = n - 1
      /\ \A j \in 1 .. n - 1 : Pending'[j] = data'[(outIdx' + j) % SIZE]
  <2>1. Distance(inIdx', outIdx') = n - 1
    BY PopKeepsSlots
  <2> QED BY <2>1, PendingSeqNext DEF PendingIsSeq
<1>4. Hand = NoKey /\ Hand' = data'[outIdx']
  BY DEF PopIndex, RInv, Reading, Hand
<1> HIDE DEF n
<1>5. Pending # <<>> /\ Head(Pending) = Pending[1]
  BY <1>1, <1>2
<1>6. /\ Tail(Pending) \in Seq(Keys) /\ Len(Tail(Pending)) = n - 1
      /\ \A j \in 1 .. n - 1 : Tail(Pending)[j] = Pending[j + 1]
  BY <1>1, <1>5, HeadTailProperties
<1>7. \A j \in 1 .. n - 1 : Pending'[j] = Tail(Pending)[j]
  <2> TAKE j \in 1 .. n - 1
  <2>1. j + 1 \in 1 .. n
    BY <1>2
  <2>2. Pending'[j] = data'[(outIdx' + j) % SIZE]
    BY <1>3
  <2>3. data'[(outIdx' + j) % SIZE] = data[(outIdx + (j + 1)) % SIZE]
    BY <1>2
  <2>4. Pending[j + 1] = data[(outIdx + (j + 1)) % SIZE]
    BY <2>1, <1>1
  <2>5. Tail(Pending)[j] = Pending[j + 1]
    BY <1>6
  <2> QED BY <2>2, <2>3, <2>4, <2>5
<1>8. Pending' = Tail(Pending)
  BY <1>3, <1>6, <1>7, SeqEqual
<1> QED BY <1>1, <1>2, <1>4, <1>5, <1>8

(* Push appends, the first half of Pop takes the head, all else stutters. *)
LEMMA StepRefines == Guarded /\ RInv /\ RInv' /\ [Next]_vars => [F!FNext]_<<Pending, Hand>>
<1> SUFFICES ASSUME Guarded, RInv, RInv', [Next]_vars
             PROVE  [F!FNext]_<<Pending, Hand>>
  OBVIOUS
<1> USE DEF Hand
<1>1. ASSUME NEW k \in Keys, Push(k) PROVE F!FNext
  BY <1>1, PushPuts DEF F!FNext, F!Put
<1>2. CASE PopIndex
  BY <1>2, PopTakes DEF F!FNext, F!Take
<1>3. CASE TestEmpty
  BY <1>3 DEF TestEmpty, queue, Pending, Backlog, RInv, Reading
<1>4. CASE PopRead
  BY <1>4 DEF PopRead, queue, Pending, Backlog
<1>5. CASE Convert
  BY <1>5 DEF Convert, queue, Pending, Backlog, RInv, Reading, F!FNext, F!Use
<1>6. CASE Echo
  BY <1>6 DEF Echo, queue, Pending, Backlog, RInv, Reading, F!FNext, F!Use
<1>7. CASE UNCHANGED vars
  BY <1>7 DEF vars, Pending, Backlog
<1> QED BY <1>1, <1>2, <1>3, <1>4, <1>5, <1>6, <1>7 DEF Next, Main

(* Keys reach the reader in the order typed, each exactly once, for every
   capacity: the circular buffer with its interrupted Pop implements the
   abstract FIFO. *)
THEOREM QueueImplementsFifo == ASSUME Guarded PROVE Spec => FifoSpec
<1>1. Init => F!FInit
  <2> SUFFICES ASSUME Init PROVE F!FInit
    OBVIOUS
  <2>1. Backlog = 0
    BY BacklogIsDistance, DistanceValue DEF Init, Slots
  <2>2. Pending = <<>>
    BY <2>1 DEF Pending
  <2> QED BY <2>2 DEF Init, F!FInit
<1>2. Init => RInv
  BY InitIInv, InitReading DEF RInv
<1>3. RInv /\ [Next]_vars => RInv'
  BY StepIInv, StepReading DEF RInv
<1>4. RInv /\ RInv' /\ [Next]_vars => [F!FNext]_(F!fifoVars)
  BY StepRefines DEF F!fifoVars, Hand
<1> QED BY <1>1, <1>2, <1>3, <1>4, PTL DEF Spec, FifoSpec, F!FSpec

=============================================================================
