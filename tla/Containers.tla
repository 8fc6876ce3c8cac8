----------------------------- MODULE Containers -----------------------------
(***************************************************************************)
(* The containers of include/std that work on memory of a fixed size:      *)
(* Array, BitArray, Pool (on a Stack of free places) and ActBuffer, which  *)
(* collects items and hands them on in batches.  Each is driven through    *)
(* the calls its assertions allow, next to what it stands for: a sequence, *)
(* a set of numbers, the places in use, and the items that went in.  Left  *)
(* out: numbers of a BitArray for which the shift of an int is undefined.  *)
(***************************************************************************)
EXTENDS Integers, Sequences, SequencesExt, FiniteSetsExt

CONSTANTS Items, SIZE,         \* of Array and ActBuffer
          QTY,                 \* places of the pool
          BITS_PER_ITEM, Bits, \* of BitArray: bits of a size_t, the constructor's argument
          INT_BITS,            \* bits of an int, at most BITS_PER_ITEM
          MaxCalls             \* of Process

VARIABLES data, count, list,   \* Array: _data, _count; what it stands for
          words, set,          \* BitArray: mData; what it stands for
          stack, top, used,    \* Pool: _free._data, _free._top; places in use
          buffer, filled,      \* ActBuffer: _data, _count
          processed, handed    \* the items given to Process, to the callback

array == <<data, count, list>>
bits == <<words, set>>
pool == <<stack, top, used>>
batches == <<buffer, filled, processed, handed>>
vars == <<array, bits, pool, batches>>

-----------------------------------------------------------------------------
(* Array                                                                   *)
Put(d, i, x) == [d EXCEPT ![i + 1] = x]

ArrayAppend(x) ==
  /\ count < SIZE
  /\ data' = Put(data, count, x) /\ count' = count + 1
  /\ list' = Append(list, x)

(* Mutant: items move up beginning with the first. *)
MoveUpForward(it) ==
  [i \in 1 .. SIZE |-> IF i \in it + 2 .. count + 1 THEN data[it + 1] ELSE data[i]]

(* The items from a position on move up by one, the last one first. *)
MoveUp(it) == [i \in 1 .. SIZE |-> IF i \in it + 2 .. count + 1 THEN data[i - 1] ELSE data[i]]

ArrayInsert(it, x) ==
  /\ count < SIZE /\ it <= count
  /\ data' = Put(MoveUp(it), it, x) /\ count' = count + 1
  /\ list' = InsertAt(list, it + 1, x)

ArrayRemoveAt(it) ==
  /\ it < count
  /\ data' = [i \in 1 .. SIZE |-> IF i \in it + 1 .. count - 1 THEN data[i + 1] ELSE data[i]]
  /\ count' = count - 1
  /\ list' = RemoveAt(list, it + 1)

ArrayClear == count' = 0 /\ list' = <<>> /\ UNCHANGED data

ArrayFindFirst(x) ==
  LET found == {i \in 0 .. count - 1 : data[i + 1] = x}
  IN  IF found = {} THEN count ELSE Min(found)

ArrayOp == \/ \E x \in Items : ArrayAppend(x) \/ \E it \in 0 .. SIZE : ArrayInsert(it, x)
           \/ \E it \in 0 .. SIZE : ArrayRemoveAt(it)
           \/ ArrayClear

ArrayRight ==
  /\ list = SubSeq(data, 1, count)
  /\ \A x \in Items :
       LET found == {i \in DOMAIN list : list[i] = x}
       IN  ArrayFindFirst(x) = IF found = {} THEN Len(list) ELSE Min(found) - 1

-----------------------------------------------------------------------------
(* BitArray.  It has the words that Bits fill: bits in a last word that they
   do not fill would lie outside.  A word is the set of its 1 bits. *)
Words == Bits \div BITS_PER_ITEM
Word(i) == (i \div BITS_PER_ITEM) + 1
Full == 0 .. BITS_PER_ITEM - 1

(* 0x1 << offset.  The 1 is an int: shifted into the sign it becomes, widened
   to a size_t, all the bits from there on. *)
Mask(offset) == IF offset = INT_BITS - 1 THEN offset .. BITS_PER_ITEM - 1 ELSE {offset}

(* Shifting an int by its width or more is undefined: where a size_t is wider,
   only the numbers whose bits lie in the lower part of a word can be used. *)
Shifts == 0 .. INT_BITS - 1
Usable == {i \in 0 .. Words * BITS_PER_ITEM - 1 : i % BITS_PER_ITEM \in Shifts}

MaskOf(i) == Mask(i % BITS_PER_ITEM)

BitSet(i) ==
  /\ words' = [words EXCEPT ![Word(i)] = @ \cup MaskOf(i)]
  /\ set' = set \cup {i}

BitClear(i) ==
  /\ words' = [words EXCEPT ![Word(i)] = @ \ MaskOf(i)]
  /\ set' = set \ {i}

BitClearAll == words' = [i \in 1 .. Words |-> {}] /\ set' = {}

BitTest(i) == words[Word(i)] \cap MaskOf(i) # {}

(* The first word that is not passed over, and in it the first such bit.  The
   code looks at all bits of a word, but finds one before the shift is
   undefined (BitsRight). *)
FirstBit(pass, value) ==
  LET ws == {w \in 1 .. Words : words[w] # pass}
      w == Min(ws)
  IN  IF ws = {} THEN -1
      ELSE (w - 1) * BITS_PER_ITEM + Min({j \in Shifts : (words[w] \cap Mask(j) # {}) = value})

FindFirstClear == FirstBit(Full, FALSE)
FindFirstSet == FirstBit({}, TRUE)

BitOp == BitClearAll \/ \E i \in Usable : BitSet(i) \/ BitClear(i)

BitsRight ==
  LET First(S) == IF S = {} THEN -1 ELSE Min(S)
  IN  /\ set = {i \in Usable : BitTest(i)}
      /\ FindFirstSet = First(set) /\ FindFirstClear = First(Usable \ set)

-----------------------------------------------------------------------------
(* Stack and Pool.  The pool's constructor pushes all its places.  The stack
   checks neither end, and the pool only asserts; that what is given back
   always finds room is for PoolRight to show.                             *)
StackPush(x) == stack' = [stack EXCEPT ![top + 1] = x] /\ top' = top + 1

StackPop == top' = top - 1 /\ used' = used \cup {stack[top]}

PoolAllocate == top > 0 /\ StackPop /\ UNCHANGED stack

(* Only what is in use is given back. *)
PoolRelease(x) == x \in used /\ StackPush(x) /\ used' = used \ {x}

PoolOp == PoolAllocate \/ \E x \in 1 .. QTY : PoolRelease(x)

PoolRight ==
  /\ top \in 0 .. QTY /\ top + Cardinality(used) = QTY
  /\ {stack[i] : i \in 1 .. top} = (1 .. QTY) \ used

-----------------------------------------------------------------------------
(* ActBuffer.  A full buffer is handed on, in the order of the items.      *)
InnerFlush(b, n) == handed' = handed \o SubSeq(b, 1, n) /\ filled' = 0

Process(x) ==
  /\ Len(processed) < MaxCalls
  /\ processed' = Append(processed, x)
  /\ buffer' = Put(buffer, filled, x)
  /\ IF filled + 1 >= SIZE THEN InnerFlush(buffer', filled + 1)
                           ELSE filled' = filled + 1 /\ UNCHANGED handed

Flush == InnerFlush(buffer, filled) /\ UNCHANGED <<buffer, processed>>

BufferOp == Flush \/ \E x \in Items : Process(x)

BatchesRight == processed = handed \o SubSeq(buffer, 1, filled)

-----------------------------------------------------------------------------
Init ==
  /\ \E x \in Items : data = [i \in 1 .. SIZE |-> x] /\ buffer = data
  /\ count = 0 /\ list = <<>>
  /\ words = [i \in 1 .. Words |-> {}] /\ set = {}
  /\ stack = [i \in 1 .. QTY |-> i] /\ top = QTY /\ used = {}
  /\ filled = 0 /\ processed = <<>> /\ handed = <<>>

(* The containers are independent: while one is in use the others rest. *)
Next ==
  \/ set = {} /\ used = {} /\ processed = <<>>
       /\ ArrayOp /\ UNCHANGED <<bits, pool, batches>>
  \/ count = 0 /\ used = {} /\ processed = <<>> /\ BitOp /\ UNCHANGED <<array, pool, batches>>
  \/ count = 0 /\ set = {} /\ processed = <<>> /\ PoolOp /\ UNCHANGED <<array, bits, batches>>
  \/ count = 0 /\ set = {} /\ used = {} /\ BufferOp /\ UNCHANGED <<array, bits, pool>>

Spec == Init /\ [][Next]_vars

(* Every container is what it stands for.  An array holds the items in their
   order, wherever they were inserted or removed; a bit array the numbers that
   were set, of those that can be used, and finds the first one in and the first
   one missing, also where the last one of a word stands for more than its bit;
   a pool never hands out a place that is in use, never loses one and never
   pushes onto a full stack; of what is given to a
   buffer, every item is handed on once and in order, or still waits. *)
ContainersRight == ArrayRight /\ BitsRight /\ PoolRight /\ BatchesRight

=============================================================================
