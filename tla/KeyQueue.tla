------------------------------ MODULE KeyQueue ------------------------------
(***************************************************************************)
(* The keyboard buffer mBuffer, a Queue<KeyCode, SIZE>                     *)
(* (include/std/Queue.h), between its two users on the boot processor:     *)
(* KeyboardIrqHandler pushes, the main loop pops in keyboardGetChar.       *)
(* Interrupts are off inside the handler (cli in the stub, sti on the way  *)
(* out), so a push is one step; the main loop may be interrupted anywhere, *)
(* in particular between the two statements of Pop.                        *)
(***************************************************************************)
EXTENDS Integers, Sequences

CONSTANTS SIZE,        \* 128 in keyboard.cpp
          Keys,        \* key codes that are pushed
          Printable,   \* those KeyCodeToASCII has a character for
          NoKey,       \* no key code
          Debug,       \* -D DEBUG, no optimisation; otherwise -O4, no asserts
          MaxBacklog,  \* how far the typist may run ahead of the main loop
          MaxPresses   \* bound on the keys typed in one behaviour

ASSUME KeyQueueAssumption ==
  /\ SIZE \in Nat /\ SIZE >= 2
  /\ Printable \subseteq Keys
  /\ NoKey \notin Keys
  /\ Debug \in BOOLEAN
  /\ MaxBacklog \in Nat
  /\ MaxPresses \in Nat

VARIABLES data, inIdx, outIdx,  \* the Queue
          pc,                   \* where keyboardGetChar is
          key,                  \* the code Pop returned
          halted,               \* a failed assert has stopped the CPU
          pressed, taken        \* history: keys pushed, keys popped

queue == <<data, inIdx, outIdx>>
vars  == <<data, inIdx, outIdx, pc, key, halted, pressed, taken>>

Slots == 0 .. SIZE - 1

Succ(i) == (i + 1) % SIZE

(* Mutant: the textbook test, for a buffer whose indices start out equal. *)
IsEmptyTextbook == outIdx = inIdx

IsEmpty == Succ(outIdx) = inIdx

(* The keys between the two indices. *)
Backlog == (inIdx - outIdx - 1) % SIZE

Init ==
  /\ data \in [Slots -> {NoKey}]
  /\ inIdx = 0
  /\ outIdx = SIZE - 1
  /\ pc = "test"
  /\ key = NoKey
  /\ halted = FALSE
  /\ pressed = 0 /\ taken = 0

-----------------------------------------------------------------------------
(* Mutants of Push: no overflow assertion; the assertion before the index
   moves; the index moves before the write. *)
PushUnchecked(k) ==
  /\ ~halted
  /\ pressed < MaxPresses /\ pressed - taken < MaxBacklog
  /\ data' = [data EXCEPT ![inIdx] = k]
  /\ inIdx' = Succ(inIdx)
  /\ pressed' = pressed + 1
  /\ UNCHANGED <<outIdx, pc, key, halted, taken>>

PushAssertFirst(k) ==
  /\ ~halted
  /\ pressed < MaxPresses /\ pressed - taken < MaxBacklog
  /\ data' = [data EXCEPT ![inIdx] = k]
  /\ inIdx' = Succ(inIdx)
  /\ halted' = (Debug /\ inIdx = outIdx)
  /\ pressed' = pressed + 1
  /\ UNCHANGED <<outIdx, pc, key, taken>>

PushIndexFirst(k) ==
  /\ ~halted
  /\ pressed < MaxPresses /\ pressed - taken < MaxBacklog
  /\ inIdx' = Succ(inIdx)
  /\ data' = [data EXCEPT ![inIdx'] = k]
  /\ halted' = (Debug /\ inIdx' = outIdx)
  /\ pressed' = pressed + 1
  /\ UNCHANGED <<outIdx, pc, key, taken>>

(* KeyboardIrqHandler, the default branch of a key press: mBuffer.Push(key).
   The overflow assertion comes after the index has moved. *)
Push(k) ==
  /\ ~halted
  /\ pressed < MaxPresses /\ pressed - taken < MaxBacklog
  /\ data' = [data EXCEPT ![inIdx] = k]
  /\ inIdx' = Succ(inIdx)
  /\ halted' = (Debug /\ inIdx' = outIdx)
  /\ pressed' = pressed + 1
  /\ UNCHANGED <<outIdx, pc, key, taken>>

(* Mutant: the debug build, too, may read the indices once only. *)
TestEmptyHoisted ==
  /\ ~halted /\ pc = "test"
  /\ \/ IsEmpty /\ pc' = "test"
     \/ IsEmpty /\ pc' = "stuck"
     \/ ~IsEmpty /\ pc' = "pop"
  /\ UNCHANGED <<queue, key, halted, pressed, taken>>

(* while (mBuffer.IsEmpty()).  The indices are plain globals: an optimised
   build may read them once and, having seen the buffer empty, spin on. *)
TestEmpty ==
  /\ ~halted /\ pc = "test"
  /\ \/ IsEmpty /\ pc' = "test"
     \/ IsEmpty /\ ~Debug /\ pc' = "stuck"
     \/ ~IsEmpty /\ pc' = "pop"
  /\ UNCHANGED <<queue, key, halted, pressed, taken>>

(* Pop, first half: the index moves on and must not meet the writer's. *)
PopIndex ==
  /\ ~halted /\ pc = "pop"
  /\ outIdx' = Succ(outIdx)
  /\ halted' = (Debug /\ outIdx' = inIdx)
  /\ pc' = "read"
  /\ taken' = taken + 1
  /\ UNCHANGED <<data, inIdx, key, pressed>>

(* Mutant: the key is read before the index moves, as in a buffer whose
   indices start out equal. *)
PopReadBehind ==
  /\ ~halted /\ pc = "read"
  /\ key' = data[(outIdx - 1) % SIZE]
  /\ pc' = "convert"
  /\ UNCHANGED <<queue, halted, pressed, taken>>

(* Pop, second half: return _data[_outIdx]. *)
PopRead ==
  /\ ~halted /\ pc = "read"
  /\ key' = data[outIdx]
  /\ pc' = "convert"
  /\ UNCHANGED <<queue, halted, pressed, taken>>

(* KeyCodeToASCII gives 0 for a key without a character: back to the wait.
   Otherwise keyboardGetChar returns it, the main loop prints it and calls
   again. *)
Convert ==
  /\ ~halted /\ pc = "convert"
  /\ pc' = IF key \in Printable THEN "echo" ELSE "test"
  /\ key' = IF key \in Printable THEN key ELSE NoKey
  /\ UNCHANGED <<queue, halted, pressed, taken>>

Echo ==
  /\ ~halted /\ pc = "echo"
  /\ key' = NoKey
  /\ pc' = "test"
  /\ UNCHANGED <<queue, halted, pressed, taken>>

Main == TestEmpty \/ PopIndex \/ PopRead \/ Convert \/ Echo

Next == Main \/ \E k \in Keys : Push(k)

Spec == Init /\ [][Next]_vars

(* The boot processor runs the main loop for ever: an interrupt handler ends
   and returns to it. *)
FairSpec == Spec /\ WF_vars(Main)

-----------------------------------------------------------------------------
(* Type invariant of the buffer and its reader. *)
TypeOK ==
  /\ data \in [Slots -> Keys \cup {NoKey}]
  /\ inIdx \in Slots /\ outIdx \in Slots
  /\ pc \in {"test", "stuck", "pop", "read", "convert", "echo"}
  /\ key \in Keys \cup {NoKey}
  /\ halted \in BOOLEAN
  /\ pressed \in Nat /\ taken \in Nat

(* The indices account for every key: what lies between them is what was
   pushed and not popped.  A wrapped overflow would make keys vanish. *)
NothingLost == pressed - taken = Backlog

(* The underflow assertion of Pop (Queue.h:98) never fails: the interrupt
   between the test and the pop can only add keys. *)
NoUnderflow == ~halted /\ pc = "pop" => Succ(outIdx) # inIdx

(* The slot the reader is about to read is never the one the next interrupt
   writes, unless the machine has stopped on the overflow. *)
SlotNotRewritten == ~halted /\ pc = "read" => inIdx # outIdx

(* Keys reach the reader in the order typed, each exactly once: the buffer
   implements a FIFO, the key in flight being the one Pop is returning. *)
Pending == [i \in 1 .. Backlog |-> data[(outIdx + i) % SIZE]]

F == INSTANCE Fifo WITH q <- Pending,
                        hand <- IF pc = "read" THEN data[outIdx] ELSE key
FifoSpec == F!FSpec

(* Every key typed is popped in the end, unless an assertion stopped the
   machine: the main loop never overlooks one. *)
EveryKeyTaken ==
  \A n \in 1 .. MaxPresses : (pressed >= n) ~> (taken >= n \/ halted)

=============================================================================
