---------------------------- MODULE StartupProofs ----------------------------
(***************************************************************************)
(* Theorems about putting the machine into operation.  The bring-up of the *)
(* application processors, for any number of them, dead or alive, under    *)
(* the one assumption the hand-over needs: a processor that answers does   *)
(* so before StartCpu gives up (Prompt); the run that drops the assumption *)
(* breaks an assertion.  And interrupt delivery: every service ends and no *)
(* device stops the boot processor, whichever interrupt lines are wired.   *)
(* And the device manager: whatever drives main registers, every listener  *)
(* is told of every device, those registered from within a call included.  *)
(* And the parsers of what firmware and boot loader left: whatever the     *)
(* tables list, processors and memory map come out as they went in.  And   *)
(* the initial RAM disk: whatever files are packed, and however the drives *)
(* are stacked, the files found are those.                                 *)
(***************************************************************************)
EXTENDS CpuWaker, FiniteSetTheorems, SequenceTheorems, WellFoundedInduction, TLAPS

CONSTANTS Lines,                                                   \* Interrupts
          Drives, Listeners, MaxDevices,                           \* Devices
          Entries, MaxEntries, Paragraphs, MaxParagraphs,          \* BootTables
          Regions, MaxRegions, Infos, Wide,
          Packs, BlockSize, Blocks, StartBlock, LogicalBlocks,     \* Initrd
          MaxQty, Byte
VARIABLES gates, handlers, pic, lvt, intsOn, serving, halted, at,  \* Interrupts
          devices, listeners, stack, told, gone,                   \* Devices
          bios, listed, table, info, reading, entryAt, left,       \* BootTables
          processors, bspLapicId, mapAt, mmap,
          ram, packed, base, fs, last                              \* Initrd

(* Three modules have a pc: where the boot processor is in InitBsp is called
   at, what the parsers do reading; their cursors get names of their own. *)
Irq == INSTANCE Interrupts WITH pc <- at
Dev == INSTANCE Devices
Tab == INSTANCE BootTables WITH pc <- reading, p <- entryAt, count <- left,
                                cpus <- processors, m <- mapAt
Ird == INSTANCE Initrd

USE CpuWakerAssumption

-----------------------------------------------------------------------------
(* The application processors                                              *)

(* One AP at most is under way, and the BSP waits for it with the block
   filled in for it. *)
OneUnderWay ==
  /\ \A c \in APs : ap[c] \in InFlight => pc = "wait" /\ c = cpu
  /\ pc = "stack" => config.id = cpu
  /\ pc \in {"ipi", "wait"} => config = [id |-> cpu, stack |-> cpu]

(* Processors further down the list have not been touched. *)
NotYet ==
  \A c \in APs :
    c > cpu \/ (c = cpu /\ pc \in {"loop", "lock", "id", "stack", "ipi"})
      => ap[c] = "off"

(* Who owns the lock: from StartCpu's Lock to the answer, nobody can take it. *)
LockHeld ==
  /\ pc \in {"id", "stack", "ipi"} => lock = "LOCKED"
  /\ pc \in {"loop", "lock", "return"} => lock = "UNLOCKED"
  /\ pc = "wait" => (lock = "UNLOCKED" <=> ap[cpu] \in Answered)
  /\ pc \in {"unlock", "return"} => (locked <=> ap[cpu] \in Answered)

OwnStack == \A c \in APs : esp[c] \in {NoStack, c} /\ ap[c] # "asserted"

IInv == TypeOK /\ OneUnderWay /\ NotYet /\ LockHeld /\ OwnStack

(* The constructor's state satisfies the invariant. *)
LEMMA InitIInv == Init => IInv
<1> SUFFICES ASSUME Init PROVE IInv
  OBVIOUS
<1>1. TypeOK
  <2>1. /\ ap \in [APs -> {"off", "asserted"} \cup InFlight \cup Answered]
        /\ esp \in [APs -> 0 .. N]
    BY DEF Init, NoStack
  <2>2. state \in [APs -> {"CPU_DISABLED", "CPU_STOPPED", "CPU_BOOTING", "CPU_INIT", "CPU_READY"}]
    BY DEF Init
  <2>3. config \in [id : 0 .. N, stack : 0 .. N]
    BY DEF Init, NoStack
  <2>4. lock \in {"UNLOCKED", "LOCKED"} /\ pc = "loop"
    BY DEF Init
  <2>5. cpu \in 1 .. N + 1
    BY DEF Init
  <2>6. locked \in BOOLEAN
    BY Zenon DEF Init
  <2>7. present \subseteq APs
    BY Zenon DEF Init
  <2> QED BY <2>1, <2>2, <2>3, <2>4, <2>5, <2>6, <2>7 DEF TypeOK
<1>2. OneUnderWay
  BY DEF Init, OneUnderWay, InFlight
<1>3. NotYet /\ LockHeld /\ OwnStack
  BY DEF Init, NotYet, LockHeld, OwnStack, NoStack
<1> QED BY <1>1, <1>2, <1>3 DEF IInv

(* Each step of the BSP preserves it. *)
LEMMA BspIInv == ASSUME Prompt, IInv, Bsp PROVE IInv'
<1> USE DEF IInv, TypeOK, APs, Answered, InFlight
<1>1. CASE Skip
  BY <1>1 DEF Skip, OneUnderWay, NotYet, LockHeld, OwnStack
<1>2. CASE Boot
  BY <1>2 DEF Boot, OneUnderWay, NotYet, LockHeld, OwnStack
<1>3. CASE StartLock
  BY <1>3 DEF StartLock, Acquire, OneUnderWay, NotYet, LockHeld, OwnStack
<1>4. CASE WriteId
  BY <1>4 DEF WriteId, OneUnderWay, NotYet, LockHeld, OwnStack
<1>5. CASE WriteStack
  <2>1. config' = [id |-> cpu, stack |-> cpu]
    BY <1>5 DEF WriteStack, OneUnderWay
  <2>2. TypeOK'
    <3>1. cpu \in 0 .. N
      BY <1>5 DEF WriteStack
    <3>2. config' \in [id : 0 .. N, stack : 0 .. N]
      BY <2>1, <3>1
    <3> QED BY <1>5, <3>2 DEF WriteStack
  <2>3. OneUnderWay' /\ NotYet' /\ LockHeld' /\ OwnStack'
    BY <1>5, <2>1 DEF WriteStack, OneUnderWay, NotYet, LockHeld, OwnStack
  <2> QED BY <2>2, <2>3
<1>6. CASE SendIpi
  <2>1. ap[cpu] = "off" /\ cpu \in 1 .. N
    BY <1>6 DEF SendIpi, NotYet
  <2>2. /\ ap'[cpu] \in {"off", "booting"}
        /\ \A c \in 1 .. N : c # cpu => ap'[c] = ap[c]
        /\ ap' \in [APs -> {"off", "asserted"} \cup InFlight \cup Answered]
    BY <1>6, <2>1 DEF SendIpi
  <2>3. TypeOK'
    BY <1>6, <2>2 DEF SendIpi
  <2>4. OneUnderWay' /\ NotYet' /\ LockHeld' /\ OwnStack'
    BY <1>6, <2>1, <2>2 DEF SendIpi, OneUnderWay, NotYet, LockHeld, OwnStack
  <2> QED BY <2>3, <2>4
<1>7. CASE WaitAcquire
  BY <1>7 DEF WaitAcquire, Acquire, OneUnderWay, NotYet, LockHeld, OwnStack
<1>8. CASE WaitTimeout
  BY <1>8 DEF WaitTimeout, OneUnderWay, NotYet, LockHeld, OwnStack
<1>9. CASE StartUnlock
  BY <1>9 DEF StartUnlock, Unlock, OneUnderWay, NotYet, LockHeld, OwnStack
<1>10. CASE Return
  BY <1>10 DEF Return, OneUnderWay, NotYet, LockHeld, OwnStack
<1> QED BY <1>1, <1>2, <1>3, <1>4, <1>5, <1>6, <1>7, <1>8, <1>9, <1>10 DEF Bsp

(* So does each step of an AP. *)
LEMMA ApIInv == ASSUME IInv, NEW c \in APs, Ap(c) PROVE IInv'
<1> USE DEF IInv, TypeOK, APs, Answered, InFlight
<1>1. CASE LoadStack(c)
  <2>1. pc = "wait" /\ c = cpu /\ config.stack = c
    BY <1>1 DEF LoadStack, OneUnderWay
  <2> QED BY <1>1, <2>1 DEF LoadStack, OneUnderWay, NotYet, LockHeld, OwnStack
<1>2. CASE CheckId(c)
  <2>1. pc = "wait" /\ c = cpu /\ config.id = c
    BY <1>2 DEF CheckId, OneUnderWay
  <2> QED BY <1>2, <2>1 DEF CheckId, OneUnderWay, NotYet, LockHeld, OwnStack
<1>3. CASE WakedUnlock(c)
  <2>1. pc = "wait" /\ c = cpu
    BY <1>3 DEF WakedUnlock, OneUnderWay
  <2> QED BY <1>3, <2>1 DEF WakedUnlock, Unlock, OneUnderWay, NotYet, LockHeld, OwnStack
<1>4. CASE InitAp(c)
  BY <1>4 DEF InitAp, OneUnderWay, NotYet, LockHeld, OwnStack
<1>5. CASE InitApReady(c)
  BY <1>5 DEF InitApReady, OneUnderWay, NotYet, LockHeld, OwnStack
<1> QED BY <1>1, <1>2, <1>3, <1>4, <1>5 DEF Ap

(* The hand-over invariant holds throughout. *)
THEOREM HandOverInvariant == ASSUME Prompt PROVE Spec => []IInv
<1>1. Init => IInv
  BY InitIInv
<1>2. IInv /\ [Next]_vars => IInv'
  <2> SUFFICES ASSUME IInv, [Next]_vars PROVE IInv'
    OBVIOUS
  <2>1. CASE UNCHANGED vars
    BY <2>1 DEF vars, IInv, TypeOK, OneUnderWay, NotYet, LockHeld, OwnStack
  <2> QED BY <2>1, BspIInv, ApIInv DEF Next
<1> QED BY <1>1, <1>2, PTL DEF Spec

(* No two processors ever run on the same stack, however many are started. *)
THEOREM StacksNeverShared == ASSUME Prompt PROVE Spec => []NoSharedStack
<1>1. IInv => NoSharedStack
  BY DEF IInv, OwnStack, NoSharedStack, NoStack, APs
<1> QED BY <1>1, HandOverInvariant, PTL

(* The CpuConfig block always describes the processor that is under way. *)
THEOREM ConfigAlwaysForAp == ASSUME Prompt PROVE Spec => []ConfigIsForAp
<1>1. IInv => ConfigIsForAp
  BY DEF IInv, OneUnderWay, ConfigIsForAp
<1> QED BY <1>1, HandOverInvariant, PTL

(* StartCpu's result is the truth about the processor it started. *)
THEOREM ReturnAlwaysTruth == ASSUME Prompt PROVE Spec => []ReturnIsTruth
<1>1. IInv => ReturnIsTruth
  BY DEF IInv, LockHeld, ReturnIsTruth
<1> QED BY <1>1, HandOverInvariant, PTL

(* And the assertion that a late answer breaks holds of every timely one. *)
THEOREM TimelyAnswersPassAssert == ASSUME Prompt PROVE Spec => []IdAsserted
<1>1. IInv => IdAsserted
  BY DEF IInv, OwnStack, IdAsserted
<1> QED BY <1>1, HandOverInvariant, PTL

-----------------------------------------------------------------------------
(* Interrupts                                                              *)

(* The lines that can be wired to a device: at the third input of the master
   stands the slave. *)
Wired == Lines \in SUBSET (Irq!IRQs \ {Irq!PIC_IRQ_CASCADE})

(* How far InitBsp has come: before interrupts are on for the first time, and
   then driver by driver. *)
Before == {<<"InitIdt">>, <<"InitPic">>, <<"SetHandlers">>, <<"Enable">>}
Registering == {<<"register", i>> : i \in Irq!Drivers}
Unmasking == {<<"unmask", i>> : i \in Irq!Drivers}
Beginning == {<<"begin", Irq!PIC_IRQ_MOUSE>>, <<"begin", Irq!PIC_IRQ_KEYBOARD>>}
Phases == Before \cup {<<"Lapic">>, <<"loop">>} \cup Registering \cup Unmasking \cup Beginning

Handlers == {"NULL", "exception", "default", "driver"}

(* The two 8259s: requests, services and masks, and their first vectors. *)
Controllers ==
  [irr: SUBSET Irq!IRQs, isr: SUBSET Irq!IRQs, imr: SUBSET Irq!IRQs, master: Nat, slave: Nat]

Typed ==
  /\ at \in Phases
  /\ handlers \in [Irq!Vectors -> Handlers]
  /\ pic \in Controllers

(* A line is unmasked only when its driver's handler is in its place. *)
OnlyDriversOpen ==
  \A i \in Irq!IRQs \ pic.imr :
    i # Irq!PIC_IRQ_CASCADE => i \in Irq!Drivers /\ handlers[32 + i] = "driver"

(* What the steps of InitBsp have left behind them. *)
PutIntoOperation ==
  /\ at \in Before => ~intsOn /\ serving = Irq!NoVector /\ halted = Irq!NoVector
  /\ at # <<"InitIdt">> => gates = Irq!Vectors
  /\ at \notin {<<"InitIdt">>, <<"InitPic">>} =>
       pic.master = 32 /\ pic.slave = 40 /\ OnlyDriversOpen
  /\ at = <<"SetHandlers">> => Irq!IRQs \ pic.imr = {Irq!PIC_IRQ_CASCADE}
  /\ at \in Unmasking => handlers[32 + at[2]] = "driver"

(* The services open while line i is served: the slave's lines take one at the
   master too. *)
Services(i) == {i} \cup (IF i > 7 THEN {Irq!PIC_IRQ_CASCADE} ELSE {})

(* The controllers and the processor agree on what is being served. *)
Agreed ==
  /\ Irq!CanRun => pic.isr = {}
  /\ serving # Irq!NoVector =>
       /\ halted = Irq!NoVector
       /\ \E i \in Irq!Drivers : /\ serving = 32 + i /\ handlers[32 + i] = "driver"
                             /\ pic.isr = Services(i)
  /\ halted # Irq!NoVector => halted \in lvt

IrqInv == Typed /\ PutIntoOperation /\ Agreed

-----------------------------------------------------------------------------
(* The end of interrupt a driver's handler sends ends all that was open for its
   line, at both controllers (picSendEOI). *)
LEMMA EOIEnds ==
  ASSUME NEW p \in Controllers,
         NEW i \in Irq!Drivers, p.isr = Services(i)
  PROVE  Irq!picSendEOI(p, i) = [p EXCEPT !.isr = {}]
  <1> DEFINE slave == {j \in p.isr : j > 7}
  <1>1. i \in {0, 1, 12} /\ Irq!PIC_IRQ_CASCADE = 2
    BY DEF Irq!Drivers, Irq!PIC_IRQ_TIMER, Irq!PIC_IRQ_KEYBOARD, Irq!PIC_IRQ_MOUSE,
           Irq!PIC_IRQ_CASCADE
  <1>2. p.isr \ (Irq!Most(p.isr \ slave) \cup (IF i > 7 THEN Irq!Most(slave) ELSE {})) = {}
    <2>1. CASE i = 12
      <3>1. p.isr = {2, 12}
        BY <1>1, <2>1 DEF Services
      <3>2. slave = {12} /\ p.isr \ slave = {2}
        BY <3>1
      <3>3. Irq!Most({12}) = {12} /\ Irq!Most({2}) = {2}
        BY DEF Irq!Most
      <3>4. QED
        BY <2>1, <3>1, <3>2, <3>3
    <2>2. CASE i \in {0, 1}
      <3>1. p.isr = {i}
        BY <1>1, <2>2 DEF Services
      <3>2. slave = {} /\ p.isr \ slave = {i}
        BY <2>2, <3>1
      <3>3. Irq!Most({i}) = {i}
        BY <2>2 DEF Irq!Most
      <3>4. QED
        BY <2>2, <3>1, <3>2, <3>3
    <2>3. QED
      BY <1>1, <2>1, <2>2
  <1>3. QED
    BY <1>2 DEF Irq!picSendEOI

(* The vector of a line and the gate it goes through. *)
LEMMA VectorsHaveGates ==
  /\ \A i \in Irq!IRQs : 32 + i \in Irq!Vectors /\ (i > 7 => 40 + (i - 8) = 32 + i)
  /\ Irq!lapicGetInterruptVector.ERROR \notin Irq!Vectors
  /\ Irq!lapicGetInterruptVector.ERROR # Irq!NoVector
  /\ Irq!NoVector \notin Irq!Vectors
  /\ Irq!Drivers \subseteq Irq!IRQs /\ Irq!PIC_IRQ_CASCADE \in Irq!IRQs \ Irq!Drivers
  BY DEF Irq!IRQs, Irq!Vectors, Irq!lapicGetInterruptVector, Irq!NoVector, Irq!Drivers,
         Irq!PIC_IRQ_TIMER, Irq!PIC_IRQ_KEYBOARD, Irq!PIC_IRQ_MOUSE, Irq!PIC_IRQ_CASCADE

(* The phases are different from one another. *)
LEMMA PhasesApart ==
  /\ \A x \in Before \cup {<<"Lapic">>, <<"loop">>} : x[1] \notin {"register", "unmask", "begin"}
  /\ \A x \in Registering : x[1] = "register" /\ x[2] \in Irq!Drivers
  /\ \A x \in Unmasking : x[1] = "unmask" /\ x[2] \in Irq!Drivers
  /\ \A x \in Beginning : x[1] = "begin" /\ x[2] \in {Irq!PIC_IRQ_MOUSE, Irq!PIC_IRQ_KEYBOARD}
  /\ \A x \in Before : x[1] \in {"InitIdt", "InitPic", "SetHandlers", "Enable"}
  /\ <<"Lapic">>[1] = "Lapic" /\ <<"loop">>[1] = "loop"
  BY DEF Before, Registering, Unmasking, Beginning

(* Before anything is put into operation nothing is served. *)
LEMMA IrqInvInit == ASSUME Irq!Init PROVE IrqInv
  <1>1. Typed
    BY DEF Irq!Init, Typed, Controllers, Phases, Before, Handlers
  <1>2. PutIntoOperation
    BY PhasesApart DEF Irq!Init, PutIntoOperation, Before, Unmasking
  <1>3. Agreed
    BY DEF Irq!Init, Agreed, Irq!CanRun
  <1>4. QED
    BY <1>1, <1>2, <1>3 DEF IrqInv

(* Whatever the boot processor, a device or a handler does next, the invariant
   holds again. *)
LEMMA IrqInvStep == ASSUME Wired, IrqInv, [Irq!Next]_(Irq!vars) PROVE IrqInv'
  <1> USE DEF IrqInv
  <1>1. CASE Irq!InitIdt
    <2>1. at = <<"InitIdt">> /\ at' = <<"InitPic">> /\ gates' = Irq!Vectors
      BY <1>1 DEF Irq!InitIdt, Irq!Go
    <2>2. Typed'
      BY <1>1, <2>1 DEF Irq!InitIdt, Typed, Controllers, Phases, Before, Handlers
    <2>3. PutIntoOperation'
      BY <1>1, <2>1, PhasesApart DEF Irq!InitIdt, PutIntoOperation, Before, Unmasking
    <2>4. Agreed'
      BY <1>1, <2>1 DEF Irq!InitIdt, Agreed, PutIntoOperation, Before, Irq!CanRun
    <2>5. QED
      BY <2>2, <2>3, <2>4
  <1>2. CASE Irq!InitPic
    <2>1. at = <<"InitPic">> /\ at' = <<"SetHandlers">> /\ pic' = Irq!picInit(32, 40)
      BY <1>2 DEF Irq!InitPic, Irq!Go
    <2>2. /\ pic' \in Controllers
          /\ Irq!IRQs \ pic'.imr = {Irq!PIC_IRQ_CASCADE} /\ pic'.isr = {}
          /\ pic'.master = 32 /\ pic'.slave = 40
      BY <2>1, VectorsHaveGates DEF Irq!picInit, Controllers
    <2>3. Typed'
      BY <1>2, <2>1, <2>2 DEF Irq!InitPic, Typed, Controllers, Phases, Before
    <2>4. PutIntoOperation'
      BY <1>2, <2>1, <2>2, PhasesApart
         DEF Irq!InitPic, PutIntoOperation, OnlyDriversOpen, Before, Unmasking
    <2>5. Agreed'
      BY <1>2, <2>1, <2>2 DEF Irq!InitPic, Agreed, PutIntoOperation, Before, Irq!CanRun
    <2>6. QED
      BY <2>3, <2>4, <2>5
  <1>3. CASE Irq!SetExceptionHandlers
    <2>1. /\ at = <<"SetHandlers">> /\ at' = <<"Enable">>
          /\ UNCHANGED <<gates, pic, lvt, intsOn, serving, halted>>
      BY <1>3 DEF Irq!SetExceptionHandlers, Irq!Go
    <2>2. Typed'
      BY <1>3, <2>1 DEF Irq!SetExceptionHandlers, Typed, Controllers, Phases, Before, Handlers
    <2>3. PutIntoOperation'
      BY <2>1, PhasesApart DEF PutIntoOperation, OnlyDriversOpen, Before, Unmasking
    <2>4. Agreed'
      BY <2>1 DEF Agreed, PutIntoOperation, Before, Irq!CanRun
    <2>5. QED
      BY <2>2, <2>3, <2>4
  <1>4. CASE Irq!Enable
    <2>1. /\ at = <<"Enable">> /\ at' = <<"Lapic">>
          /\ UNCHANGED <<gates, handlers, pic, lvt, serving, halted>>
      BY <1>4 DEF Irq!Enable, Irq!Go
    <2>2. Typed'
      BY <2>1 DEF Typed, Controllers, Phases
    <2>3. PutIntoOperation'
      BY <2>1, PhasesApart DEF PutIntoOperation, OnlyDriversOpen, Before, Unmasking
    <2>4. Agreed'
      BY <2>1 DEF Agreed, Irq!CanRun
    <2>5. QED
      BY <2>2, <2>3, <2>4
  <1>5. CASE Irq!lapicStart
    <2>1. /\ at = <<"Lapic">> /\ at' = <<"register", Irq!PIC_IRQ_TIMER>> /\ Irq!CanRun
          /\ UNCHANGED <<gates, handlers, pic, intsOn, serving, halted>>
      BY <1>5 DEF Irq!lapicStart, Irq!Go
    <2>2. at' \in Registering
      BY <2>1 DEF Registering, Irq!Drivers
    <2>3. Typed'
      BY <2>1, <2>2 DEF Typed, Controllers, Phases
    <2>4. PutIntoOperation'
      BY <2>1, <2>2, PhasesApart DEF PutIntoOperation, OnlyDriversOpen, Before, Unmasking
    <2>5. Agreed'
      BY <2>1 DEF Agreed, Irq!CanRun
    <2>6. QED
      BY <2>3, <2>4, <2>5
  <1>6. CASE Irq!Begin
    <2>1. /\ Irq!CanRun /\ at[1] = "begin"
          /\ \/ intsOn' = FALSE /\ at' = <<"register", at[2]>>
             \/ at' = <<"begin", Irq!PIC_IRQ_KEYBOARD>>
             \/ at' = <<"loop">>
          /\ UNCHANGED <<gates, handlers, pic, lvt, serving, halted>>
      BY <1>6 DEF Irq!Begin
    <2>2. at \in Beginning /\ at[2] \in Irq!Drivers
      BY <2>1, PhasesApart DEF Typed, Controllers, Phases, Irq!Drivers
    <2>3. at' \in Registering \cup Beginning \cup {<<"loop">>}
      BY <2>1, <2>2 DEF Registering, Beginning
    <2>4. Typed'
      BY <2>1, <2>3 DEF Typed, Controllers, Phases
    <2>5. at' \notin Before /\ at' \notin Unmasking /\ at \notin Before
      BY <2>2, <2>3, PhasesApart
    <2>6. PutIntoOperation'
      BY <2>1, <2>5 DEF PutIntoOperation, OnlyDriversOpen, Before
    <2>7. Agreed'
      BY <2>1 DEF Agreed, Irq!CanRun
    <2>8. QED
      BY <2>4, <2>6, <2>7
  <1>7. CASE Irq!halCpuRegisterIRQ
    <2>1. /\ Irq!CanRun /\ at[1] = "register"
          /\ handlers' = [handlers EXCEPT ![32 + at[2]] = "driver"]
          /\ at' = <<"unmask", at[2]>>
          /\ UNCHANGED <<gates, pic, lvt, intsOn, serving, halted>>
      BY <1>7 DEF Irq!halCpuRegisterIRQ
    <2>2. at \in Registering /\ at[2] \in Irq!Drivers
      BY <2>1, PhasesApart DEF Typed, Controllers, Phases
    <2>3. at' \in Unmasking
      BY <2>1, <2>2 DEF Unmasking
    <2>4. 32 + at[2] \in Irq!Vectors
      BY <2>2, VectorsHaveGates
    <2>5. /\ handlers' \in [Irq!Vectors -> Handlers] /\ handlers'[32 + at[2]] = "driver"
          /\ \A v \in Irq!Vectors : handlers[v] = "driver" => handlers'[v] = "driver"
      BY <2>1, <2>4 DEF Typed, Controllers, Handlers
    <2>6. Typed'
      BY <2>1, <2>3, <2>5 DEF Typed, Controllers, Phases
    <2>7. at' \notin Before /\ at \notin Before /\ at'[2] = at[2]
      BY <2>1, <2>2, <2>3, PhasesApart
    <2>8. OnlyDriversOpen'
      BY <2>1, <2>5, <2>7, VectorsHaveGates DEF PutIntoOperation, OnlyDriversOpen, Before
    <2>9. PutIntoOperation'
      BY <2>1, <2>5, <2>7, <2>8 DEF PutIntoOperation, Before
    <2>10. Agreed'
      BY <2>1 DEF Agreed, Irq!CanRun
    <2>11. QED
      BY <2>6, <2>9, <2>10
  <1>8. CASE Irq!Unmask
    <2>1. /\ Irq!CanRun /\ at[1] = "unmask" /\ pic' = Irq!picUnmask(pic, at[2])
          /\ UNCHANGED <<gates, handlers, lvt, serving, halted>>
      BY <1>8 DEF Irq!Unmask
    <2>2. at \in Unmasking /\ at[2] \in Irq!Drivers
      BY <2>1, PhasesApart DEF Typed, Controllers, Phases
    <2>3. at' \in Beginning \cup {<<"loop">>}
      BY <1>8, <2>2 DEF Irq!Unmask, Beginning, Irq!Drivers
    <2>4. /\ pic' \in Controllers
          /\ pic'.imr = pic.imr \ {at[2]} /\ pic'.isr = pic.isr
          /\ pic'.master = pic.master /\ pic'.slave = pic.slave
      BY <2>1 DEF Irq!picUnmask, Typed, Controllers
    <2>5. Typed'
      BY <2>1, <2>3, <2>4 DEF Typed, Controllers, Phases
    <2>6. at' \notin Before /\ at' \notin Unmasking /\ at \notin Before
      BY <2>2, <2>3, PhasesApart
    <2>7. OnlyDriversOpen'
      BY <2>1, <2>2, <2>4, <2>6 DEF PutIntoOperation, OnlyDriversOpen, Before
    <2>8. PutIntoOperation'
      BY <2>1, <2>4, <2>6, <2>7 DEF PutIntoOperation, Before
    <2>9. Agreed'
      BY <2>1, <2>4 DEF Agreed, Irq!CanRun
    <2>10. QED
      BY <2>5, <2>8, <2>9
  <1>9. ASSUME NEW irq \in Lines, Irq!Request(irq) PROVE IrqInv'
    <2>1. irq \in Irq!IRQs
      BY <1>9 DEF Wired
    <2>2. /\ pic' \in Controllers
          /\ pic'.imr = pic.imr /\ pic'.isr = pic.isr
          /\ pic'.master = pic.master /\ pic'.slave = pic.slave
      BY <1>9, <2>1 DEF Irq!Request, Typed, Controllers
    <2>3. UNCHANGED <<gates, handlers, lvt, intsOn, serving, halted, at>>
      BY <1>9 DEF Irq!Request
    <2>4. QED
      BY <2>2, <2>3 DEF Typed, Controllers, PutIntoOperation, OnlyDriversOpen, Agreed, Irq!CanRun
  <1>10. ASSUME NEW irq \in Lines, Irq!Deliver(irq) PROVE IrqInv'
    <2>1. /\ intsOn /\ Irq!CanRun /\ Irq!Deliverable(irq) /\ Irq!Enter(Irq!Vector(irq))
          /\ UNCHANGED <<gates, handlers, lvt, at>>
      BY <1>10 DEF Irq!Deliver
    <2>2. irq \in Irq!IRQs /\ irq # Irq!PIC_IRQ_CASCADE /\ irq \notin pic.imr
      BY <1>10, <2>1 DEF Wired, Irq!Deliverable
    <2>3. at \notin Before
      BY <2>1 DEF PutIntoOperation
    <2>4. irq \in Irq!Drivers /\ handlers[32 + irq] = "driver"
      BY <2>2, <2>3 DEF PutIntoOperation, OnlyDriversOpen, Before
    <2>5. Irq!Vector(irq) = 32 + irq /\ 32 + irq \in Irq!Vectors
      BY <2>2, <2>3, VectorsHaveGates DEF PutIntoOperation, Before, Irq!Vector, Irq!IRQs
    <2>6. gates = Irq!Vectors
      BY <2>3 DEF PutIntoOperation, Before
    <2>7. intsOn' = FALSE /\ serving' = 32 + irq /\ halted' = halted /\ serving' # Irq!NoVector
      BY <2>1, <2>5, <2>6, VectorsHaveGates DEF Irq!Enter
    <2>8. pic.isr = {} /\ halted = Irq!NoVector
      BY <2>1 DEF Agreed, Irq!CanRun
    <2>9. /\ pic' \in Controllers
          /\ pic'.imr = pic.imr /\ pic'.isr = Services(irq)
          /\ pic'.master = pic.master /\ pic'.slave = pic.slave
      BY <1>10, <2>2, <2>8, VectorsHaveGates DEF Irq!Deliver, Typed, Controllers, Services
    <2>10. Typed'
      BY <2>1, <2>9 DEF Typed, Controllers
    <2>11. PutIntoOperation'
      BY <2>1, <2>3, <2>9 DEF PutIntoOperation, OnlyDriversOpen, Before
    <2>12. Agreed'
      BY <2>1, <2>4, <2>7, <2>8, <2>9 DEF Agreed, Irq!CanRun
    <2>13. QED
      BY <2>10, <2>11, <2>12
  <1>11. CASE Irq!LapicError
    <2> DEFINE v == Irq!lapicGetInterruptVector.ERROR
    <2>1. /\ intsOn /\ Irq!CanRun /\ v \in lvt /\ Irq!Enter(v)
          /\ UNCHANGED <<gates, handlers, pic, lvt, at>>
      BY <1>11 DEF Irq!LapicError
    <2>2. at \notin Before
      BY <2>1 DEF PutIntoOperation
    <2>3. v \notin gates /\ v # Irq!NoVector
      BY <2>2, VectorsHaveGates DEF PutIntoOperation, Before
    <2>4. serving' = serving /\ halted' = v
      BY <2>1, <2>3 DEF Irq!Enter
    <2>5. Typed' /\ PutIntoOperation'
      BY <2>1, <2>2 DEF Typed, Controllers, PutIntoOperation, OnlyDriversOpen
    <2>6. Agreed'
      BY <2>1, <2>3, <2>4 DEF Agreed, Irq!CanRun
    <2>7. QED
      BY <2>5, <2>6
  <1>12. CASE Irq!isr_handler
    <2>1. serving # Irq!NoVector /\ halted = Irq!NoVector /\ UNCHANGED <<gates, handlers, lvt, at>>
      BY <1>12 DEF Irq!isr_handler
    <2>2. PICK i \in Irq!Drivers : /\ serving = 32 + i /\ handlers[32 + i] = "driver"
                               /\ pic.isr = Services(i)
      BY <2>1 DEF Agreed
    <2>3. serving - 32 = i
      BY <2>2, VectorsHaveGates DEF Irq!IRQs
    <2>4. pic' = Irq!picSendEOI(pic, i) /\ serving' = Irq!NoVector /\ halted' = halted
      BY <1>12, <2>2, <2>3 DEF Irq!isr_handler
    <2>5. pic' = [pic EXCEPT !.isr = {}]
      BY <2>2, <2>4, EOIEnds DEF Typed, Controllers
    <2>6. /\ pic' \in Controllers
          /\ pic'.imr = pic.imr /\ pic'.isr = {}
          /\ pic'.master = pic.master /\ pic'.slave = pic.slave
      BY <2>5 DEF Typed, Controllers
    <2>7. at \notin Before
      BY <2>1 DEF PutIntoOperation
    <2>8. Typed' /\ PutIntoOperation'
      BY <2>1, <2>6, <2>7 DEF Typed, Controllers, PutIntoOperation, OnlyDriversOpen
    <2>9. Agreed'
      BY <2>1, <2>4, <2>6 DEF Agreed, Irq!CanRun
    <2>10. QED
      BY <2>8, <2>9
  <1>13. CASE UNCHANGED Irq!vars
    BY <1>13 DEF Irq!vars, Typed, Controllers, PutIntoOperation, OnlyDriversOpen, Agreed, Irq!CanRun
  <1>14. QED
    BY <1>1, <1>2, <1>3, <1>4, <1>5, <1>6, <1>7, <1>8, <1>9, <1>10, <1>11, <1>12, <1>13 DEF Irq!Next

(* The inductive invariant holds throughout. *)
THEOREM InterruptsInvariant == ASSUME Wired PROVE Irq!Spec => []IrqInv
  BY IrqInvInit, IrqInvStep, PTL DEF Irq!Spec

(* Outside of handlers neither controller believes a service to be going on, and
   nothing but a vector of the local APIC stops the processor (picSendEOI,
   picInit, isr_handler, the order of mouseInit's and keyboardInit's calls). *)
THEOREM ServicesAlwaysEnd == ASSUME Wired PROVE Irq!Spec => []Irq!EveryServiceEnds
  <1>1. IrqInv => Irq!EveryServiceEnds
    BY DEF IrqInv, Agreed, Irq!EveryServiceEnds, Irq!CanRun
  <1>2. QED
    BY <1>1, InterruptsInvariant, PTL

-----------------------------------------------------------------------------
(* Devices                                                                 *)

HIDE CpuWakerAssumption

(* The drives main registers stand on nothing, and each has an identity of its
   own; the two listeners are those of the caches and of the file systems. *)
DrivesGiven ==
  /\ \A d \in Drives : d = [type |-> "drive", cached |-> d.cached, initrd |-> d.initrd,
                            on |-> <<>>, id |-> <<d.id[1]>>]
  /\ \A d, e \in Drives : d.id = e.id => d = e
  /\ Listeners \subseteq {"cached", "initrd"}

(* What can ever be registered: drives, caches on them, file systems on both. *)
Caches == {Dev!Cache(d) : d \in {e \in Drives : ~e.cached}}
Systems == {Dev!FileSystem(d) : d \in {e \in Drives \cup Caches : e.initrd}}
Known == Drives \cup Caches \cup Systems

Calls == [walk: {"listeners"}, subject: Known, next: Nat \ {0}]
           \cup [walk: {"devices"}, subject: Listeners, next: Nat \ {0}]

DevTyped ==
  /\ devices \in Seq(Known) /\ listeners \in Seq(Listeners) /\ gone \subseteq Known
  /\ told \in Seq([listener: Listeners, device: Known])
  /\ stack \in Seq(Calls)

(* No device is on the list twice or after its deletion; who is on it was put
   there by main or by a listener that was told of the device below. *)
Registry ==
  /\ \A i, j \in DOMAIN devices : devices[i] = devices[j] => i = j
  /\ \A i, j \in DOMAIN listeners : listeners[i] = listeners[j] => i = j
  /\ \A i \in DOMAIN devices : devices[i] \notin gone
  /\ \A x \in Dev!Everything \ Drives :
       \E k \in DOMAIN told : x \in Dev!Registers(told[k].listener, told[k].device)
  /\ \A k \in DOMAIN told :
       /\ told[k].device \in Dev!Everything
       /\ Dev!Registers(told[k].listener, told[k].device) \subseteq Dev!Everything

(* What a listener need not see again: it registers nothing on it, nor on what
   others register on it. *)
Quiet(l, d) == IF l = "cached" THEN d.on # <<>> ELSE d.type = "filesystem"

OnStack(d) == \E k \in DOMAIN stack : stack[k].walk = "listeners" /\ stack[k].subject = d
Walking(l) == \E k \in DOMAIN stack : stack[k].walk = "devices" /\ stack[k].subject = l

(* The calls under way: RegisterDevice from within one another, each for a
   device of its own; outermost of all may be RegisterListener, for the listener
   that came last, and then the others are for devices it has not come to. *)
Nested ==
  /\ \A k \in DOMAIN stack : stack[k].walk = "devices" =>
       /\ k = Len(stack) /\ listeners # <<>> /\ stack[k].subject = listeners[Len(listeners)]
       /\ stack[k].next <= Len(devices) + 1
       /\ \A m \in DOMAIN stack : m # k =>
            /\ Quiet(stack[k].subject, stack[m].subject)
            /\ \A i \in DOMAIN devices : i < stack[k].next => devices[i] # stack[m].subject
  /\ \A k \in DOMAIN stack : stack[k].walk = "listeners" =>
       /\ stack[k].next <= Len(listeners) + 1
       /\ \E i \in DOMAIN devices : stack[k].subject = devices[i]
       /\ \A m \in DOMAIN stack :
            stack[m].walk = "listeners" /\ stack[m].subject = stack[k].subject => m = k

(* How often a listener has been told once nothing is due to it any more. *)
Settled(l, d) == Dev!Times(l, d) \in 1 .. 2 /\ (d \in Drives => Dev!Times(l, d) = 1)

(* How often a listener has been told of a device while calls are under way. *)
Counted ==
  /\ \A k \in DOMAIN stack : stack[k].walk = "listeners" =>
       \A j \in DOMAIN listeners :
         Dev!Times(listeners[j], stack[k].subject) = IF j < stack[k].next THEN 1 ELSE 0
  /\ \A i \in DOMAIN devices, j \in DOMAIN listeners :
       ~OnStack(devices[i]) /\ ~Walking(listeners[j]) => Settled(listeners[j], devices[i])
  /\ \A k \in DOMAIN stack, i \in DOMAIN devices :
       LET l == stack[k].subject
           d == devices[i]
       IN  stack[k].walk = "devices" /\ ~OnStack(d) =>
             IF i < stack[k].next THEN Settled(l, d)
             ELSE \/ Dev!Times(l, d) = 0
                  \/ Dev!Times(l, d) = 1 /\ Quiet(l, d)

DevInv == DevTyped /\ Registry /\ Nested /\ Counted

-----------------------------------------------------------------------------
(* Lemmas about sequences and counting                                     *)

(* A list without repetitions loses one item and nothing else (RemoveAt). *)
LEMMA Removing ==
  ASSUME NEW S, NEW s \in Seq(S), NEW i \in DOMAIN s,
         \A j, k \in DOMAIN s : s[j] = s[k] => j = k
  PROVE  /\ Dev!RemoveAt(s, i) \in Seq(S)
         /\ \A j, k \in DOMAIN Dev!RemoveAt(s, i) :
              Dev!RemoveAt(s, i)[j] = Dev!RemoveAt(s, i)[k] => j = k
         /\ \A j \in DOMAIN Dev!RemoveAt(s, i) :
              \E k \in DOMAIN s : k # i /\ Dev!RemoveAt(s, i)[j] = s[k]
         /\ \A k \in DOMAIN s :
              k # i => \E j \in DOMAIN Dev!RemoveAt(s, i) : Dev!RemoveAt(s, i)[j] = s[k]
  <1> DEFINE n == Len(s)
             a == SubSeq(s, 1, i - 1)
             b == SubSeq(s, i + 1, n)
             r == Dev!RemoveAt(s, i)
  <1>1. n \in Nat /\ DOMAIN s = 1 .. n /\ i \in 1 .. n
    BY LenProperties
  <1>2. a \in Seq(S) /\ Len(a) = i - 1 /\ \A j \in 1 .. i - 1 : a[j] = s[j]
    BY <1>1, SubSeqProperties
  <1>3. b \in Seq(S) /\ Len(b) = n - i /\ \A j \in 1 .. n - i : b[j] = s[j + i]
    BY <1>1, SubSeqProperties
  <1>4. r = a \o b
    BY DEF Dev!RemoveAt
  <1>5. /\ r \in Seq(S) /\ Len(r) = n - 1
        /\ \A j \in 1 .. n - 1 : r[j] = IF j < i THEN s[j] ELSE s[j + 1]
    <2> HIDE DEF a, b, r, n
    <2>1. /\ a \o b \in Seq(S) /\ Len(a \o b) = Len(a) + Len(b)
          /\ \A j \in 1 .. Len(a) + Len(b) :
               (a \o b)[j] = IF j <= Len(a) THEN a[j] ELSE b[j - Len(a)]
      BY <1>2, <1>3, ConcatProperties, ZenonT(60)
    <2>2. ASSUME NEW j \in 1 .. n - 1
          PROVE  r[j] = IF j < i THEN s[j] ELSE s[j + 1]
      <3>1. CASE j < i
        BY <3>1, <2>1, <1>1, <1>2, <1>3, <1>4
      <3>2. CASE j >= i
        <4>1. j - (i - 1) \in 1 .. n - i /\ (j - (i - 1)) + i = j + 1
          BY <3>2, <1>1
        <4>2. b[j - (i - 1)] = s[j + 1]
          BY <4>1, <1>3
        <4>3. QED
          BY <3>2, <4>2, <2>1, <1>1, <1>2, <1>3, <1>4, SMTT(20)
      <3>3. QED
        BY <3>1, <3>2, <1>1
    <2>3. Len(a) + Len(b) = n - 1
      BY <1>1, <1>2, <1>3
    <2>4. r \in Seq(S) /\ Len(r) = n - 1
      BY <2>1, <2>3, <1>4
    <2>5. QED
      BY <2>2, <2>4
  <1>6. DOMAIN r = 1 .. n - 1
    BY <1>5, LenProperties
  <1> HIDE DEF r, n
  <1>7. ASSUME NEW j \in DOMAIN r, NEW k \in DOMAIN r, r[j] = r[k] PROVE j = k
    <2> DEFINE At(m) == IF m < i THEN m ELSE m + 1
    <2>1. At(j) \in DOMAIN s /\ At(k) \in DOMAIN s /\ (At(j) = At(k) => j = k)
      BY <1>1, <1>6
    <2>2. r[j] = s[At(j)] /\ r[k] = s[At(k)]
      BY <1>1, <1>5, <1>6
    <2> HIDE DEF At
    <2>3. QED
      BY <2>1, <2>2, <1>7
  <1>8. ASSUME NEW j \in DOMAIN r PROVE \E k \in DOMAIN s : k # i /\ r[j] = s[k]
    <2>1. CASE j < i
      BY <2>1, <1>1, <1>5, <1>6
    <2>2. CASE j >= i
      <3>1. j + 1 \in DOMAIN s /\ j + 1 # i /\ r[j] = s[j + 1]
        BY <2>2, <1>1, <1>5, <1>6
      <3>2. QED
        BY <3>1
    <2>3. QED
      BY <2>1, <2>2, <1>1, <1>6
  <1>9. ASSUME NEW k \in DOMAIN s, k # i PROVE \E j \in DOMAIN r : r[j] = s[k]
    <2>1. CASE k < i
      <3>1. k \in DOMAIN r /\ r[k] = s[k]
        BY <2>1, <1>1, <1>5, <1>6
      <3>2. QED
        BY <3>1
    <2>2. CASE k > i
      <3>1. k - 1 \in DOMAIN r /\ r[k - 1] = s[(k - 1) + 1] /\ (k - 1) + 1 = k
        BY <2>2, <1>1, <1>5, <1>6
      <3>2. QED
        BY <3>1
    <2>3. QED
      BY <2>1, <2>2, <1>9, <1>1
  <1>10. QED
    BY <1>5, <1>7, <1>8, <1>9 DEF r

(* A call entered on top of the others: they move down by one. *)
LEMMA Entering ==
  ASSUME NEW S, NEW s \in Seq(S), NEW f \in S
  PROVE  /\ <<f>> \o s \in Seq(S) /\ Len(<<f>> \o s) = Len(s) + 1
         /\ DOMAIN (<<f>> \o s) = 1 .. Len(s) + 1 /\ DOMAIN s = 1 .. Len(s) /\ Len(s) \in Nat
         /\ (<<f>> \o s)[1] = f
         /\ \A k \in 1 .. Len(s) : (<<f>> \o s)[k + 1] = s[k]
  <1> DEFINE t == <<f>>
  <1>1. t \in Seq(S) /\ Len(t) = 1 /\ t[1] = f
    OBVIOUS
  <1> HIDE DEF t
  <1>2. /\ t \o s \in Seq(S) /\ Len(t \o s) = Len(t) + Len(s)
        /\ \A k \in 1 .. Len(t) + Len(s) :
             (t \o s)[k] = IF k <= Len(t) THEN t[k] ELSE s[k - Len(t)]
    BY <1>1, ConcatProperties
  <1>3. Len(s) \in Nat /\ DOMAIN s = 1 .. Len(s) /\ DOMAIN (t \o s) = 1 .. Len(t \o s)
    BY <1>2, LenProperties
  <1>4. ASSUME NEW k \in 1 .. Len(s) PROVE (t \o s)[k + 1] = s[k]
    <2>1. k + 1 \in 1 .. Len(t) + Len(s) /\ ~(k + 1 <= Len(t)) /\ (k + 1) - Len(t) = k
      BY <1>1, <1>3
    <2>2. QED
      BY <1>2, <2>1
  <1>5. QED
    BY <1>1, <1>2, <1>3, <1>4 DEF t

(* The innermost call goes on: the others stay where they are. *)
LEMMA Advancing ==
  ASSUME NEW S, NEW s \in Seq(S), NEW f \in S, s # <<>>
  PROVE  /\ <<f>> \o Tail(s) \in Seq(S) /\ Len(<<f>> \o Tail(s)) = Len(s)
         /\ DOMAIN (<<f>> \o Tail(s)) = DOMAIN s /\ DOMAIN s = 1 .. Len(s)
         /\ Len(s) \in Nat \ {0} /\ (<<f>> \o Tail(s))[1] = f
         /\ \A k \in 2 .. Len(s) : (<<f>> \o Tail(s))[k] = s[k]
  <1>1. /\ Tail(s) \in Seq(S) /\ Len(Tail(s)) = Len(s) - 1 /\ Len(s) \in Nat \ {0}
        /\ DOMAIN s = 1 .. Len(s)
    OBVIOUS
  <1>2. \A k \in 1 .. Len(s) - 1 : Tail(s)[k] = s[k + 1]
    OBVIOUS
  <1> DEFINE t == Tail(s)
  <1> HIDE DEF t
  <1>3. /\ <<f>> \o t \in Seq(S) /\ Len(<<f>> \o t) = Len(t) + 1
        /\ DOMAIN (<<f>> \o t) = 1 .. Len(t) + 1
        /\ (<<f>> \o t)[1] = f
        /\ \A k \in 1 .. Len(t) : (<<f>> \o t)[k + 1] = t[k]
    BY <1>1, Entering DEF t
  <1>4. ASSUME NEW k \in 2 .. Len(s) PROVE (<<f>> \o t)[k] = s[k]
    <2>1. k - 1 \in 1 .. Len(s) - 1 /\ (k - 1) + 1 = k
      BY <1>1
    <2>2. t[k - 1] = s[k]
      BY <2>1, <1>2 DEF t
    <2>3. QED
      BY <2>1, <2>2, <1>1, <1>3 DEF t
  <1>5. QED
    BY <1>1, <1>3, <1>4 DEF t

(* How often an entry occurs in a history. *)
Count(s, p) == Cardinality({i \in DOMAIN s : s[i] = p})

(* A history grows by one entry. *)
LEMMA Occurrences ==
  ASSUME NEW S, NEW s \in Seq(S), NEW e \in S, NEW p
  PROVE  /\ Count(s, p) \in Nat
         /\ Count(Append(s, e), p) = Count(s, p) + (IF e = p THEN 1 ELSE 0)
         /\ Count(s, p) = 0 <=> \A i \in DOMAIN s : s[i] # p
  <1> DEFINE A == {i \in DOMAIN s : s[i] = p}
             t == Append(s, e)
             B == {i \in DOMAIN t : t[i] = p}
             n == Len(s)
  <1>1. n \in Nat /\ DOMAIN s = 1 .. n
    BY LenProperties
  <1>2. DOMAIN t = 1 .. n + 1 /\ t[n + 1] = e /\ \A i \in 1 .. n : t[i] = s[i]
    BY <1>1, AppendProperties
  <1>3. IsFiniteSet(A)
    <2>1. IsFiniteSet(1 .. n) /\ A \subseteq 1 .. n
      BY <1>1, FS_Interval
    <2>2. QED
      BY <2>1, FS_Subset
  <1>4. B = A \cup (IF e = p THEN {n + 1} ELSE {}) /\ n + 1 \notin A
    <2> HIDE DEF t, n
    <2>1. n + 1 \notin A
      BY <1>1
    <2>2. ASSUME NEW i PROVE i \in B <=> i \in A \/ (e = p /\ i = n + 1)
      BY <1>1, <1>2
    <2>3. QED
      BY <2>1, <2>2
  <1>5. Cardinality(B) = Cardinality(A) + (IF e = p THEN 1 ELSE 0) /\ Cardinality(A) \in Nat
    <2> HIDE DEF A, B, n
    <2>1. Cardinality(A) \in Nat
      BY <1>3, FS_CardinalityType
    <2>2. CASE e = p
      BY <2>1, <2>2, <1>3, <1>4, FS_AddElement
    <2>3. CASE e # p
      <3>1. B = A
        BY <2>3, <1>4
      <3>2. QED
        BY <3>1, <2>1, <2>3
    <2>4. QED
      BY <2>1, <2>2, <2>3
  <1>6. Cardinality(A) = 0 <=> A = {}
    BY <1>3, FS_EmptySet
  <1>7. QED
    BY <1>5, <1>6 DEF Count

-----------------------------------------------------------------------------
(* Lemmas about what listeners register                                    *)

(* The identities of drives, and of the caches on them. *)
LEMMA Identities ==
  ASSUME DrivesGiven, NEW d \in Drives
  PROVE  /\ Len(d.id) = 1 /\ d.id = <<d.id[1]>> /\ d.id # <<>>
         /\ Len(Dev!Cache(d).id) = 2 /\ Dev!Cache(d).id[2] = d.id[1] /\ Dev!Cache(d).id # <<>>
  <1> DEFINE x == d.id[1]
             S == {x, "cached"}
  <1>1. d.id = <<x>>
    BY DEF DrivesGiven
  <1>2. Dev!Cache(d).id = <<"cached">> \o <<x>>
    BY <1>1 DEF Dev!Cache
  <1>3. x \in S /\ "cached" \in S
    OBVIOUS
  <1> HIDE DEF x, S
  <1>4. <<x>> \in Seq(S) /\ Len(<<x>>) = 1 /\ <<x>>[1] = x
    BY <1>3
  <1>5. /\ <<"cached">> \o <<x>> \in Seq(S) /\ Len(<<"cached">> \o <<x>>) = 1 + 1
        /\ \A k \in 1 .. 1 : (<<"cached">> \o <<x>>)[k + 1] = <<x>>[k]
    BY <1>3, <1>4, Entering
  <1>6. (<<"cached">> \o <<x>>)[1 + 1] = x
    BY <1>4, <1>5
  <1>7. Len(<<>>) = 0
    OBVIOUS
  <1>8. QED
    BY <1>1, <1>2, <1>4, <1>5, <1>6, <1>7 DEF x

(* A listener registers devices on drives only; what it registers is known,
   stands on the drive, and is none of main's drives. *)
LEMMA Offspring ==
  ASSUME DrivesGiven, NEW l \in Listeners, NEW d \in Known, NEW x \in Dev!Registers(l, d)
  PROVE  /\ d.type = "drive" /\ d \in Drives \cup Caches
         /\ x \in Caches \cup Systems /\ x \notin Drives
         /\ x.on = d.id /\ x.on # <<>>
         /\ x.type = IF l = "cached" THEN "drive" ELSE "filesystem"
         /\ l = "cached" => d \in Drives
  <1>1. \A e \in Drives : e.type = "drive" /\ e.on = <<>> /\ \E y : e.id = <<y>>
    BY DEF DrivesGiven
  <1>3. \A e \in Drives : Dev!Cache(e).id # <<>> /\ e.id # <<>>
    BY Identities
  <1>4. \A e \in Caches : e.type = "drive" /\ e.cached /\ e.id # <<>>
    BY <1>3 DEF Caches, Dev!Cache
  <1>5. \A e \in Systems : e.type = "filesystem"
    BY DEF Systems, Dev!FileSystem
  <1>6. d.type = "drive" /\ d \in Drives \cup Caches
    BY <1>1, <1>4, <1>5 DEF Dev!Registers, Known
  <1>7. CASE l = "cached"
    <2>1. x = Dev!Cache(d) /\ ~d.cached
      BY <1>6, <1>7 DEF Dev!Registers
    <2>2. d \in Drives
      BY <2>1, <1>4, <1>6
    <2>3. x \in Caches /\ x.on = d.id /\ x.type = "drive"
      BY <2>1, <2>2 DEF Caches, Dev!Cache
    <2>4. QED
      BY <1>1, <1>3, <1>6, <1>7, <2>2, <2>3
  <1>8. CASE l # "cached"
    <2>1. x = Dev!FileSystem(d) /\ d.initrd
      BY <1>6, <1>8 DEF Dev!Registers, DrivesGiven
    <2>2. x \in Systems /\ x.on = d.id /\ x.type = "filesystem"
      BY <2>1, <1>6 DEF Systems, Dev!FileSystem
    <2>3. QED
      BY <1>1, <1>3, <1>4, <1>6, <1>8, <2>2
  <1>9. QED
    BY <1>7, <1>8

(* What is registered on a device is known too. *)
LEMMA OffspringKnown ==
  ASSUME DrivesGiven, NEW l \in Listeners, NEW d \in Known
  PROVE  Dev!Registers(l, d) \subseteq Known
  BY Offspring DEF Known

(* A listener registers one device at most on a device, and a device is
   registered by one listener on one device only. *)
LEMMA OneParent ==
  ASSUME DrivesGiven, NEW l \in Listeners, NEW d \in Known, NEW x \in Dev!Registers(l, d),
         NEW k \in Listeners, NEW e \in Known, x \in Dev!Registers(k, e)
  PROVE  k = l /\ e = d
  <1>1. /\ d \in Drives \cup Caches /\ e \in Drives \cup Caches
        /\ d.id = e.id
        /\ x.type = IF l = "cached" THEN "drive" ELSE "filesystem"
        /\ x.type = IF k = "cached" THEN "drive" ELSE "filesystem"
    BY Offspring
  <1>2. k = l
    BY <1>1 DEF DrivesGiven
  <1>3. \A a \in Drives : a.id = <<a.id[1]>> /\ Len(a.id) = 1
    BY Identities
  <1>4. \A a, b \in Drives : a.id = b.id => a = b
    BY DEF DrivesGiven
  <1>5. \A a \in Drives : Len(Dev!Cache(a).id) = 2 /\ Dev!Cache(a).id[2] = a.id[1]
    BY Identities
  <1>6. ASSUME NEW a \in Drives, NEW b \in Drives, Dev!Cache(a).id = Dev!Cache(b).id
        PROVE  a = b
    <2>1. a.id[1] = b.id[1]
      BY <1>5, <1>6
    <2>2. a.id = b.id
      BY <2>1, <1>3
    <2>3. QED
      BY <2>2, <1>4
  <1>7. ASSUME NEW a \in Drives, NEW b \in Drives PROVE Dev!Cache(a).id # b.id
    <2>1. Len(b.id) = 1
      BY <1>3
    <2>2. QED
      BY <2>1, <1>5
  <1>8. \A c \in Caches : \E a \in Drives : c = Dev!Cache(a)
    BY DEF Caches
  <1>9. e = d
    BY <1>1, <1>4, <1>6, <1>7, <1>8
  <1>10. QED
    BY <1>2, <1>9

(* On a device a listener need not see it registers nothing, and what another
   registers on that it need not see either; nor what it registers itself. *)
LEMMA Quietness ==
  ASSUME DrivesGiven, NEW l \in Listeners, NEW d \in Known
  PROVE  /\ Quiet(l, d) => d \notin Drives /\ Dev!Registers(l, d) = {}
         /\ \A k \in Listeners : \A x \in Dev!Registers(k, d) : Quiet(l, d) => Quiet(l, x)
         /\ \A x \in Dev!Registers(l, d) : Quiet(l, x)
  <1>1. \A e \in Drives : e.type = "drive" /\ e.on = <<>>
    BY DEF DrivesGiven
  <1>2. Quiet(l, d) => d \notin Drives
    BY <1>1 DEF Quiet
  <1>3. ASSUME Quiet(l, d), NEW x \in Dev!Registers(l, d) PROVE FALSE
    BY <1>2, <1>3, Offspring DEF Quiet
  <1>4. ASSUME NEW k \in Listeners, NEW x \in Dev!Registers(k, d), Quiet(l, d)
        PROVE  Quiet(l, x)
    BY <1>4, Offspring DEF Quiet
  <1>5. ASSUME NEW x \in Dev!Registers(l, d) PROVE Quiet(l, x)
    BY Offspring DEF Quiet
  <1>6. QED
    BY <1>2, <1>3, <1>4, <1>5

(* A known device that stands on nothing is one of main's drives. *)
LEMMA OnNothing ==
  ASSUME DrivesGiven, NEW d \in Known, d.on = <<>>
  PROVE  d \in Drives
  <1>1. \A e \in Drives : e.id # <<>> /\ Dev!Cache(e).id # <<>>
    BY Identities
  <1>2. \A e \in Caches : e.on # <<>> /\ e.id # <<>>
    BY <1>1 DEF Caches, Dev!Cache
  <1>3. \A e \in Systems : e.on # <<>>
    BY <1>1, <1>2 DEF Systems, Dev!FileSystem
  <1>4. QED
    BY <1>2, <1>3 DEF Known

-----------------------------------------------------------------------------
(* The steps                                                               *)

(* The counting of the module is that of the library. *)
LEMMA SameCounting == ASSUME NEW S PROVE Dev!Cardinality(S) = Cardinality(S)
  BY Zenon DEF Dev!Cardinality, Cardinality

(* What listeners are told are pairs of a listener and a device. *)
LEMMA Tellings ==
  ASSUME DevTyped, NEW k \in DOMAIN told
  PROVE  /\ told[k] = [listener |-> told[k].listener, device |-> told[k].device]
         /\ told[k].listener \in Listeners /\ told[k].device \in Known
  <1> DEFINE T == [listener: Listeners, device: Known]
  <1>1. told \in Seq(T)
    BY DEF DevTyped
  <1> HIDE DEF T
  <1>2. told[k] \in T
    BY <1>1
  <1>3. QED
    BY <1>2 DEF T

(* How often a listener has been told of a device grows with what is told. *)
LEMMA TimesGrow ==
  ASSUME DevTyped, NEW l, NEW d
  PROVE  /\ Dev!Times(l, d) \in Nat
         /\ Dev!Times(l, d) = 0 <=>
              \A k \in DOMAIN told : told[k] # [listener |-> l, device |-> d]
         /\ \A k \in Listeners, e \in Known :
              told' = Append(told, [listener |-> k, device |-> e]) =>
                Dev!Times(l, d)' = Dev!Times(l, d) + (IF k = l /\ e = d THEN 1 ELSE 0)
  <1> DEFINE p == [listener |-> l, device |-> d]
             T == [listener: Listeners, device: Known]
  <1>1. told \in Seq(T)
    BY DEF DevTyped
  <1>2. /\ Dev!Times(l, d) = Count(told, p)
        /\ Dev!Times(l, d)' = Count(told', p)
    BY SameCounting DEF Dev!Times, Count
  <1>3. \A k \in Listeners, e \in Known : [listener |-> k, device |-> e] \in T
    OBVIOUS
  <1>4. \A k \in Listeners, e \in Known : [listener |-> k, device |-> e] = p <=> k = l /\ e = d
    OBVIOUS
  <1> HIDE DEF p, T
  <1>5. ASSUME NEW k \in Listeners, NEW e \in Known,
               told' = Append(told, [listener |-> k, device |-> e])
        PROVE  Dev!Times(l, d)' = Dev!Times(l, d) + (IF k = l /\ e = d THEN 1 ELSE 0)
    <2> DEFINE t == [listener |-> k, device |-> e]
    <2>1. t \in T /\ (t = p <=> k = l /\ e = d)
      BY <1>3, <1>4
    <2>2. told' = Append(told, t)
      BY <1>5
    <2> HIDE DEF t
    <2>3. Count(Append(told, t), p)
            = Count(told, p) + (IF t = p THEN 1 ELSE 0)
      BY <1>1, <2>1, Occurrences
    <2>4. QED
      BY <1>2, <2>1, <2>2, <2>3
  <1>6. /\ Count(told, p) \in Nat
        /\ Count(told, p) = 0 <=> \A k \in DOMAIN told : told[k] # p
    <2>1. CASE told = <<>>
      <3>1. {i \in DOMAIN told : told[i] = p} = {} /\ DOMAIN told = {}
        BY <2>1
      <3>2. QED
        BY <3>1, FS_EmptySet DEF Count
    <2>2. CASE told # <<>>
      <3>1. told[1] \in T
        <4>1. 1 \in DOMAIN told
          BY <1>1, <2>2
        <4>2. QED
          BY <1>1, <4>1
      <3>2. QED
        BY <1>1, <3>1, Occurrences
    <2>3. QED
      BY <2>1, <2>2
  <1>7. QED
    BY <1>2, <1>5, <1>6 DEF p

(* A device a listener registers is new, unless the listener has been told
   before of the device below. *)
LEMMA NewOffspring ==
  ASSUME DrivesGiven, DevInv, NEW l \in Listeners, NEW d \in Known, Dev!Times(l, d) = 0,
         NEW x \in Dev!Registers(l, d)
  PROVE  x \in Known /\ x \notin Drives /\ x \notin Dev!Everything
  <1>1. x \in Known /\ x \notin Drives
    BY Offspring, OffspringKnown
  <1>2. ASSUME x \in Dev!Everything PROVE FALSE
    <2>1. PICK k \in DOMAIN told : x \in Dev!Registers(told[k].listener, told[k].device)
      BY <1>1, <1>2 DEF DevInv, Registry
    <2>2. /\ told[k] = [listener |-> told[k].listener, device |-> told[k].device]
          /\ told[k].listener \in Listeners /\ told[k].device \in Known
      BY Tellings DEF DevInv
    <2>3. told[k].listener = l /\ told[k].device = d
      BY <2>1, <2>2, OneParent
    <2>4. QED
      BY <2>2, <2>3, TimesGrow DEF DevInv
  <1>3. QED
    BY <1>1, <1>2

(* Of what is not registered nobody has been told. *)
LEMMA NotToldYet ==
  ASSUME DevInv, NEW x, x \notin Dev!Everything, NEW l
  PROVE  Dev!Times(l, x) = 0
  <1>1. \A k \in DOMAIN told : told[k].device # x
    BY DEF DevInv, Registry
  <1>2. \A k \in DOMAIN told : told[k] # [listener |-> l, device |-> x]
    BY <1>1
  <1>3. QED
    BY <1>2, TimesGrow DEF DevInv

(* Between calls everything is settled. *)
LEMMA IdleSettled ==
  ASSUME DevInv, stack = <<>>, NEW i \in DOMAIN devices, NEW j \in DOMAIN listeners
  PROVE  Settled(listeners[j], devices[i])
  <1>1. DOMAIN stack = {}
    OBVIOUS
  <1>2. QED
    BY <1>1 DEF DevInv, Counted, OnStack, Walking

(* What Tell does: who is told of what, and whether a device x comes of it,
   then o = 1 and a call is entered on top of the others. *)
LEMMA Telling ==
  ASSUME DrivesGiven, DevInv, Dev!Tell
  PROVE  \E l \in Listeners, d \in Known, o \in {0, 1}, x \in Known :
           /\ stack # <<>> /\ listeners' = listeners /\ gone' = gone
           /\ \/ /\ stack[1].walk = "listeners" /\ stack[1].next \in DOMAIN listeners
                 /\ l = listeners[stack[1].next] /\ d = stack[1].subject
              \/ /\ stack[1].walk = "devices" /\ stack[1].next \in DOMAIN devices
                 /\ l = stack[1].subject /\ d = devices[stack[1].next]
           /\ told' = Append(told, [listener |-> l, device |-> d])
           /\ o = 0 => Dev!Registers(l, d) = {} /\ devices' = devices
           /\ o = 1 => /\ x \in Dev!Registers(l, d) /\ devices' = Append(devices, x)
                       /\ stack'[1] = [walk |-> "listeners", subject |-> x, next |-> 1]
           /\ stack' \in Seq(Calls) /\ Len(stack') = Len(stack) + o
           /\ stack'[1 + o] = [stack[1] EXCEPT !.next = @ + 1]
           /\ \A k \in 2 .. Len(stack) : stack'[k + o] = stack[k]
  <1> DEFINE frame == Head(stack)
             list == IF frame.walk = "listeners" THEN listeners ELSE devices
             more == [frame EXCEPT !.next = @ + 1]
             here == <<more>> \o Tail(stack)
             l == IF frame.walk = "listeners" THEN list[frame.next] ELSE frame.subject
             d == IF frame.walk = "listeners" THEN frame.subject ELSE list[frame.next]
  <1>1. /\ stack # <<>> /\ frame.next <= Len(list)
        /\ told' = Append(told, [listener |-> l, device |-> d])
        /\ IF Dev!Registers(l, d) = {} THEN stack' = here /\ devices' = devices
           ELSE \E x \in Dev!Registers(l, d) :
                  devices' = Append(devices, x) /\ stack' = Dev!CallListeners(x, here)
        /\ listeners' = listeners /\ gone' = gone
    BY DEF Dev!Tell, Dev!Idle
  <1>2. /\ stack \in Seq(Calls) /\ frame = stack[1] /\ frame \in Calls
        /\ devices \in Seq(Known) /\ listeners \in Seq(Listeners)
    BY <1>1 DEF DevInv, DevTyped
  <1>3. frame.next \in DOMAIN list
    BY <1>1, <1>2 DEF Calls
  <1>4. l \in Listeners /\ d \in Known
    <2>1. CASE frame.walk = "listeners"
      BY <2>1, <1>2, <1>3 DEF Calls
    <2>2. CASE frame.walk # "listeners"
      BY <2>2, <1>2, <1>3 DEF Calls
    <2>3. QED
      BY <2>1, <2>2
  <1>5. \/ /\ stack[1].walk = "listeners" /\ stack[1].next \in DOMAIN listeners
           /\ l = listeners[stack[1].next] /\ d = stack[1].subject
        \/ /\ stack[1].walk = "devices" /\ stack[1].next \in DOMAIN devices
           /\ l = stack[1].subject /\ d = devices[stack[1].next]
    BY <1>2, <1>3 DEF Calls
  <1>6. more \in Calls
    BY <1>2 DEF Calls
  <1> HIDE DEF l, d, list, more, frame
  <1>7. /\ here \in Seq(Calls) /\ Len(here) = Len(stack) /\ here[1] = more
        /\ \A k \in 2 .. Len(stack) : here[k] = stack[k]
        /\ Len(stack) \in Nat
    BY <1>1, <1>2, <1>6, Advancing
  <1>8. more = [stack[1] EXCEPT !.next = @ + 1]
    BY <1>2 DEF more
  <1> HIDE DEF here
  <1>9. CASE Dev!Registers(l, d) = {}
    <2>1. stack' = here /\ devices' = devices
      BY <1>1, <1>9
    <2>2. /\ stack' \in Seq(Calls) /\ Len(stack') = Len(stack) + 0
          /\ stack'[1 + 0] = [stack[1] EXCEPT !.next = @ + 1]
          /\ \A k \in 2 .. Len(stack) : stack'[k + 0] = stack[k]
      BY <2>1, <1>7, <1>8
    <2>3. 0 \in {0, 1} /\ 0 # 1
      OBVIOUS
    <2>4. QED
      BY <1>1, <1>4, <1>5, <1>9, <2>1, <2>2, <2>3, Zenon
  <1>10. CASE Dev!Registers(l, d) # {}
    <2>1. PICK x \in Dev!Registers(l, d) :
            devices' = Append(devices, x) /\ stack' = Dev!CallListeners(x, here)
      BY <1>1, <1>10
    <2> DEFINE call == [walk |-> "listeners", subject |-> x, next |-> 1]
    <2>2. stack' = <<call>> \o here
      BY <2>1 DEF Dev!CallListeners
    <2>3. call \in Calls
      BY <1>4, OffspringKnown DEF Calls
    <2> HIDE DEF call
    <2>4. /\ stack' \in Seq(Calls) /\ Len(stack') = Len(stack) + 1 /\ stack'[1] = call
          /\ \A k \in 1 .. Len(stack) : stack'[k + 1] = here[k]
      BY <1>7, <2>2, <2>3, Entering
    <2>5. 1 \in 1 .. Len(stack)
      BY <1>1, <1>2
    <2>6. stack'[1 + 1] = [stack[1] EXCEPT !.next = @ + 1]
      BY <1>7, <1>8, <2>4, <2>5
    <2>7. \A k \in 2 .. Len(stack) : stack'[k + 1] = stack[k]
      BY <1>7, <2>4
    <2>8. /\ stack' \in Seq(Calls) /\ Len(stack') = Len(stack) + 1
          /\ 1 \in {0, 1} /\ 1 # 0 /\ x \in Known
          /\ stack'[1] = [walk |-> "listeners", subject |-> x, next |-> 1]
      BY <2>4, <1>4, OffspringKnown DEF call
    <2> HIDE DEF call
    <2>9. QED
      BY <1>1, <1>4, <1>5, <2>1, <2>6, <2>7, <2>8, Zenon
  <1>11. QED
    BY <1>9, <1>10

(* A device at the end of the list: the others stay where they are. *)
LEMMA Lengthening ==
  ASSUME NEW S, NEW s \in Seq(S), NEW x \in S, NEW t, t = Append(s, x)
  PROVE  /\ t \in Seq(S) /\ Len(t) = Len(s) + 1 /\ Len(s) \in Nat
         /\ DOMAIN s = 1 .. Len(s) /\ DOMAIN t = 1 .. Len(s) + 1
         /\ t[Len(s) + 1] = x
         /\ \A i \in DOMAIN s : i \in DOMAIN t /\ t[i] = s[i]
  <1>1. /\ Append(s, x) \in Seq(S) /\ Len(Append(s, x)) = Len(s) + 1 /\ Len(s) \in Nat
        /\ Append(s, x)[Len(s) + 1] = x
        /\ \A i \in 1 .. Len(s) : Append(s, x)[i] = s[i]
    BY AppendProperties, LenProperties
  <1>2. DOMAIN s = 1 .. Len(s) /\ DOMAIN Append(s, x) = 1 .. Len(s) + 1
    BY <1>1, LenProperties
  <1>3. QED
    BY <1>1, <1>2

(* A listener is told of a device and may register one of its own. *)
LEMMA TellKeeps ==
  ASSUME DrivesGiven, DevInv, Dev!Tell
  PROVE  DevInv'
  <1>1. PICK l \in Listeners, d \in Known, o \in {0, 1}, x \in Known :
           /\ stack # <<>> /\ listeners' = listeners /\ gone' = gone
           /\ \/ /\ stack[1].walk = "listeners" /\ stack[1].next \in DOMAIN listeners
                 /\ l = listeners[stack[1].next] /\ d = stack[1].subject
              \/ /\ stack[1].walk = "devices" /\ stack[1].next \in DOMAIN devices
                 /\ l = stack[1].subject /\ d = devices[stack[1].next]
           /\ told' = Append(told, [listener |-> l, device |-> d])
           /\ o = 0 => Dev!Registers(l, d) = {} /\ devices' = devices
           /\ o = 1 => /\ x \in Dev!Registers(l, d) /\ devices' = Append(devices, x)
                       /\ stack'[1] = [walk |-> "listeners", subject |-> x, next |-> 1]
           /\ stack' \in Seq(Calls) /\ Len(stack') = Len(stack) + o
           /\ stack'[1 + o] = [stack[1] EXCEPT !.next = @ + 1]
           /\ \A k \in 2 .. Len(stack) : stack'[k + o] = stack[k]
    BY Telling, Zenon
  <1>2. /\ DevTyped /\ Registry /\ Nested /\ Counted
        /\ stack \in Seq(Calls) /\ devices \in Seq(Known) /\ listeners \in Seq(Listeners)
        /\ gone \subseteq Known
    BY DEF DevInv, DevTyped
  (* The frames of the calls under way. *)
  <1>3. /\ Len(stack) \in Nat \ {0} /\ DOMAIN stack = 1 .. Len(stack) /\ 1 \in DOMAIN stack
        /\ DOMAIN stack' = 1 .. Len(stack) + o /\ Len(devices) \in Nat
        /\ DOMAIN devices = 1 .. Len(devices) /\ Len(listeners) \in Nat
        /\ DOMAIN listeners = 1 .. Len(listeners)
    BY <1>1, <1>2
  <1>4. ASSUME NEW k \in DOMAIN stack
        PROVE  /\ stack[k] \in Calls /\ stack[k].walk \in {"listeners", "devices"}
               /\ stack[k].next \in Nat \ {0}
               /\ stack[k].walk = "listeners" => stack[k].subject \in Known
               /\ stack[k].walk = "devices" => stack[k].subject \in Listeners
    <2>1. stack[k] \in Calls
      BY <1>2
    <2>2. QED
      BY <2>1 DEF Calls
  <1>5. ASSUME NEW m \in DOMAIN stack
        PROVE  /\ m + o \in DOMAIN stack'
               /\ stack'[m + o].walk = stack[m].walk /\ stack'[m + o].subject = stack[m].subject
               /\ stack'[m + o].next = IF m = 1 THEN stack[m].next + 1 ELSE stack[m].next
    <2>1. m + o \in DOMAIN stack'
      BY <1>3
    <2>2. CASE m = 1
      <3>1. stack'[1 + o] = [stack[1] EXCEPT !.next = @ + 1] /\ stack[1] \in Calls
        BY <1>1, <1>3, <1>4
      <3>2. QED
        BY <2>1, <2>2, <3>1 DEF Calls
    <2>3. CASE m # 1
      <3>1. m \in 2 .. Len(stack)
        BY <2>3, <1>3
      <3>2. stack'[m + o] = stack[m]
        BY <3>1, <1>1
      <3>3. QED
        BY <2>1, <2>3, <3>2
    <2>4. QED
      BY <2>2, <2>3
  <1>6. ASSUME NEW k \in DOMAIN stack'
        PROVE  \/ o = 1 /\ k = 1 /\ stack'[k] = [walk |-> "listeners", subject |-> x, next |-> 1]
               \/ \E m \in DOMAIN stack : k = m + o
    <2>1. CASE o = 1 /\ k = 1
      BY <2>1, <1>1
    <2>2. CASE ~(o = 1 /\ k = 1)
      <3>1. k - o \in DOMAIN stack /\ k = (k - o) + o
        BY <2>2, <1>3
      <3>2. QED
        BY <3>1
    <2>3. QED
      BY <2>1, <2>2
  (* How often listeners have been told. *)
  <1>7. ASSUME NEW a, NEW b
        PROVE  /\ Dev!Times(a, b) \in Nat
               /\ Dev!Times(a, b)' = Dev!Times(a, b) + (IF a = l /\ b = d THEN 1 ELSE 0)
    <2>1. Dev!Times(a, b)' = Dev!Times(a, b) + (IF l = a /\ d = b THEN 1 ELSE 0)
      <3>1. told' = Append(told, [listener |-> l, device |-> d])
        BY <1>1
      <3>2. QED
        BY <3>1, <1>2, TimesGrow, Zenon
    <2>2. QED
      BY <2>1, <1>2, TimesGrow
  (* The list walked and the place in it. *)
  <1>8. /\ \E i \in DOMAIN devices : d = devices[i]
        /\ \E j \in DOMAIN listeners : l = listeners[j]
    <2>1. CASE stack[1].walk = "listeners"
      BY <2>1, <1>1, <1>2, <1>3 DEF Nested
    <2>2. CASE stack[1].walk = "devices"
      <3>1. listeners # <<>> /\ stack[1].subject = listeners[Len(listeners)]
        BY <2>2, <1>2, <1>3 DEF Nested
      <3>2. Len(listeners) \in DOMAIN listeners
        BY <3>1, <1>2, <1>3
      <3>3. QED
        BY <2>2, <1>1, <3>1, <3>2
    <2>3. QED
      BY <2>1, <2>2, <1>3, <1>4
  (* A listener that walks the devices walks alone. *)
  <1>9. ASSUME stack[1].walk = "devices"
        PROVE  /\ Len(stack) = 1
               /\ \A b : ~OnStack(b)
    <2>1. Len(stack) = 1
      BY <1>2, <1>3, <1>9 DEF Nested
    <2>2. QED
      BY <2>1, <1>3, <1>9 DEF OnStack
  (* The listener has not been told of the device before, or need not. *)
  <1>10. \/ Dev!Times(l, d) = 0
         \/ /\ stack[1].walk = "devices" /\ Dev!Times(l, d) = 1 /\ Quiet(l, d)
    <2>1. CASE stack[1].walk = "listeners"
      <3>1. Dev!Times(listeners[stack[1].next], stack[1].subject) = 0
        BY <2>1, <1>1, <1>2, <1>3, <1>4 DEF Counted
      <3>2. QED
        BY <2>1, <3>1, <1>1
    <2>2. CASE stack[1].walk = "devices"
      <3>1. ~OnStack(d) /\ stack[1].next \in DOMAIN devices /\ ~(stack[1].next < stack[1].next)
        BY <2>2, <1>1, <1>4, <1>3, <1>9
      <3>2. l = stack[1].subject /\ d = devices[stack[1].next]
        BY <2>2, <1>1
      <3>3. QED
        BY <2>2, <3>1, <3>2, <1>2, <1>3 DEF Counted
    <2>3. QED
      BY <2>1, <2>2, <1>3, <1>4
  (* What comes of it is new. *)
  <1>11. ASSUME o = 1
         PROVE  /\ x \in Known /\ x \notin Drives /\ x \notin Dev!Everything
                /\ \A a : Dev!Times(a, x) = 0
    <2>1. Dev!Times(l, d) = 0
      BY <1>1, <1>2, <1>10, <1>11, Quietness
    <2>2. x \in Known /\ x \notin Drives /\ x \notin Dev!Everything
      BY <1>1, <1>11, <2>1, NewOffspring
    <2>3. QED
      BY <2>2, NotToldYet
  <1>12. /\ \A y : y \in Dev!Everything <=> y \in gone \/ \E i \in DOMAIN devices : y = devices[i]
         /\ \A y : y \in Dev!Everything' <=>
              y \in gone' \/ \E i \in DOMAIN devices' : y = devices'[i]
    BY DEF Dev!Everything, Dev!ToSet
  <1>13. /\ devices' \in Seq(Known) /\ DOMAIN devices' = 1 .. Len(devices) + o
         /\ Len(devices') = Len(devices) + o
         /\ \A i \in DOMAIN devices : i \in DOMAIN devices' /\ devices'[i] = devices[i]
         /\ o = 1 => devices'[Len(devices) + 1] = x
    <2>1. CASE o = 0
      BY <2>1, <1>1, <1>2, <1>3
    <2>2. CASE o = 1
      <3>1. devices' = Append(devices, x) /\ devices \in Seq(Known) /\ x \in Known
        BY <2>2, <1>1, <1>2, <1>11
      <3>2. /\ devices' \in Seq(Known) /\ DOMAIN devices' = 1 .. Len(devices) + 1
            /\ Len(devices') = Len(devices) + 1
            /\ \A i \in DOMAIN devices : i \in DOMAIN devices' /\ devices'[i] = devices[i]
            /\ devices'[Len(devices) + 1] = x
        BY <3>1, Lengthening
      <3>3. QED
        BY <2>2, <3>2
    <2>3. QED
      BY <2>1, <2>2
  <1>14. ASSUME NEW i \in DOMAIN devices'
         PROVE  \/ i \in DOMAIN devices /\ devices'[i] = devices[i]
                \/ o = 1 /\ i = Len(devices) + 1 /\ devices'[i] = x
    BY <1>3, <1>13
  <1>15. \A y : y \in Dev!Everything' <=> y \in Dev!Everything \/ (o = 1 /\ y = x)
    <2>1. ASSUME NEW y \in Dev!Everything' PROVE y \in Dev!Everything \/ (o = 1 /\ y = x)
      BY <1>1, <1>12, <1>14
    <2>2. ASSUME NEW y \in Dev!Everything PROVE y \in Dev!Everything'
      BY <1>1, <1>12, <1>13
    <2>3. ASSUME o = 1 PROVE x \in Dev!Everything'
      <3>1. Len(devices) + 1 \in DOMAIN devices'
        BY <2>3, <1>3, <1>13
      <3>2. QED
        BY <2>3, <3>1, <1>12, <1>13
    <2>4. QED
      BY <2>1, <2>2, <2>3
  (* Who is on the stack. *)
  <1>16. ASSUME NEW y
         PROVE  OnStack(y)' <=> OnStack(y) \/ (o = 1 /\ y = x)
    <2>1. ASSUME OnStack(y)' PROVE OnStack(y) \/ (o = 1 /\ y = x)
      <3>1. PICK k \in DOMAIN stack' : stack'[k].walk = "listeners" /\ stack'[k].subject = y
        BY <2>1 DEF OnStack
      <3>2. CASE o = 1 /\ k = 1 /\ stack'[k] = [walk |-> "listeners", subject |-> x, next |-> 1]
        BY <3>1, <3>2
      <3>3. CASE \E m \in DOMAIN stack : k = m + o
        BY <3>1, <3>3, <1>5 DEF OnStack
      <3>4. QED
        BY <3>2, <3>3, <1>6
    <2>2. ASSUME OnStack(y) PROVE OnStack(y)'
      BY <2>2, <1>5 DEF OnStack
    <2>3. ASSUME o = 1, y = x PROVE OnStack(y)'
      <3>1. 1 \in DOMAIN stack' /\ stack'[1].walk = "listeners" /\ stack'[1].subject = x
        BY <2>3, <1>1, <1>3
      <3>2. QED
        BY <2>3, <3>1 DEF OnStack
    <2>4. QED
      BY <2>1, <2>2, <2>3
  <1>17. ASSUME NEW a
         PROVE  Walking(a)' <=> Walking(a)
    <2>1. ASSUME Walking(a)' PROVE Walking(a)
      <3>1. PICK k \in DOMAIN stack' : stack'[k].walk = "devices" /\ stack'[k].subject = a
        BY <2>1 DEF Walking
      <3>2. CASE o = 1 /\ k = 1 /\ stack'[k] = [walk |-> "listeners", subject |-> x, next |-> 1]
        BY <3>1, <3>2
      <3>3. CASE \E m \in DOMAIN stack : k = m + o
        BY <3>1, <3>3, <1>5 DEF Walking
      <3>4. QED
        BY <3>2, <3>3, <1>6
    <2>2. ASSUME Walking(a) PROVE Walking(a)'
      BY <2>2, <1>5 DEF Walking
    <2>3. QED
      BY <2>1, <2>2
  (* The invariant's parts. *)
  <1>18. DevTyped'
    <2>1. told' \in Seq([listener: Listeners, device: Known])
      <3> DEFINE T == [listener: Listeners, device: Known]
                 t == [listener |-> l, device |-> d]
      <3>1. told \in Seq(T) /\ t \in T
        BY <1>2 DEF DevTyped
      <3>2. told' = Append(told, t)
        BY <1>1
      <3> HIDE DEF T, t
      <3>3. told' \in Seq(T)
        BY <3>1, <3>2
      <3>4. QED
        BY <3>3 DEF T
    <2>2. QED
      BY <2>1, <1>1, <1>2, <1>13 DEF DevTyped
  <1>19. Registry'
    <2>1. \A i, j \in DOMAIN devices' : devices'[i] = devices'[j] => i = j
      <3>1. \A i \in DOMAIN devices : o = 1 => devices[i] # x
        BY <1>11, <1>12
      <3>2. \A i, j \in DOMAIN devices : devices[i] = devices[j] => i = j
        BY <1>2 DEF Registry
      <3>3. QED
        BY <3>1, <3>2, <1>14
    <2>2. \A i, j \in DOMAIN listeners' : listeners'[i] = listeners'[j] => i = j
      BY <1>1, <1>2 DEF Registry
    <2>3. \A i \in DOMAIN devices' : devices'[i] \notin gone'
      <3>1. o = 1 => x \notin gone
        BY <1>11, <1>12
      <3>2. \A i \in DOMAIN devices : devices[i] \notin gone
        BY <1>2 DEF Registry
      <3>3. QED
        BY <3>1, <3>2, <1>1, <1>14
    (* What has been told stays in its place, and one more is told. *)
    <2>4. /\ \A k \in DOMAIN told : k \in DOMAIN told' /\ told'[k] = told[k]
          /\ \A k \in DOMAIN told' :
               \/ k \in DOMAIN told /\ told'[k] = told[k]
               \/ told'[k] = [listener |-> l, device |-> d]
          /\ \E k \in DOMAIN told' : told'[k] = [listener |-> l, device |-> d]
      <3> DEFINE T == [listener: Listeners, device: Known]
                 t == [listener |-> l, device |-> d]
      <3>1. told \in Seq(T) /\ t \in T
        BY <1>2 DEF DevTyped
      <3>2. told' = Append(told, t)
        BY <1>1
      <3> HIDE DEF T, t
      <3>3. /\ Len(told) \in Nat
            /\ DOMAIN told = 1 .. Len(told) /\ DOMAIN told' = 1 .. Len(told) + 1
            /\ told'[Len(told) + 1] = t
            /\ \A k \in DOMAIN told : k \in DOMAIN told' /\ told'[k] = told[k]
        BY <3>1, <3>2, Lengthening
      <3>4. Len(told) + 1 \in DOMAIN told'
        BY <3>3
      <3>5. \A k \in DOMAIN told' : k \in DOMAIN told \/ k = Len(told) + 1
        BY <3>3
      <3>6. QED
        BY <3>3, <3>4, <3>5 DEF t
    <2>5. ASSUME NEW y \in Dev!Everything' \ Drives
          PROVE  \E k \in DOMAIN told' : y \in Dev!Registers(told'[k].listener, told'[k].device)
      <3>1. CASE y \in Dev!Everything
        <4>1. PICK k \in DOMAIN told : y \in Dev!Registers(told[k].listener, told[k].device)
          BY <3>1, <2>5, <1>2 DEF Registry
        <4>2. QED
          BY <4>1, <2>4
      <3>2. CASE o = 1 /\ y = x
        <4>1. y \in Dev!Registers(l, d)
          BY <3>2, <1>1
        <4>2. PICK k \in DOMAIN told' : told'[k] = [listener |-> l, device |-> d]
          BY <2>4
        <4>3. told'[k].listener = l /\ told'[k].device = d
          BY <4>2
        <4>4. QED
          BY <4>1, <4>3
      <3>3. QED
        BY <3>1, <3>2, <2>5, <1>15
    <2>6. ASSUME NEW k \in DOMAIN told'
          PROVE  /\ told'[k].device \in Dev!Everything'
                 /\ Dev!Registers(told'[k].listener, told'[k].device) \subseteq Dev!Everything'
      <3>1. CASE k \in DOMAIN told /\ told'[k] = told[k]
        <4>1. /\ told[k].device \in Dev!Everything
              /\ Dev!Registers(told[k].listener, told[k].device) \subseteq Dev!Everything
          BY <3>1, <1>2 DEF Registry
        <4>2. QED
          BY <3>1, <4>1, <1>15
      <3>2. CASE told'[k] = [listener |-> l, device |-> d]
        <4>1. told'[k].listener = l /\ told'[k].device = d
          BY <3>2
        <4>2. d \in Dev!Everything'
          BY <1>8, <1>12, <1>15
        <4>3. \A y, z \in Dev!Registers(l, d) : y = z
          BY DEF Dev!Registers
        <4>4. Dev!Registers(l, d) \subseteq Dev!Everything'
          BY <4>3, <1>1, <1>15
        <4>5. QED
          BY <4>1, <4>2, <4>4
      <3>3. QED
        BY <3>1, <3>2, <2>4
    <2>7. QED
      BY <2>1, <2>2, <2>3, <2>5, <2>6 DEF Registry, Dev!Registers, Dev!Cache, Dev!FileSystem
  <1>20. Nested'
    <2>1. ASSUME NEW k \in DOMAIN stack', stack'[k].walk = "devices"
          PROVE  /\ k = Len(stack') /\ listeners' # <<>>
                 /\ stack'[k].subject = listeners'[Len(listeners')]
                 /\ stack'[k].next <= Len(devices') + 1
                 /\ \A m \in DOMAIN stack' : m # k =>
                      /\ Quiet(stack'[k].subject, stack'[m].subject)
                      /\ \A i \in DOMAIN devices' :
                           i < stack'[k].next => devices'[i] # stack'[m].subject
      <3>1. PICK n \in DOMAIN stack : k = n + o
        BY <2>1, <1>6
      <3>2. /\ stack[n].walk = "devices" /\ stack'[k].subject = stack[n].subject
            /\ stack'[k].next = IF n = 1 THEN stack[n].next + 1 ELSE stack[n].next
        BY <2>1, <3>1, <1>5
      <3>3. /\ n = Len(stack) /\ listeners # <<>>
            /\ stack[n].subject = listeners[Len(listeners)]
            /\ stack[n].next <= Len(devices) + 1 /\ stack[n].next \in Nat
            /\ \A m \in DOMAIN stack : m # n =>
                 /\ Quiet(stack[n].subject, stack[m].subject)
                 /\ \A i \in DOMAIN devices : i < stack[n].next => devices[i] # stack[m].subject
        BY <3>2, <1>2, <1>4 DEF Nested
      <3>4. stack'[k].next <= Len(devices) + 1
        <4>1. CASE n = 1
          <5>1. stack[1].next \in DOMAIN devices
            BY <4>1, <3>2, <1>1
          <5>2. QED
            BY <4>1, <5>1, <3>2, <1>3
        <4>2. CASE n # 1
          BY <4>2, <3>2, <3>3
        <4>3. QED
          BY <4>1, <4>2
      <3>5. ASSUME NEW m \in DOMAIN stack', m # k
            PROVE  /\ Quiet(stack'[k].subject, stack'[m].subject)
                   /\ \A i \in DOMAIN devices' :
                        i < stack'[k].next => devices'[i] # stack'[m].subject
        <4>1. \A i \in DOMAIN devices' : i < stack'[k].next => i \in DOMAIN devices
          BY <3>3, <3>4, <3>2, <1>3, <1>13
        <4>2. CASE o = 1 /\ m = 1 /\ stack'[m] = [walk |-> "listeners", subject |-> x, next |-> 1]
          <5>1. stack'[m].subject = x /\ x \in Dev!Registers(l, d) /\ x \notin Dev!Everything
            BY <4>2, <1>1, <1>11
          <5>2. \A i \in DOMAIN devices' : i < stack'[k].next => devices'[i] # x
            BY <4>1, <5>1, <1>12, <1>13
          <5>3. Quiet(stack[n].subject, x)
            <6>1. CASE n = 1
              <7>1. l = stack[n].subject
                BY <6>1, <3>2, <1>1
              <7>2. QED
                BY <7>1, <5>1, Quietness
            <6>2. CASE n # 1
              <7>1. stack[1].walk # "devices" /\ stack[n].subject \in Listeners
                BY <6>2, <3>2, <3>3, <1>3, <1>4, <1>9
              <7>2. d = stack[1].subject /\ Quiet(stack[n].subject, stack[1].subject)
                BY <6>2, <7>1, <3>3, <1>1, <1>3
              <7>3. QED
                BY <7>1, <7>2, <5>1, Quietness
            <6>3. QED
              BY <6>1, <6>2
          <5>4. QED
            BY <5>1, <5>2, <5>3, <3>2
        <4>3. CASE \E q \in DOMAIN stack : m = q + o
          <5>1. PICK q \in DOMAIN stack : m = q + o
            BY <4>3
          <5>2. q # n /\ stack'[m].subject = stack[q].subject
            BY <5>1, <3>1, <3>5, <1>5
          <5>3. n # 1
            BY <5>2, <3>3, <1>3
          <5>4. stack'[k].next = stack[n].next
            BY <5>3, <3>2
          <5>5. QED
            BY <5>2, <5>4, <4>1, <3>2, <3>3, <1>13
        <4>4. QED
          BY <4>2, <4>3, <1>6
      <3>6. k = Len(stack')
        BY <3>1, <3>3, <1>1
      <3>7. stack'[k].next <= Len(devices') + 1
        BY <3>2, <3>3, <3>4, <1>3, <1>13
      <3>8. QED
        BY <3>2, <3>3, <3>5, <3>6, <3>7, <1>1
    <2>2. ASSUME NEW k \in DOMAIN stack', stack'[k].walk = "listeners"
          PROVE  /\ stack'[k].next <= Len(listeners') + 1
                 /\ \E i \in DOMAIN devices' : stack'[k].subject = devices'[i]
                 /\ \A m \in DOMAIN stack' :
                      stack'[m].walk = "listeners" /\ stack'[m].subject = stack'[k].subject => m = k
      (* No other call is for the new device. *)
      <3>1. ASSUME NEW m \in DOMAIN stack, stack[m].walk = "listeners"
            PROVE  /\ o = 1 => stack[m].subject # x
                   /\ \E i \in DOMAIN devices : stack[m].subject = devices[i]
        BY <3>1, <1>2, <1>11, <1>12 DEF Nested
      <3>2. CASE o = 1 /\ k = 1 /\ stack'[k] = [walk |-> "listeners", subject |-> x, next |-> 1]
        <4>1. stack'[k].next = 1 /\ stack'[k].subject = x
          BY <3>2
        <4>2. Len(devices) + 1 \in DOMAIN devices' /\ devices'[Len(devices) + 1] = x
          BY <3>2, <1>3, <1>13
        <4>3. ASSUME NEW m \in DOMAIN stack', stack'[m].walk = "listeners", stack'[m].subject = x
              PROVE  m = k
          <5>1. CASE \E q \in DOMAIN stack : m = q + o
            <6>1. PICK q \in DOMAIN stack : m = q + o
              BY <5>1
            <6>2. stack[q].walk = "listeners" /\ stack[q].subject = x
              BY <4>3, <6>1, <1>5
            <6>3. QED
              BY <6>2, <3>1, <3>2
          <5>2. QED
            BY <5>1, <3>2, <1>6
        <4>4. stack'[k].next <= Len(listeners') + 1
          BY <4>1, <1>1, <1>3
        <4>5. QED
          BY <4>1, <4>2, <4>3, <4>4
      <3>3. CASE \E n \in DOMAIN stack : k = n + o
        <4>1. PICK n \in DOMAIN stack : k = n + o
          BY <3>3
        <4>2. /\ stack[n].walk = "listeners" /\ stack'[k].subject = stack[n].subject
              /\ stack'[k].next = IF n = 1 THEN stack[n].next + 1 ELSE stack[n].next
          BY <4>1, <2>2, <1>5
        <4>3. /\ stack[n].next <= Len(listeners) + 1 /\ stack[n].next \in Nat
              /\ \A m \in DOMAIN stack :
                   stack[m].walk = "listeners" /\ stack[m].subject = stack[n].subject => m = n
          BY <4>2, <1>2, <1>4 DEF Nested
        <4>4. stack'[k].next <= Len(listeners') + 1
          <5>1. CASE n = 1
            <6>1. stack[1].next \in DOMAIN listeners
              BY <5>1, <4>2, <1>1
            <6>2. QED
              BY <5>1, <6>1, <4>2, <1>1, <1>3
          <5>2. CASE n # 1
            BY <5>2, <4>2, <4>3, <1>1
          <5>3. QED
            BY <5>1, <5>2
        <4>5. \E i \in DOMAIN devices' : stack'[k].subject = devices'[i]
          BY <4>2, <3>1, <1>13
        <4>6. ASSUME NEW m \in DOMAIN stack', stack'[m].walk = "listeners",
                     stack'[m].subject = stack'[k].subject
              PROVE  m = k
          <5>1. CASE o = 1 /\ m = 1 /\ stack'[m] = [walk |-> "listeners", subject |-> x, next |-> 1]
            BY <5>1, <4>2, <4>6, <3>1
          <5>2. CASE \E q \in DOMAIN stack : m = q + o
            <6>1. PICK q \in DOMAIN stack : m = q + o
              BY <5>2
            <6>2. stack[q].walk = "listeners" /\ stack[q].subject = stack[n].subject
              BY <6>1, <4>2, <4>6, <1>5
            <6>3. QED
              BY <6>1, <6>2, <4>1, <4>3
          <5>3. QED
            BY <5>1, <5>2, <1>6
        <4>7. QED
          BY <4>4, <4>5, <4>6
      <3>4. QED
        BY <3>2, <3>3, <1>6
    <2>3. QED
      BY <2>1, <2>2 DEF Nested, Quiet
  <1>21. Counted'
    <2>1. /\ \A i, j \in DOMAIN devices : devices[i] = devices[j] => i = j
          /\ \A i, j \in DOMAIN listeners : listeners[i] = listeners[j] => i = j
      BY <1>2 DEF Registry
    (* The new device is on the stack, and nobody is told of it yet. *)
    <2>2. ASSUME o = 1 PROVE x # d /\ OnStack(x)' /\ \A a : Dev!Times(a, x)' = 0
      <3>1. x # d
        BY <2>2, <1>8, <1>11, <1>12
      <3>2. ASSUME NEW a PROVE Dev!Times(a, x)' = 0
        <4>1. Dev!Times(a, x)' = Dev!Times(a, x) + (IF a = l /\ x = d THEN 1 ELSE 0)
          BY <1>7
        <4>2. QED
          BY <4>1, <3>1, <2>2, <1>11
      <3>3. QED
        BY <2>2, <3>1, <3>2, <1>16
    (* A device that is not on the stack is an old one. *)
    <2>3. ASSUME NEW i \in DOMAIN devices', NEW b, b = devices'[i], ~OnStack(b)'
          PROVE  i \in DOMAIN devices /\ devices[i] = b /\ ~OnStack(b)
      BY <2>3, <2>2, <1>14, <1>16
    <2>4. ASSUME stack[1].walk = "listeners" PROVE OnStack(d)
      BY <2>4, <1>1, <1>3 DEF OnStack
    <2>5. ASSUME stack[1].walk = "devices" PROVE Walking(l)
      BY <2>5, <1>1, <1>3 DEF Walking
    <2>6. ASSUME NEW k \in DOMAIN stack', stack'[k].walk = "listeners",
                 NEW j \in DOMAIN listeners',
                 NEW a, a = listeners'[j], NEW b, b = stack'[k].subject
          PROVE  Dev!Times(a, b)' = IF j < stack'[k].next THEN 1 ELSE 0
      <3>1. CASE o = 1 /\ k = 1 /\ stack'[k] = [walk |-> "listeners", subject |-> x, next |-> 1]
        <4>1. b = x /\ stack'[k].next = 1 /\ j >= 1
          BY <3>1, <2>6, <1>1, <1>3
        <4>2. QED
          BY <3>1, <4>1, <2>2, <1>3
      <3>2. CASE \E n \in DOMAIN stack : k = n + o
        <4>1. PICK n \in DOMAIN stack : k = n + o
          BY <3>2
        <4>2. /\ stack[n].walk = "listeners" /\ b = stack[n].subject
              /\ stack'[k].next = IF n = 1 THEN stack[n].next + 1 ELSE stack[n].next
          BY <4>1, <2>6, <1>5
        <4>3. /\ a = listeners[j] /\ j \in DOMAIN listeners
              /\ j \in Nat /\ stack[n].next \in Nat
          BY <2>6, <1>1, <1>3, <1>4
        <4>4. Dev!Times(a, b) = IF j < stack[n].next THEN 1 ELSE 0
          BY <4>2, <4>3, <1>2 DEF Counted
        <4>5. Dev!Times(a, b)' = Dev!Times(a, b) + (IF a = l /\ b = d THEN 1 ELSE 0)
          BY <1>7
        <4>6. CASE n = 1
          <5>1. /\ stack[1].next \in DOMAIN listeners
                /\ l = listeners[stack[1].next] /\ d = b
            BY <4>2, <4>6, <1>1
          <5>2. a = l <=> j = stack[1].next
            BY <5>1, <4>3, <2>1
          <5>3. Dev!Times(a, b)' = IF j < stack[n].next + 1 THEN 1 ELSE 0
            BY <4>3, <4>4, <4>5, <4>6, <5>1, <5>2
          <5>4. QED
            BY <4>2, <4>3, <4>6, <5>3
        <4>7. CASE n # 1
          <5>1. stack[1].walk = "listeners" /\ d = stack[1].subject
            <6>1. stack[1].walk # "devices"
              BY <4>7, <1>3, <1>9
            <6>2. QED
              BY <6>1, <1>1
          <5>2. b # d
            BY <4>2, <4>7, <5>1, <1>2, <1>3 DEF Nested
          <5>3. QED
            BY <4>2, <4>4, <4>5, <4>7, <5>2
        <4>8. QED
          BY <4>6, <4>7
      <3>3. QED
        BY <3>1, <3>2, <2>6, <1>6
    <2>7. ASSUME NEW i \in DOMAIN devices', NEW j \in DOMAIN listeners',
                 NEW a, a = listeners'[j], NEW b, b = devices'[i],
                 ~OnStack(b)', ~Walking(a)'
          PROVE  Settled(a, b)'
      <3>1. /\ i \in DOMAIN devices /\ b = devices[i] /\ ~OnStack(b)
            /\ j \in DOMAIN listeners /\ a = listeners[j] /\ ~Walking(a)
        BY <2>3, <2>7, <1>1, <1>17
      <3>2. Settled(a, b)
        BY <3>1, <1>2 DEF Counted
      <3>3. ~(a = l /\ b = d)
        BY <3>1, <2>4, <2>5, <1>1
      <3>4. Dev!Times(a, b)' = Dev!Times(a, b)
        <4>1. /\ Dev!Times(a, b)' = Dev!Times(a, b) + (IF a = l /\ b = d THEN 1 ELSE 0)
              /\ Dev!Times(a, b) \in Nat
          BY <1>7
        <4>2. QED
          BY <3>3, <4>1
      <3>5. QED
        BY <3>2, <3>4 DEF Settled
    <2>8. ASSUME NEW k \in DOMAIN stack', NEW i \in DOMAIN devices',
                 stack'[k].walk = "devices",
                 NEW a, a = stack'[k].subject, NEW b, b = devices'[i], ~OnStack(b)'
          PROVE  IF i < stack'[k].next THEN Settled(a, b)'
                 ELSE Dev!Times(a, b)' = 0 \/ (Dev!Times(a, b)' = 1 /\ Quiet(a, b))
      <3>1. i \in DOMAIN devices /\ b = devices[i] /\ ~OnStack(b)
        BY <2>3, <2>8
      <3>2. PICK n \in DOMAIN stack : k = n + o
        BY <2>8, <1>6
      <3>3. /\ stack[n].walk = "devices" /\ a = stack[n].subject
            /\ stack'[k].next = IF n = 1 THEN stack[n].next + 1 ELSE stack[n].next
        BY <3>2, <2>8, <1>5
      <3>4. IF i < stack[n].next THEN Settled(a, b)
            ELSE Dev!Times(a, b) = 0 \/ (Dev!Times(a, b) = 1 /\ Quiet(a, b))
        BY <3>1, <3>3, <1>2 DEF Counted
      <3>5. /\ Dev!Times(a, b)' = Dev!Times(a, b) + (IF a = l /\ b = d THEN 1 ELSE 0)
            /\ Dev!Times(a, b) \in Nat
        BY <1>7
      <3>6. stack[n].next \in Nat /\ i \in Nat /\ a \in Listeners /\ b \in Known
        BY <3>1, <3>3, <1>2, <1>3, <1>4
      <3>7. CASE n = 1
        <4>1. /\ stack[1].next \in DOMAIN devices
              /\ l = a /\ d = devices[stack[1].next]
          BY <3>3, <3>7, <1>1
        <4>2. b = d <=> i = stack[1].next
          BY <3>1, <4>1, <2>1
        <4>3. stack'[k].next = stack[1].next + 1
          BY <3>3, <3>7
        <4>4. CASE i = stack[1].next
          <5>1. Dev!Times(a, b)' = Dev!Times(a, b) + 1
            BY <3>5, <4>1, <4>2, <4>4
          <5>2. ~(i < stack[n].next) /\ i < stack'[k].next
            BY <3>6, <3>7, <4>3, <4>4
          <5>3. Dev!Times(a, b) = 0 \/ (Dev!Times(a, b) = 1 /\ b \notin Drives)
            BY <3>4, <3>6, <5>2, Quietness
          <5>4. Settled(a, b)'
            BY <5>1, <5>3 DEF Settled
          <5>5. QED
            BY <5>2, <5>4
        <4>5. CASE i # stack[1].next
          <5>1. Dev!Times(a, b)' = Dev!Times(a, b)
            BY <3>5, <4>2, <4>5
          <5>2. i < stack'[k].next <=> i < stack[n].next
            BY <3>6, <3>7, <4>3, <4>5
          <5>3. QED
            BY <3>4, <5>1, <5>2 DEF Settled
        <4>6. QED
          BY <4>4, <4>5
      <3>8. CASE n # 1
        <4>1. stack[1].walk = "listeners"
          BY <3>8, <3>3, <1>2, <1>3, <1>4, <1>9
        <4>2. b # d
          BY <4>1, <3>1, <2>4
        <4>3. Dev!Times(a, b)' = Dev!Times(a, b) /\ stack'[k].next = stack[n].next
          BY <3>3, <3>5, <3>8, <4>2
        <4>4. QED
          BY <3>4, <4>3 DEF Settled
      <3>9. QED
        BY <3>7, <3>8
    <2>9. QED
      <3>1. \A k \in DOMAIN stack' : stack'[k].walk = "listeners" =>
              \A j \in DOMAIN listeners' :
                Dev!Times(listeners[j], stack[k].subject)' = IF j < stack'[k].next THEN 1 ELSE 0
        BY <2>6
      <3>2. \A i \in DOMAIN devices', j \in DOMAIN listeners' :
              ~OnStack(devices[i])' /\ ~Walking(listeners[j])'
                => Settled(listeners[j], devices[i])'
        BY <2>7
      <3>3. \A k \in DOMAIN stack', i \in DOMAIN devices' :
              stack'[k].walk = "devices" /\ ~OnStack(devices[i])' =>
                IF i < stack'[k].next THEN Settled(stack[k].subject, devices[i])'
                ELSE \/ Dev!Times(stack[k].subject, devices[i])' = 0
                     \/ /\ Dev!Times(stack[k].subject, devices[i])' = 1
                        /\ Quiet(stack[k].subject, devices[i])'
        BY <2>8 DEF Quiet
      <3>4. QED
        BY <3>1, <3>2, <3>3 DEF Counted
  <1>22. QED
    BY <1>18, <1>19, <1>20, <1>21 DEF DevInv

(* A device main registers: nobody has been told of it, and its call is the
   only one. *)
LEMMA RegisterDeviceKeeps ==
  ASSUME DrivesGiven, DevInv, Dev!RegisterDevice
  PROVE  DevInv'
  <1>1. PICK x \in Drives :
          /\ x \notin Dev!Everything /\ devices' = Append(devices, x)
          /\ stack' = Dev!CallListeners(x, stack)
    BY DEF Dev!RegisterDevice
  <1>2. /\ stack = <<>> /\ DOMAIN stack = {} /\ listeners' = listeners /\ told' = told /\ gone' = gone
    BY DEF Dev!RegisterDevice, Dev!Idle
  <1>3. /\ DevTyped /\ Registry /\ Nested /\ Counted /\ devices \in Seq(Known) /\ x \in Known
        /\ listeners \in Seq(Listeners) /\ DOMAIN listeners = 1 .. Len(listeners)
        /\ Len(listeners) \in Nat
    BY DEF DevInv, DevTyped, Known
  <1> DEFINE call == [walk |-> "listeners", subject |-> x, next |-> 1]
  <1>4. stack' = <<call>>
    <2>1. stack' = <<call>> \o <<>>
      BY <1>1, <1>2 DEF Dev!CallListeners
    <2>2. <<call>> \o <<>> = <<call>>
      OBVIOUS
    <2>3. QED
      BY <2>1, <2>2
  <1>5. /\ stack' \in Seq(Calls) /\ DOMAIN stack' = {1} /\ stack'[1] = call
    <2>1. call \in Calls
      BY <1>3 DEF Calls
    <2> HIDE DEF call
    <2>2. QED
      BY <2>1, <1>4
  <1>6. /\ devices' \in Seq(Known) /\ Len(devices) \in Nat
        /\ Len(devices') = Len(devices) + 1 /\ DOMAIN devices = 1 .. Len(devices)
        /\ DOMAIN devices' = 1 .. Len(devices) + 1 /\ devices'[Len(devices) + 1] = x
        /\ \A i \in DOMAIN devices : i \in DOMAIN devices' /\ devices'[i] = devices[i]
    BY <1>1, <1>3, Lengthening
  <1>7. ASSUME NEW i \in DOMAIN devices'
        PROVE  (i \in DOMAIN devices /\ devices'[i] = devices[i]) \/ i = Len(devices) + 1
    BY <1>6
  <1>8. Len(devices) + 1 \in DOMAIN devices'
    BY <1>6
  <1>9. /\ \A y : y \in Dev!Everything <=> y \in gone \/ \E i \in DOMAIN devices : y = devices[i]
        /\ \A y : y \in Dev!Everything' <=>
             y \in gone' \/ \E i \in DOMAIN devices' : y = devices'[i]
    BY DEF Dev!Everything, Dev!ToSet
  <1>10. \A y : y \in Dev!Everything' <=> y \in Dev!Everything \/ y = x
    BY <1>2, <1>6, <1>7, <1>8, <1>9
  <1>11. \A a, b : Dev!Times(a, b)' = Dev!Times(a, b)
    BY <1>2 DEF Dev!Times, Dev!Cardinality
  <1>12. \A a : Dev!Times(a, x) = 0
    BY <1>1, NotToldYet
  <1>13. DevTyped'
    BY <1>2, <1>3, <1>5, <1>6 DEF DevTyped
  <1>14. Registry'
    <2>1. \A i \in DOMAIN devices : devices[i] # x
      BY <1>1, <1>9
    <2>2. \A i, j \in DOMAIN devices' : devices'[i] = devices'[j] => i = j
      BY <2>1, <1>3, <1>6, <1>7 DEF Registry
    <2>3. \A i \in DOMAIN devices' : devices'[i] \notin gone'
      BY <1>1, <1>2, <1>3, <1>6, <1>7, <1>9 DEF Registry
    <2>4. \A y \in Dev!Everything' \ Drives :
            \E k \in DOMAIN told : y \in Dev!Registers(told[k].listener, told[k].device)
      BY <1>3, <1>10 DEF Registry
    <2>5. \A k \in DOMAIN told :
            /\ told[k].device \in Dev!Everything'
            /\ Dev!Registers(told[k].listener, told[k].device) \subseteq Dev!Everything'
      BY <1>3, <1>10 DEF Registry
    <2>6. \A i, j \in DOMAIN listeners' : listeners'[i] = listeners'[j] => i = j
      BY <1>2, <1>3 DEF Registry
    <2>7. QED
      BY <1>2, <2>2, <2>3, <2>4, <2>5, <2>6 DEF Registry, Dev!Registers, Dev!Cache, Dev!FileSystem
  <1>15. Nested'
    BY <1>2, <1>3, <1>5, <1>6, <1>8 DEF Nested
  <1>16. Counted'
    <2>1. \A b : OnStack(b)' <=> b = x
      BY <1>5 DEF OnStack
    <2>2. \A k \in DOMAIN stack' : stack'[k].walk = "listeners" =>
            \A j \in DOMAIN listeners' :
              Dev!Times(listeners[j], stack[k].subject)' = IF j < stack'[k].next THEN 1 ELSE 0
      <3>1. ASSUME NEW k \in DOMAIN stack', NEW j \in DOMAIN listeners',
                   NEW a, a = listeners'[j], NEW b, b = stack'[k].subject
            PROVE  Dev!Times(a, b)' = IF j < stack'[k].next THEN 1 ELSE 0
        <4>1. b = x /\ stack'[k].next = 1 /\ j >= 1
          BY <3>1, <1>2, <1>3, <1>5
        <4>2. QED
          BY <4>1, <1>3, <1>2, <1>11, <1>12
      <3>2. QED
        BY <3>1
    <2>3. \A i \in DOMAIN devices', j \in DOMAIN listeners' :
            ~OnStack(devices[i])' /\ ~Walking(listeners[j])'
              => Settled(listeners[j], devices[i])'
      <3>1. ASSUME NEW i \in DOMAIN devices', NEW j \in DOMAIN listeners',
                   NEW a, a = listeners'[j], NEW b, b = devices'[i], ~OnStack(b)'
            PROVE  Settled(a, b)'
        <4>1. i \in DOMAIN devices /\ b = devices[i] /\ j \in DOMAIN listeners /\ a = listeners[j]
          BY <3>1, <2>1, <1>2, <1>6, <1>7
        <4>2. Settled(a, b)
          BY <4>1, <1>2, IdleSettled
        <4>3. QED
          BY <4>2, <1>11 DEF Settled
      <3>2. QED
        BY <3>1
    <2>4. \A k \in DOMAIN stack' : stack'[k].walk # "devices"
      BY <1>5
    <2>5. QED
      BY <2>2, <2>3, <2>4 DEF Counted
  <1>17. QED
    BY <1>13, <1>14, <1>15, <1>16 DEF DevInv

(* A listener that registers: it has been told of nothing. *)
LEMMA RegisterListenerKeeps ==
  ASSUME DrivesGiven, DevInv, Dev!RegisterListener
  PROVE  DevInv'
  <1>1. PICK l \in Listeners \ (Dev!ToSet(listeners) \cup {t.listener : t \in Dev!ToSet(told)}) :
          /\ listeners' = Append(listeners, l)
          /\ stack' = <<[walk |-> "devices", subject |-> l, next |-> 1]>>
    BY DEF Dev!RegisterListener
  <1>2. /\ stack = <<>> /\ DOMAIN stack = {} /\ devices' = devices /\ told' = told /\ gone' = gone
    BY DEF Dev!RegisterListener, Dev!Idle
  <1>3. /\ DevTyped /\ Registry /\ Nested /\ Counted /\ devices \in Seq(Known)
        /\ listeners \in Seq(Listeners) /\ DOMAIN devices = 1 .. Len(devices)
        /\ Len(devices) \in Nat
    BY DEF DevInv, DevTyped
  <1> DEFINE call == [walk |-> "devices", subject |-> l, next |-> 1]
  <1>4. /\ stack' \in Seq(Calls) /\ DOMAIN stack' = {1} /\ stack'[1] = call /\ Len(stack') = 1
    <2>1. call \in Calls
      BY DEF Calls
    <2>2. stack' = <<call>>
      BY <1>1
    <2> HIDE DEF call
    <2>3. QED
      BY <2>1, <2>2
  <1>5. /\ listeners' \in Seq(Listeners) /\ Len(listeners) \in Nat
        /\ Len(listeners') = Len(listeners) + 1 /\ DOMAIN listeners = 1 .. Len(listeners)
        /\ DOMAIN listeners' = 1 .. Len(listeners) + 1 /\ listeners'[Len(listeners) + 1] = l
        /\ \A j \in DOMAIN listeners : j \in DOMAIN listeners' /\ listeners'[j] = listeners[j]
    BY <1>1, <1>3, Lengthening
  <1>6. ASSUME NEW j \in DOMAIN listeners'
        PROVE  (j \in DOMAIN listeners /\ listeners'[j] = listeners[j]) \/ j = Len(listeners) + 1
    BY <1>5
  <1>7. /\ \A j \in DOMAIN listeners : listeners[j] # l
        /\ \A k \in DOMAIN told : told[k].listener # l
    BY <1>1 DEF Dev!ToSet
  <1>8. \A b : Dev!Times(l, b) = 0
    <2>1. ASSUME NEW b, NEW k \in DOMAIN told PROVE told[k] # [listener |-> l, device |-> b]
      BY <1>7
    <2>2. QED
      BY <2>1, <1>3, TimesGrow
  <1>9. \A a, b : Dev!Times(a, b)' = Dev!Times(a, b)
    BY <1>2 DEF Dev!Times, Dev!Cardinality
  <1>10. DevTyped'
    BY <1>2, <1>3, <1>4, <1>5 DEF DevTyped
  <1>11. Registry'
    <2>1. \A i, j \in DOMAIN listeners' : listeners'[i] = listeners'[j] => i = j
      BY <1>3, <1>5, <1>6, <1>7 DEF Registry
    <2>2. Dev!Everything' = Dev!Everything
      BY <1>2 DEF Dev!Everything, Dev!ToSet
    <2>3. QED
      BY <2>1, <2>2, <1>2, <1>3 DEF Registry, Dev!Registers, Dev!Cache, Dev!FileSystem
  <1>12. Nested'
    <2>1. listeners' # <<>> /\ Len(listeners') \in Nat
      BY <1>5
    <2>2. QED
      BY <2>1, <1>2, <1>3, <1>4, <1>5 DEF Nested
  <1>13. Counted'
    <2>1. \A b : ~OnStack(b)'
      BY <1>4 DEF OnStack
    <2>2. \A a : Walking(a)' <=> a = l
      BY <1>4 DEF Walking
    <2>3. \A i \in DOMAIN devices', j \in DOMAIN listeners' :
            ~OnStack(devices[i])' /\ ~Walking(listeners[j])'
              => Settled(listeners[j], devices[i])'
      <3>1. ASSUME NEW i \in DOMAIN devices', NEW j \in DOMAIN listeners',
                   NEW a, a = listeners'[j], NEW b, b = devices'[i], ~Walking(a)'
            PROVE  Settled(a, b)'
        <4>1. i \in DOMAIN devices /\ b = devices[i] /\ j \in DOMAIN listeners /\ a = listeners[j]
          BY <3>1, <2>2, <1>2, <1>5, <1>6
        <4>2. Settled(a, b)
          BY <4>1, <1>2, IdleSettled
        <4>3. QED
          BY <4>2, <1>9 DEF Settled
      <3>2. QED
        BY <3>1
    <2>4. \A k \in DOMAIN stack', i \in DOMAIN devices' :
            /\ stack'[k].next = 1 /\ ~(i < stack'[k].next)
            /\ Dev!Times(stack[k].subject, devices[i])' = 0
      <3>1. ASSUME NEW k \in DOMAIN stack', NEW i \in DOMAIN devices',
                   NEW a, a = stack'[k].subject, NEW b, b = devices'[i]
            PROVE  stack'[k].next = 1 /\ ~(i < stack'[k].next) /\ Dev!Times(a, b)' = 0
        BY <3>1, <1>2, <1>3, <1>4, <1>8, <1>9
      <3>2. QED
        BY <3>1
    <2>5. \A k \in DOMAIN stack' : stack'[k].walk # "listeners"
      BY <1>4
    <2>6. QED
      BY <2>3, <2>4, <2>5 DEF Counted
  <1>14. QED
    BY <1>10, <1>11, <1>12, <1>13 DEF DevInv

(* A call that returns: all listeners have been told of its device, or its
   listener of all devices. *)
LEMMA ReturnKeeps ==
  ASSUME DrivesGiven, DevInv, Dev!Return
  PROVE  DevInv'
  <1>1. /\ stack # <<>> /\ stack' = Tail(stack)
        /\ devices' = devices /\ listeners' = listeners /\ told' = told /\ gone' = gone
    BY DEF Dev!Return, Dev!Idle
  <1>2. /\ DevTyped /\ Registry /\ Nested /\ Counted /\ stack \in Seq(Calls)
        /\ devices \in Seq(Known) /\ listeners \in Seq(Listeners)
    BY DEF DevInv, DevTyped
  <1>3. /\ Len(stack) \in Nat \ {0} /\ DOMAIN stack = 1 .. Len(stack) /\ 1 \in DOMAIN stack
        /\ stack' \in Seq(Calls) /\ DOMAIN stack' = 1 .. Len(stack) - 1
        /\ Len(stack') = Len(stack) - 1
        /\ \A k \in DOMAIN stack' : k + 1 \in DOMAIN stack /\ stack'[k] = stack[k + 1]
    BY <1>1, <1>2
  <1>4. /\ Len(devices) \in Nat /\ DOMAIN devices = 1 .. Len(devices)
        /\ Len(listeners) \in Nat /\ DOMAIN listeners = 1 .. Len(listeners)
    BY <1>2
  <1>5. ASSUME NEW k \in DOMAIN stack
        PROVE  stack[k].walk \in {"listeners", "devices"} /\ stack[k].next \in Nat \ {0}
    <2>1. stack[k] \in Calls
      BY <1>2
    <2>2. QED
      BY <2>1 DEF Calls
  <1>6. /\ stack[1].walk = "listeners" => stack[1].next > Len(listeners)
        /\ stack[1].walk = "devices" => stack[1].next > Len(devices)
    BY <1>1, <1>2 DEF Dev!Return
  <1>7. ASSUME NEW m \in DOMAIN stack
        PROVE  m = 1 \/ (m - 1 \in DOMAIN stack' /\ stack'[m - 1] = stack[m])
    <2>1. CASE m # 1
      <3>1. m - 1 \in DOMAIN stack' /\ (m - 1) + 1 = m
        BY <2>1, <1>3
      <3>2. QED
        BY <3>1, <1>3
    <2>2. QED
      BY <2>1
  <1>8. \A a, b : Dev!Times(a, b)' = Dev!Times(a, b)
    BY <1>1 DEF Dev!Times, Dev!Cardinality
  <1>9. \A b : OnStack(b) => OnStack(b)' \/ (stack[1].walk = "listeners" /\ b = stack[1].subject)
    BY <1>7 DEF OnStack
  <1>10. \A a : Walking(a) => Walking(a)' \/ (stack[1].walk = "devices" /\ a = stack[1].subject)
    BY <1>7 DEF Walking
  <1>11. DevTyped'
    BY <1>1, <1>2, <1>3 DEF DevTyped
  <1>12. Registry'
    <2>1. Dev!Everything' = Dev!Everything
      BY <1>1 DEF Dev!Everything, Dev!ToSet
    <2>2. QED
      BY <2>1, <1>1, <1>2 DEF Registry, Dev!Registers, Dev!Cache, Dev!FileSystem
  <1>13. Nested'
    <2>1. ASSUME NEW k \in DOMAIN stack', stack'[k].walk = "devices"
          PROVE  /\ k = Len(stack') /\ listeners' # <<>>
                 /\ stack'[k].subject = listeners'[Len(listeners')]
                 /\ stack'[k].next <= Len(devices') + 1
                 /\ \A m \in DOMAIN stack' : m # k =>
                      /\ Quiet(stack'[k].subject, stack'[m].subject)
                      /\ \A i \in DOMAIN devices' :
                           i < stack'[k].next => devices'[i] # stack'[m].subject
      <3>1. k + 1 \in DOMAIN stack /\ stack[k + 1] = stack'[k]
        BY <1>3
      <3>2. /\ k + 1 = Len(stack) /\ listeners # <<>>
            /\ stack[k + 1].subject = listeners[Len(listeners)]
            /\ stack[k + 1].next <= Len(devices) + 1
            /\ \A m \in DOMAIN stack : m # k + 1 =>
                 /\ Quiet(stack[k + 1].subject, stack[m].subject)
                 /\ \A i \in DOMAIN devices : i < stack[k + 1].next => devices[i] # stack[m].subject
        BY <2>1, <3>1, <1>2 DEF Nested
      <3>3. k = Len(stack')
        BY <3>2, <1>3
      <3>4. \A m \in DOMAIN stack' : m # k => m + 1 # k + 1
        BY <1>3
      <3>5. QED
        BY <3>1, <3>2, <3>3, <3>4, <1>1, <1>3
    <2>2. ASSUME NEW k \in DOMAIN stack', stack'[k].walk = "listeners"
          PROVE  /\ stack'[k].next <= Len(listeners') + 1
                 /\ \E i \in DOMAIN devices' : stack'[k].subject = devices'[i]
                 /\ \A m \in DOMAIN stack' :
                      stack'[m].walk = "listeners" /\ stack'[m].subject = stack'[k].subject => m = k
      <3>1. k + 1 \in DOMAIN stack /\ stack[k + 1] = stack'[k]
        BY <1>3
      <3>2. /\ stack[k + 1].next <= Len(listeners) + 1
            /\ \E i \in DOMAIN devices : stack[k + 1].subject = devices[i]
            /\ \A m \in DOMAIN stack :
                 stack[m].walk = "listeners" /\ stack[m].subject = stack[k + 1].subject => m = k + 1
        BY <2>2, <3>1, <1>2 DEF Nested
      <3>3. \A m \in DOMAIN stack' : m + 1 = k + 1 => m = k
        BY <1>3
      <3>4. QED
        BY <3>1, <3>2, <3>3, <1>1, <1>3
    <2>3. QED
      BY <2>1, <2>2 DEF Nested, Quiet
  (* The device of the call that returns: everybody has been told once. *)
  <1>14. ASSUME stack[1].walk = "listeners", NEW j \in DOMAIN listeners,
                NEW a, a = listeners[j], NEW b, b = stack[1].subject
         PROVE  Dev!Times(a, b) = 1
    <2>1. j < stack[1].next
      BY <1>14, <1>3, <1>4, <1>5, <1>6
    <2>2. Dev!Times(listeners[j], stack[1].subject) = IF j < stack[1].next THEN 1 ELSE 0
      BY <1>14, <1>2, <1>3 DEF Counted
    <2>3. QED
      BY <2>1, <2>2, <1>14
  <1>15. Counted'
    <2>1. \A k \in DOMAIN stack' : stack'[k].walk = "listeners" =>
            \A j \in DOMAIN listeners' :
              Dev!Times(listeners[j], stack[k].subject)' = IF j < stack'[k].next THEN 1 ELSE 0
      <3>1. ASSUME NEW k \in DOMAIN stack', stack'[k].walk = "listeners",
                   NEW j \in DOMAIN listeners',
                   NEW a, a = listeners'[j], NEW b, b = stack'[k].subject
            PROVE  Dev!Times(a, b)' = IF j < stack'[k].next THEN 1 ELSE 0
        <4>1. /\ k + 1 \in DOMAIN stack /\ stack[k + 1] = stack'[k]
              /\ stack[k + 1].walk = "listeners" /\ b = stack[k + 1].subject
              /\ j \in DOMAIN listeners /\ a = listeners[j]
          BY <3>1, <1>1, <1>3
        <4>2. Dev!Times(listeners[j], stack[k + 1].subject) = IF j < stack[k + 1].next THEN 1 ELSE 0
          BY <4>1, <1>2 DEF Counted
        <4>3. Dev!Times(a, b) = IF j < stack'[k].next THEN 1 ELSE 0
          BY <4>1, <4>2
        <4>4. QED
          BY <4>3, <1>8
      <3>2. QED
        BY <3>1
    <2>2. \A i \in DOMAIN devices', j \in DOMAIN listeners' :
            ~OnStack(devices[i])' /\ ~Walking(listeners[j])'
              => Settled(listeners[j], devices[i])'
      <3>1. ASSUME NEW i \in DOMAIN devices', NEW j \in DOMAIN listeners',
                   NEW a, a = listeners'[j], NEW b, b = devices'[i],
                   ~OnStack(b)', ~Walking(a)'
            PROVE  Settled(a, b)'
        <4>1. i \in DOMAIN devices /\ b = devices[i] /\ j \in DOMAIN listeners /\ a = listeners[j]
          BY <3>1, <1>1
        <4>2. Settled(a, b)
          <5>1. CASE OnStack(b)
            <6>1. stack[1].walk = "listeners" /\ b = stack[1].subject
              BY <5>1, <3>1, <1>9
            <6>2. Dev!Times(a, b) = 1
              BY <6>1, <4>1, <1>14
            <6>3. QED
              BY <6>2 DEF Settled
          <5>2. CASE ~OnStack(b) /\ Walking(a)
            <6>1. stack[1].walk = "devices" /\ a = stack[1].subject
              BY <5>2, <3>1, <1>10
            <6>2. i < stack[1].next
              BY <6>1, <4>1, <1>3, <1>4, <1>5, <1>6
            <6>3. QED
              BY <5>2, <6>1, <6>2, <4>1, <1>2, <1>3 DEF Counted
          <5>3. CASE ~OnStack(b) /\ ~Walking(a)
            BY <5>3, <4>1, <1>2 DEF Counted
          <5>4. QED
            BY <5>1, <5>2, <5>3
        <4>3. QED
          BY <4>2, <1>8 DEF Settled
      <3>2. QED
        BY <3>1
    <2>3. \A k \in DOMAIN stack', i \in DOMAIN devices' :
            stack'[k].walk = "devices" /\ ~OnStack(devices[i])' =>
              IF i < stack'[k].next THEN Settled(stack[k].subject, devices[i])'
              ELSE \/ Dev!Times(stack[k].subject, devices[i])' = 0
                   \/ /\ Dev!Times(stack[k].subject, devices[i])' = 1
                      /\ Quiet(stack[k].subject, devices[i])'
      <3>1. ASSUME NEW k \in DOMAIN stack', NEW i \in DOMAIN devices',
                   stack'[k].walk = "devices",
                   NEW a, a = stack'[k].subject, NEW b, b = devices'[i], ~OnStack(b)'
            PROVE  IF i < stack'[k].next THEN Settled(a, b)
                   ELSE Dev!Times(a, b) = 0 \/ (Dev!Times(a, b) = 1 /\ Quiet(a, b))
        <4>1. /\ k + 1 \in DOMAIN stack /\ stack[k + 1] = stack'[k]
              /\ stack[k + 1].walk = "devices" /\ a = stack[k + 1].subject
              /\ i \in DOMAIN devices /\ b = devices[i]
          BY <3>1, <1>1, <1>3
        <4>2. CASE OnStack(b)
          <5>1. stack[1].walk = "listeners" /\ b = stack[1].subject
            BY <4>2, <3>1, <1>9
          <5>2. /\ listeners # <<>> /\ a = listeners[Len(listeners)]
                /\ \A m \in DOMAIN stack : m # k + 1 =>
                     /\ Quiet(a, stack[m].subject)
                     /\ \A e \in DOMAIN devices : e < stack[k + 1].next => devices[e] # stack[m].subject
            BY <4>1, <1>2 DEF Nested
          <5>3. 1 # k + 1
            BY <4>1, <5>1
          <5>4. Quiet(a, b) /\ ~(i < stack'[k].next)
            BY <4>1, <5>1, <5>2, <5>3, <1>3
          <5>5. Dev!Times(a, b) = 1
            <6>1. Len(listeners) \in DOMAIN listeners
              BY <5>2, <1>2, <1>4
            <6>2. QED
              BY <6>1, <5>1, <5>2, <1>14
          <5>6. QED
            BY <5>4, <5>5
        <4>3. CASE ~OnStack(b)
          BY <4>1, <4>3, <1>2 DEF Counted
        <4>4. QED
          BY <4>2, <4>3
      <3>2. ASSUME NEW k \in DOMAIN stack', NEW i \in DOMAIN devices',
                   stack'[k].walk = "devices",
                   NEW a, a = stack'[k].subject, NEW b, b = devices'[i], ~OnStack(b)'
            PROVE  IF i < stack'[k].next THEN Settled(a, b)'
                   ELSE Dev!Times(a, b)' = 0 \/ (Dev!Times(a, b)' = 1 /\ Quiet(a, b))
        <4>1. Dev!Times(a, b)' = Dev!Times(a, b)
          BY <1>8
        <4>2. QED
          BY <3>1, <3>2, <4>1 DEF Settled
      <3>3. QED
        BY <3>2 DEF Quiet
    <2>4. QED
      BY <2>1, <2>2, <2>3 DEF Counted
  <1>16. QED
    BY <1>11, <1>12, <1>13, <1>15 DEF DevInv

(* A device or a listener that leaves its list. *)
LEMMA LeavingKeeps ==
  ASSUME DrivesGiven, DevInv, Dev!DeleteDevice \/ Dev!UnregisterListener
  PROVE  DevInv'
  <1>1. /\ stack = <<>> /\ stack' = stack /\ told' = told /\ DOMAIN stack = {}
    BY DEF Dev!DeleteDevice, Dev!UnregisterListener, Dev!Idle
  <1>2. /\ DevTyped /\ Registry /\ Nested /\ Counted
        /\ devices \in Seq(Known) /\ listeners \in Seq(Listeners) /\ gone \subseteq Known
        /\ \A i, j \in DOMAIN devices : devices[i] = devices[j] => i = j
        /\ \A i, j \in DOMAIN listeners : listeners[i] = listeners[j] => i = j
    BY DEF DevInv, DevTyped, Registry
  (* What is left of the lists; nothing is forgotten. *)
  <1>3. /\ devices' \in Seq(Known) /\ listeners' \in Seq(Listeners) /\ gone' \subseteq Known
        /\ \A i, j \in DOMAIN devices' : devices'[i] = devices'[j] => i = j
        /\ \A i, j \in DOMAIN listeners' : listeners'[i] = listeners'[j] => i = j
        /\ \A i \in DOMAIN devices' : \E k \in DOMAIN devices : devices'[i] = devices[k]
        /\ \A i \in DOMAIN listeners' : \E k \in DOMAIN listeners : listeners'[i] = listeners[k]
        /\ \A i \in DOMAIN devices' : devices'[i] \notin gone'
        /\ Dev!Everything' = Dev!Everything
    <2>1. CASE Dev!DeleteDevice
      <3>1. PICK i \in DOMAIN devices :
              gone' = gone \cup {devices[i]} /\ devices' = Dev!RemoveAt(devices, i)
        BY <2>1 DEF Dev!DeleteDevice
      <3>2. listeners' = listeners
        BY <2>1 DEF Dev!DeleteDevice
      <3>3. /\ devices' \in Seq(Known)
            /\ \A j, k \in DOMAIN devices' : devices'[j] = devices'[k] => j = k
            /\ \A j \in DOMAIN devices' : \E k \in DOMAIN devices : k # i /\ devices'[j] = devices[k]
            /\ \A k \in DOMAIN devices : k # i => \E j \in DOMAIN devices' : devices'[j] = devices[k]
        BY <3>1, <1>2, Removing
      <3>4. devices[i] \in Known
        BY <1>2
      <3>5. \A j \in DOMAIN devices' : devices'[j] \notin gone'
        <4>1. \A k \in DOMAIN devices : devices[k] \notin gone
          BY <1>2 DEF Registry
        <4>2. QED
          BY <4>1, <3>1, <3>3, <1>2
      <3>6. Dev!Everything' = Dev!Everything
        <4>1. /\ \A y : y \in Dev!Everything <=> y \in gone \/ \E k \in DOMAIN devices : y = devices[k]
              /\ \A y : y \in Dev!Everything' <=>
                   y \in gone' \/ \E k \in DOMAIN devices' : y = devices'[k]
          BY DEF Dev!Everything, Dev!ToSet
        <4>2. ASSUME NEW y \in Dev!Everything PROVE y \in Dev!Everything'
          BY <4>1, <3>1, <3>3
        <4>3. ASSUME NEW y \in Dev!Everything' PROVE y \in Dev!Everything
          BY <4>1, <3>1, <3>3
        <4>4. QED
          BY <4>2, <4>3
      <3>7. QED
        BY <3>1, <3>2, <3>3, <3>4, <3>5, <3>6, <1>2
    <2>2. CASE Dev!UnregisterListener
      <3>1. PICK i \in DOMAIN listeners : listeners' = Dev!RemoveAt(listeners, i)
        BY <2>2 DEF Dev!UnregisterListener
      <3>2. devices' = devices /\ gone' = gone
        BY <2>2 DEF Dev!UnregisterListener
      <3>3. /\ listeners' \in Seq(Listeners)
            /\ \A j, k \in DOMAIN listeners' : listeners'[j] = listeners'[k] => j = k
            /\ \A j \in DOMAIN listeners' : \E k \in DOMAIN listeners : k # i /\ listeners'[j] = listeners[k]
        BY <3>1, <1>2, Removing
      <3>4. Dev!Everything' = Dev!Everything
        BY <3>2 DEF Dev!Everything, Dev!ToSet
      <3>5. QED
        BY <3>2, <3>3, <3>4, <1>2 DEF Registry
    <2>3. QED
      BY <2>1, <2>2
  <1>4. \A a, b : Dev!Times(a, b)' = Dev!Times(a, b)
    BY <1>1 DEF Dev!Times, Dev!Cardinality
  <1>5. DevTyped'
    BY <1>1, <1>2, <1>3 DEF DevTyped
  <1>6. Registry'
    BY <1>1, <1>2, <1>3 DEF Registry, Dev!Registers, Dev!Cache, Dev!FileSystem
  <1>7. Nested'
    BY <1>1 DEF Nested
  <1>8. Counted'
    <2>1. ASSUME NEW i \in DOMAIN devices', NEW j \in DOMAIN listeners',
                 NEW a, a = listeners'[j], NEW b, b = devices'[i]
          PROVE  Settled(a, b)'
      <3>1. Settled(a, b)
        BY <2>1, <1>1, <1>3, IdleSettled
      <3>2. QED
        BY <3>1, <1>4 DEF Settled
    <2>2. \A i \in DOMAIN devices', j \in DOMAIN listeners' : Settled(listeners[j], devices[i])'
      BY <2>1
    <2>3. QED
      BY <2>2, <1>1 DEF Counted
  <1>9. QED
    BY <1>5, <1>6, <1>7, <1>8 DEF DevInv

(* Before anything is registered there is nothing to be told. *)
LEMMA DevInit == ASSUME Dev!Init PROVE DevInv
  <1>1. devices = <<>> /\ listeners = <<>> /\ stack = <<>> /\ told = <<>> /\ gone = {}
    BY DEF Dev!Init
  <1>2. DOMAIN devices = {} /\ DOMAIN listeners = {} /\ DOMAIN stack = {} /\ DOMAIN told = {}
    BY <1>1
  <1>3. Dev!Everything = {}
    BY <1>1, <1>2 DEF Dev!Everything, Dev!ToSet
  <1>4. DevTyped
    BY <1>1 DEF DevTyped
  <1>5. Registry /\ Nested /\ Counted
    BY <1>2, <1>3 DEF Registry, Nested, Counted
  <1>6. QED
    BY <1>4, <1>5 DEF DevInv

(* Whatever is registered or unregistered, from within whichever call, the
   invariant holds again. *)
LEMMA DevStep == ASSUME DrivesGiven, DevInv, [Dev!Next]_(Dev!vars) PROVE DevInv'
  <1>1. CASE Dev!RegisterDevice
    BY <1>1, RegisterDeviceKeeps
  <1>2. CASE Dev!RegisterListener
    BY <1>2, RegisterListenerKeeps
  <1>3. CASE Dev!Tell
    BY <1>3, TellKeeps
  <1>4. CASE Dev!Return
    BY <1>4, ReturnKeeps
  <1>5. CASE Dev!DeleteDevice \/ Dev!UnregisterListener
    BY <1>5, LeavingKeeps
  <1>6. CASE UNCHANGED Dev!vars
    <2>1. devices' = devices /\ listeners' = listeners /\ stack' = stack /\ told' = told /\ gone' = gone
      BY <1>6 DEF Dev!vars
    <2>2. DevTyped' /\ Nested'
      BY <2>1 DEF DevInv, DevTyped, Nested, Quiet
    <2>3. Dev!Everything' = Dev!Everything
      BY <2>1 DEF Dev!Everything, Dev!ToSet
    <2>4. Registry'
      BY <2>1, <2>3 DEF DevInv, Registry, Dev!Registers, Dev!Cache, Dev!FileSystem
    <2>5. \A a, b : Dev!Times(a, b)' = Dev!Times(a, b)
      BY <2>1 DEF Dev!Times, Dev!Cardinality
    <2>6. \A a, b : Settled(a, b)' <=> Settled(a, b)
      BY <2>5 DEF Settled
    <2>7. /\ \A b : OnStack(b)' <=> OnStack(b)
          /\ \A a : Walking(a)' <=> Walking(a)
      BY <2>1 DEF OnStack, Walking
    <2>8. Counted'
      BY <2>1, <2>5, <2>6, <2>7 DEF DevInv, Counted, Quiet
    <2>9. QED
      BY <2>2, <2>4, <2>8 DEF DevInv
  <1>7. QED
    BY <1>1, <1>2, <1>3, <1>4, <1>5, <1>6 DEF Dev!Next

(* The calls of the device manager nest as they should, and every listener is
   told of a device as often as the calls under way owe it. *)
THEOREM DevicesInvariant == ASSUME DrivesGiven PROVE Dev!Spec => []DevInv
  <1>1. Dev!Init => DevInv
    BY DevInit
  <1>2. DevInv /\ [Dev!Next]_(Dev!vars) => DevInv'
    BY DevStep
  <1>3. QED
    BY <1>1, <1>2, PTL DEF Dev!Spec

(* Whatever listeners register from within the calls that tell them: when all
   calls have returned, every listener has been told of every device, once or
   twice, once of main's own; what it registers on it is registered; and no
   device is on the list twice (RegisterDevice, RegisterListener and the
   listeners of CachedDrive and InitrdFs). *)
THEOREM ListenersTold == ASSUME DrivesGiven PROVE Dev!Spec => [](Dev!Idle => Dev!ToldOnceOrTwice)
  <1>1. ASSUME DevInv, Dev!Idle PROVE Dev!ToldOnceOrTwice
    <2>1. stack = <<>> /\ devices \in Seq(Known) /\ Registry
      BY <1>1 DEF DevInv, DevTyped, Dev!Idle
    <2>2. Dev!IsInjective(devices)
      BY <2>1 DEF Registry, Dev!IsInjective
    <2>3. ASSUME NEW l \in Dev!ToSet(listeners), NEW d \in Dev!ToSet(devices)
          PROVE  /\ Dev!Times(l, d) \in 1 .. 2
                 /\ Dev!Registers(l, d) \subseteq Dev!Everything
                 /\ d.on = <<>> => Dev!Times(l, d) = 1
      <3>1. PICK i \in DOMAIN devices, j \in DOMAIN listeners : d = devices[i] /\ l = listeners[j]
        BY DEF Dev!ToSet
      <3>2. Settled(l, d) /\ d \in Known
        BY <1>1, <2>1, <3>1, IdleSettled
      <3>3. Dev!Registers(l, d) \subseteq Dev!Everything
        <4>1. Dev!Times(l, d) # 0
          BY <3>2 DEF Settled
        <4>2. PICK k \in DOMAIN told : told[k] = [listener |-> l, device |-> d]
          BY <1>1, <4>1, TimesGrow DEF DevInv
        <4>3. told[k].listener = l /\ told[k].device = d
          BY <4>2
        <4>4. QED
          BY <2>1, <4>3 DEF Registry
      <3>4. QED
        BY <3>2, <3>3, OnNothing DEF Settled
    <2>4. QED
      BY <2>2, <2>3 DEF Dev!ToldOnceOrTwice
  <1>2. DevInv => (Dev!Idle => Dev!ToldOnceOrTwice)
    BY <1>1
  <1>3. QED
    BY <1>2, DevicesInvariant, PTL

-----------------------------------------------------------------------------
(* Boot information                                                        *)

(* Every set of naturals has a least element, every bounded one a greatest. *)
LEMMA LeastNatural ==
  ASSUME NEW S \in SUBSET Nat, S # {}
  PROVE  \E x \in S : \A y \in S : x <= y
  <1> DEFINE LT == {ij \in Nat \X Nat : ij[1] < ij[2]}
  <1>1. IsWellFoundedOn(LT, Nat)
    BY NatLessThanWellFounded DEF OpToRel
  <1> HIDE DEF LT
  <1>2. PICK x \in S : \A y \in S : ~ (<<y, x>> \in LT)
    BY <1>1, WFMin
  <1>3. ASSUME NEW y \in S PROVE x <= y
    <2>1. x \in Nat /\ y \in Nat /\ (<<y, x>> \in LT <=> y < x)
      BY DEF LT
    <2>2. QED
      BY <2>1, <1>2
  <1>4. QED
    BY <1>3

LEMMA GreatestNatural ==
  ASSUME NEW n \in Nat, NEW S \in SUBSET (0 .. n), S # {}
  PROVE  \E x \in S : \A y \in S : y <= x
  <1> DEFINE T == {n - x : x \in S}
  <1>1. T \in SUBSET Nat /\ T # {}
    <2>1. \A x \in S : n - x \in Nat
      OBVIOUS
    <2>2. QED
      BY <2>1
  <1> HIDE DEF T
  <1>2. PICK t \in T : \A u \in T : t <= u
    BY <1>1, LeastNatural
  <1>3. PICK x \in S : t = n - x
    BY DEF T
  <1>4. ASSUME NEW y \in S PROVE y <= x
    <2>1. n - x <= n - y
      BY <1>2, <1>3 DEF T
    <2>2. QED
      BY <2>1
  <1>5. QED
    BY <1>4

(* The beginnings of a sequence of sequences, joined. *)
Joined(g, s, k) == [i \in 1 .. k |-> IF i = 1 THEN s[1] ELSE g[i - 1] \o s[i]]

LEMMA JoinedExist ==
  ASSUME NEW n \in Nat, NEW s
  PROVE  \E g : g = Joined(g, s, n)
  <1> DEFINE Bad == {k \in Nat : ~ \E g : g = Joined(g, s, k)}
  <1>1. SUFFICES ASSUME Bad # {} PROVE FALSE
    OBVIOUS
  <1>2. PICK k \in Bad : \A y \in Bad : k <= y
    BY <1>1, LeastNatural
  <1>3. k # 0
    <2>1. \A g : Joined(g, s, 0) = [i \in {} |-> <<>>]
      BY DEF Joined
    <2>2. QED
      BY <2>1
  <1>4. k - 1 \in Nat /\ k - 1 \notin Bad
    BY <1>2, <1>3
  <1>5. PICK h : h = Joined(h, s, k - 1)
    BY <1>4
  <1> DEFINE g == [i \in 1 .. k |-> IF i = 1 THEN s[1] ELSE h[i - 1] \o s[i]]
  <1>6. \A i \in 1 .. k - 1 : g[i] = h[i]
    <2>1. ASSUME NEW i \in 1 .. k - 1 PROVE g[i] = h[i]
      <3>1. h[i] = IF i = 1 THEN s[1] ELSE h[i - 1] \o s[i]
        BY <1>5 DEF Joined
      <3>2. i \in 1 .. k
        BY <1>4
      <3>3. QED
        BY <3>1, <3>2
    <2>2. QED
      BY <2>1
  <1>7. \A i \in 1 .. k : g[i] = IF i = 1 THEN s[1] ELSE g[i - 1] \o s[i]
    <2>1. ASSUME NEW i \in 1 .. k, i # 1 PROVE g[i] = g[i - 1] \o s[i]
      <3>1. i - 1 \in 1 .. k - 1
        BY <1>4, <2>1
      <3>2. QED
        BY <1>6, <2>1, <3>1
    <2>2. QED
      BY <2>1
  <1>8. g = [i \in 1 .. k |-> g[i]]
    OBVIOUS
  <1> HIDE DEF g
  <1>9. g = Joined(g, s, k)
    BY <1>7, <1>8 DEF Joined
  <1>10. QED
    BY <1>2, <1>9

(* What lies where in F, all sequences of s joined: the i-th of them behind the
   first P[i - 1] elements. *)
Flat(s, F, P) ==
  /\ P \in [0 .. Len(s) -> Nat]
  /\ P[0] = 0 /\ Len(F) = P[Len(s)]
  /\ \A i \in 1 .. Len(s) :
       /\ P[i] = P[i - 1] + Len(s[i])
       /\ \A j \in 1 .. Len(s[i]) : P[i - 1] + j \in 1 .. Len(F) /\ F[P[i - 1] + j] = s[i][j]

Starts(f) == [i \in {0} \cup DOMAIN f |-> IF i = 0 THEN 0 ELSE Len(f[i])]

(* Of the first k sequences joined: F holds what each of them does. *)
Holds(s, F, P, k) ==
  \A i \in 1 .. k : \A j \in 1 .. Len(s[i]) :
    P[i - 1] + j \in 1 .. Len(F) /\ F[P[i - 1] + j] = s[i][j]

LEMMA JoinedFlat ==
  ASSUME NEW S, NEW s \in Seq(Seq(S)), Len(s) > 0, NEW f, f = Joined(f, s, Len(s))
  PROVE  f[Len(s)] \in Seq(S) /\ Flat(s, f[Len(s)], Starts(f))
  <1> DEFINE n == Len(s)
             P == Starts(f)
  <1>1. n \in Nat /\ n >= 1 /\ \A i \in 1 .. n : s[i] \in Seq(S)
    OBVIOUS
  <1>2. \A i \in 1 .. n : f[i] = IF i = 1 THEN s[1] ELSE f[i - 1] \o s[i]
    BY DEF Joined
  <1>3. DOMAIN f = 1 .. n
    BY DEF Joined
  <1>4. P[0] = 0 /\ \A i \in 1 .. n : P[i] = Len(f[i])
    BY <1>1, <1>3 DEF Starts
  <1> HIDE DEF n
  <1> HIDE DEF P
  <1>5. ASSUME NEW x \in Seq(S), NEW y \in Seq(S)
        PROVE  /\ x \o y \in Seq(S) /\ Len(x \o y) = Len(x) + Len(y)
               /\ \A j \in 1 .. Len(x) : j \in 1 .. Len(x \o y) /\ (x \o y)[j] = x[j]
               /\ \A j \in 1 .. Len(y) : Len(x) + j \in 1 .. Len(x \o y) /\ (x \o y)[Len(x) + j] = y[j]
    OBVIOUS
  <1> DEFINE Good(k) == f[k] \in Seq(S) /\ P[k] = P[k - 1] + Len(s[k]) /\ Holds(s, f[k], P, k)
             Bad == {k \in 1 .. n : ~ Good(k)}
  <1>6. Good(1)
    <2>1. f[1] = s[1] /\ s[1] \in Seq(S) /\ P[1] = Len(s[1]) /\ P[1 - 1] = 0
      BY <1>1, <1>2, <1>4
    <2>2. \A j \in 1 .. Len(s[1]) : 0 + j = j
      OBVIOUS
    <2>3. Holds(s, f[1], P, 1)
      <3>1. ASSUME NEW i \in 1 .. 1, NEW j \in 1 .. Len(s[i])
            PROVE  P[i - 1] + j \in 1 .. Len(f[1]) /\ f[1][P[i - 1] + j] = s[i][j]
        <4>1. i = 1
          OBVIOUS
        <4>2. QED
          BY <2>1, <2>2, <4>1
      <3>2. QED
        BY <3>1 DEF Holds
    <2>4. Len(s[1]) \in Nat
      BY <2>1
    <2>5. f[1] \in Seq(S) /\ P[1] = P[1 - 1] + Len(s[1])
      <3>1. Len(s[1]) = 0 + Len(s[1])
        BY <2>4
      <3>2. QED
        BY <2>1, <3>1
    <2>6. QED
      BY <2>3, <2>5 DEF Good
  <1>7. ASSUME NEW k \in 2 .. n, Good(k - 1) PROVE Good(k)
    <2>1. k - 1 \in 1 .. n /\ k \in 1 .. n /\ k # 1 /\ k - 1 \in Nat
      BY <1>1
    <2>2. f[k] = f[k - 1] \o s[k] /\ f[k - 1] \in Seq(S) /\ s[k] \in Seq(S)
      BY <1>1, <1>2, <1>7, <2>1
    <2>3. P[k] = Len(f[k]) /\ P[k - 1] = Len(f[k - 1])
      BY <1>4, <2>1
    <2>4. /\ f[k] \in Seq(S) /\ Len(f[k]) = Len(f[k - 1]) + Len(s[k])
          /\ \A j \in 1 .. Len(f[k - 1]) : j \in 1 .. Len(f[k]) /\ f[k][j] = f[k - 1][j]
          /\ \A j \in 1 .. Len(s[k]) : Len(f[k - 1]) + j \in 1 .. Len(f[k])
                                       /\ f[k][Len(f[k - 1]) + j] = s[k][j]
      <3> DEFINE x == f[k - 1]
                 y == s[k]
      <3>1. x \in Seq(S) /\ y \in Seq(S) /\ f[k] = x \o y
        BY <2>2
      <3> HIDE DEF x, y
      <3>2. /\ f[k] \in Seq(S) /\ Len(f[k]) = Len(x) + Len(y)
            /\ \A j \in 1 .. Len(x) : j \in 1 .. Len(f[k]) /\ f[k][j] = x[j]
            /\ \A j \in 1 .. Len(y) : Len(x) + j \in 1 .. Len(f[k]) /\ f[k][Len(x) + j] = y[j]
        BY <1>5, <3>1
      <3>3. QED
        BY <3>2 DEF x, y
    <2>5. ASSUME NEW i \in 1 .. k, NEW j \in 1 .. Len(s[i])
          PROVE  P[i - 1] + j \in 1 .. Len(f[k]) /\ f[k][P[i - 1] + j] = s[i][j]
      <3>1. CASE i = k
        BY <2>3, <2>4, <3>1
      <3>2. CASE i # k
        <4>1. i \in 1 .. k - 1
          BY <2>1, <3>2
        <4>2. P[i - 1] + j \in 1 .. Len(f[k - 1]) /\ f[k - 1][P[i - 1] + j] = s[i][j]
          BY <1>7, <4>1 DEF Holds
        <4>3. QED
          BY <2>4, <4>2
      <3>3. QED
        BY <3>1, <3>2
    <2>6. QED
      BY <2>3, <2>4, <2>5 DEF Holds
  <1>8. \A k \in 1 .. n : Good(k)
    <2>1. SUFFICES ASSUME Bad # {} PROVE FALSE
      OBVIOUS
    <2> HIDE DEF Good
    <2>2. PICK k \in Bad : \A y \in Bad : k <= y
      <3>1. Bad \in SUBSET Nat
        OBVIOUS
      <3> HIDE DEF Bad
      <3>2. QED
        BY <2>1, <3>1, LeastNatural
    <2>3. k \in 1 .. n /\ ~ Good(k) /\ k # 1
      BY <1>6, <2>2
    <2>4. k \in 2 .. n /\ k - 1 \in 1 .. n /\ k - 1 \notin Bad
      BY <1>1, <2>2, <2>3
    <2>5. QED
      BY <1>7, <2>3, <2>4
  <1>9. P \in [0 .. n -> Nat]
    <2>1. \A i \in 1 .. n : P[i] \in Nat
      <3>1. ASSUME NEW i \in 1 .. n PROVE P[i] \in Nat
        <4>1. f[i] \in Seq(S) /\ P[i] = Len(f[i])
          BY <1>4, <1>8
        <4>2. QED
          BY <4>1
      <3>2. QED
        BY <3>1
    <2>2. 0 .. n = {0} \cup 1 .. n
      BY <1>1
    <2>3. P = [i \in 0 .. n |-> P[i]]
      BY <1>3, <2>2 DEF P, Starts
    <2>4. \A i \in 0 .. n : P[i] \in Nat
      BY <1>4, <2>1, <2>2
    <2>5. QED
      BY <2>3, <2>4
  <1>10. \A i \in 1 .. n : P[i] = P[i - 1] + Len(s[i])
    BY <1>8
  <1>11. f[n] \in Seq(S) /\ Holds(s, f[n], P, n) /\ Len(f[n]) = P[n]
    BY <1>1, <1>4, <1>8
  <1>12. Flat(s, f[n], P)
    BY <1>4, <1>9, <1>10, <1>11 DEF Flat, Holds, n
  <1>13. QED
    BY <1>11, <1>12 DEF n, P

LEMMA FlattenUnfolds ==
  ASSUME NEW s, NEW g, g = Joined(g, s, Len(s)), Len(s) # 0
  PROVE  \E f : f = Joined(f, s, Len(s)) /\ Tab!FlattenSeq(s) = f[Len(s)]
  <1> DEFINE f == CHOOSE f : f = Joined(f, s, Len(s))
  <1>1. f = Joined(f, s, Len(s))
    OBVIOUS
  <1>2. Tab!FlattenSeq(s) = f[Len(s)]
    BY DEF Tab!FlattenSeq, Joined
  <1>3. QED
    BY <1>1, <1>2

(* What FlattenSeq returns. *)
LEMMA Flattening ==
  ASSUME NEW S, NEW s \in Seq(Seq(S))
  PROVE  Tab!FlattenSeq(s) \in Seq(S) /\ \E P : Flat(s, Tab!FlattenSeq(s), P)
  <1>1. Len(s) \in Nat
    OBVIOUS
  <1>2. CASE Len(s) = 0
    <2>1. Tab!FlattenSeq(s) = s /\ s = <<>>
      BY <1>2 DEF Tab!FlattenSeq
    <2> DEFINE P == [i \in 0 .. 0 |-> 0]
    <2>2. Flat(s, s, P)
      BY <2>1 DEF Flat
    <2>3. s \in Seq(S)
      BY <2>1
    <2>4. QED
      BY <2>1, <2>2, <2>3
  <1>3. CASE Len(s) # 0
    <2>1. PICK g : g = Joined(g, s, Len(s))
      BY <1>1, JoinedExist
    <2>2. PICK f : f = Joined(f, s, Len(s)) /\ Tab!FlattenSeq(s) = f[Len(s)]
      BY <1>3, <2>1, FlattenUnfolds
    <2>3. f[Len(s)] \in Seq(S) /\ Flat(s, f[Len(s)], Starts(f))
      BY <1>1, <1>3, <2>2, JoinedFlat
    <2>4. QED
      BY <2>2, <2>3
  <1>4. QED
    BY <1>2, <1>3

(* What configuration tables hold: the numbers of processors are below 255,
   and the reserved flags are 0.  And what a loader hands over. *)
Area == [base : Nat \X Nat, length : Nat \X Nat, extra : Nat]

TablesGiven ==
  /\ MaxEntries \in Nat /\ MaxParagraphs \in Nat /\ MaxRegions \in Nat
  /\ \A e \in Entries : e.type \in Nat /\ e.id \in 0 .. 254 /\ e.flags \in 0 .. 3
  /\ Regions \subseteq Area
  /\ \A i \in Infos : i.modules \in Seq([start : Nat, end : Nat, string : STRING])

Layouts == [k \in 1 .. Len(listed) |-> Tab!Layout(listed[k])]
AreaLayouts == [k \in 1 .. Len(info.regions) |-> Tab!RegionLayout(info.regions[k])]

(* Where the sequences s are in F, which are joined in it. *)
Ends(s, F) == CHOOSE P : Flat(s, F, P)

EntryEnds == Ends(Layouts, table.cells)
AreaEnds == Ends(AreaLayouts, info.mmap)

(* The tables in memory are those the history tells of; nothing writes them. *)
Memory ==
  /\ bios \in Seq(Paragraphs)
  /\ listed \in Seq(Entries) /\ table.EntryQty = Len(listed)
  /\ Flat(Layouts, table.cells, EntryEnds)
  /\ info.regions \in Seq(Area) /\ info.mmap \in Seq(Nat)
  /\ Flat(AreaLayouts, info.mmap, AreaEnds)
  /\ info.modules \in Seq([start : Nat, end : Nat, string : STRING])

IsCpu(k) == listed[k].type = 0
IsBoot(k) == IsCpu(k) /\ listed[k].flags \in {2, 3}

States == {"CPU_STOPPED", "CPU_DISABLED", "CPU_READY"}

(* The list cs of processors and the boot processor b when the first n entries
   have been read. *)
Tally(cs, b, n) ==
  /\ Len(cs) = Tab!Place(n)
  /\ \A k \in 1 .. n : IsCpu(k) =>
       /\ cs[Tab!Place(k)].lapicId = listed[k].id
       /\ cs[Tab!Place(k)].state = IF listed[k].flags \in {1, 3} THEN "CPU_STOPPED"
                                   ELSE "CPU_DISABLED"
  /\ \A c \in 1 .. Len(cs) : cs[c].state # "CPU_READY"
  /\ b = 255 => \A k \in 1 .. n : ~ IsBoot(k)
  /\ b # 255 => \E k \in 1 .. n : /\ IsBoot(k) /\ b = listed[k].id
                                  /\ \A j \in k + 1 .. n : ~ IsBoot(j)

TableFound == \E i \in DOMAIN bios : Tab!IsFPS(bios[i])

Walk ==
  /\ reading = "FindFPS" => processors = <<>> /\ bspLapicId = 255
  /\ reading = "CheckFPS" => /\ processors = <<>> /\ bspLapicId = 255
                             /\ entryAt \in DOMAIN bios /\ Tab!IsFPS(bios[entryAt])
  /\ reading = "entries" => /\ TableFound /\ left \in 0 .. Len(listed)
                            /\ entryAt = EntryEnds[Len(listed) - left] + 1
                            /\ Tally(processors, bspLapicId, Len(listed) - left)
  /\ reading = "InitBsp" =>
       \/ TableFound /\ Tally(processors, bspLapicId, Len(listed))
       \/ /\ ~TableFound /\ bspLapicId = 0
          /\ processors = <<[lapicId |-> 0, state |-> "CPU_STOPPED"]>>

(* The first entries of the memory map are handed out, as far as it was read. *)
MapWalk ==
  /\ Len(mmap) <= Len(info.regions)
  /\ Len(mmap) < mapAt /\ mapAt = AreaEnds[Len(mmap)] + 1
  /\ \A k \in 1 .. Len(mmap) :
       mmap[k] = [addr |-> Tab!Address(info.regions[k].base[1], info.regions[k].base[2]),
                  length |-> Tab!Address(info.regions[k].length[1], info.regions[k].length[2]),
                  type |-> 1]
  /\ reading = "done" /\ info.flags # {} => Len(mmap) = Len(info.regions)

TabInv ==
  /\ Memory
  /\ reading \in {"FindFPS", "CheckFPS", "entries", "InitBsp", "map", "done", "asserted"}
  /\ processors \in Seq([lapicId : 0 .. 254, state : States])
  /\ bspLapicId \in 0 .. 255
  /\ \E S : mmap \in Seq(S)
  /\ Walk /\ MapWalk /\ Tab!ProcessorsListed

(* The places of processors count them. *)
Ranks(n) ==
  /\ Tab!Place(0) = 0
  /\ \A k \in 0 .. n : Tab!Place(k) \in Nat /\ Tab!Place(k) <= Tab!Place(n)
  /\ \A k \in 1 .. n : /\ Tab!Place(k) = Tab!Place(k - 1) + (IF IsCpu(k) THEN 1 ELSE 0)
                       /\ IsCpu(k) => Tab!Place(k) \in 1 .. Tab!Place(n)

LEMMA PlacesRank == ASSUME NEW n \in Nat PROVE Ranks(n)
  <1> DEFINE S(k) == {j \in 1 .. k : listed[j].type = 0}
  <1>1. \A k : Tab!Place(k) = Cardinality(S(k))
    BY DEF Tab!Place, Tab!etCPU, Tab!Cardinality, Cardinality
  <1>2. \A k \in Nat : IsFiniteSet(S(k)) /\ Tab!Place(k) \in Nat
    <2>1. ASSUME NEW k \in Nat PROVE IsFiniteSet(S(k)) /\ Cardinality(S(k)) \in Nat
      <3>1. IsFiniteSet(1 .. k) /\ S(k) \subseteq 1 .. k
        BY FS_Interval
      <3>2. QED
        BY <3>1, FS_Subset, FS_CardinalityType
    <2>2. QED
      BY <1>1, <2>1
  <1>3. Tab!Place(0) = 0
    <2>1. S(0) = {}
      OBVIOUS
    <2>2. QED
      BY <1>1, <2>1, FS_EmptySet
  <1>4. ASSUME NEW k \in Nat \ {0}
        PROVE  Tab!Place(k) = Tab!Place(k - 1) + (IF IsCpu(k) THEN 1 ELSE 0)
    <2>1. k - 1 \in Nat /\ k \notin S(k - 1)
      OBVIOUS
    <2>2. CASE IsCpu(k)
      <3>1. S(k) = S(k - 1) \cup {k}
        BY <2>2 DEF IsCpu
      <3>2. Cardinality(S(k)) = Cardinality(S(k - 1)) + 1
        <4>1. IsFiniteSet(S(k - 1))
          BY <1>2, <2>1
        <4> HIDE DEF S
        <4>2. Cardinality(S(k - 1) \cup {k}) = Cardinality(S(k - 1)) + 1
          BY <2>1, <4>1, FS_AddElement
        <4>3. QED
          BY <3>1, <4>2
      <3>3. QED
        BY <1>1, <2>2, <3>2
    <2>3. CASE ~ IsCpu(k)
      <3>1. S(k) = S(k - 1)
        BY <2>3 DEF IsCpu
      <3>2. Tab!Place(k) = Tab!Place(k - 1)
        BY <1>1, <3>1
      <3>3. QED
        <4>1. Tab!Place(k - 1) \in Nat
          BY <1>2, <2>1
        <4>2. Tab!Place(k - 1) + 0 = Tab!Place(k - 1)
          BY <4>1
        <4>3. QED
          BY <2>3, <3>2, <4>2
    <2>4. QED
      BY <2>2, <2>3
  <1>5. ASSUME NEW k \in 0 .. n PROVE Tab!Place(k) <= Tab!Place(n)
    <2>1. S(k) \subseteq S(n) /\ k \in Nat
      OBVIOUS
    <2>2. QED
      BY <1>1, <1>2, <2>1, FS_Subset
  <1>6. ASSUME NEW k \in 1 .. n, IsCpu(k) PROVE Tab!Place(k) \in 1 .. Tab!Place(n)
    <2>1. k \in Nat \ {0} /\ k - 1 \in Nat /\ k \in 0 .. n
      OBVIOUS
    <2>2. Tab!Place(k) = Tab!Place(k - 1) + 1 /\ Tab!Place(k - 1) \in Nat /\ Tab!Place(k) <= Tab!Place(n)
      BY <1>2, <1>4, <1>5, <1>6, <2>1
    <2>3. QED
      BY <1>2, <2>2
  <1>7. /\ 0 .. n \subseteq Nat
        /\ 1 .. n \subseteq Nat \ {0}
    OBVIOUS
  <1> HIDE DEF S
  <1>8. \A k \in 0 .. n : Tab!Place(k) \in Nat /\ Tab!Place(k) <= Tab!Place(n)
    BY <1>2, <1>5, <1>7
  <1>9. \A k \in 1 .. n : /\ Tab!Place(k) = Tab!Place(k - 1) + (IF IsCpu(k) THEN 1 ELSE 0)
                          /\ IsCpu(k) => Tab!Place(k) \in 1 .. Tab!Place(n)
    BY <1>4, <1>6, <1>7
  <1>10. QED
    BY <1>3, <1>8, <1>9 DEF Ranks

(* An entry in memory begins with its own bytes and is as long as its type
   says; a region has its five fields behind its size. *)
LEMMA EntryCells ==
  ASSUME NEW S, NEW e \in S, e.tail \in S
  PROVE  /\ Len(Tab!Layout(e)) = Tab!Size(e.type) /\ Tab!Size(e.type) \in {2, 5}
         /\ Tab!Layout(e)[1] = e
         /\ Tab!Layout(e) \in Seq(S)
  <1>1. CASE e.type = 0
    BY <1>1 DEF Tab!Layout, Tab!Size, Tab!etCPU
  <1>2. CASE e.type # 0
    BY <1>2 DEF Tab!Layout, Tab!Size, Tab!etCPU
  <1>3. QED
    BY <1>1, <1>2

LEMMA AreaCells ==
  ASSUME NEW r \in Area
  PROVE  /\ Tab!RegionLayout(r) \in Seq(Nat)
         /\ Len(Tab!RegionLayout(r)) = 6 + r.extra
         /\ Tab!RegionLayout(r)[1] = 20 + 4 * r.extra
         /\ Tab!RegionLayout(r)[2] = r.base[1] /\ Tab!RegionLayout(r)[3] = r.base[2]
         /\ Tab!RegionLayout(r)[4] = r.length[1] /\ Tab!RegionLayout(r)[5] = r.length[2]
         /\ Tab!RegionLayout(r)[6] = 1
  <1> DEFINE x == <<20 + 4 * r.extra, r.base[1], r.base[2], r.length[1], r.length[2], 1>>
             y == [i \in 1 .. r.extra |-> 0]
  <1>1. /\ r.extra \in Nat /\ r.base[1] \in Nat /\ r.base[2] \in Nat
        /\ r.length[1] \in Nat /\ r.length[2] \in Nat
    BY DEF Area
  <1>2. x \in Seq(Nat) /\ Len(x) = 6
    BY <1>1
  <1>3. /\ x[1] = 20 + 4 * r.extra /\ x[2] = r.base[1] /\ x[3] = r.base[2]
        /\ x[4] = r.length[1] /\ x[5] = r.length[2] /\ x[6] = 1
    OBVIOUS
  <1>4. y \in Seq(Nat) /\ Len(y) = r.extra
    BY <1>1
  <1>5. Tab!RegionLayout(r) = x \o y
    BY DEF Tab!RegionLayout
  <1> HIDE DEF x, y
  <1>6. ASSUME NEW u \in Seq(Nat), NEW v \in Seq(Nat)
        PROVE  /\ u \o v \in Seq(Nat) /\ Len(u \o v) = Len(u) + Len(v)
               /\ \A j \in 1 .. Len(u) : (u \o v)[j] = u[j]
    OBVIOUS
  <1>7. /\ x \o y \in Seq(Nat) /\ Len(x \o y) = 6 + r.extra
        /\ \A j \in 1 .. 6 : (x \o y)[j] = x[j]
    <2>1. /\ x \o y \in Seq(Nat) /\ Len(x \o y) = Len(x) + Len(y)
          /\ \A j \in 1 .. Len(x) : (x \o y)[j] = x[j]
      BY <1>2, <1>4, <1>6
    <2> DEFINE z == x \o y
    <2> HIDE DEF z
    <2>2. /\ z \in Seq(Nat) /\ Len(z) = 6 + r.extra
          /\ \A j \in 1 .. 6 : z[j] = x[j]
      BY <1>2, <1>4, <2>1 DEF z
    <2>3. QED
      BY <2>2 DEF z
  <1> HIDE DEF Tab!RegionLayout
  <1>8. \A j \in 1 .. 6 : Tab!RegionLayout(r)[j] = x[j]
    BY <1>5, <1>7
  <1> DEFINE t == Tab!RegionLayout(r)
  <1> HIDE DEF t
  <1>9. t[1] = x[1] /\ t[2] = x[2] /\ t[3] = x[3] /\ t[4] = x[4] /\ t[5] = x[5] /\ t[6] = x[6]
    BY <1>8 DEF t
  <1>10. t \in Seq(Nat) /\ Len(t) = 6 + r.extra
    BY <1>5, <1>7 DEF t
  <1>11. QED
    BY <1>3, <1>9, <1>10 DEF t

LEMMA LayoutsJoined ==
  ASSUME listed \in Seq(Entries), NEW F, F = Tab!FlattenSeq(Layouts)
  PROVE  Flat(Layouts, F, Ends(Layouts, F))
  <1> DEFINE S == UNION {{e, e.tail} : e \in Entries}
  <1>1. \A k \in 1 .. Len(listed) : Tab!Layout(listed[k]) \in Seq(S)
    <2>1. ASSUME NEW k \in 1 .. Len(listed) PROVE Tab!Layout(listed[k]) \in Seq(S)
      <3> DEFINE e == listed[k]
      <3>1. e \in Entries
        OBVIOUS
      <3> HIDE DEF e
      <3>2. e \in S /\ e.tail \in S
        BY <3>1
      <3> HIDE DEF S
      <3>3. Tab!Layout(e) \in Seq(S)
        BY <3>2, EntryCells
      <3>4. QED
        BY <3>3 DEF e
    <2>2. QED
      BY <2>1
  <1> HIDE DEF S
  <1>2. Layouts \in Seq(Seq(S))
    BY <1>1 DEF Layouts
  <1>3. \E P : Flat(Layouts, F, P)
    BY <1>2, Flattening
  <1>4. QED
    BY <1>3 DEF Ends

LEMMA AreasJoined ==
  ASSUME info.regions \in Seq(Area), NEW F, F = Tab!FlattenSeq(AreaLayouts)
  PROVE  F \in Seq(Nat) /\ Flat(AreaLayouts, F, Ends(AreaLayouts, F))
  <1>1. AreaLayouts \in Seq(Seq(Nat))
    <2>1. \A k \in 1 .. Len(info.regions) : Tab!RegionLayout(info.regions[k]) \in Seq(Nat)
      BY AreaCells
    <2>2. QED
      BY <2>1 DEF AreaLayouts
  <1>2. F \in Seq(Nat) /\ \E P : Flat(AreaLayouts, F, P)
    BY <1>1, Flattening
  <1>3. QED
    BY <1>2 DEF Ends

LEMMA TabInit == ASSUME TablesGiven, Tab!Init PROVE TabInv
  <1>1. PICK n \in 0 .. MaxEntries : listed \in [1 .. n -> Entries]
    BY DEF Tab!Init
  <1>2. listed \in Seq(Entries) /\ Len(listed) = n /\ DOMAIN listed = 1 .. Len(listed)
    BY <1>1 DEF TablesGiven
  <1>3. table = [EntryQty |-> Len(listed),
                 cells |-> Tab!FlattenSeq([i \in DOMAIN listed |-> Tab!Layout(listed[i])])]
    BY DEF Tab!Init
  <1>4. table.EntryQty = Len(listed) /\ table.cells = Tab!FlattenSeq(Layouts)
    BY <1>2, <1>3 DEF Layouts
  <1>5. Flat(Layouts, table.cells, EntryEnds)
    BY <1>2, <1>4, LayoutsJoined DEF EntryEnds
  <1>6. PICK i \in Infos, k \in 0 .. MaxRegions : \E r \in [1 .. k -> Regions] :
               info = [flags |-> i.flags, modules |-> i.modules, regions |-> r,
                       mmap |-> Tab!FlattenSeq([j \in DOMAIN r |-> Tab!RegionLayout(r[j])])]
    BY DEF Tab!Init
  <1>7. PICK r \in [1 .. k -> Regions] :
               info = [flags |-> i.flags, modules |-> i.modules, regions |-> r,
                       mmap |-> Tab!FlattenSeq([j \in DOMAIN r |-> Tab!RegionLayout(r[j])])]
    BY <1>6
  <1>8. /\ info.regions = r /\ info.modules = i.modules
        /\ info.mmap = Tab!FlattenSeq([j \in DOMAIN r |-> Tab!RegionLayout(r[j])])
    BY <1>7
  <1>9. r \in Seq(Area) /\ DOMAIN r = 1 .. Len(r)
    BY <1>7 DEF TablesGiven
  <1>10. info.mmap = Tab!FlattenSeq(AreaLayouts)
    BY <1>8, <1>9 DEF AreaLayouts
  <1>11. info.mmap \in Seq(Nat) /\ Flat(AreaLayouts, info.mmap, AreaEnds)
    BY <1>8, <1>9, <1>10, AreasJoined DEF AreaEnds
  <1>12. info.modules \in Seq([start : Nat, end : Nat, string : STRING])
    BY <1>6, <1>8 DEF TablesGiven
  <1>13. Memory
    <2>1. bios \in Seq(Paragraphs)
      BY DEF Tab!Init, TablesGiven
    <2>2. QED
      BY <2>1, <1>2, <1>4, <1>5, <1>8, <1>9, <1>11, <1>12 DEF Memory
  <1>14. /\ reading = "FindFPS" /\ entryAt = 1 /\ left = 0 /\ processors = <<>>
         /\ bspLapicId = 255 /\ mapAt = 1 /\ mmap = <<>>
    BY DEF Tab!Init, Tab!NotFound
  <1>15. Walk /\ Tab!ProcessorsListed
    BY <1>14 DEF Walk, Tab!ProcessorsListed
  <1>16. MapWalk
    <2>1. AreaEnds[0] = 0 /\ Len(info.regions) \in Nat
      BY <1>8, <1>9, <1>11 DEF Flat
    <2>2. Len(mmap) = 0
      BY <1>14
    <2>3. QED
      BY <1>14, <2>1, <2>2 DEF MapWalk
  <1>17. mmap \in Seq({}) /\ processors \in Seq([lapicId : 0 .. 254, state : States])
    BY <1>14
  <1>18. QED
    BY <1>13, <1>14, <1>15, <1>16, <1>17 DEF TabInv

(* Nothing writes the tables: what is said of them stays true. *)
LEMMA TablesStay ==
  ASSUME UNCHANGED Tab!multiboot
  PROVE  /\ listed' = listed /\ bios' = bios /\ info' = info /\ table' = table
         /\ Memory' <=> Memory
         /\ TableFound' <=> TableFound
         /\ EntryEnds' = EntryEnds /\ AreaEnds' = AreaEnds
         /\ \A n : Tab!Place(n)' = Tab!Place(n)
         /\ \A n : IsCpu(n)' <=> IsCpu(n)
         /\ \A n : IsBoot(n)' <=> IsBoot(n)
         /\ \A n : Tally(processors, bspLapicId, n)' <=> Tally(processors', bspLapicId', n)
  <1>1. listed' = listed /\ bios' = bios /\ info' = info /\ table' = table
    BY DEF Tab!multiboot
  <1>2. TableFound' <=> TableFound
    BY <1>1 DEF TableFound, Tab!IsFPS
  <1>3. Layouts' = Layouts /\ AreaLayouts' = AreaLayouts
    BY <1>1 DEF Layouts, AreaLayouts, Tab!Layout, Tab!RegionLayout, Tab!etCPU
  <1>4. EntryEnds' = EntryEnds /\ AreaEnds' = AreaEnds
    BY <1>1, <1>3 DEF EntryEnds, AreaEnds, Ends, Flat
  <1>5. Memory' <=> Memory
    BY <1>1, <1>3, <1>4 DEF Memory, Flat
  <1>6. \A n : Tab!Place(n)' = Tab!Place(n)
    BY <1>1 DEF Tab!Place, Tab!Cardinality, Tab!etCPU
  <1>7. /\ \A n : IsCpu(n)' <=> IsCpu(n)
        /\ \A n : IsBoot(n)' <=> IsBoot(n)
    BY <1>1 DEF IsCpu, IsBoot
  <1>8. ASSUME NEW n PROVE Tally(processors, bspLapicId, n)' <=> Tally(processors', bspLapicId', n)
    BY <1>1, <1>6, <1>7 DEF Tally
  <1>9. QED
    BY <1>1, <1>2, <1>4, <1>5, <1>6, <1>7, <1>8

LEMMA MapStays ==
  ASSUME UNCHANGED Tab!multiboot, UNCHANGED <<mapAt, mmap>>, MapWalk, reading' # "done"
  PROVE  MapWalk'
  <1>1. info' = info /\ AreaEnds' = AreaEnds
    BY TablesStay
  <1>2. mapAt' = mapAt /\ mmap' = mmap
    OBVIOUS
  <1>3. QED
    BY <1>1, <1>2 DEF MapWalk, Tab!Address

(* AddCpu appends one processor that is not ready. *)
LEMMA Adding ==
  ASSUME TabInv, NEW id \in 0 .. 254, NEW enabled \in BOOLEAN, NEW bsp \in BOOLEAN,
         Tab!AddCpu(id, enabled, bsp)
  PROVE  /\ processors' = Append(processors, [lapicId |-> id, state |-> IF enabled THEN "CPU_STOPPED"
                                                                       ELSE "CPU_DISABLED"])
         /\ processors' \in Seq([lapicId : 0 .. 254, state : States])
         /\ bspLapicId' = (IF bsp THEN id ELSE bspLapicId) /\ bspLapicId' \in 0 .. 255
  BY DEF TabInv, Tab!AddCpu, States

LEMMA FindFPSKeeps == ASSUME TablesGiven, TabInv, Tab!FindFPS PROVE TabInv'
  <1> DEFINE found == {i \in DOMAIN bios : Tab!IsFPS(bios[i])}
  <1>1. UNCHANGED Tab!multiboot /\ UNCHANGED <<mapAt, mmap>> /\ reading = "FindFPS"
    BY DEF Tab!FindFPS
  <1>2. Memory' /\ (\E S : mmap' \in Seq(S))
    BY <1>1, TablesStay DEF TabInv
  <1>3. CASE found = {}
    <2>1. Tab!AddCpu(0, TRUE, TRUE) /\ reading' = "InitBsp"
      BY <1>3 DEF Tab!FindFPS
    <2>2. processors = <<>>
      BY <1>1 DEF TabInv, Walk
    <2>3. /\ processors' = <<[lapicId |-> 0, state |-> "CPU_STOPPED"]>>
          /\ processors' \in Seq([lapicId : 0 .. 254, state : States])
          /\ bspLapicId' = 0 /\ bspLapicId' \in 0 .. 255
      <3>1. 0 \in 0 .. 254 /\ TRUE \in BOOLEAN
        OBVIOUS
      <3>2. /\ processors' = Append(processors, [lapicId |-> 0,
                                                  state |-> IF TRUE THEN "CPU_STOPPED"
                                                            ELSE "CPU_DISABLED"])
            /\ processors' \in Seq([lapicId : 0 .. 254, state : States])
            /\ bspLapicId' = (IF TRUE THEN 0 ELSE bspLapicId) /\ bspLapicId' \in 0 .. 255
        BY <2>1, <3>1, Adding
      <3>3. QED
        BY <2>2, <3>2
    <2>4. ~ TableFound'
      BY <1>1, <1>3, TablesStay DEF TableFound
    <2>5. Walk'
      BY <2>1, <2>3, <2>4 DEF Walk
    <2>6. MapWalk'
      BY <1>1, <2>1, MapStays DEF TabInv
    <2>7. Tab!ProcessorsListed'
      BY <2>1 DEF Tab!ProcessorsListed
    <2>8. QED
      BY <1>2, <2>1, <2>3, <2>5, <2>6, <2>7 DEF TabInv
  <1>4. CASE found # {}
    <2>1. /\ entryAt' = Tab!Min(found) /\ reading' = "CheckFPS"
          /\ processors' = processors /\ bspLapicId' = bspLapicId
      BY <1>4 DEF Tab!FindFPS
    <2>2. entryAt' \in found
      <3>1. DOMAIN bios \subseteq Nat
        BY DEF TabInv, Memory
      <3>2. found \in SUBSET Nat
        BY <3>1
      <3> HIDE DEF found
      <3>3. \E x \in found : \A y \in found : x <= y
        BY <1>4, <3>2, LeastNatural
      <3>4. QED
        BY <2>1, <3>3 DEF Tab!Min
    <2>3. bios' = bios
      BY <1>1, TablesStay
    <2>4. Walk'
      BY <1>1, <2>1, <2>2, <2>3 DEF TabInv, Walk, Tab!IsFPS
    <2>5. MapWalk'
      BY <1>1, <2>1, MapStays DEF TabInv
    <2>6. Tab!ProcessorsListed'
      BY <2>1 DEF Tab!ProcessorsListed
    <2>7. QED
      BY <1>2, <2>1, <2>4, <2>5, <2>6 DEF TabInv
  <1>5. QED
    BY <1>3, <1>4

LEMMA CheckFPSKeeps == ASSUME TablesGiven, TabInv, Tab!CheckFPS PROVE TabInv'
  <1>1. /\ UNCHANGED Tab!multiboot /\ UNCHANGED <<mapAt, mmap>> /\ reading = "CheckFPS"
        /\ entryAt' = 1 /\ left' = table.EntryQty
        /\ processors' = processors /\ bspLapicId' = bspLapicId
    BY DEF Tab!CheckFPS
  <1>2. /\ entryAt \in DOMAIN bios /\ Tab!IsFPS(bios[entryAt])
        /\ processors = <<>> /\ bspLapicId = 255
    BY <1>1 DEF TabInv, Walk
  <1>3. Memory' /\ (\E S : mmap' \in Seq(S))
    BY <1>1, TablesStay DEF TabInv
  <1>4. MapWalk'
    <2>1. reading' # "done"
      BY DEF Tab!CheckFPS
    <2>2. QED
      BY <1>1, <2>1, MapStays DEF TabInv
  <1>5. CASE Tab!FPSPasses(bios[entryAt]) /\ bios[entryAt].pConfigTable
    <2>1. reading' = "entries"
      BY <1>5 DEF Tab!CheckFPS
    <2>2. /\ Memory /\ listed' = listed /\ EntryEnds' = EntryEnds
          /\ TableFound' <=> TableFound
          /\ \A n : Tally(processors, bspLapicId, n)' <=> Tally(processors', bspLapicId', n)
      BY <1>1, TablesStay DEF TabInv
    <2>3. Len(listed) \in Nat /\ left' = Len(listed) /\ EntryEnds[0] = 0
      BY <1>1, <2>2 DEF Memory, Flat
    <2>4. Tally(processors', bspLapicId', 0)
      <3>1. Tab!Place(0) = 0
        BY PlacesRank DEF Ranks
      <3>2. QED
        BY <1>1, <1>2, <3>1 DEF Tally
    <2>5. Len(listed') - left' = 0
      BY <2>2, <2>3
    <2>6. Tally(processors, bspLapicId, Len(listed) - left)'
      <3>1. Tally(processors, bspLapicId, Len(listed) - left)'
              <=> Tally(processors', bspLapicId', Len(listed') - left')
        BY <1>1, <2>2, TablesStay DEF Tally, IsCpu, IsBoot
      <3>2. QED
        BY <2>4, <2>5, <3>1
    <2>7. TableFound
      BY <1>2 DEF TableFound
    <2>8. Walk'
      BY <1>1, <2>1, <2>2, <2>3, <2>5, <2>6, <2>7 DEF Walk
    <2>9. Tab!ProcessorsListed'
      BY <2>1 DEF Tab!ProcessorsListed
    <2>10. QED
      BY <1>1, <1>3, <1>4, <2>1, <2>8, <2>9 DEF TabInv
  <1>6. CASE ~ (Tab!FPSPasses(bios[entryAt]) /\ bios[entryAt].pConfigTable)
    <2>1. reading' = "asserted"
      BY <1>6 DEF Tab!CheckFPS
    <2>2. Walk'
      BY <2>1 DEF Walk
    <2>3. Tab!ProcessorsListed'
      <3>1. bios' = bios
        BY <1>1, TablesStay
      <3>2. QED
        BY <1>2, <1>6, <2>1, <3>1 DEF Tab!ProcessorsListed
    <2>4. QED
      BY <1>1, <1>3, <1>4, <2>1, <2>2, <2>3 DEF TabInv
  <1>7. QED
    BY <1>5, <1>6

(* The list grows with every processor, other entries leave it as it is. *)
LEMMA TallyGrows ==
  ASSUME TablesGiven, Memory, NEW n \in Nat, n + 1 <= Len(listed), NEW b, b \in 0 .. 255,
         NEW cs \in Seq([lapicId : 0 .. 254, state : States]), Tally(cs, b, n), IsCpu(n + 1),
         NEW c, c = [lapicId |-> listed[n + 1].id,
                     state |-> IF listed[n + 1].flags \in {1, 3} THEN "CPU_STOPPED"
                               ELSE "CPU_DISABLED"]
  PROVE  Tally(Append(cs, c), IF listed[n + 1].flags \in {2, 3} THEN listed[n + 1].id ELSE b, n + 1)
  <1> DEFINE k == n + 1
             ds == Append(cs, c)
             bb == IF listed[k].flags \in {2, 3} THEN listed[k].id ELSE b
  <1>1. k \in 1 .. Len(listed) /\ listed[k] \in Entries /\ k \in Nat /\ k - 1 = n
    BY DEF Memory
  <1>2. listed[k].id \in 0 .. 254
    BY <1>1 DEF TablesGiven
  <1>3. /\ Tab!Place(k) = Tab!Place(n) + 1 /\ Tab!Place(n) \in Nat
        /\ \A j \in 1 .. n : IsCpu(j) => Tab!Place(j) \in 1 .. Tab!Place(n)
    <2>1. Ranks(k) /\ Ranks(n) /\ k \in 1 .. k /\ n \in 0 .. n
      BY <1>1, PlacesRank
    <2>2. Tab!Place(k) = Tab!Place(k - 1) + 1
      BY <2>1 DEF Ranks
    <2>3. QED
      BY <1>1, <2>1, <2>2 DEF Ranks
  <1>4. Len(cs) = Tab!Place(n)
    BY DEF Tally
  <1>5. /\ Len(ds) = Tab!Place(k) /\ ds[Tab!Place(k)] = c
        /\ \A j \in 1 .. Tab!Place(n) : ds[j] = cs[j]
    BY <1>3, <1>4
  <1> HIDE DEF ds
  <1>6. \A j \in 1 .. k : j \in 1 .. n \/ j = k
    BY <1>1
  <1>7. ASSUME NEW j \in 1 .. k, IsCpu(j)
        PROVE  /\ ds[Tab!Place(j)].lapicId = listed[j].id
               /\ ds[Tab!Place(j)].state = IF listed[j].flags \in {1, 3} THEN "CPU_STOPPED"
                                           ELSE "CPU_DISABLED"
    <2>1. CASE j = k
      BY <1>5, <2>1
    <2>2. CASE j \in 1 .. n
      <3>1. ds[Tab!Place(j)] = cs[Tab!Place(j)]
        BY <1>3, <1>5, <1>7, <2>2
      <3>2. QED
        BY <1>7, <2>2, <3>1 DEF Tally
    <2>3. QED
      BY <1>6, <2>1, <2>2
  <1>8. \A j \in 1 .. Len(ds) : ds[j].state # "CPU_READY"
    <2>1. ASSUME NEW j \in 1 .. Len(ds) PROVE ds[j].state # "CPU_READY"
      <3>1. j \in 1 .. Len(cs) \/ j = Tab!Place(k)
        BY <1>3, <1>4, <1>5
      <3>2. CASE j \in 1 .. Len(cs)
        BY <1>4, <1>5, <3>2 DEF Tally
      <3>3. CASE j = Tab!Place(k)
        BY <1>5, <3>3
      <3>4. QED
        BY <3>1, <3>2, <3>3
    <2>2. QED
      BY <2>1
  <1>9. /\ bb = 255 => \A j \in 1 .. k : ~ IsBoot(j)
        /\ bb # 255 => \E i \in 1 .. k : /\ IsBoot(i) /\ bb = listed[i].id
                                         /\ \A j \in i + 1 .. k : ~ IsBoot(j)
    <2>1. CASE listed[k].flags \in {2, 3}
      <3>1. bb = listed[k].id /\ bb # 255 /\ IsBoot(k) /\ k \in 1 .. k
        <4>1. IsBoot(k)
          BY <2>1 DEF IsBoot
        <4>2. bb = listed[k].id /\ k \in 1 .. k
          BY <1>1, <2>1
        <4> DEFINE id == listed[k].id
        <4> HIDE DEF bb, id
        <4>3. bb = id /\ id \in 0 .. 254
          BY <1>2, <4>2 DEF id
        <4>4. bb # 255
          BY <4>3
        <4>5. QED
          BY <4>1, <4>2, <4>4
      <3>2. \A j \in k + 1 .. k : FALSE
        BY <1>1
      <3>3. QED
        BY <3>1, <3>2
    <2>2. CASE listed[k].flags \notin {2, 3}
      <3>1. bb = b /\ ~ IsBoot(k)
        BY <2>2 DEF IsBoot
      <3>2. CASE b = 255
        BY <1>6, <3>1, <3>2 DEF Tally
      <3>3. CASE b # 255
        <4>1. PICK i \in 1 .. n : /\ IsBoot(i) /\ b = listed[i].id
                                  /\ \A j \in i + 1 .. n : ~ IsBoot(j)
          BY <3>3 DEF Tally
        <4>2. \A j \in i + 1 .. k : j \in i + 1 .. n \/ j = k
          BY <1>1
        <4>3. i \in 1 .. k
          BY <1>1
        <4>4. QED
          BY <3>1, <3>3, <4>1, <4>2, <4>3
      <3>4. QED
        BY <3>2, <3>3
    <2>3. QED
      BY <2>1, <2>2
  <1> HIDE DEF bb
  <1>10. Tally(ds, bb, k)
    BY <1>5, <1>7, <1>8, <1>9 DEF Tally
  <1>11. QED
    BY <1>10 DEF ds, bb, k

LEMMA TallySkips ==
  ASSUME Memory, NEW n \in Nat, NEW b, NEW cs, Tally(cs, b, n), ~ IsCpu(n + 1)
  PROVE  Tally(cs, b, n + 1)
  <1> DEFINE k == n + 1
  <1>1. k \in Nat /\ k - 1 = n /\ \A j \in 1 .. k : j \in 1 .. n \/ j = k
    OBVIOUS
  <1>2. Tab!Place(k) = Tab!Place(n)
    <2>1. Ranks(k) /\ Ranks(n) /\ k \in 1 .. k /\ n \in 0 .. n
      BY <1>1, PlacesRank
    <2>2. Tab!Place(k) = Tab!Place(k - 1) + 0 /\ Tab!Place(n) \in Nat
      BY <2>1 DEF Ranks
    <2>3. QED
      BY <1>1, <2>2
  <1>3. ~ IsBoot(k) /\ ~ IsCpu(k)
    BY DEF IsBoot
  <1> HIDE DEF k
  <1>4. b # 255 => \E i \in 1 .. k : /\ IsBoot(i) /\ b = listed[i].id
                                     /\ \A j \in i + 1 .. k : ~ IsBoot(j)
    <2>1. SUFFICES ASSUME b # 255
                   PROVE  \E i \in 1 .. k : /\ IsBoot(i) /\ b = listed[i].id
                                            /\ \A j \in i + 1 .. k : ~ IsBoot(j)
      OBVIOUS
    <2>2. PICK i \in 1 .. n : /\ IsBoot(i) /\ b = listed[i].id
                              /\ \A j \in i + 1 .. n : ~ IsBoot(j)
      BY <2>1 DEF Tally
    <2>3. i \in 1 .. k /\ \A j \in i + 1 .. k : j \in i + 1 .. n \/ j = k
      BY DEF k
    <2>4. QED
      BY <1>3, <2>2, <2>3
  <1>5. Tally(cs, b, k)
    BY <1>1, <1>2, <1>3, <1>4 DEF Tally
  <1>6. QED
    BY <1>5 DEF k

(* The cell the entry after n others is read at, and the one after it. *)
LEMMA EntryAt ==
  ASSUME Memory, NEW n \in Nat, n + 1 <= Len(listed)
  PROVE  /\ table.cells[EntryEnds[n] + 1] = listed[n + 1] /\ listed[n + 1] \in Entries
         /\ EntryEnds[n + 1] = EntryEnds[n] + Tab!Size(listed[n + 1].type)
         /\ EntryEnds[n] \in Nat /\ Tab!Size(listed[n + 1].type) \in Nat
  <1> DEFINE k == n + 1
             e == listed[k]
             P == EntryEnds
  <1>1. k \in 1 .. Len(listed) /\ k - 1 = n /\ e \in Entries /\ Len(listed) \in Nat
    <2>1. listed \in Seq(Entries)
      BY DEF Memory
    <2>2. Len(listed) \in Nat /\ \A j \in 1 .. Len(listed) : listed[j] \in Entries
      BY <2>1
    <2>3. k \in 1 .. Len(listed) /\ k - 1 = n
      BY <2>2
    <2> HIDE DEF k
    <2>4. QED
      BY <2>2, <2>3
  <1>2. Layouts[k] = Tab!Layout(e) /\ Len(Layouts) = Len(listed)
    BY <1>1 DEF Layouts
  <1>3. /\ Len(Tab!Layout(e)) = Tab!Size(e.type) /\ Tab!Size(e.type) \in {2, 5}
        /\ Tab!Layout(e)[1] = e
    <2>1. e \in {e, e.tail} /\ e.tail \in {e, e.tail}
      OBVIOUS
    <2> HIDE DEF e
    <2>2. QED
      BY <2>1, EntryCells
  <1> HIDE DEF P, e, k
  <1>4. /\ P \in [0 .. Len(listed) -> Nat]
        /\ P[k] = P[k - 1] + Len(Layouts[k])
        /\ \A j \in 1 .. Len(Layouts[k]) : table.cells[P[k - 1] + j] = Layouts[k][j]
    BY <1>1, <1>2 DEF Memory, Flat, P
  <1>5. P[n] \in Nat /\ 1 \in 1 .. Len(Layouts[k])
    BY <1>1, <1>2, <1>3, <1>4
  <1>6. /\ P[k] = P[n] + Tab!Size(e.type) /\ Tab!Size(e.type) \in Nat
        /\ table.cells[P[n] + 1] = e
    BY <1>1, <1>2, <1>3, <1>4, <1>5
  <1>7. QED
    BY <1>1, <1>5, <1>6 DEF P, e, k

LEMMA EntryKeeps == ASSUME TablesGiven, TabInv, Tab!Entry PROVE TabInv'
  <1> DEFINE n == Len(listed) - left
             k == n + 1
             e == listed[k]
  <1>1. /\ UNCHANGED Tab!multiboot /\ UNCHANGED <<mapAt, mmap>> /\ reading = "entries" /\ left > 0
    BY DEF Tab!Entry
  <1>2. /\ TableFound /\ left \in 0 .. Len(listed) /\ entryAt = EntryEnds[n] + 1
        /\ Tally(processors, bspLapicId, n) /\ Memory
        /\ processors \in Seq([lapicId : 0 .. 254, state : States]) /\ bspLapicId \in 0 .. 255
    BY <1>1 DEF TabInv, Walk
  <1>3. n \in Nat /\ k <= Len(listed) /\ Len(listed) \in Nat /\ k \in 1 .. Len(listed)
    BY <1>1, <1>2 DEF Memory
  <1>4. /\ table.cells[entryAt] = e /\ e \in Entries
        /\ EntryEnds[k] = EntryEnds[n] + Tab!Size(e.type)
        /\ EntryEnds[n] \in Nat /\ Tab!Size(e.type) \in Nat
    BY <1>2, <1>3, EntryAt
  <1>5. e.type \in Nat /\ e.id \in 0 .. 254 /\ e.flags \in 0 .. 3
    BY <1>4 DEF TablesGiven
  <1>6. Memory' /\ (\E S : mmap' \in Seq(S))
    BY <1>1, TablesStay DEF TabInv
  <1>7. MapWalk'
    <2>1. reading' # "done"
      BY <1>1 DEF Tab!Entry
    <2>2. QED
      BY <1>1, <2>1, MapStays DEF TabInv
  <1> HIDE DEF e
  <1>8. CASE e.type \in {0, 1, 2, 3, 4}
    <2>1. /\ IF e.type = 0 THEN Tab!AddCpu(e.id, e.flags % 2 = 1, (e.flags \div 2) % 2 = 1)
             ELSE UNCHANGED <<processors, bspLapicId>>
          /\ entryAt' = entryAt + Tab!Size(e.type) /\ left' = left - 1 /\ reading' = reading
      <3>1. e.type \in {Tab!etCPU, Tab!etBUS, Tab!etIOAPIC, Tab!etIO_INT, Tab!etLOCAL_INT}
        BY <1>8 DEF Tab!etCPU, Tab!etBUS, Tab!etIOAPIC, Tab!etIO_INT, Tab!etLOCAL_INT
      <3>2. QED
        BY <1>4, <3>1 DEF Tab!Entry, Tab!etCPU
    <2>2. /\ Tally(processors', bspLapicId', k)
          /\ processors' \in Seq([lapicId : 0 .. 254, state : States]) /\ bspLapicId' \in 0 .. 255
      <3>1. CASE e.type = 0
        <4>1. (e.flags % 2 = 1) <=> e.flags \in {1, 3}
          BY <1>5
        <4>2. ((e.flags \div 2) % 2 = 1) <=> e.flags \in {2, 3}
          BY <1>5
        <4>3. Tab!AddCpu(e.id, e.flags \in {1, 3}, e.flags \in {2, 3})
          BY <2>1, <3>1, <4>1, <4>2 DEF Tab!AddCpu
        <4> DEFINE c == [lapicId |-> e.id, state |-> IF e.flags \in {1, 3} THEN "CPU_STOPPED"
                                                     ELSE "CPU_DISABLED"]
        <4>4. /\ processors' = Append(processors, c)
              /\ processors' \in Seq([lapicId : 0 .. 254, state : States])
              /\ bspLapicId' = (IF e.flags \in {2, 3} THEN e.id ELSE bspLapicId)
              /\ bspLapicId' \in 0 .. 255
          <5>1. /\ processors' = Append(processors, c)
                /\ bspLapicId' = (IF e.flags \in {2, 3} THEN e.id ELSE bspLapicId)
            BY <4>3 DEF Tab!AddCpu
          <5>2. c \in [lapicId : 0 .. 254, state : States]
            BY <1>5 DEF States
          <5>3. bspLapicId' \in 0 .. 255
            BY <1>2, <1>5, <5>1
          <5> HIDE DEF c
          <5>4. QED
            BY <1>2, <5>1, <5>2, <5>3
        <4>5. IsCpu(k)
          BY <3>1 DEF IsCpu, e
        <4>6. c = [lapicId |-> listed[k].id,
                   state |-> IF listed[k].flags \in {1, 3} THEN "CPU_STOPPED" ELSE "CPU_DISABLED"]
          BY DEF e
        <4> HIDE DEF c
        <4>7. Tally(Append(processors, c),
                    IF listed[k].flags \in {2, 3} THEN listed[k].id ELSE bspLapicId, k)
          <5> HIDE DEF n
          <5>1. QED
            BY <1>2, <1>3, <4>5, <4>6, TallyGrows
        <4>8. QED
          BY <4>4, <4>7 DEF e
      <3>2. CASE e.type # 0
        <4>1. processors' = processors /\ bspLapicId' = bspLapicId /\ ~ IsCpu(k)
          BY <2>1, <3>2 DEF IsCpu, e
        <4> HIDE DEF n
        <4>2. Tally(processors, bspLapicId, k)
          BY <1>2, <1>3, <4>1, TallySkips
        <4>3. QED
          BY <1>2, <4>1, <4>2
      <3>3. QED
        BY <3>1, <3>2
    <2>3. Len(listed) - left' = k /\ left' \in 0 .. Len(listed)
      BY <1>1, <1>2, <1>3, <2>1
    <2>4. entryAt' = EntryEnds[k] + 1
      BY <1>2, <1>4, <2>1
    <2>5. Walk'
      <3>1. /\ listed' = listed /\ EntryEnds' = EntryEnds
            /\ TableFound' <=> TableFound
        BY <1>1, TablesStay
      <3>2. Tally(processors, bspLapicId, Len(listed) - left)'
              <=> Tally(processors', bspLapicId', Len(listed') - left')
        BY <1>1, TablesStay DEF Tally, IsCpu, IsBoot
      <3>3. Len(listed') - left' = k
        BY <2>3, <3>1
      <3>4. Tally(processors, bspLapicId, Len(listed) - left)'
        BY <2>2, <3>2, <3>3
      <3>5. entryAt' = EntryEnds'[Len(listed') - left'] + 1
        BY <2>4, <3>1, <3>3
      <3>6. reading' = "entries" /\ left' \in 0 .. Len(listed')
        BY <1>1, <2>1, <2>3, <3>1
      <3>7. QED
        BY <1>2, <3>1, <3>4, <3>5, <3>6 DEF Walk
    <2>6. Tab!ProcessorsListed'
      BY <1>1, <2>1 DEF Tab!ProcessorsListed
    <2>7. QED
      BY <1>1, <1>6, <1>7, <2>1, <2>2, <2>5, <2>6 DEF TabInv
  <1>9. CASE e.type \notin {0, 1, 2, 3, 4}
    <2>1. reading' = "asserted" /\ processors' = processors /\ bspLapicId' = bspLapicId
      BY <1>4, <1>9 DEF Tab!Entry, Tab!etCPU, Tab!etBUS, Tab!etIOAPIC, Tab!etIO_INT, Tab!etLOCAL_INT
    <2>2. listed' = listed /\ k \in DOMAIN listed /\ listed[k].type \notin 0 .. 4
      <3>1. DOMAIN listed = 1 .. Len(listed)
        BY <1>2 DEF Memory
      <3>2. QED
        BY <1>1, <1>3, <1>5, <1>9, <3>1, TablesStay DEF e
    <2>3. Tab!ProcessorsListed'
      <3> HIDE DEF k
      <3>1. QED
        BY <2>1, <2>2 DEF Tab!ProcessorsListed
    <2>4. Walk'
      BY <2>1 DEF Walk
    <2>5. QED
      BY <1>2, <1>6, <1>7, <2>1, <2>3, <2>4 DEF TabInv
  <1>10. QED
    BY <1>8, <1>9

LEMMA EndOfTableKeeps == ASSUME TablesGiven, TabInv, Tab!EndOfTable PROVE TabInv'
  <1>1. /\ UNCHANGED Tab!multiboot /\ UNCHANGED <<mapAt, mmap>> /\ reading = "entries" /\ left = 0
        /\ reading' = "InitBsp" /\ processors' = processors /\ bspLapicId' = bspLapicId
    BY DEF Tab!EndOfTable
  <1>2. TableFound /\ Tally(processors, bspLapicId, Len(listed)) /\ Memory
    <2>1. Len(listed) - 0 = Len(listed)
      BY DEF TabInv, Memory
    <2>2. QED
      BY <1>1, <2>1 DEF TabInv, Walk
  <1>3. Memory' /\ (\E S : mmap' \in Seq(S)) /\ listed' = listed /\ TableFound'
    BY <1>1, <1>2, TablesStay DEF TabInv
  <1>4. Tally(processors, bspLapicId, Len(listed))'
    <2>1. Tally(processors, bspLapicId, Len(listed))' <=> Tally(processors', bspLapicId', Len(listed'))
      BY <1>1, TablesStay DEF Tally, IsCpu, IsBoot
    <2>2. QED
      BY <1>1, <1>2, <1>3, <2>1
  <1>5. MapWalk'
    BY <1>1, MapStays DEF TabInv
  <1>6. Walk'
    BY <1>1, <1>3, <1>4 DEF Walk
  <1>7. Tab!ProcessorsListed'
    BY <1>1 DEF Tab!ProcessorsListed
  <1>8. QED
    BY <1>1, <1>3, <1>5, <1>6, <1>7 DEF TabInv

(* GetCpu finds a processor that is on the list. *)
LEMMA GetCpuFinds ==
  ASSUME NEW i \in 1 .. Len(processors), NEW S, processors \in Seq(S)
  PROVE  LET g == Tab!GetCpu(processors[i].lapicId)
         IN  /\ g \in 1 .. Len(processors) /\ processors[g].lapicId = processors[i].lapicId
             /\ g = Tab!Min({j \in DOMAIN processors : processors[j].lapicId = processors[i].lapicId})
  <1> DEFINE id == processors[i].lapicId
             found == {j \in DOMAIN processors : processors[j].lapicId = id}
  <1>1. DOMAIN processors = 1 .. Len(processors) /\ Len(processors) \in Nat
    OBVIOUS
  <1>2. found \in SUBSET Nat /\ i \in found
    BY <1>1
  <1>3. Tab!GetCpu(id) = Tab!Min(found)
    BY <1>2 DEF Tab!GetCpu
  <1> HIDE DEF found
  <1>4. \E x \in found : \A y \in found : x <= y
    BY <1>2, LeastNatural
  <1>5. Tab!Min(found) \in found
    BY <1>4 DEF Tab!Min
  <1>6. QED
    BY <1>1, <1>3, <1>5 DEF found

(* What the table says of the boot processor and the list, once it is read. *)
LEMMA TallyComplete ==
  ASSUME TablesGiven, Memory, NEW cs, NEW b, Tally(cs, b, Len(listed))
  PROVE  /\ b = 255 => {k \in {j \in DOMAIN listed : listed[j].type = Tab!etCPU} :
                          listed[k].flags \in {2, 3}} = {}
         /\ b # 255 => /\ b = listed[Tab!Max({k \in {j \in DOMAIN listed : listed[j].type = Tab!etCPU} :
                                                listed[k].flags \in {2, 3}})].id
                       /\ \E i \in 1 .. Len(cs) : cs[i].lapicId = b
         /\ Len(cs) = Tab!Cardinality({j \in DOMAIN listed : listed[j].type = Tab!etCPU})
  <1> DEFINE n == Len(listed)
             given == {j \in DOMAIN listed : listed[j].type = Tab!etCPU}
             boot == {k \in given : listed[k].flags \in {2, 3}}
  <1>1. DOMAIN listed = 1 .. n /\ n \in Nat
    BY DEF Memory
  <1>2. boot = {k \in 1 .. n : IsBoot(k)}
    BY <1>1 DEF IsBoot, IsCpu, Tab!etCPU
  <1>3. Len(cs) = Tab!Cardinality(given)
    <2>1. given = {j \in 1 .. n : listed[j].type = Tab!etCPU}
      BY <1>1
    <2>2. QED
      BY <2>1 DEF Tally, Tab!Place
  <1> HIDE DEF n, boot, given
  <1>4. b = 255 => boot = {}
    BY <1>2 DEF Tally, n
  <1>5. ASSUME b # 255 PROVE b = listed[Tab!Max(boot)].id /\ \E i \in 1 .. Len(cs) : cs[i].lapicId = b
    <2>1. PICK k \in 1 .. n : IsBoot(k) /\ b = listed[k].id /\ \A j \in k + 1 .. n : ~ IsBoot(j)
      BY <1>5 DEF Tally, n
    <2>2. k \in boot /\ \A j \in boot : k >= j
      BY <1>1, <1>2, <2>1
    <2>3. boot \subseteq Int
      BY <1>2
    <2>4. \A x \in boot : (\A j \in boot : x >= j) => x = k
      BY <2>2, <2>3
    <2>5. Tab!Max(boot) = k
      BY <2>2, <2>4 DEF Tab!Max
    <2>6. IsCpu(k) /\ cs[Tab!Place(k)].lapicId = listed[k].id /\ Len(cs) = Tab!Place(n)
      BY <2>1 DEF IsBoot, Tally, n
    <2>7. Tab!Place(k) \in 1 .. Len(cs)
      BY <1>1, <2>1, <2>6, PlacesRank DEF Ranks
    <2>8. QED
      BY <2>1, <2>5, <2>6, <2>7
  <1>6. QED
    BY <1>3, <1>4, <1>5 DEF boot, given

LEMMA InitBspKeeps == ASSUME TablesGiven, TabInv, Tab!InitBsp PROVE TabInv'
  <1> DEFINE n == Len(listed)
             P == [lapicId : 0 .. 254, state : States]
             given == {j \in DOMAIN listed : listed[j].type = Tab!etCPU}
             boot == {k \in given : listed[k].flags \in {2, 3}}
  <1>1. /\ UNCHANGED Tab!multiboot /\ UNCHANGED <<mapAt, mmap>> /\ reading = "InitBsp"
        /\ bspLapicId' = bspLapicId
    BY DEF Tab!InitBsp
  <1>2. /\ Memory /\ processors \in Seq(P) /\ bspLapicId \in 0 .. 255
        /\ \/ TableFound /\ Tally(processors, bspLapicId, n)
           \/ /\ ~TableFound /\ bspLapicId = 0
              /\ processors = <<[lapicId |-> 0, state |-> "CPU_STOPPED"]>>
    BY <1>1 DEF TabInv, Walk
  <1>3. /\ Memory' /\ (\E S : mmap' \in Seq(S)) /\ listed' = listed /\ bios' = bios
        /\ \A k : Tab!Place(k)' = Tab!Place(k)
    BY <1>1, TablesStay DEF TabInv
  <1>4. MapWalk'
    <2>1. reading' # "done"
      BY DEF Tab!InitBsp
    <2>2. QED
      BY <1>1, <2>1, MapStays DEF TabInv
  <1>5. ASSUME Tally(processors, bspLapicId, n)
        PROVE  /\ bspLapicId = 255 => boot = {}
               /\ bspLapicId # 255 => /\ bspLapicId = listed[Tab!Max(boot)].id
                                      /\ \E i \in 1 .. Len(processors) : processors[i].lapicId = bspLapicId
               /\ Len(processors) = Tab!Cardinality(given)
    BY <1>2, <1>5, TallyComplete
  <1>6. CASE bspLapicId = 255
    <2>1. reading' = "asserted" /\ processors' = processors
      BY <1>6 DEF Tab!InitBsp, Tab!NotFound
    <2>2. boot = {}
      <3> HIDE DEF boot
      <3>1. QED
        BY <1>2, <1>6, <1>5
    <2>3. Tab!ProcessorsListed'
      BY <1>3, <2>1, <2>2 DEF Tab!ProcessorsListed, Tab!etCPU
    <2>4. Walk'
      BY <2>1 DEF Walk
    <2>5. QED
      BY <1>1, <1>2, <1>3, <1>4, <2>1, <2>3, <2>4 DEF TabInv
  <1>7. CASE bspLapicId # 255
    <2> DEFINE g == Tab!GetCpu(bspLapicId)
    <2>1. \E i \in 1 .. Len(processors) : processors[i].lapicId = bspLapicId
      <3>1. CASE TableFound /\ Tally(processors, bspLapicId, n)
        BY <1>7, <1>5, <3>1
      <3>2. CASE /\ bspLapicId = 0
                 /\ processors = <<[lapicId |-> 0, state |-> "CPU_STOPPED"]>>
        BY <3>2
      <3>3. QED
        BY <1>2, <3>1, <3>2
    <2>2. /\ g \in 1 .. Len(processors) /\ processors[g].lapicId = bspLapicId
          /\ g = Tab!Min({j \in DOMAIN processors : processors[j].lapicId = bspLapicId})
      <3>1. PICK i \in 1 .. Len(processors) : processors[i].lapicId = bspLapicId
        BY <2>1
      <3>2. QED
        BY <1>2, <3>1, GetCpuFinds
    <2>3. /\ processors' = [processors EXCEPT ![g].state = "CPU_READY"]
          /\ reading' = "map"
      BY <1>7, <2>2 DEF Tab!InitBsp, Tab!NotFound
    <2> HIDE DEF g
    <2>4. /\ processors' \in Seq(P) /\ Len(processors') = Len(processors)
          /\ DOMAIN processors' = DOMAIN processors /\ DOMAIN processors = 1 .. Len(processors)
          /\ processors'[g].state = "CPU_READY"
          /\ \A i \in 1 .. Len(processors) : /\ processors'[i].lapicId = processors[i].lapicId
                                             /\ i # g => processors'[i] = processors[i]
      <3> DEFINE c == [processors[g] EXCEPT !.state = "CPU_READY"]
      <3>1. processors[g] \in P
        <4> HIDE DEF P
        <4>1. QED
          BY <1>2, <2>2
      <3>2. c \in P /\ c.state = "CPU_READY" /\ c.lapicId = processors[g].lapicId
        BY <3>1 DEF States
      <3>3. processors' = [processors EXCEPT ![g] = c]
        BY <2>3
      <3> HIDE DEF c, P
      <3>4. ASSUME NEW s \in Seq(P), NEW t, t = [s EXCEPT ![g] = c], g \in 1 .. Len(s)
            PROVE  /\ t \in Seq(P) /\ Len(t) = Len(s) /\ DOMAIN t = DOMAIN s
                   /\ DOMAIN s = 1 .. Len(s) /\ t[g] = c
                   /\ \A i \in 1 .. Len(s) : i # g => t[i] = s[i]
        BY <3>2, <3>4
      <3>5. /\ processors' \in Seq(P) /\ Len(processors') = Len(processors)
            /\ DOMAIN processors' = DOMAIN processors
            /\ DOMAIN processors = 1 .. Len(processors) /\ processors'[g] = c
            /\ \A i \in 1 .. Len(processors) : i # g => processors'[i] = processors[i]
        BY <1>2, <2>2, <3>3, <3>4
      <3>6. QED
        BY <3>2, <3>5
    <2>5. \A i \in 1 .. Len(processors) : processors[i].state # "CPU_READY"
      <3>1. CASE Tally(processors, bspLapicId, n)
        BY <3>1 DEF Tally
      <3>2. CASE processors = <<[lapicId |-> 0, state |-> "CPU_STOPPED"]>>
        BY <3>2
      <3>3. QED
        BY <1>2, <3>1, <3>2
    <2>6. Tab!GetReadyQty' = 1
      <3>1. {i \in DOMAIN processors' : processors'[i].state = "CPU_READY"} = {g}
        BY <2>2, <2>4, <2>5
      <3>2. Cardinality({g}) = 1
        BY FS_Singleton
      <3>3. QED
        BY <3>1, <3>2 DEF Tab!GetReadyQty, Tab!Cardinality, Cardinality
    <2>7. Tab!GetCpu(bspLapicId)' = g
      <3>1. {j \in DOMAIN processors' : processors'[j].lapicId = bspLapicId}
              = {j \in DOMAIN processors : processors[j].lapicId = bspLapicId}
        BY <2>4
      <3>2. g \in {j \in DOMAIN processors : processors[j].lapicId = bspLapicId}
        BY <2>2, <2>4
      <3>3. QED
        BY <1>1, <2>2, <3>1, <3>2 DEF Tab!GetCpu, Tab!Min
    <2>8. processors'[Tab!GetCpu(bspLapicId)'].state = "CPU_READY"
      BY <2>4, <2>7
    <2>9. ASSUME ~ TableFound PROVE Len(processors') = 1 /\ bspLapicId' = 0
      BY <1>1, <1>2, <2>4, <2>9
    <2>10. ASSUME TableFound
           PROVE  /\ bspLapicId' = listed[Tab!Max(boot)].id
                  /\ Len(processors') = Tab!Cardinality(given)
                  /\ \A k \in given :
                       /\ processors'[Tab!Place(k)].lapicId = listed[k].id
                       /\ processors'[Tab!Place(k)].state = "CPU_DISABLED" => listed[k].flags \in {0, 2}
                       /\ processors'[Tab!Place(k)].state = "CPU_STOPPED" => listed[k].flags \in {1, 3}
      <3>1. Tally(processors, bspLapicId, n)
        BY <1>2, <2>10
      <3>2. /\ bspLapicId' = listed[Tab!Max(boot)].id
            /\ Len(processors') = Tab!Cardinality(given)
        BY <1>1, <1>7, <1>5, <2>4, <3>1
      <3>3. ASSUME NEW k \in given
            PROVE  /\ processors'[Tab!Place(k)].lapicId = listed[k].id
                   /\ processors'[Tab!Place(k)].state = "CPU_DISABLED" => listed[k].flags \in {0, 2}
                   /\ processors'[Tab!Place(k)].state = "CPU_STOPPED" => listed[k].flags \in {1, 3}
        <4>1. k \in 1 .. n /\ IsCpu(k) /\ n \in Nat /\ listed[k] \in Entries
          BY <1>2 DEF Memory, IsCpu, Tab!etCPU
        <4>2. listed[k].flags \in 0 .. 3
          BY <4>1 DEF TablesGiven
        <4>3. Tab!Place(k) \in 1 .. Len(processors)
          BY <3>1, <4>1, PlacesRank DEF Ranks, Tally
        <4>4. /\ processors[Tab!Place(k)].lapicId = listed[k].id
              /\ processors[Tab!Place(k)].state = IF listed[k].flags \in {1, 3} THEN "CPU_STOPPED"
                                                  ELSE "CPU_DISABLED"
          BY <3>1, <4>1 DEF Tally
        <4>5. CASE Tab!Place(k) = g
          BY <2>4, <4>3, <4>4, <4>5
        <4>6. CASE Tab!Place(k) # g
          <5>1. processors'[Tab!Place(k)] = processors[Tab!Place(k)]
            BY <2>4, <4>3, <4>6
          <5>2. QED
            BY <4>2, <4>4, <5>1
        <4>7. QED
          BY <4>5, <4>6
      <3>4. QED
        BY <3>2, <3>3
    <2>11. Tab!ProcessorsListed'
      BY <1>3, <2>3, <2>6, <2>8, <2>9, <2>10 DEF Tab!ProcessorsListed, TableFound
    <2>12. Walk'
      BY <2>3 DEF Walk
    <2>13. QED
      BY <1>1, <1>2, <1>3, <1>4, <2>3, <2>4, <2>11, <2>12 DEF TabInv
  <1>8. QED
    BY <1>6, <1>7

(* The region of the map that is read after n others. *)
LEMMA AreaAt ==
  ASSUME Memory, NEW n \in Nat, n + 1 <= Len(info.regions)
  PROVE  /\ info.regions[n + 1] \in Area
         /\ AreaEnds[n] \in Nat /\ AreaEnds[n] + 1 <= Len(info.mmap)
         /\ AreaEnds[n + 1] = AreaEnds[n] + 6 + info.regions[n + 1].extra
         /\ \A j \in 1 .. 6 : Tab!Word(AreaEnds[n] + j) = Tab!RegionLayout(info.regions[n + 1])[j]
  <1> DEFINE k == n + 1
             r == info.regions[k]
             P == AreaEnds
  <1>1. k \in 1 .. Len(info.regions) /\ k - 1 = n /\ r \in Area /\ Len(info.regions) \in Nat
    <2> DEFINE s == info.regions
    <2>1. s \in Seq(Area)
      BY DEF Memory
    <2> HIDE DEF s
    <2>2. Len(s) \in Nat /\ \A j \in 1 .. Len(s) : s[j] \in Area
      BY <2>1
    <2>3. k \in 1 .. Len(s) /\ k - 1 = n
      BY <2>2 DEF s
    <2> HIDE DEF k
    <2>4. QED
      BY <2>2, <2>3 DEF s
  <1>2. AreaLayouts[k] = Tab!RegionLayout(r) /\ Len(AreaLayouts) = Len(info.regions)
    BY <1>1 DEF AreaLayouts
  <1> HIDE DEF P, r, k
  <1>3. Len(Tab!RegionLayout(r)) = 6 + r.extra /\ r.extra \in Nat
    BY <1>1, AreaCells DEF Area
  <1>4. /\ P \in [0 .. Len(info.regions) -> Nat]
        /\ P[k] = P[k - 1] + Len(AreaLayouts[k])
        /\ \A j \in 1 .. Len(AreaLayouts[k]) : /\ P[k - 1] + j \in 1 .. Len(info.mmap)
                                               /\ info.mmap[P[k - 1] + j] = AreaLayouts[k][j]
    BY <1>1, <1>2 DEF Memory, Flat, P
  <1>5. P[n] \in Nat /\ \A j \in 1 .. 6 : j \in 1 .. Len(AreaLayouts[k])
    BY <1>1, <1>2, <1>3, <1>4, SMTT(20)
  <1>6. \A j \in 1 .. 6 : /\ P[n] + j \in 1 .. Len(info.mmap)
                          /\ info.mmap[P[n] + j] = Tab!RegionLayout(r)[j]
    BY <1>1, <1>2, <1>4, <1>5
  <1>7. DOMAIN info.mmap = 1 .. Len(info.mmap)
    BY DEF Memory
  <1>8. \A j \in 1 .. 6 : Tab!Word(P[n] + j) = Tab!RegionLayout(r)[j]
    BY <1>6, <1>7 DEF Tab!Word
  <1>9. P[n] + 1 <= Len(info.mmap)
    <2>1. Len(info.mmap) \in Nat /\ 1 \in 1 .. 6
      BY DEF Memory
    <2>2. P[n] + 1 \in 1 .. Len(info.mmap)
      BY <1>6, <2>1
    <2>3. QED
      BY <2>1, <2>2
  <1>10. P[k] = P[n] + 6 + r.extra
    <2>1. P[k] = P[n] + Len(Tab!RegionLayout(r))
      BY <1>1, <1>2, <1>4
    <2>2. QED
      BY <1>3, <1>5, <2>1, SMTT(20)
  <1>11. QED
    BY <1>1, <1>5, <1>8, <1>9, <1>10 DEF P, r, k

(* Nothing of the search and the walk is touched once the processors are known. *)
LEMMA ListedStays ==
  ASSUME UNCHANGED Tab!multiboot, UNCHANGED <<processors, bspLapicId>>, Tab!ProcessorsListed,
         reading = "map", reading' \in {"map", "done"}
  PROVE  Tab!ProcessorsListed' /\ Walk'
  <1>1. /\ listed' = listed /\ bios' = bios /\ processors' = processors /\ bspLapicId' = bspLapicId
        /\ reading' # "asserted"
    BY DEF Tab!multiboot
  <1>2. /\ \A k : Tab!Place(k)' = Tab!Place(k)
        /\ Tab!GetCpu(bspLapicId)' = Tab!GetCpu(bspLapicId)
        /\ Tab!GetReadyQty' = Tab!GetReadyQty
    BY <1>1 DEF Tab!Place, Tab!GetCpu, Tab!GetReadyQty, Tab!Cardinality, Tab!Min, Tab!etCPU
  <1>3. Tab!ProcessorsListed'
    BY <1>1, <1>2 DEF Tab!ProcessorsListed, Tab!etCPU, Tab!Max, Tab!Cardinality, Tab!IsFPS
  <1>4. QED
    BY <1>3 DEF Walk

LEMMA GetMemoryMapKeeps == ASSUME TablesGiven, TabInv, Tab!GetMemoryMap PROVE TabInv'
  <1> DEFINE n == Len(mmap)
             k == n + 1
             x == [addr |-> Tab!Address(Tab!Word(mapAt + 1), Tab!Word(mapAt + 2)),
                   length |-> Tab!Address(Tab!Word(mapAt + 3), Tab!Word(mapAt + 4)),
                   type |-> Tab!Word(mapAt + 5)]
             r == info.regions[k]
  <1>1. /\ UNCHANGED Tab!multiboot /\ UNCHANGED <<processors, bspLapicId>>
        /\ reading = "map" /\ reading' = reading
        /\ mapAt <= Len(info.mmap) /\ mmap' = Append(mmap, x)
        /\ mapAt' = mapAt + Tab!Step(Tab!Word(mapAt))
    BY DEF Tab!GetMemoryMap
  <1>2. Memory /\ MapWalk /\ Tab!ProcessorsListed
    BY DEF TabInv
  <1>3. /\ Memory' /\ info' = info /\ AreaEnds' = AreaEnds
    BY <1>1, <1>2, TablesStay
  <1>4. PICK S : mmap \in Seq(S)
    BY DEF TabInv
  <1>5. n \in Nat /\ Len(info.regions) \in Nat /\ n <= Len(info.regions) /\ mapAt = AreaEnds[n] + 1
    BY <1>2, <1>4 DEF MapWalk, Memory
  <1>6. k <= Len(info.regions)
    <2>1. AreaEnds[Len(info.regions)] = Len(info.mmap) /\ Len(info.mmap) \in Nat
      <3>1. Len(AreaLayouts) = Len(info.regions)
        BY <1>5 DEF AreaLayouts
      <3>2. QED
        BY <1>2, <3>1 DEF Memory, Flat
    <2>2. n # Len(info.regions)
      BY <1>1, <1>5, <2>1, SMTT(20)
    <2>3. QED
      BY <1>5, <2>2
  <1>7. /\ r \in Area /\ AreaEnds[n] \in Nat
        /\ AreaEnds[k] = AreaEnds[n] + 6 + r.extra
        /\ \A j \in 1 .. 6 : Tab!Word(AreaEnds[n] + j) = Tab!RegionLayout(r)[j]
    <2> HIDE DEF n
    <2>1. QED
      BY <1>2, <1>5, <1>6, AreaAt
  <1>8. /\ Tab!Word(mapAt) = 20 + 4 * r.extra
        /\ Tab!Word(mapAt + 1) = r.base[1] /\ Tab!Word(mapAt + 2) = r.base[2]
        /\ Tab!Word(mapAt + 3) = r.length[1] /\ Tab!Word(mapAt + 4) = r.length[2]
        /\ Tab!Word(mapAt + 5) = 1
    <2> HIDE DEF r, n
    <2>1. /\ 1 \in 1 .. 6 /\ 2 \in 1 .. 6 /\ 3 \in 1 .. 6 /\ 4 \in 1 .. 6 /\ 5 \in 1 .. 6 /\ 6 \in 1 .. 6
      OBVIOUS
    <2>2. /\ mapAt = AreaEnds[n] + 1 /\ mapAt + 1 = AreaEnds[n] + 2 /\ mapAt + 2 = AreaEnds[n] + 3
          /\ mapAt + 3 = AreaEnds[n] + 4 /\ mapAt + 4 = AreaEnds[n] + 5 /\ mapAt + 5 = AreaEnds[n] + 6
      BY <1>5, <1>7, SMTT(20)
    <2>3. \A j \in 1 .. 6 : Tab!Word(AreaEnds[n] + j) = Tab!RegionLayout(r)[j]
      BY <1>7
    <2>4. /\ Tab!Word(mapAt) = Tab!RegionLayout(r)[1] /\ Tab!Word(mapAt + 1) = Tab!RegionLayout(r)[2]
          /\ Tab!Word(mapAt + 2) = Tab!RegionLayout(r)[3] /\ Tab!Word(mapAt + 3) = Tab!RegionLayout(r)[4]
          /\ Tab!Word(mapAt + 4) = Tab!RegionLayout(r)[5] /\ Tab!Word(mapAt + 5) = Tab!RegionLayout(r)[6]
      BY <2>1, <2>2, <2>3
    <2>5. QED
      BY <1>7, <2>4, AreaCells
  <1>9. mapAt' = AreaEnds[k] + 1
    <2>1. r.extra \in Nat
      BY <1>7 DEF Area
    <2>2. Tab!Step(Tab!Word(mapAt)) = 6 + r.extra
      BY <1>8, <2>1 DEF Tab!Step
    <2> HIDE DEF r, k, n
    <2>3. mapAt' = AreaEnds[n] + 1 + (6 + r.extra)
      BY <1>1, <1>5, <2>2
    <2>4. QED
      BY <1>7, <2>1, <2>3
  <1>10. x = [addr |-> Tab!Address(r.base[1], r.base[2]),
              length |-> Tab!Address(r.length[1], r.length[2]), type |-> 1]
    BY <1>8
  <1> HIDE DEF x
  <1>11. /\ mmap' \in Seq(S \cup {x}) /\ Len(mmap') = k /\ mmap'[k] = x
         /\ \A j \in 1 .. n : mmap'[j] = mmap[j]
    <2>1. mmap \in Seq(S \cup {x})
      BY <1>4
    <2>2. QED
      BY <1>1, <2>1
  <1>12. MapWalk'
    <2>1. /\ Len(mmap') <= Len(info'.regions) /\ mapAt' = AreaEnds'[Len(mmap')] + 1
          /\ reading' # "done"
      BY <1>1, <1>3, <1>6, <1>9, <1>11
    <2>2. Len(mmap') < mapAt'
      <3>1. r.extra \in Nat
        BY <1>7 DEF Area
      <3>2. n < mapAt
        BY <1>2 DEF MapWalk
      <3>3. Len(mmap') = k /\ k = n + 1
        BY <1>11
      <3>4. /\ AreaEnds[n] \in Nat /\ mapAt = AreaEnds[n] + 1 /\ mapAt' = AreaEnds[k] + 1
            /\ AreaEnds[k] = AreaEnds[n] + 6 + r.extra
        BY <1>5, <1>7, <1>9
      <3> DEFINE extra == r.extra
                 here == AreaEnds[n]
      <3>5. /\ extra \in Nat /\ here \in Nat /\ n \in Nat /\ n < here + 1
            /\ mapAt' = here + 6 + extra + 1
        BY <1>5, <3>1, <3>2, <3>4
      <3> HIDE DEF k, n, extra, here
      <3>6. QED
        BY <3>3, <3>5
    <2>3. ASSUME NEW j \in 1 .. k
          PROVE  mmap'[j] = [addr |-> Tab!Address(info.regions[j].base[1], info.regions[j].base[2]),
                             length |-> Tab!Address(info.regions[j].length[1], info.regions[j].length[2]),
                             type |-> 1]
      <3>1. CASE j = k
        BY <1>10, <1>11, <3>1
      <3>2. CASE j # k
        <4>1. j \in 1 .. n
          BY <1>5, <3>2
        <4>2. QED
          BY <1>2, <1>11, <4>1 DEF MapWalk
      <3>3. QED
        BY <3>1, <3>2
    <2>4. QED
      BY <1>3, <1>11, <2>1, <2>2, <2>3 DEF MapWalk, Tab!Address
  <1>13. Tab!ProcessorsListed' /\ Walk'
    BY <1>1, <1>2, ListedStays
  <1>14. QED
    BY <1>1, <1>3, <1>11, <1>12, <1>13 DEF TabInv

LEMMA EndOfMapKeeps == ASSUME TablesGiven, TabInv, Tab!EndOfMap PROVE TabInv'
  <1>1. /\ UNCHANGED Tab!multiboot /\ UNCHANGED <<processors, bspLapicId>>
        /\ reading = "map" /\ reading' = "done" /\ mapAt' = mapAt /\ mmap' = mmap
        /\ info.flags = {} \/ mapAt > Len(info.mmap)
    BY DEF Tab!EndOfMap, Tab!Announced
  <1>2. Memory /\ MapWalk /\ Tab!ProcessorsListed
    BY DEF TabInv
  <1>3. /\ Memory' /\ info' = info /\ AreaEnds' = AreaEnds
    BY <1>1, <1>2, TablesStay
  <1>4. info.flags # {} => Len(mmap) = Len(info.regions)
    <2>1. Len(mmap) \in Nat /\ Len(info.regions) \in Nat /\ Len(info.mmap) \in Nat
      BY <1>2 DEF TabInv, Memory
    <2>2. SUFFICES ASSUME info.flags # {}, Len(mmap) + 1 <= Len(info.regions) PROVE FALSE
      BY <1>2, <2>1 DEF MapWalk
    <2>3. AreaEnds[Len(mmap)] \in Nat /\ AreaEnds[Len(mmap)] + 1 <= Len(info.mmap)
      BY <1>2, <2>1, <2>2, AreaAt
    <2>4. mapAt = AreaEnds[Len(mmap)] + 1
      BY <1>2 DEF MapWalk
    <2>5. QED
      BY <1>1, <2>1, <2>2, <2>3, <2>4
  <1>5. MapWalk'
    BY <1>1, <1>2, <1>3, <1>4 DEF MapWalk, Tab!Address
  <1>6. Tab!ProcessorsListed' /\ Walk'
    BY <1>1, <1>2, ListedStays
  <1>7. QED
    BY <1>1, <1>3, <1>5, <1>6 DEF TabInv

LEMMA TabStep == ASSUME TablesGiven, TabInv, [Tab!Next]_(Tab!vars) PROVE TabInv'
  <1>1. CASE Tab!FindFPS
    BY <1>1, FindFPSKeeps
  <1>2. CASE Tab!CheckFPS
    BY <1>2, CheckFPSKeeps
  <1>3. CASE Tab!Entry
    BY <1>3, EntryKeeps
  <1>4. CASE Tab!EndOfTable
    BY <1>4, EndOfTableKeeps
  <1>5. CASE Tab!InitBsp
    BY <1>5, InitBspKeeps
  <1>6. CASE Tab!GetMemoryMap
    BY <1>6, GetMemoryMapKeeps
  <1>7. CASE Tab!EndOfMap
    BY <1>7, EndOfMapKeeps
  <1>8. CASE UNCHANGED Tab!vars
    <2>1. /\ UNCHANGED Tab!multiboot
          /\ reading' = reading /\ entryAt' = entryAt /\ left' = left /\ processors' = processors
          /\ bspLapicId' = bspLapicId /\ mapAt' = mapAt /\ mmap' = mmap
      BY <1>8 DEF Tab!vars, Tab!multiboot
    <2>2. /\ listed' = listed /\ bios' = bios /\ info' = info
          /\ EntryEnds' = EntryEnds /\ AreaEnds' = AreaEnds
          /\ TableFound' <=> TableFound
          /\ Memory' <=> Memory
      BY <2>1, TablesStay
    <2>3. Walk'
      <3>1. /\ Tally(processors, bspLapicId, Len(listed))' <=> Tally(processors, bspLapicId, Len(listed))
            /\ Tally(processors, bspLapicId, Len(listed) - left)'
                 <=> Tally(processors, bspLapicId, Len(listed) - left)
        BY <2>1, <2>2, TablesStay DEF Tally, IsCpu, IsBoot
      <3>2. QED
        BY <2>1, <2>2, <3>1 DEF TabInv, Walk, Tab!IsFPS
    <2>4. MapWalk'
      BY <2>1, <2>2 DEF TabInv, MapWalk, Tab!Address
    <2>5. Tab!ProcessorsListed'
      <3>1. /\ \A k : Tab!Place(k)' = Tab!Place(k)
            /\ Tab!GetCpu(bspLapicId)' = Tab!GetCpu(bspLapicId)
            /\ Tab!GetReadyQty' = Tab!GetReadyQty
        BY <2>1, <2>2 DEF Tab!Place, Tab!GetCpu, Tab!GetReadyQty, Tab!Cardinality, Tab!Min, Tab!etCPU
      <3>2. QED
        BY <2>1, <2>2, <3>1
           DEF TabInv, Tab!ProcessorsListed, Tab!etCPU, Tab!Max, Tab!Cardinality, Tab!IsFPS, Tab!FPSPasses
    <2>6. QED
      BY <2>1, <2>2, <2>3, <2>4, <2>5 DEF TabInv
  <1>9. QED
    BY <1>1, <1>2, <1>3, <1>4, <1>5, <1>6, <1>7, <1>8 DEF Tab!Next

(* The parsers read the tables where the entries and regions lie, one behind
   the other, and keep to what they have read so far: the walks of
   ImpsParser's constructor and of GetMemoryMap. *)
THEOREM TablesInvariant == ASSUME TablesGiven PROVE Tab!Spec => []TabInv
  <1>1. Tab!Init => TabInv
    BY TabInit
  <1>2. TabInv /\ [Tab!Next]_(Tab!vars) => TabInv'
    BY TabStep
  <1>3. QED
    BY <1>1, <1>2, PTL DEF Tab!Spec

(* Whatever tables the firmware left, of any length: the processors are those
   listed, in their order, one is ready and it is the boot processor, and the
   kernel stops for no other reason than the three the code checks
   (ImpsParser's constructor, AddCpu, InitBsp). *)
THEOREM ProcessorsAlwaysListed == ASSUME TablesGiven PROVE Tab!Spec => []Tab!ProcessorsListed
  <1>1. TabInv => Tab!ProcessorsListed
    BY DEF TabInv
  <1>2. QED
    BY <1>1, TablesInvariant, PTL

(* Whatever the loader hands over: every region of an announced memory map,
   whatever its entries' sizes, and every announced module reach the kernel as
   they were given (GetMemoryMap, GetModule). *)
THEOREM BootInfoAlwaysAsGiven == ASSUME TablesGiven PROVE Tab!Spec => []Tab!BootInfoAsGiven
  <1>1. ASSUME TabInv PROVE Tab!BootInfoAsGiven
    <2> DEFINE regions == info.regions
    <2>1. Memory /\ MapWalk
      BY <1>1 DEF TabInv
    <2>2. PICK S : mmap \in Seq(S)
      BY <1>1 DEF TabInv
    <2>3. /\ Len(mmap) \in Nat /\ DOMAIN mmap = 1 .. Len(mmap) /\ Len(info.mmap) \in Nat
          /\ Len(info.regions) \in Nat /\ DOMAIN info.regions = 1 .. Len(info.regions)
          /\ Len(info.modules) \in Nat /\ DOMAIN info.modules = 1 .. Len(info.modules)
      BY <2>1, <2>2 DEF Memory
    <2>4. Len(mmap) <= 4 * Len(info.mmap)
      <3>1. Len(mmap) < mapAt /\ mapAt = AreaEnds[Len(mmap)] + 1 /\ Len(mmap) <= Len(info.regions)
        BY <2>1 DEF MapWalk
      <3>2. CASE Len(mmap) = Len(info.regions)
        <4>1. AreaEnds[Len(info.regions)] = Len(info.mmap)
          <5>1. Len(AreaLayouts) = Len(info.regions)
            BY <2>3 DEF AreaLayouts
          <5>2. QED
            BY <2>1, <5>1 DEF Memory, Flat
        <4>2. QED
          BY <2>3, <3>1, <3>2, <4>1
      <3>3. CASE Len(mmap) # Len(info.regions)
        <4>1. Len(mmap) + 1 <= Len(info.regions)
          BY <2>3, <3>1, <3>3
        <4>2. AreaEnds[Len(mmap)] \in Nat /\ AreaEnds[Len(mmap)] + 1 <= Len(info.mmap)
          BY <2>1, <2>3, <4>1, AreaAt
        <4>3. QED
          BY <2>3, <3>1, <4>2
      <3>4. QED
        BY <3>2, <3>3
    <2>5. ASSUME reading = "done", "MMAP" \in info.flags
          PROVE  mmap = [i \in DOMAIN info.regions |->
                           [addr |-> Tab!Address(info.regions[i].base[1], info.regions[i].base[2]),
                            length |-> Tab!Address(info.regions[i].length[1], info.regions[i].length[2]),
                            type |-> 1]]
      <3>1. Len(mmap) = Len(info.regions)
        BY <2>1, <2>5 DEF MapWalk
      <3>2. mmap = [i \in DOMAIN mmap |-> mmap[i]]
        BY <2>2
      <3>3. DOMAIN mmap = DOMAIN info.regions
        BY <2>3, <3>1
      <3>4. \A i \in DOMAIN mmap :
              mmap[i] = [addr |-> Tab!Address(info.regions[i].base[1], info.regions[i].base[2]),
                         length |-> Tab!Address(info.regions[i].length[1], info.regions[i].length[2]),
                         type |-> 1]
        BY <2>1, <2>3 DEF MapWalk
      <3>5. QED
        BY <3>2, <3>3, <3>4
    <2>6. ASSUME "MODS" \in info.flags
          PROVE  /\ Tab!GetModule(Len(info.modules)) = <<>>
                 /\ \A i \in DOMAIN info.modules :
                      Tab!GetModule(i - 1) = <<[command |-> info.modules[i].string,
                                                data |-> info.modules[i].start,
                                                length |-> info.modules[i].end - info.modules[i].start]>>
      <3>1. Tab!GetModulesQty = Len(info.modules)
        BY <2>6 DEF Tab!GetModulesQty, Tab!Announced
      <3>2. Tab!GetModule(Len(info.modules)) = <<>>
        BY <2>3, <3>1 DEF Tab!GetModule
      <3>3. ASSUME NEW i \in DOMAIN info.modules
            PROVE  Tab!GetModule(i - 1) = <<[command |-> info.modules[i].string,
                                             data |-> info.modules[i].start,
                                             length |-> info.modules[i].end - info.modules[i].start]>>
        <4>1. ~ (i - 1 >= Tab!GetModulesQty) /\ i - 1 + 1 = i
          BY <2>3, <3>1
        <4>2. QED
          BY <4>1 DEF Tab!GetModule
      <3>4. QED
        BY <3>2, <3>3
    <2>7. QED
      BY <2>4, <2>5, <2>6 DEF Tab!BootInfoAsGiven
  <1>2. TabInv => Tab!BootInfoAsGiven
    BY <1>1
  <1>3. QED
    BY <1>2, TablesInvariant, PTL

-----------------------------------------------------------------------------
(* The initial RAM disk                                                    *)

(* The joined sequences follow one another without gaps. *)
LEMMA FlatGrows ==
  ASSUME NEW s, Len(s) \in Nat, NEW F, NEW P, Flat(s, F, P), \A i \in 1 .. Len(s) : Len(s[i]) \in Nat
  PROVE  /\ \A i \in 0 .. Len(s) : P[i] <= Len(F)
         /\ \A j \in 1 .. Len(F) : \E i \in 1 .. Len(s) : \E k \in 1 .. Len(s[i]) : j = P[i - 1] + k
  <1> DEFINE n == Len(s)
  <1>1. /\ P \in [0 .. n -> Nat] /\ P[0] = 0 /\ Len(F) = P[n]
        /\ \A i \in 1 .. n : P[i] = P[i - 1] + Len(s[i])
    BY DEF Flat
  <1> HIDE DEF n
  <1>2. n \in Nat /\ \A i \in 1 .. n : Len(s[i]) \in Nat
    BY DEF n
  <1>3. \A i \in 0 .. n : P[i] <= P[n]
    <2> DEFINE Bad == {i \in 0 .. n : P[i] > P[n]}
    <2>1. SUFFICES ASSUME Bad # {} PROVE FALSE
      <3>1. \A i \in 0 .. n : P[i] \in Nat /\ P[n] \in Nat
        BY <1>1, <1>2
      <3>2. \A i \in 0 .. n : P[i] <= P[n] \/ P[i] > P[n]
        BY <3>1
      <3>3. QED
        BY <3>2
    <2>2. PICK i \in Bad : \A y \in Bad : y <= i
      <3>1. Bad \in SUBSET (0 .. n)
        OBVIOUS
      <3> HIDE DEF Bad
      <3>2. QED
        BY <1>2, <2>1, <3>1, GreatestNatural
    <2>3. i \in 0 .. n /\ P[i] > P[n]
      BY <2>2
    <2>4. i # n
      BY <1>1, <1>2, <2>3
    <2>5. i + 1 \in 1 .. n /\ i + 1 - 1 = i /\ i + 1 \in 0 .. n /\ i + 1 \notin Bad
      BY <1>2, <2>2, <2>3, <2>4
    <2>6. P[i + 1] <= P[n] /\ P[i + 1] \in Nat /\ P[n] \in Nat /\ P[i] \in Nat
      BY <1>1, <1>2, <2>3, <2>5
    <2>7. P[i + 1] = P[i] + Len(s[i + 1]) /\ Len(s[i + 1]) \in Nat
      BY <1>1, <1>2, <2>5
    <2>8. QED
      BY <2>3, <2>6, <2>7
  <1>4. ASSUME NEW j \in 1 .. Len(F)
        PROVE  \E i \in 1 .. n : \E k \in 1 .. Len(s[i]) : j = P[i - 1] + k
    <2> DEFINE up == {i \in 0 .. n : j <= P[i]}
    <2>1. n \in up /\ j \in Nat /\ j >= 1
      <3>1. P[n] \in Nat
        BY <1>1, <1>2
      <3>2. QED
        BY <1>1, <1>2, <3>1
    <2>2. PICK i \in up : \A y \in up : i <= y
      <3>1. up \in SUBSET Nat
        OBVIOUS
      <3> HIDE DEF up
      <3>2. QED
        BY <2>1, <3>1, LeastNatural
    <2>3. i \in 0 .. n /\ j <= P[i] /\ i # 0
      BY <1>1, <2>1, <2>2
    <2>4. i \in 1 .. n /\ i - 1 \in 0 .. n /\ i - 1 \notin up
      BY <1>2, <2>2, <2>3
    <2>5. P[i - 1] \in Nat /\ P[i - 1] < j /\ P[i] = P[i - 1] + Len(s[i]) /\ Len(s[i]) \in Nat
      BY <1>1, <1>2, <2>1, <2>4
    <2>6. j - P[i - 1] \in 1 .. Len(s[i]) /\ j = P[i - 1] + (j - P[i - 1])
      BY <2>1, <2>3, <2>5
    <2>7. QED
      BY <2>4, <2>6
  <1>5. QED
    BY <1>1, <1>3, <1>4 DEF n

LEMMA SameFlattening == ASSUME NEW s PROVE Ird!FlattenSeq(s) = Tab!FlattenSeq(s)
  BY DEF Ird!FlattenSeq, Tab!FlattenSeq

(* What a part of a sequence is. *)
LEMMA PartOf ==
  ASSUME NEW n \in Nat, NEW V, NEW s \in [1 .. n -> V], NEW o \in Nat, NEW q \in Nat, o + q <= n
  PROVE  SubSeq(s, o + 1, o + q) = [j \in 1 .. q |-> s[o + j]]
  <1>1. s \in Seq(V) /\ Len(s) = n
    OBVIOUS
  <1>2. ASSUME NEW a \in Seq(V), NEW l \in Int, NEW h \in Int, 1 <= l, l <= h + 1, h <= Len(a)
        PROVE  /\ SubSeq(a, l, h) \in Seq(V) /\ Len(SubSeq(a, l, h)) = h - l + 1
               /\ \A j \in 1 .. h - l + 1 : SubSeq(a, l, h)[j] = a[l + j - 1]
    BY <1>2, SubSeqProperties
  <1> DEFINE t == SubSeq(s, o + 1, o + q)
  <1>3. /\ t \in Seq(V) /\ Len(t) = q
        /\ \A j \in 1 .. q : t[j] = s[o + j]
    BY <1>1, <1>2
  <1> HIDE DEF t
  <1>4. t = [j \in 1 .. q |-> t[j]]
    BY <1>3
  <1>5. QED
    BY <1>3, <1>4 DEF t

(* Blocks that hold the header of an image, the window of the logical drive
   within the drive but not at its start; no image, and nothing written, has the
   magic number by chance where the logical drive begins. *)
InitrdGiven ==
  /\ BlockSize \in Nat /\ 3 <= BlockSize
  /\ Blocks \in Nat /\ StartBlock \in Nat \ {0} /\ LogicalBlocks \in Nat \ {0}
  /\ StartBlock + LogicalBlocks <= Blocks
  /\ MaxQty \in Nat /\ Byte \in Nat
  /\ \A i \in 1 .. MaxQty * BlockSize : Byte + i # Ird!MAGIC
  /\ \E Names, Bytes : Packs \subseteq Seq([name : Names, content : Seq(Bytes)])
  /\ \A files \in Packs :
       StartBlock * BlockSize < Len(Ird!mkinitrd(files)) =>
         Ird!mkinitrd(files)[StartBlock * BlockSize + 1] # Ird!MAGIC

(* The sum of the first n lengths, unfolded. *)
Summing(g, files, n) ==
  [k \in 0 .. n |-> IF k = 0 THEN 0 ELSE g[k - 1] + Len(files[k].content)]

LEMMA LengthsUnfold ==
  ASSUME NEW files, NEW n, NEW g, g = Summing(g, files, n)
  PROVE  \E f : f = Summing(f, files, n) /\ Ird!Lengths(files, n) = f[n]
  <1> DEFINE f == CHOOSE f : f = Summing(f, files, n)
  <1>1. f = Summing(f, files, n)
    OBVIOUS
  <1>2. Ird!Lengths(files, n) = f[n]
    BY DEF Ird!Lengths, Summing
  <1>3. QED
    BY <1>1, <1>2

(* It is any function that grows by the lengths. *)
GrowsBy(P, files, m) ==
  /\ P \in [0 .. m -> Nat] /\ P[0] = 0
  /\ \A k \in 1 .. m : P[k] = P[k - 1] + Len(files[k].content)

LEMMA LengthsAre ==
  ASSUME NEW files, NEW n \in Nat, NEW m \in Nat, n <= m,
         NEW P, GrowsBy(P, files, m)
  PROVE  Ird!Lengths(files, n) = P[n]
  <1> USE DEF GrowsBy
  <1> DEFINE g == [k \in 0 .. n |-> P[k]]
  <1>1. \A k \in 0 .. n : g[k] = P[k] /\ k \in 0 .. m
    OBVIOUS
  <1>2. \A k \in 0 .. n : g[k] = IF k = 0 THEN 0 ELSE g[k - 1] + Len(files[k].content)
    <2>1. ASSUME NEW k \in 0 .. n, k # 0 PROVE g[k] = g[k - 1] + Len(files[k].content)
      <3>1. k \in 1 .. m /\ k - 1 \in 0 .. n
        BY <2>1
      <3>2. QED
        BY <1>1, <3>1
    <2>2. ASSUME NEW k \in 0 .. n, k = 0 PROVE g[k] = 0
      BY <2>2, <1>1
    <2>3. QED
      BY <2>1, <2>2
  <1>3. g = [k \in 0 .. n |-> g[k]]
    OBVIOUS
  <1> HIDE DEF g
  <1>4. g = Summing(g, files, n)
    BY <1>2, <1>3 DEF Summing
  <1>5. PICK f : f = Summing(f, files, n) /\ Ird!Lengths(files, n) = f[n]
    BY <1>4, LengthsUnfold
  <1>6. \A k \in 0 .. n : f[k] = IF k = 0 THEN 0 ELSE f[k - 1] + Len(files[k].content)
    BY <1>5 DEF Summing
  <1> DEFINE Bad == {k \in 0 .. n : f[k] # P[k]}
  <1>7. SUFFICES ASSUME Bad # {} PROVE FALSE
    <2>1. n \in 0 .. n
      OBVIOUS
    <2>2. QED
      BY <1>5, <2>1
  <1>8. PICK k \in Bad : \A y \in Bad : k <= y
    <2>1. Bad \in SUBSET Nat
      OBVIOUS
    <2> HIDE DEF Bad
    <2>2. QED
      BY <1>7, <2>1, LeastNatural
  <1>9. k \in 0 .. n /\ f[k] # P[k] /\ k # 0
    BY <1>6, <1>8
  <1>10. k - 1 \in 0 .. n /\ k - 1 \notin Bad /\ k \in 1 .. m
    BY <1>8, <1>9
  <1>11. QED
    BY <1>6, <1>9, <1>10

First(files) == 3 + 3 * Len(files)
HeaderOf(files, i) ==
  <<First(files) + Ird!Lengths(files, i - 1), Len(files[i].content), files[i].name>>

(* What mkinitrd packs, cell for cell. *)
Imaged(files, img) ==
  /\ \E V : img \in Seq(V)
  /\ First(files) <= Len(img)
  /\ img[1] = Ird!MAGIC /\ img[2] = 1 /\ img[3] = Len(files)
  /\ \A i \in 1 .. Len(files) :
       /\ Ird!Lengths(files, i - 1) \in Nat
       /\ First(files) + Ird!Lengths(files, i - 1) + Len(files[i].content) <= Len(img)
       /\ \A k \in 1 .. 3 : img[3 + 3 * (i - 1) + k] = HeaderOf(files, i)[k]
       /\ \A k \in 1 .. Len(files[i].content) :
            img[First(files) + Ird!Lengths(files, i - 1) + k] = files[i].content[k]

(* Sequences of one length are joined without counting. *)
LEMMA FlatEven ==
  ASSUME NEW s, NEW w \in Nat, Len(s) \in Nat, NEW F, NEW P,
         Flat(s, F, P), \A i \in 1 .. Len(s) : Len(s[i]) = w
  PROVE  /\ \A i \in 0 .. Len(s) : P[i] = w * i
         /\ Len(F) = w * Len(s)
         /\ \A i \in 1 .. Len(s) : \A k \in 1 .. w : F[w * (i - 1) + k] = s[i][k]
  <1> DEFINE n == Len(s)
             Bad == {i \in 0 .. n : P[i] # w * i}
  <1>1. /\ P \in [0 .. n -> Nat] /\ P[0] = 0 /\ Len(F) = P[n]
        /\ \A i \in 1 .. n : P[i] = P[i - 1] + w
        /\ \A i \in 1 .. n : \A k \in 1 .. w : F[P[i - 1] + k] = s[i][k]
    BY DEF Flat
  <1> HIDE DEF n
  <1>2. n \in Nat
    BY DEF n
  <1>3. Bad = {}
    <2>1. SUFFICES ASSUME Bad # {} PROVE FALSE
      OBVIOUS
    <2>2. PICK i \in Bad : \A y \in Bad : i <= y
      <3>1. Bad \in SUBSET Nat
        OBVIOUS
      <3> HIDE DEF Bad
      <3>2. QED
        BY <2>1, <3>1, LeastNatural
    <2>3. i \in 0 .. n /\ P[i] # w * i /\ i # 0
      BY <1>1, <2>2
    <2>4. i - 1 \in 0 .. n /\ i - 1 \notin Bad /\ i \in 1 .. n
      BY <1>2, <2>2, <2>3
    <2>5. P[i - 1] = w * (i - 1) /\ P[i] = P[i - 1] + w
      BY <1>1, <2>4
    <2>6. w * (i - 1) + w = w * i
      BY <1>2, <2>3
    <2>7. QED
      BY <2>3, <2>4, <2>5, <2>6
  <1>4. \A i \in 0 .. n : P[i] = w * i
    BY <1>3
  <1>5. Len(F) = w * n
    BY <1>1, <1>2, <1>4
  <1>6. ASSUME NEW i \in 1 .. n, NEW k \in 1 .. w PROVE F[w * (i - 1) + k] = s[i][k]
    <2>1. i - 1 \in 0 .. n
      BY <1>2
    <2>2. P[i - 1] = w * (i - 1)
      BY <1>4, <2>1
    <2>3. QED
      BY <1>1, <2>2
  <1>7. QED
    BY <1>4, <1>5, <1>6 DEF n

LEMMA ImageMade ==
  ASSUME InitrdGiven, NEW files \in Packs
  PROVE  Imaged(files, Ird!mkinitrd(files)) /\ Len(files) \in Nat /\ DOMAIN files = 1 .. Len(files)
         /\ \A i \in 1 .. Len(files) : \E V : files[i].content \in Seq(V)
  <1> DEFINE n == Len(files)
             contents == [i \in 1 .. n |-> files[i].content]
             headers == [i \in 1 .. n |-> HeaderOf(files, i)]
             FC == Tab!FlattenSeq(contents)
             FH == Tab!FlattenSeq(headers)
             A == <<Ird!MAGIC, 1, n>>
  <1>1. PICK Names, Bytes : Packs \subseteq Seq([name : Names, content : Seq(Bytes)])
    BY DEF InitrdGiven
  <1>2. /\ n \in Nat /\ DOMAIN files = 1 .. n
        /\ \A i \in 1 .. n : files[i].name \in Names /\ files[i].content \in Seq(Bytes)
    <2>1. files \in Seq([name : Names, content : Seq(Bytes)])
      BY <1>1
    <2>2. ASSUME NEW R, NEW s \in Seq(R)
          PROVE  Len(s) \in Nat /\ DOMAIN s = 1 .. Len(s) /\ \A i \in 1 .. Len(s) : s[i] \in R
      OBVIOUS
    <2> DEFINE R == [name : Names, content : Seq(Bytes)]
    <2>3. \A r \in R : r.name \in Names /\ r.content \in Seq(Bytes)
      OBVIOUS
    <2> HIDE DEF R
    <2>4. /\ Len(files) \in Nat /\ DOMAIN files = 1 .. Len(files)
          /\ \A i \in 1 .. Len(files) : files[i] \in R
      BY <2>1, <2>2 DEF R
    <2>5. QED
      BY <2>3, <2>4
  <1> HIDE DEF n
  <1> DEFINE S == Nat \cup Names \cup Bytes \cup {Ird!MAGIC}
  <1>3. contents \in Seq(Seq(S)) /\ Len(contents) = n
    <2>1. \A i \in 1 .. n : files[i].content \in Seq(S)
      BY <1>2
    <2>2. QED
      BY <1>2, <2>1
  <1>4. PICK Q : Flat(contents, FC, Q)
    BY <1>3, Flattening
  <1>5. FC \in Seq(S)
    BY <1>3, Flattening
  <1>6. /\ Q \in [0 .. n -> Nat] /\ Q[0] = 0
        /\ \A i \in 1 .. n : Q[i] = Q[i - 1] + Len(files[i].content)
        /\ \A i \in 1 .. n : \A k \in 1 .. Len(files[i].content) : FC[Q[i - 1] + k] = files[i].content[k]
        /\ \A i \in 1 .. n : Q[i] <= Len(FC)
    <2>1. \A i \in 1 .. n : contents[i] = files[i].content /\ Len(contents[i]) \in Nat
      BY <1>2
    <2>2. \A i \in 0 .. n : Q[i] <= Len(FC)
      <3> HIDE DEF contents, FC
      <3>1. QED
        BY <1>2, <1>3, <1>4, <2>1, FlatGrows
    <2>3. \A i \in 1 .. n : i \in 0 .. n
      BY <1>2
    <2> HIDE DEF contents, FC
    <2>4. QED
      BY <1>3, <1>4, <2>1, <2>2, <2>3 DEF Flat
  <1>7. \A i \in 1 .. n : Ird!Lengths(files, i - 1) = Q[i - 1] /\ Q[i - 1] \in Nat
    <2>1. \A i \in 1 .. n : i - 1 \in Nat /\ i - 1 <= n /\ i - 1 \in 0 .. n
      BY <1>2
    <2>2. n \in Nat /\ GrowsBy(Q, files, n)
      BY <1>2, <1>6 DEF GrowsBy
    <2>3. ASSUME NEW j \in Nat, j <= n PROVE Ird!Lengths(files, j) = Q[j]
      BY <2>2, <2>3, LengthsAre
    <2>4. QED
      BY <1>6, <2>1, <2>3
  <1>8. /\ headers \in Seq(Seq(S)) /\ Len(headers) = n
        /\ \A i \in 1 .. n : headers[i] = HeaderOf(files, i) /\ Len(headers[i]) = 3
    <2>1. ASSUME NEW i \in 1 .. n PROVE HeaderOf(files, i) \in Seq(S) /\ Len(HeaderOf(files, i)) = 3
      <3>1. First(files) + Ird!Lengths(files, i - 1) \in S
        BY <1>2, <1>7 DEF First, n
      <3>2. Len(files[i].content) \in S /\ files[i].name \in S
        BY <1>2
      <3> HIDE DEF S
      <3>3. QED
        BY <3>1, <3>2 DEF HeaderOf
    <2> HIDE DEF S
    <2>2. QED
      BY <1>2, <2>1
  <1> HIDE DEF contents, headers, S, FC, FH
  <1>9. PICK P : Flat(headers, FH, P)
    BY <1>8, Flattening DEF FH
  <1>10. FH \in Seq(S)
    BY <1>8, Flattening DEF FH
  <1>11. /\ Len(FH) = 3 * n
         /\ \A i \in 1 .. n : \A k \in 1 .. 3 : FH[3 * (i - 1) + k] = HeaderOf(files, i)[k]
    <2>1. Len(headers) \in Nat /\ \A i \in 1 .. Len(headers) : Len(headers[i]) = 3
      BY <1>2, <1>8
    <2>2. ASSUME NEW w \in Nat, \A i \in 1 .. Len(headers) : Len(headers[i]) = w
          PROVE  /\ Len(FH) = w * Len(headers)
                 /\ \A i \in 1 .. Len(headers) : \A k \in 1 .. w :
                      FH[w * (i - 1) + k] = headers[i][k]
      BY <1>9, <2>1, <2>2, FlatEven
    <2>3. /\ Len(FH) = 3 * Len(headers)
          /\ \A i \in 1 .. Len(headers) : \A k \in 1 .. 3 : FH[3 * (i - 1) + k] = headers[i][k]
      BY <2>1, <2>2
    <2>4. QED
      BY <1>8, <2>3
  <1>12. Ird!mkinitrd(files) = A \o FH \o FC
    <2>1. /\ headers = [i \in DOMAIN files |-> <<Ird!HeaderSize + Ird!FileHeaderSize * Len(files)
                                                   + Ird!Lengths(files, i - 1),
                                                 Len(files[i].content), files[i].name>>]
          /\ contents = [i \in DOMAIN files |-> files[i].content]
      BY <1>2 DEF headers, contents, HeaderOf, First, Ird!HeaderSize, Ird!FileHeaderSize
    <2>2. FH = Ird!FlattenSeq(headers) /\ FC = Ird!FlattenSeq(contents)
      BY SameFlattening DEF FH, FC
    <2>3. QED
      BY <2>1, <2>2 DEF Ird!mkinitrd, Ird!VERSION, n
  <1>13. A \in Seq(S) /\ Len(A) = 3 /\ A[1] = Ird!MAGIC /\ A[2] = 1 /\ A[3] = n
    BY <1>2 DEF S
  <1> HIDE DEF A
  <1>14. ASSUME NEW x \in Seq(S), NEW y \in Seq(S)
         PROVE  /\ x \o y \in Seq(S) /\ Len(x \o y) = Len(x) + Len(y)
                /\ \A j \in 1 .. Len(x) : (x \o y)[j] = x[j]
                /\ \A j \in 1 .. Len(y) : (x \o y)[Len(x) + j] = y[j]
    OBVIOUS
  <1> DEFINE B == A \o FH
             img == B \o FC
  <1>15. /\ B \in Seq(S) /\ Len(B) = 3 + 3 * n
         /\ \A j \in 1 .. 3 : B[j] = A[j]
         /\ \A j \in 1 .. 3 * n : B[3 + j] = FH[j]
    <2>1. /\ B \in Seq(S) /\ Len(B) = Len(A) + Len(FH)
          /\ \A j \in 1 .. Len(A) : B[j] = A[j]
          /\ \A j \in 1 .. Len(FH) : B[Len(A) + j] = FH[j]
      BY <1>10, <1>13, <1>14
    <2> HIDE DEF B
    <2>2. QED
      BY <1>11, <1>13, <2>1
  <1> HIDE DEF B
  <1>16. /\ img \in Seq(S) /\ Len(img) = 3 + 3 * n + Len(FC)
         /\ \A j \in 1 .. 3 + 3 * n : img[j] = B[j]
         /\ \A j \in 1 .. Len(FC) : img[3 + 3 * n + j] = FC[j]
    <2>1. /\ img \in Seq(S) /\ Len(img) = Len(B) + Len(FC)
          /\ \A j \in 1 .. Len(B) : img[j] = B[j]
          /\ \A j \in 1 .. Len(FC) : img[Len(B) + j] = FC[j]
      BY <1>5, <1>14, <1>15
    <2> HIDE DEF img
    <2>2. QED
      BY <1>15, <2>1
  <1> HIDE DEF img
  <1>17. First(files) = 3 + 3 * n /\ Len(FC) \in Nat
    BY <1>5 DEF First, n
  <1>18. img[1] = Ird!MAGIC /\ img[2] = 1 /\ img[3] = n
    <2>1. /\ 1 \in 1 .. 3 /\ 2 \in 1 .. 3 /\ 3 \in 1 .. 3
          /\ \A j \in 1 .. 3 : j \in 1 .. 3 + 3 * n
      BY <1>2
    <2>2. QED
      BY <1>13, <1>15, <1>16, <2>1
  <1>19. ASSUME NEW i \in 1 .. n, NEW k \in 1 .. 3
         PROVE  img[3 + 3 * (i - 1) + k] = HeaderOf(files, i)[k]
    <2>1. 3 * (i - 1) + k \in 1 .. 3 * n /\ 3 + 3 * (i - 1) + k \in 1 .. 3 + 3 * n
          /\ 3 + (3 * (i - 1) + k) = 3 + 3 * (i - 1) + k
      BY <1>2
    <2>2. img[3 + 3 * (i - 1) + k] = B[3 + 3 * (i - 1) + k]
      BY <1>16, <2>1
    <2>3. B[3 + (3 * (i - 1) + k)] = FH[3 * (i - 1) + k]
      BY <1>15, <2>1
    <2>4. QED
      BY <1>11, <2>1, <2>2, <2>3
  <1>20. ASSUME NEW i \in 1 .. n
         PROVE  /\ 3 + 3 * n + Q[i - 1] + Len(files[i].content) <= Len(img)
                /\ \A k \in 1 .. Len(files[i].content) :
                     img[3 + 3 * n + Q[i - 1] + k] = files[i].content[k]
    <2>1. Q[i - 1] \in Nat /\ Len(files[i].content) \in Nat
          /\ Q[i - 1] + Len(files[i].content) <= Len(FC)
      BY <1>2, <1>6, <1>7
    <2>2. ASSUME NEW k \in 1 .. Len(files[i].content)
          PROVE  img[3 + 3 * n + Q[i - 1] + k] = files[i].content[k]
      <3>1. Q[i - 1] + k \in 1 .. Len(FC) /\ 3 + 3 * n + (Q[i - 1] + k) = 3 + 3 * n + Q[i - 1] + k
        BY <1>2, <1>17, <2>1
      <3>2. img[3 + 3 * n + (Q[i - 1] + k)] = FC[Q[i - 1] + k]
        BY <1>16, <3>1
      <3>3. QED
        BY <1>6, <3>1, <3>2
    <2>3. 3 + 3 * n + Q[i - 1] + Len(files[i].content) <= Len(img)
      BY <1>2, <1>16, <1>17, <2>1
    <2>4. QED
      BY <2>2, <2>3
  <1>21. Imaged(files, img)
    <2>1. First(files) <= Len(img)
      BY <1>2, <1>16, <1>17
    <2>2. \A i \in 1 .. n :
            /\ Ird!Lengths(files, i - 1) \in Nat
            /\ First(files) + Ird!Lengths(files, i - 1) + Len(files[i].content) <= Len(img)
            /\ \A k \in 1 .. Len(files[i].content) :
                 img[First(files) + Ird!Lengths(files, i - 1) + k] = files[i].content[k]
      BY <1>7, <1>17, <1>20
    <2>3. QED
      BY <1>16, <1>18, <1>19, <2>1, <2>2 DEF Imaged, n
  <1>22. QED
    BY <1>2, <1>12, <1>21 DEF img, B, n

-----------------------------------------------------------------------------
(* Where the blocks of a drive begin on the RAM drive. *)
Begin(drive) == IF drive = "logical" THEN StartBlock ELSE 0

(* The memory has its size all the time. *)
MemoryKept == \E V : ram \in [1 .. Ird!Size -> V]

(* Without an image no drive begins with the magic number and no file system
   was found. *)
NothingFound ==
  base = -1 =>
    /\ fs = Ird!NoFs
    /\ ram[1] # Ird!MAGIC /\ ram[StartBlock * BlockSize + 1] # Ird!MAGIC

(* The image stands where it was loaded to, and only there a drive begins with
   the magic number. *)
ImageStands ==
  base # -1 =>
    /\ packed \in Packs /\ base \in {0, StartBlock}
    /\ base * BlockSize + Len(Ird!mkinitrd(packed)) <= Ird!Size
    /\ \A j \in 1 .. Len(Ird!mkinitrd(packed)) :
         ram[base * BlockSize + j] = Ird!mkinitrd(packed)[j]
    /\ ram[1] = Ird!MAGIC => base = 0
    /\ ram[StartBlock * BlockSize + 1] = Ird!MAGIC => base = StartBlock

(* The file system has the headers of the image, as packed. *)
HeadersAsPacked ==
  fs # Ird!NoFs =>
    /\ base # -1 /\ base = Begin(fs.drive)
    /\ fs.headers = [i \in 1 .. Len(packed) |-> HeaderOf(packed, i)]

(* What was written stands in the blocks it was written to. *)
WriteStands ==
  (last # Ird!NoWrite /\ base = -1) =>
    /\ last.qty \in Nat /\ last.from \in Nat
    /\ last.from + Begin(last.path) + last.qty <= Blocks
    /\ last.data = [j \in 1 .. last.qty * BlockSize |-> Byte + j]
    /\ \A j \in 1 .. last.qty * BlockSize :
         ram[(last.from + Begin(last.path)) * BlockSize + j] = Byte + j

InitrdInv == MemoryKept /\ NothingFound /\ ImageStands /\ HeadersAsPacked /\ WriteStands

LEMMA BlocksWithin ==
  ASSUME NEW a \in Nat, NEW q \in Nat, NEW b \in Nat, NEW w \in Nat, a + q <= b
  PROVE  a * w \in Nat /\ q * w \in Nat /\ b * w \in Nat /\ a * w + q * w <= b * w
  <1>1. PICK r \in Nat : b = a + q + r
    <2>1. b - a - q \in Nat /\ b = a + q + (b - a - q)
      OBVIOUS
    <2>2. QED
      BY <2>1
  <1>2. b * w = a * w + q * w + r * w
    BY <1>1
  <1>3. \A x \in Nat : x * w \in Nat
    OBVIOUS
  <1>4. a * w \in Nat /\ q * w \in Nat /\ r * w \in Nat /\ b * w \in Nat
    BY <1>1, <1>3
  <1>5. QED
    BY <1>2, <1>4

(* The drives begin within the memory, the logical one not at its start. *)
LEMMA BeginWithin ==
  ASSUME InitrdGiven
  PROVE  /\ StartBlock * BlockSize \in Nat /\ 3 <= StartBlock * BlockSize
         /\ Ird!Size \in Nat /\ StartBlock * BlockSize + 3 <= Ird!Size
         /\ \A d : Begin(d) \in {0, StartBlock}
         /\ 0 * BlockSize = 0
  <1> DEFINE s == StartBlock - 1
  <1>1. /\ StartBlock \in Nat /\ s \in Nat /\ Blocks \in Nat /\ BlockSize \in Nat /\ 3 <= BlockSize
        /\ StartBlock + 1 <= Blocks /\ s + 1 <= StartBlock /\ 1 \in Nat
    BY DEF InitrdGiven
  <1> HIDE DEF s
  <1>2. /\ StartBlock * BlockSize \in Nat /\ Blocks * BlockSize \in Nat
        /\ StartBlock * BlockSize + 1 * BlockSize <= Blocks * BlockSize
    BY <1>1, BlocksWithin
  <1>3. s * BlockSize \in Nat /\ s * BlockSize + 1 * BlockSize <= StartBlock * BlockSize
    BY <1>1, BlocksWithin
  <1>4. 1 * BlockSize = BlockSize /\ 0 * BlockSize = 0
    BY <1>1
  <1>5. QED
    BY <1>1, <1>2, <1>3, <1>4 DEF Begin, Ird!Size

(* What is read: the cells from there on. *)
CellsFrom(o, q) == [j \in 1 .. q |-> ram[o + j]]

LEMMA ReadIs ==
  ASSUME InitrdGiven, MemoryKept, NEW d, NEW o \in Nat, NEW q \in Nat,
         Begin(d) * BlockSize + o + q <= Ird!Size
  PROVE  Ird!Read(d, o, q) = CellsFrom(Begin(d) * BlockSize + o, q)
  <1> DEFINE origin == Begin(d) * BlockSize + o
  <1>1. origin \in Nat /\ Ird!Size \in Nat
    BY BeginWithin
  <1>2. Ird!Read(d, o, q) = SubSeq(ram, origin + 1, origin + q)
    <2>1. CASE d = "logical"
      BY <2>1 DEF Ird!Read, Ird!LogicalRead, Ird!RamRead, Begin
    <2>2. CASE d # "logical"
      <3>1. origin = o
        BY <2>2, BeginWithin DEF Begin
      <3> HIDE DEF origin
      <3>2. QED
        BY <2>2, <3>1 DEF Ird!Read, Ird!RamRead
    <2>3. QED
      BY <2>1, <2>2
  <1> HIDE DEF origin
  <1>3. PICK V : ram \in [1 .. Ird!Size -> V]
    BY DEF MemoryKept
  <1>4. origin + q <= Ird!Size
    BY DEF origin
  <1>5. SubSeq(ram, origin + 1, origin + q) = [j \in 1 .. q |-> ram[origin + j]]
    BY <1>1, <1>3, <1>4, PartOf
  <1>6. QED
    BY <1>2, <1>5 DEF origin, CellsFrom

(* What is written stands there, all else is as it was. *)
Overwritten(w, n, R, o, data) ==
  /\ w \in [1 .. n -> R]
  /\ \A j \in 1 .. Len(data) : w[o + j] = data[j]
  /\ \A c \in 1 .. n : c \notin o + 1 .. o + Len(data) => w[c] = ram[c]

LEMMA OverwriteIs ==
  ASSUME NEW n \in Nat, NEW V, ram \in [1 .. n -> V],
         NEW o \in Nat, NEW S, NEW data \in Seq(S), o + Len(data) <= n
  PROVE  Overwritten(Ird!Overwrite(o, data), n, V \cup S, o, data)
  <1> DEFINE w == Ird!Overwrite(o, data)
  <1>1. w = [i \in 1 .. n |-> IF i \in o + 1 .. o + Len(data) THEN data[i - o] ELSE ram[i]]
    BY DEF Ird!Overwrite
  <1>2. Len(data) \in Nat /\ \A j \in 1 .. Len(data) : data[j] \in S
    OBVIOUS
  <1> HIDE DEF w
  <1>3. ASSUME NEW j \in 1 .. Len(data)
        PROVE  o + j \in 1 .. n /\ o + j \in o + 1 .. o + Len(data) /\ o + j - o = j
    BY <1>2
  <1>4. ASSUME NEW c \in 1 .. n, c \in o + 1 .. o + Len(data)
        PROVE  c - o \in 1 .. Len(data)
    BY <1>2, <1>4
  <1>5. ASSUME NEW c \in 1 .. n PROVE w[c] \in V \cup S
    <2>1. ram[c] \in V
      OBVIOUS
    <2>2. QED
      BY <1>1, <1>2, <1>4, <2>1
  <1>6. w \in [1 .. n -> V \cup S]
    BY <1>1, <1>5
  <1>7. QED
    BY <1>1, <1>3, <1>6 DEF w, Overwritten

(* From the start no drive begins with the magic number. *)
LEMMA InitrdStarts == ASSUME InitrdGiven, Ird!Init PROVE InitrdInv
  <1>1. ram \in [1 .. Ird!Size -> {0}] /\ \A c \in 1 .. Ird!Size : ram[c] = 0
    BY DEF Ird!Init
  <1>2. 1 \in 1 .. Ird!Size /\ StartBlock * BlockSize + 1 \in 1 .. Ird!Size
    BY BeginWithin
  <1>3. Ird!MAGIC # 0
    BY DEF Ird!MAGIC
  <1>4. NothingFound
    BY <1>1, <1>2, <1>3 DEF NothingFound, Ird!Init
  <1>5. ImageStands /\ HeadersAsPacked /\ WriteStands
    BY DEF ImageStands, HeadersAsPacked, WriteStands, Ird!Init, Ird!NoImage
  <1>6. QED
    BY <1>1, <1>4, <1>5 DEF InitrdInv, MemoryKept

LEMMA InitrdUnchanged == ASSUME InitrdInv, UNCHANGED Ird!vars PROVE InitrdInv'
  BY DEF InitrdInv, MemoryKept, NothingFound, ImageStands, HeadersAsPacked, WriteStands, Ird!vars

(* The image covers its own place and, at the start, no other begin of a drive
   with the magic number. *)
LEMMA InitrdLoad == ASSUME InitrdGiven, InitrdInv, Ird!Load PROVE InitrdInv'
  <1>1. /\ base = -1 /\ fs = Ird!NoFs /\ fs' = fs
        /\ ram[1] # Ird!MAGIC /\ ram[StartBlock * BlockSize + 1] # Ird!MAGIC
    BY DEF InitrdInv, NothingFound, Ird!Load, Ird!NoImage
  <1>2. PICK files \in Packs, b \in {0, StartBlock} :
          /\ b * BlockSize + Len(Ird!mkinitrd(files)) <= Ird!Size
          /\ ram' = Ird!Overwrite(b * BlockSize, Ird!mkinitrd(files))
          /\ packed' = files /\ base' = b
    BY DEF Ird!Load
  <1> DEFINE img == Ird!mkinitrd(files)
             o == b * BlockSize
             e == StartBlock * BlockSize + 1
             w == Ird!Overwrite(o, img)
  <1>3. Imaged(files, img)
    BY <1>2, ImageMade
  <1>4. PICK S : img \in Seq(S)
    BY <1>3 DEF Imaged
  <1>5. PICK V : ram \in [1 .. Ird!Size -> V]
    BY DEF InitrdInv, MemoryKept
  <1>6. StartBlock \in Nat \ {0} /\ (StartBlock * BlockSize < Len(img) => img[e] # Ird!MAGIC)
    BY <1>2 DEF InitrdGiven
  <1>7. /\ o \in Nat /\ (o = 0 <=> b = 0) /\ (o = e - 1 <=> b = StartBlock)
        /\ e \in Nat /\ 3 <= e - 1 /\ e + 2 <= Ird!Size /\ Ird!Size \in Nat /\ b # -1
    BY <1>2, <1>6, BeginWithin
  <1>8. o + Len(img) <= Ird!Size /\ ram' = w /\ packed' = files /\ base' = b
    BY <1>2
  <1>9. Len(img) \in Nat /\ 3 <= Len(img) /\ (e - 1 < Len(img) => img[e] # Ird!MAGIC)
    <2>1. Len(files) \in Nat /\ First(files) <= Len(img)
      BY <1>2, <1>3, ImageMade DEF Imaged
    <2>2. StartBlock * BlockSize = e - 1
      BY BeginWithin
    <2> HIDE DEF img, e
    <2>3. QED
      BY <1>4, <1>6, <2>1, <2>2 DEF First
  <1> HIDE DEF img, o, e
  <1>10. /\ w \in [1 .. Ird!Size -> V \cup S]
         /\ \A j \in 1 .. Len(img) : w[o + j] = img[j]
         /\ \A c \in 1 .. Ird!Size : c \notin o + 1 .. o + Len(img) => w[c] = ram[c]
    <2>1. Overwritten(w, Ird!Size, V \cup S, o, img)
      BY <1>4, <1>5, <1>7, <1>8, OverwriteIs
    <2>2. QED
      BY <2>1 DEF Overwritten
  <1> HIDE DEF w
  <1>11. MemoryKept'
    BY <1>8, <1>10 DEF MemoryKept
  <1>12. w[1] = Ird!MAGIC => b = 0
    <2>1. SUFFICES ASSUME b = StartBlock PROVE w[1] # Ird!MAGIC
      BY <1>2
    <2>2. 1 \in 1 .. Ird!Size /\ 1 \notin o + 1 .. o + Len(img)
      BY <1>7, <1>9, <2>1
    <2>3. QED
      BY <1>1, <1>10, <2>2
  <1>13. w[e] = Ird!MAGIC => b = StartBlock
    <2>1. SUFFICES ASSUME b = 0 PROVE w[e] # Ird!MAGIC
      BY <1>2
    <2>2. CASE e - 1 < Len(img)
      <3>1. e \in 1 .. Len(img) /\ o + e = e
        BY <1>7, <1>9, <2>1, <2>2
      <3>2. w[e] = img[e]
        BY <1>10, <3>1
      <3>3. QED
        BY <1>9, <2>2, <3>2
    <2>3. CASE ~(e - 1 < Len(img))
      <3>1. e \in 1 .. Ird!Size /\ e \notin o + 1 .. o + Len(img)
        BY <1>7, <1>9, <2>1, <2>3
      <3>2. w[e] = ram[e]
        BY <1>10, <3>1
      <3>3. QED
        BY <1>1, <3>2 DEF e
    <2>4. QED
      BY <2>2, <2>3
  <1>14. ImageStands'
    <2>1. /\ packed' \in Packs /\ base' \in {0, StartBlock}
          /\ base' * BlockSize + Len(Ird!mkinitrd(packed')) <= Ird!Size
      BY <1>2
    <2>2. \A j \in 1 .. Len(Ird!mkinitrd(packed')) :
            ram'[base' * BlockSize + j] = Ird!mkinitrd(packed')[j]
      BY <1>8, <1>10 DEF o, img
    <2>3. /\ ram'[1] = Ird!MAGIC => base' = 0
          /\ ram'[StartBlock * BlockSize + 1] = Ird!MAGIC => base' = StartBlock
      BY <1>8, <1>12, <1>13 DEF e
    <2>4. (Ird!mkinitrd(packed))' = Ird!mkinitrd(packed') /\ Ird!Size' = Ird!Size
      OBVIOUS
    <2>5. QED
      BY <2>1, <2>2, <2>3, <2>4 DEF ImageStands
  <1>15. NothingFound' /\ HeadersAsPacked' /\ WriteStands'
    BY <1>1, <1>7, <1>8 DEF NothingFound, HeadersAsPacked, WriteStands
  <1>16. QED
    BY <1>11, <1>14, <1>15 DEF InitrdInv

(* A file system is found where the image is, with the headers packed. *)
LEMMA InitrdMount == ASSUME InitrdGiven, InitrdInv, Ird!Mount PROVE InitrdInv'
  <1>1. PICK d \in {"ram", "cached", "logical"} :
          LET header == Ird!Read(d, 0, 3)
          IN  /\ header[1] = Ird!MAGIC
              /\ fs' = [drive |-> d,
                        headers |-> [i \in 1 .. header[3] |-> Ird!Read(d, 3 + 3 * (i - 1), 3)]]
    BY DEF Ird!Mount, Ird!HeaderSize, Ird!FileHeaderSize
  <1>2. /\ UNCHANGED <<ram, packed, base, last>> /\ fs = Ird!NoFs
        /\ MemoryKept /\ NothingFound /\ ImageStands /\ WriteStands
    BY DEF Ird!Mount, InitrdInv
  <1> DEFINE header == Ird!Read(d, 0, 3)
             o == Begin(d) * BlockSize
             img == Ird!mkinitrd(packed)
             n == Len(packed)
  <1>3. o \in Nat /\ o + 3 <= Ird!Size /\ Ird!Size \in Nat
        /\ (o + 1 = 1 \/ o + 1 = StartBlock * BlockSize + 1)
    BY BeginWithin
  <1>4. header = CellsFrom(o + 0, 3)
    <2>1. 0 \in Nat /\ 3 \in Nat /\ Begin(d) * BlockSize + 0 + 3 <= Ird!Size
      BY <1>3
    <2> HIDE DEF header
    <2>2. QED
      BY <1>2, <2>1, ReadIs DEF header
  <1>5. header[1] = ram[o + 1] /\ header[3] = ram[o + 3]
    BY <1>3, <1>4 DEF CellsFrom
  <1>6. ram[o + 1] = Ird!MAGIC
        /\ fs' = [drive |-> d,
                  headers |-> [i \in 1 .. header[3] |-> Ird!Read(d, 3 + 3 * (i - 1), 3)]]
    BY <1>1, <1>5
  <1> HIDE DEF header
  <1>7. base # -1
    BY <1>2, <1>3, <1>6 DEF NothingFound
  <1>8. base = Begin(d) /\ packed \in Packs
    <2>1. StartBlock * BlockSize + 1 # 1 /\ Begin(d) \in {0, StartBlock} /\ 0 * BlockSize = 0
      BY BeginWithin
    <2>2. CASE Begin(d) = 0
      BY <1>2, <1>6, <1>7, <2>1, <2>2 DEF ImageStands
    <2>3. CASE Begin(d) = StartBlock
      BY <1>2, <1>6, <1>7, <2>1, <2>3 DEF ImageStands
    <2>4. QED
      BY <2>1, <2>2, <2>3
  <1>9. o + Len(img) <= Ird!Size /\ \A j \in 1 .. Len(img) : ram[o + j] = img[j]
    BY <1>2, <1>7, <1>8 DEF ImageStands
  <1>10. Imaged(packed, img) /\ n \in Nat
    BY <1>8, ImageMade
  <1>11. Len(img) \in Nat /\ 3 + 3 * n <= Len(img) /\ img[3] = n
         /\ \A i \in 1 .. n : \A k \in 1 .. 3 : img[3 + 3 * (i - 1) + k] = HeaderOf(packed, i)[k]
    BY <1>10 DEF Imaged, First
  <1> HIDE DEF img, n, o
  <1>12. header[3] = n
    <2>1. 3 \in 1 .. Len(img)
      BY <1>10, <1>11
    <2>2. QED
      BY <1>5, <1>9, <1>11, <2>1
  <1>13. ASSUME NEW i \in 1 .. n
         PROVE  Ird!Read(d, 3 + 3 * (i - 1), 3) = HeaderOf(packed, i)
    <2> DEFINE r == 3 + 3 * (i - 1)
               h == HeaderOf(packed, i)
    <2>1. r \in Nat /\ r + 3 <= Len(img) /\ o + r + 3 <= Ird!Size
      BY <1>3, <1>9, <1>10, <1>11
    <2>2. \A k \in 1 .. 3 : img[r + k] = h[k]
      BY <1>11
    <2>3. h = [k \in 1 .. 3 |-> h[k]]
      BY DEF HeaderOf
    <2> HIDE DEF r, h
    <2>4. Ird!Read(d, r, 3) = CellsFrom(o + r, 3)
      BY <1>2, <2>1, ReadIs DEF o
    <2>5. \A k \in 1 .. 3 : r + k \in 1 .. Len(img) /\ o + r + k = o + (r + k)
      BY <1>3, <1>11, <2>1
    <2>6. \A k \in 1 .. 3 : ram[o + r + k] = h[k]
      BY <1>9, <2>2, <2>5
    <2>7. QED
      BY <2>3, <2>4, <2>6 DEF r, h, CellsFrom
  <1>14. fs'.headers = [i \in 1 .. n |-> HeaderOf(packed, i)] /\ fs'.drive = d
    BY <1>6, <1>12, <1>13
  <1>15. HeadersAsPacked'
    <2>1. base' = base /\ packed' = packed
      BY <1>2
    <2>2. QED
      BY <1>7, <1>8, <1>14, <2>1 DEF HeadersAsPacked, n, HeaderOf, First, Begin
  <1>16. (MemoryKept /\ NothingFound /\ ImageStands /\ WriteStands)'
    BY <1>2, <1>7 DEF MemoryKept, NothingFound, ImageStands, WriteStands
  <1>17. QED
    BY <1>15, <1>16 DEF InitrdInv

(* A write before an image is there covers its blocks and nothing like the
   magic number gets onto the drive. *)
LEMMA InitrdWrite == ASSUME InitrdGiven, InitrdInv, Ird!WriteToBlocks PROVE InitrdInv'
  <1>1. PICK d \in {"ram", "cached", "logical"}, q \in 1 .. MaxQty :
          \E b \in 0 .. Ird!Room(d) - q :
            /\ ram' = Ird!WriteBlocks(d, b, [i \in 1 .. q * BlockSize |-> Byte + i])
            /\ last' = [path |-> d, from |-> b, qty |-> q,
                        data |-> [i \in 1 .. q * BlockSize |-> Byte + i]]
    BY DEF Ird!WriteToBlocks
  <1>2. PICK b \in 0 .. Ird!Room(d) - q :
          /\ ram' = Ird!WriteBlocks(d, b, [i \in 1 .. q * BlockSize |-> Byte + i])
          /\ last' = [path |-> d, from |-> b, qty |-> q,
                      data |-> [i \in 1 .. q * BlockSize |-> Byte + i]]
    BY <1>1
  <1>3. UNCHANGED <<packed, base, fs>> /\ base = -1
    BY DEF Ird!WriteToBlocks, Ird!NoImage
  <1>4. /\ fs = Ird!NoFs
        /\ ram[1] # Ird!MAGIC /\ ram[StartBlock * BlockSize + 1] # Ird!MAGIC
    BY <1>3 DEF InitrdInv, NothingFound
  <1>5. PICK V : ram \in [1 .. Ird!Size -> V]
    BY DEF InitrdInv, MemoryKept
  <1> DEFINE begin == b + Begin(d)
             o == begin * BlockSize
             cells == q * BlockSize
             data == [i \in 1 .. cells |-> Byte + i]
             w == Ird!Overwrite(o, data)
  <1>6. /\ q \in Nat /\ q <= MaxQty /\ b \in Nat /\ BlockSize \in Nat /\ Blocks \in Nat /\ MaxQty \in Nat
        /\ begin \in Nat /\ begin + q <= Blocks
    <2>1. /\ MaxQty \in Nat /\ Blocks \in Nat /\ StartBlock \in Nat /\ LogicalBlocks \in Nat
          /\ StartBlock + LogicalBlocks <= Blocks /\ BlockSize \in Nat
      BY DEF InitrdGiven
    <2>2. CASE d = "logical"
      BY <2>1, <2>2 DEF Ird!Room, Begin
    <2>3. CASE d # "logical"
      BY <2>1, <2>3 DEF Ird!Room, Begin
    <2>4. QED
      BY <2>2, <2>3
  <1>7. ram' = w
    BY <1>2 DEF Ird!WriteBlocks, Begin
  <1>8. last' = [path |-> d, from |-> b, qty |-> q, data |-> data]
    BY <1>2
  <1> HIDE DEF begin
  <1>9. o \in Nat /\ cells \in Nat /\ o + cells <= Ird!Size /\ Ird!Size \in Nat
    BY <1>6, BlocksWithin DEF Ird!Size
  <1>10. \A i \in 1 .. cells : Byte + i # Ird!MAGIC /\ Byte + i \in Nat
    <2>1. cells <= MaxQty * BlockSize
      <3>1. MaxQty - q \in Nat /\ (MaxQty - q) + q <= MaxQty
        BY <1>6
      <3> DEFINE rest == MaxQty - q
      <3> HIDE DEF rest
      <3>2. /\ rest * BlockSize \in Nat /\ MaxQty * BlockSize \in Nat
            /\ rest * BlockSize + cells <= MaxQty * BlockSize
        BY <1>6, <3>1, BlocksWithin DEF rest
      <3>3. QED
        BY <1>9, <3>2
    <2>2. Byte \in Nat /\ \A i \in 1 .. MaxQty * BlockSize : Byte + i # Ird!MAGIC
      BY DEF InitrdGiven
    <2>3. MaxQty * BlockSize \in Nat
      BY <1>6, BlocksWithin
    <2> HIDE DEF cells
    <2>4. QED
      BY <1>9, <2>1, <2>2, <2>3
  <1> HIDE DEF o, cells
  <1>11. data \in Seq(Nat) /\ Len(data) = cells /\ \A j \in 1 .. cells : data[j] = Byte + j
    BY <1>9, <1>10
  <1>12. data = [j \in 1 .. cells |-> Byte + j]
    OBVIOUS
  <1> HIDE DEF data
  <1>13. /\ w \in [1 .. Ird!Size -> V \cup Nat]
         /\ \A j \in 1 .. cells : w[o + j] = Byte + j
         /\ \A c \in 1 .. Ird!Size : c \notin o + 1 .. o + cells => w[c] = ram[c]
    <2>1. Overwritten(w, Ird!Size, V \cup Nat, o, data)
      BY <1>5, <1>9, <1>11, OverwriteIs
    <2>2. QED
      BY <1>11, <2>1 DEF Overwritten
  <1> HIDE DEF w
  <1>14. ASSUME NEW c \in 1 .. Ird!Size, ram[c] # Ird!MAGIC PROVE w[c] # Ird!MAGIC
    <2>1. CASE c \in o + 1 .. o + cells
      <3>1. c - o \in 1 .. cells /\ o + (c - o) = c
        BY <1>9, <2>1
      <3>2. w[o + (c - o)] = Byte + (c - o) /\ Byte + (c - o) # Ird!MAGIC
        BY <1>10, <1>13, <3>1
      <3>3. QED
        BY <3>1, <3>2
    <2>2. CASE c \notin o + 1 .. o + cells
      BY <1>13, <1>14, <2>2
    <2>3. QED
      BY <2>1, <2>2
  <1>15. NothingFound'
    <2>1. 1 \in 1 .. Ird!Size /\ StartBlock * BlockSize + 1 \in 1 .. Ird!Size
      BY BeginWithin
    <2>2. w[1] # Ird!MAGIC /\ w[StartBlock * BlockSize + 1] # Ird!MAGIC
      BY <1>4, <1>14, <2>1
    <2>3. ram'[1] # Ird!MAGIC /\ ram'[StartBlock * BlockSize + 1] # Ird!MAGIC
      BY <1>7, <2>2
    <2>4. QED
      BY <1>3, <1>4, <2>3 DEF NothingFound
  <1>16. WriteStands'
    <2>1. last'.path = d /\ last'.from = b /\ last'.qty = q /\ last'.data = data
      BY <1>8
    <2>2. /\ last'.qty \in Nat /\ last'.from \in Nat
          /\ last'.from + Begin(last'.path) + last'.qty <= Blocks
      BY <1>6, <2>1 DEF begin
    <2>3. last'.data = [j \in 1 .. last'.qty * BlockSize |-> Byte + j]
      BY <1>12, <2>1 DEF cells
    <2>4. \A j \in 1 .. last'.qty * BlockSize :
            ram'[(last'.from + Begin(last'.path)) * BlockSize + j] = Byte + j
      BY <1>7, <1>13, <2>1 DEF cells, o, begin
    <2>5. QED
      BY <2>2, <2>3, <2>4 DEF WriteStands, Begin
  <1>17. MemoryKept'
    BY <1>7, <1>13 DEF MemoryKept
  <1>18. ImageStands' /\ HeadersAsPacked'
    BY <1>3, <1>4 DEF ImageStands, HeadersAsPacked
  <1>19. QED
    BY <1>15, <1>16, <1>17, <1>18 DEF InitrdInv

(* The blocks of the RAM drive, read one by one, are its cells. *)
LEMMA BlocksAreCells ==
  ASSUME InitrdGiven, MemoryKept, NEW b \in Nat, NEW q \in Nat, b + q <= Blocks
  PROVE  Ird!CachedReadBlocks(b, q) = CellsFrom(b * BlockSize, q * BlockSize)
  <1> DEFINE s == [i \in 1 .. q |-> Ird!RamReadBlock(b + i - 1)]
             F == Tab!FlattenSeq(s)
             o == b * BlockSize
  <1>1. PICK V : ram \in [1 .. Ird!Size -> V]
    BY DEF MemoryKept
  <1>2. Blocks \in Nat /\ BlockSize \in Nat
    BY DEF InitrdGiven
  <1>3. ASSUME NEW i \in 1 .. q
        PROVE  /\ Ird!RamReadBlock(b + i - 1) = CellsFrom((b + i - 1) * BlockSize, BlockSize)
               /\ (b + i - 1) * BlockSize = o + BlockSize * (i - 1)
               /\ Ird!RamReadBlock(b + i - 1) \in Seq(V)
    <2> DEFINE c == b + i - 1
    <2>1. c \in Nat /\ c + 1 <= Blocks /\ c * BlockSize = o + BlockSize * (i - 1)
      BY <1>2
    <2>2. c * BlockSize \in Nat /\ c * BlockSize + 1 * BlockSize <= Ird!Size /\ Ird!Size \in Nat
      <3> HIDE DEF c
      <3>1. QED
        BY <1>2, <2>1, BlocksWithin DEF Ird!Size
    <2> DEFINE p == c * BlockSize
    <2> HIDE DEF p, c
    <2>3. p \in Nat /\ p + BlockSize <= Ird!Size /\ Ird!Size \in Nat
      BY <1>2, <2>2 DEF p
    <2>4. SubSeq(ram, p + 1, p + BlockSize) = [j \in 1 .. BlockSize |-> ram[p + j]]
      BY <1>1, <1>2, <2>3, PartOf
    <2>5. Ird!RamReadBlock(c) = CellsFrom(p, BlockSize)
      BY <2>4 DEF Ird!RamReadBlock, Ird!RamRead, CellsFrom, p
    <2>6. \A k \in 1 .. BlockSize : p + k \in 1 .. Ird!Size
      BY <1>2, <2>3
    <2>7. CellsFrom(p, BlockSize) \in Seq(V)
      BY <1>1, <1>2, <2>6 DEF CellsFrom
    <2>8. QED
      BY <2>1, <2>5, <2>7 DEF p, c
  <1>4. /\ s \in Seq(Seq(V)) /\ Len(s) = q
        /\ \A i \in 1 .. q : s[i] = CellsFrom((b + i - 1) * BlockSize, BlockSize)
    <2> DEFINE R == Seq(V)
    <2>1. \A i \in 1 .. q : Ird!RamReadBlock(b + i - 1) \in R
      BY <1>3
    <2> HIDE DEF R
    <2>2. s \in Seq(R) /\ Len(s) = q /\ \A i \in 1 .. q : s[i] = Ird!RamReadBlock(b + i - 1)
      BY <2>1
    <2>3. s \in Seq(Seq(V))
      BY <2>2 DEF R
    <2> HIDE DEF s
    <2>4. QED
      BY <1>3, <2>2, <2>3
  <1>5. Ird!CachedReadBlocks(b, q) = F
    BY SameFlattening DEF Ird!CachedReadBlocks
  <1> HIDE DEF s, F, o
  <1>6. F \in Seq(V)
    BY <1>4, Flattening DEF F
  <1>7. PICK P : Flat(s, F, P)
    BY <1>4, Flattening DEF F
  <1>8. /\ Len(s) \in Nat /\ BlockSize \in Nat
        /\ \A i \in 1 .. Len(s) : Len(s[i]) = BlockSize
        /\ \A i \in 1 .. q : \A k \in 1 .. BlockSize : s[i][k] = ram[(b + i - 1) * BlockSize + k]
    BY <1>2, <1>4, SMTT(20) DEF CellsFrom
  <1>9. /\ \A i \in 0 .. q : P[i] = BlockSize * i
        /\ Len(F) = BlockSize * q
        /\ \A i \in 1 .. q : \A k \in 1 .. BlockSize : F[BlockSize * (i - 1) + k] = s[i][k]
    <2>1. /\ \A i \in 0 .. Len(s) : P[i] = BlockSize * i
          /\ Len(F) = BlockSize * Len(s)
          /\ \A i \in 1 .. Len(s) : \A k \in 1 .. BlockSize : F[BlockSize * (i - 1) + k] = s[i][k]
      <3>1. ASSUME NEW w \in Nat, \A i \in 1 .. Len(s) : Len(s[i]) = w
            PROVE  /\ \A i \in 0 .. Len(s) : P[i] = w * i
                   /\ Len(F) = w * Len(s)
                   /\ \A i \in 1 .. Len(s) : \A k \in 1 .. w : F[w * (i - 1) + k] = s[i][k]
        <4>1. Len(s) \in Nat
          BY <1>8
        <4>2. QED
          BY <1>7, <3>1, <4>1, FlatEven
      <3>2. QED
        BY <1>8, <3>1
    <2>2. QED
      BY <1>4, <2>1
  <1>10. ASSUME NEW j \in 1 .. Len(F) PROVE F[j] = ram[o + j]
    <2>1. PICK i \in 1 .. q : \E k \in 1 .. BlockSize : j = P[i - 1] + k
      <3>1. \A i \in 1 .. Len(s) : Len(s[i]) \in Nat
        BY <1>8
      <3>2. \E i \in 1 .. Len(s) : \E k \in 1 .. Len(s[i]) : j = P[i - 1] + k
        BY <1>7, <1>8, <3>1, FlatGrows
      <3>3. QED
        BY <1>4, <1>8, <3>2
    <2>2. PICK k \in 1 .. BlockSize : j = P[i - 1] + k
      BY <2>1
    <2>3. P[i - 1] = BlockSize * (i - 1) /\ i - 1 \in Nat
      BY <1>9
    <2>4. F[j] = ram[(b + i - 1) * BlockSize + k]
      BY <1>8, <1>9, <2>2, <2>3
    <2>5. BlockSize * (i - 1) \in Nat /\ o \in Nat
      BY <1>2, <2>3, BlocksWithin DEF o
    <2>6. (b + i - 1) * BlockSize + k = o + j
      BY <1>2, <1>3, <2>2, <2>3, <2>5
    <2>7. QED
      BY <2>4, <2>6
  <1>11. F = [j \in 1 .. Len(F) |-> F[j]]
    BY <1>6
  <1>12. Len(F) = q * BlockSize
    BY <1>2, <1>9
  <1>13. QED
    BY <1>5, <1>10, <1>11, <1>12 DEF CellsFrom, o

(* The least of some numbers is one of them. *)
LEMMA LeastIs ==
  ASSUME NEW n \in Nat, NEW S \in SUBSET (1 .. n), S # {}
  PROVE  Ird!Min(S) \in S
  <1>1. S \in SUBSET Nat
    OBVIOUS
  <1>2. \E x \in S : \A y \in S : x <= y
    BY <1>1, LeastNatural
  <1>3. QED
    BY <1>2 DEF Ird!Min

(* Every file of the image is found by its name and reads as it was packed. *)
LEMMA FilesFound ==
  ASSUME InitrdGiven, InitrdInv, fs # Ird!NoFs, NEW i \in DOMAIN packed
  PROVE  LET first == Ird!Min({j \in DOMAIN packed : packed[j].name = packed[i].name})
             text == packed[first].content
             f == Ird!FindFile(packed[i].name)
         IN  /\ Ird!Length(f) = Len(text)
             /\ \A o \in 0 .. Len(text) :
                  Ird!FileRead(f, o, Len(text) - o) = SubSeq(text, o + 1, Len(text))
  <1> DEFINE n == Len(packed)
             img == Ird!mkinitrd(packed)
             same == {j \in DOMAIN packed : packed[j].name = packed[i].name}
             first == Ird!Min(same)
             text == packed[first].content
             f == Ird!FindFile(packed[i].name)
             b == base * BlockSize
             p == First(packed) + Ird!Lengths(packed, first - 1)
  <1>1. /\ MemoryKept /\ base # -1 /\ packed \in Packs /\ base = Begin(fs.drive)
        /\ b + Len(img) <= Ird!Size /\ \A j \in 1 .. Len(img) : ram[b + j] = img[j]
        /\ fs.headers = [j \in 1 .. n |-> HeaderOf(packed, j)]
    BY DEF InitrdInv, HeadersAsPacked, ImageStands
  <1>2. /\ n \in Nat /\ DOMAIN packed = 1 .. n /\ Imaged(packed, img)
        /\ \A j \in 1 .. n : \E V : packed[j].content \in Seq(V)
    BY <1>1, ImageMade
  <1> HIDE DEF n
  <1>3. DOMAIN fs.headers = 1 .. n
        /\ \A j \in 1 .. n : /\ fs.headers[j][1] = First(packed) + Ird!Lengths(packed, j - 1)
                             /\ fs.headers[j][2] = Len(packed[j].content)
                             /\ fs.headers[j][3] = packed[j].name
    BY <1>1 DEF HeaderOf
  <1>4. {j \in DOMAIN fs.headers : fs.headers[j][3] = packed[i].name} = same /\ same # {}
    BY <1>2, <1>3
  <1>5. f = first
    BY <1>4 DEF Ird!FindFile
  <1>6. first \in 1 .. n
    <2>1. same \in SUBSET (1 .. n)
      BY <1>2
    <2> HIDE DEF same
    <2>2. QED
      BY <1>2, <1>4, <2>1, LeastIs
  <1> HIDE DEF first, f
  <1>7. Ird!Offset(f) = p /\ Ird!Length(f) = Len(text)
    BY <1>3, <1>5, <1>6 DEF Ird!Offset, Ird!Length
  <1>8. PICK V : text \in Seq(V)
    BY <1>2, <1>6
  <1>9. /\ Len(img) \in Nat /\ p \in Nat /\ p + Len(text) <= Len(img)
        /\ \A k \in 1 .. Len(text) : img[p + k] = text[k]
    <2>1. /\ Len(img) \in Nat /\ First(packed) \in Nat /\ Ird!Lengths(packed, first - 1) \in Nat
      BY <1>2, <1>6, SMTT(20) DEF Imaged, First, n
    <2>2. First(packed) + Ird!Lengths(packed, first - 1) + Len(text) <= Len(img)
          /\ \A k \in 1 .. Len(text) :
               img[First(packed) + Ird!Lengths(packed, first - 1) + k] = text[k]
      BY <1>2, <1>6 DEF Imaged, n
    <2>3. QED
      BY <2>1, <2>2
  <1>10. Len(text) \in Nat /\ text \in [1 .. Len(text) -> V]
    BY <1>8
  <1>11. b \in Nat /\ Ird!Size \in Nat
    BY <1>1, BeginWithin
  <1> HIDE DEF img, text, p, b
  <1>12. ASSUME NEW o \in 0 .. Len(text)
         PROVE  Ird!FileRead(f, o, Len(text) - o) = SubSeq(text, o + 1, Len(text))
    <2> DEFINE q == Len(text) - o
    <2>1. /\ o \in Nat /\ q \in Nat /\ p + o \in Nat /\ o + q = Len(text)
          /\ b + (p + o) + q <= Ird!Size
      BY <1>1, <1>9, <1>10, <1>11
    <2>2. Ird!FileRead(f, o, q) = Ird!Read(fs.drive, p + o, q)
      BY <1>7 DEF Ird!FileRead
    <2> HIDE DEF q
    <2>3. Ird!Read(fs.drive, p + o, q) = CellsFrom(b + (p + o), q)
      BY <1>1, <2>1, ReadIs DEF b
    <2>4. SubSeq(text, o + 1, o + q) = [j \in 1 .. q |-> text[o + j]]
      BY <1>10, <2>1, PartOf
    <2>5. ASSUME NEW j \in 1 .. q PROVE ram[b + (p + o) + j] = text[o + j]
      <3>1. /\ o + j \in 1 .. Len(text) /\ p + (o + j) \in 1 .. Len(img)
            /\ b + (p + o) + j = b + (p + (o + j))
        BY <1>9, <1>10, <1>11, <2>1
      <3>2. QED
        BY <1>1, <1>9, <3>1
    <2>6. QED
      BY <2>1, <2>2, <2>3, <2>4, <2>5 DEF CellsFrom, q
  <1>13. QED
    BY <1>7, <1>12 DEF first, f, text

(* What is written is read back, by bytes or by blocks, along every way. *)
LEMMA WritesRead ==
  ASSUME InitrdGiven, InitrdInv, last # Ird!NoWrite, base = -1
  PROVE  LET start == last.from + (IF last.path = "logical" THEN StartBlock ELSE 0)
             n == last.qty
         IN  /\ \A d \in {"ram", "cached"} :
                  /\ Ird!ReadBlocks(d, start, n) = last.data
                  /\ Ird!Read(d, start * BlockSize, Len(last.data)) = last.data
             /\ start \in StartBlock .. StartBlock + LogicalBlocks - n =>
                  /\ Ird!ReadBlocks("logical", start - StartBlock, n) = last.data
                  /\ Ird!Read("logical", (start - StartBlock) * BlockSize, Len(last.data)) = last.data
  <1> DEFINE start == last.from + (IF last.path = "logical" THEN StartBlock ELSE 0)
             n == last.qty
             o == start * BlockSize
             cells == n * BlockSize
  <1>1. BlockSize \in Nat /\ StartBlock \in Nat /\ Blocks \in Nat /\ LogicalBlocks \in Nat /\ Byte \in Nat
    BY DEF InitrdGiven
  <1>2. /\ MemoryKept /\ n \in Nat /\ start \in Nat /\ start + n <= Blocks
        /\ last.data = [j \in 1 .. cells |-> Byte + j]
        /\ \A j \in 1 .. cells : ram[o + j] = Byte + j
    <2>1. start = last.from + Begin(last.path) /\ Begin(last.path) \in Nat
      BY <1>1 DEF Begin
    <2>2. /\ last.qty \in Nat /\ last.from \in Nat
          /\ last.from + Begin(last.path) + last.qty <= Blocks
          /\ last.data = [j \in 1 .. last.qty * BlockSize |-> Byte + j]
          /\ \A j \in 1 .. last.qty * BlockSize :
               ram[(last.from + Begin(last.path)) * BlockSize + j] = Byte + j
      BY DEF InitrdInv, WriteStands
    <2>3. MemoryKept
      BY DEF InitrdInv
    <2> HIDE DEF start
    <2>4. QED
      BY <1>1, <2>1, <2>2, <2>3
  <1> HIDE DEF start, n
  <1>3. o \in Nat /\ cells \in Nat /\ o + cells <= Ird!Size /\ Ird!Size \in Nat
    BY <1>1, <1>2, BlocksWithin DEF Ird!Size
  <1>4. Len(last.data) = cells /\ last.data = CellsFrom(o, cells)
    BY <1>2, <1>3 DEF CellsFrom
  <1>5. Ird!CachedReadBlocks(start, n) = last.data
    BY <1>2, <1>4, BlocksAreCells
  <1>6. Ird!RamReadBlocks(start, n) = last.data
    <2>1. BlockSize * n = cells
      BY <1>1, <1>2
    <2> HIDE DEF o, cells
    <2>2. PICK V : ram \in [1 .. Ird!Size -> V]
      BY <1>2 DEF MemoryKept
    <2>3. SubSeq(ram, o + 1, o + cells) = [j \in 1 .. cells |-> ram[o + j]]
      BY <1>3, <2>2, PartOf
    <2>4. QED
      BY <1>4, <2>1, <2>3 DEF Ird!RamReadBlocks, Ird!RamRead, CellsFrom, o
  <1>7. ASSUME NEW d \in {"ram", "cached"}
        PROVE  /\ Ird!ReadBlocks(d, start, n) = last.data
               /\ Ird!Read(d, start * BlockSize, Len(last.data)) = last.data
    <2>1. Ird!ReadBlocks(d, start, n) = last.data
      BY <1>5, <1>6 DEF Ird!ReadBlocks
    <2>2. Begin(d) * BlockSize = 0
      BY BeginWithin DEF Begin
    <2> HIDE DEF o, cells
    <2>3. Begin(d) * BlockSize + o + cells <= Ird!Size /\ Begin(d) * BlockSize + o = o
      BY <1>3, <2>2
    <2>4. Ird!Read(d, o, cells) = CellsFrom(Begin(d) * BlockSize + o, cells)
      BY <1>2, <1>3, <2>3, ReadIs
    <2>5. QED
      BY <1>4, <2>1, <2>3, <2>4 DEF o
  <1>8. ASSUME start \in StartBlock .. StartBlock + LogicalBlocks - n
        PROVE  /\ Ird!ReadBlocks("logical", start - StartBlock, n) = last.data
               /\ Ird!Read("logical", (start - StartBlock) * BlockSize, Len(last.data)) = last.data
    <2> DEFINE within == start - StartBlock
               r == within * BlockSize
    <2>1. within \in Nat /\ within + StartBlock = start
      BY <1>1, <1>2, <1>8
    <2>2. Ird!ReadBlocks("logical", within, n) = last.data
      <3> HIDE DEF within
      <3>1. QED
        BY <1>5, <2>1 DEF Ird!ReadBlocks, Ird!LogicalReadBlocks
    <2>3. Begin("logical") * BlockSize + r = o /\ r \in Nat
      <3>1. within * BlockSize + StartBlock * BlockSize = start * BlockSize
        BY <1>1, <1>2
      <3>2. within * BlockSize \in Nat
        <4> HIDE DEF within
        <4>1. QED
          BY <1>1, <2>1
      <3>3. QED
        BY <1>1, <3>1, <3>2, BeginWithin DEF Begin
    <2> HIDE DEF r, o, cells
    <2>4. Ird!Read("logical", r, cells) = CellsFrom(Begin("logical") * BlockSize + r, cells)
      BY <1>2, <1>3, <2>3, ReadIs
    <2>5. QED
      BY <1>4, <2>2, <2>3, <2>4 DEF r
  <1>9. QED
    BY <1>7, <1>8 DEF start, n

LEMMA InitrdStep ==
  ASSUME InitrdGiven, InitrdInv, [Ird!Next]_(Ird!vars) PROVE InitrdInv'
  BY InitrdUnchanged, InitrdLoad, InitrdMount, InitrdWrite DEF Ird!Next

(* The memory of the RAM drive keeps its size and what was put into it: an image
   stands where it was loaded to, a file system is found only there and has the
   headers that were packed, and what was written stands in its blocks. *)
THEOREM InitrdInvariant == ASSUME InitrdGiven PROVE Ird!Spec => []InitrdInv
  <1>1. Ird!Init => InitrdInv
    BY InitrdStarts
  <1>2. InitrdInv /\ [Ird!Next]_(Ird!vars) => InitrdInv'
    BY InitrdStep
  <1>3. QED
    BY <1>1, <1>2, PTL DEF Ird!Spec

(* Whatever files are packed, and whatever the sizes of the drives: every name
   leads to the first file packed under it, every part of it reads as it was,
   and what is written to blocks is read back along every way to them. *)
THEOREM FilesAlwaysReadBack ==
  ASSUME InitrdGiven PROVE Ird!Spec => []Ird!FilesReadBack
  <1>1. ASSUME InitrdInv PROVE Ird!FilesReadBack
    <2>1. ASSUME fs # Ird!NoFs
          PROVE  /\ base # -1 /\ Len(fs.headers) = Len(packed)
                 /\ base = IF fs.drive = "logical" THEN StartBlock ELSE 0
      <3>1. /\ base # -1 /\ base = Begin(fs.drive)
            /\ fs.headers = [i \in 1 .. Len(packed) |-> HeaderOf(packed, i)]
        BY <1>1, <2>1 DEF InitrdInv, HeadersAsPacked
      <3>2. Len(packed) \in Nat
        BY <1>1, <3>1, ImageMade DEF InitrdInv, ImageStands
      <3>3. QED
        BY <3>1, <3>2 DEF Begin
    <2>2. QED
      BY <1>1, <2>1, FilesFound, WritesRead DEF Ird!FilesReadBack, Ird!NoImage
  <1>2. QED
    BY <1>1, InitrdInvariant, PTL

=============================================================================
