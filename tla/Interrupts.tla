----------------------------- MODULE Interrupts -----------------------------
(***************************************************************************)
(* Interrupts of the boot processor: the descriptor table and the handlers *)
(* of hal/x86/cpu.c, the two 8259 controllers of pic.c, the local APIC,    *)
(* and InitBsp, mouseInit and keyboardInit putting them into operation one *)
(* after the other while devices already ask for service.  What the        *)
(* drivers do with their devices is the business of Keyboard and Mouse.    *)
(***************************************************************************)
EXTENDS Integers, FiniteSets

CONSTANT Lines   \* the interrupt lines that are wired to something

VARIABLES gates,     \* vectors that idtEntries has a present gate for
          handlers,  \* interrupt_handlers
          pic,       \* [irr, isr, imr: lines; master, slave: first vectors]
          lvt,       \* vectors of the local APIC that are not masked
          intsOn,    \* the processor's interrupt flag
          serving,   \* the vector whose handler runs, or NoVector
          halted,    \* the vector the processor stopped at, or NoVector
          pc         \* where the boot processor is

vars == <<gates, handlers, pic, lvt, intsOn, serving, halted, pc>>

NoVector == -1
PIC_IRQ_TIMER == 0
PIC_IRQ_KEYBOARD == 1
PIC_IRQ_CASCADE == 2
PIC_IRQ_MOUSE == 12
IRQs == 0 .. 15
Vectors == 0 .. 47 \cup {128}   \* the vectors with a stub in cpu.s
Exceptions == 0 .. 18           \* those ExceptionMsgs has a text for
Drivers == {PIC_IRQ_TIMER, PIC_IRQ_KEYBOARD, PIC_IRQ_MOUSE}

(* The BIOS leaves its own vectors in the controllers; interrupts are off. *)
Init ==
  /\ gates = {} /\ handlers = [v \in Vectors |-> "NULL"]
  /\ pic = [irr |-> {}, isr |-> {}, imr |-> IRQs \ Lines, master |-> 8, slave |-> 112]
  /\ lvt = {}
  /\ intsOn = FALSE /\ serving = NoVector /\ halted = NoVector
  /\ pc = <<"InitIdt">>

-----------------------------------------------------------------------------
(* pic.c.  Initialising clears requests, services and masks. *)
picInit(masterOffset, slaveOffset) ==
  [irr |-> {}, isr |-> {}, imr |-> IRQs \ {PIC_IRQ_CASCADE},
   master |-> masterOffset, slave |-> slaveOffset]

picUnmask(p, irq) == [p EXCEPT !.imr = @ \ {irq}]

Most(S) == {i \in S : \A j \in S : i <= j}

(* Mutant: the master is told only of its own lines. *)
EOIOneController(p, irq) ==
  LET slave == {i \in p.isr : i > 7}
  IN  [p EXCEPT !.isr = @ \ Most(IF irq > 7 THEN slave ELSE p.isr \ slave)]

(* An unspecific end of interrupt ends the most urgent service of a controller:
   the slave's, for its lines, and always the master's. *)
picSendEOI(p, irq) ==
  LET slave == {i \in p.isr : i > 7}
  IN  [p EXCEPT !.isr = @ \ (Most(p.isr \ slave) \cup (IF irq > 7 THEN Most(slave) ELSE {}))]

(* The lines in the order of their urgency: the slave's stand at line 2. *)
Urgency(irq) == IF irq > 7 THEN <<PIC_IRQ_CASCADE, irq>> ELSE <<irq, 0>>
MoreUrgent(i, j) == \/ Urgency(i)[1] < Urgency(j)[1]
                    \/ Urgency(i)[1] = Urgency(j)[1] /\ Urgency(i)[2] < Urgency(j)[2]

Deliverable(irq) ==
  LET waiting == {i \in pic.irr \ pic.imr : i > 7 => PIC_IRQ_CASCADE \notin pic.imr}
  IN  /\ irq \in waiting \ pic.isr
      /\ \A i \in (waiting \cup pic.isr) \ {irq, PIC_IRQ_CASCADE} : MoreUrgent(irq, i)
      /\ PIC_IRQ_CASCADE \in pic.isr => Urgency(irq)[1] < PIC_IRQ_CASCADE

Vector(irq) == IF irq > 7 THEN pic.slave + (irq - 8) ELSE pic.master + irq

-----------------------------------------------------------------------------
(* Putting into operation.                                                 *)
Go(from, to) == pc = <<from>> /\ pc' = to

CanRun == serving = NoVector /\ halted = NoVector

InitIdt ==
  /\ Go("InitIdt", <<"InitPic">>)
  /\ gates' = Vectors /\ handlers' = [v \in Vectors |-> "NULL"]
  /\ UNCHANGED <<pic, lvt, intsOn, serving, halted>>

InitPic ==
  /\ Go("InitPic", <<"SetHandlers">>)
  /\ pic' = picInit(32, 40)
  /\ UNCHANGED <<gates, handlers, lvt, intsOn, serving, halted>>

SetExceptionHandlers ==
  /\ Go("SetHandlers", <<"Enable">>)
  /\ handlers' = [v \in Vectors |-> IF v \in Exceptions THEN "exception" ELSE "default"]
  /\ UNCHANGED <<gates, pic, lvt, intsOn, serving, halted>>

Enable ==
  /\ Go("Enable", <<"Lapic">>)
  /\ intsOn' = TRUE
  /\ UNCHANGED <<gates, handlers, pic, lvt, serving, halted>>

(* The vectors are numbers above the last gate; what should be the vector of
   spurious interrupts is the number of its register, 0xF0. *)
lapicGetInterruptVector == [PERFCNT |-> 223, TIMER |-> 222, THERMAL |-> 220, ERROR |-> 219]

lapicStart ==
  /\ CanRun /\ Go("Lapic", <<"register", PIC_IRQ_TIMER>>)
  /\ lvt' = {lapicGetInterruptVector[i] : i \in DOMAIN lapicGetInterruptVector} \cup {240}
  /\ UNCHANGED <<gates, handlers, pic, intsOn, serving, halted>>

(* mouseInit and keyboardInit begin with interrupts off; either gives up, with
   interrupts on again, when the test of its controller fails. *)
Begin ==
  /\ CanRun /\ pc[1] = "begin"
  /\ \/ intsOn' = FALSE /\ pc' = <<"register", pc[2]>>
     \/ intsOn' = TRUE /\ pc' = IF pc[2] = PIC_IRQ_MOUSE THEN <<"begin", PIC_IRQ_KEYBOARD>>
                                                     ELSE <<"loop">>
  /\ UNCHANGED <<gates, handlers, pic, lvt, serving, halted>>

halCpuRegisterIRQ ==
  /\ CanRun /\ pc[1] = "register"
  /\ handlers' = [handlers EXCEPT ![32 + pc[2]] = "driver"]
  /\ pc' = <<"unmask", pc[2]>>
  /\ UNCHANGED <<gates, pic, lvt, intsOn, serving, halted>>

(* The timer's driver is installed with interrupts on, the others turn them
   on at their end. *)
Unmask ==
  /\ CanRun /\ pc[1] = "unmask"
  /\ pic' = picUnmask(pic, pc[2])
  /\ pc' = CASE pc[2] = PIC_IRQ_TIMER -> <<"begin", PIC_IRQ_MOUSE>>
             [] pc[2] = PIC_IRQ_MOUSE -> <<"begin", PIC_IRQ_KEYBOARD>>
             [] OTHER -> <<"loop">>
  /\ intsOn' = TRUE
  /\ UNCHANGED <<gates, handlers, lvt, serving, halted>>

-----------------------------------------------------------------------------
(* A device asks for service: an edge on its line. *)
Request(irq) ==
  /\ halted = NoVector
  /\ pic' = [pic EXCEPT !.irr = @ \cup {irq}]
  /\ UNCHANGED <<gates, handlers, lvt, intsOn, serving, halted, pc>>

(* The processor takes an interrupt through a gate, which turns interrupts
   off; one that has no gate is a fault, whose handler stops the processor. *)
Enter(v) ==
  /\ intsOn' = FALSE
  /\ IF v \in gates THEN serving' = v /\ halted' = halted
                    ELSE serving' = serving /\ halted' = v

Deliver(irq) ==
  /\ intsOn /\ CanRun /\ Deliverable(irq)
  /\ Enter(Vector(irq))
  /\ pic' = [pic EXCEPT !.irr = @ \ {irq},
                        !.isr = @ \cup {irq} \cup (IF irq > 7 THEN {PIC_IRQ_CASCADE} ELSE {})]
  /\ UNCHANGED <<gates, handlers, lvt, pc>>

(* The local APIC reports an error of its own. *)
LapicError ==
  /\ intsOn /\ CanRun /\ lapicGetInterruptVector.ERROR \in lvt
  /\ Enter(lapicGetInterruptVector.ERROR)
  /\ UNCHANGED <<gates, handlers, pic, lvt, pc>>

(* isr_handler, the handler it calls, and the end of isr_common_stub. *)
isr_handler ==
  /\ serving # NoVector /\ halted = NoVector
  /\ IF handlers[serving] = "exception"
     THEN halted' = serving /\ UNCHANGED <<pic, intsOn, serving>>
     ELSE /\ pic' = IF handlers[serving] = "driver" THEN picSendEOI(pic, serving - 32) ELSE pic
          /\ serving' = NoVector /\ intsOn' = TRUE /\ UNCHANGED halted
  /\ UNCHANGED <<gates, handlers, lvt, pc>>

Next ==
  \/ InitIdt \/ InitPic \/ SetExceptionHandlers \/ Enable \/ lapicStart
  \/ Begin \/ halCpuRegisterIRQ \/ Unmask
  \/ \E irq \in Lines : Request(irq) \/ Deliver(irq)
  \/ LapicError \/ isr_handler

Spec == Init /\ [][Next]_vars

-----------------------------------------------------------------------------
(* No service is left open: outside of handlers neither controller believes
   one to be going on, which would shut out that line and every less urgent
   one for good (only the drivers' handlers send an end of interrupt).  And no
   device stops the processor: that takes one of the vectors of the local APIC
   that cpu.c sets no gate for. *)
EveryServiceEnds ==
  /\ serving = NoVector /\ halted = NoVector => pic.isr = {}
  /\ halted # NoVector => halted \in lvt

=============================================================================
