------------------------------- MODULE Mouse --------------------------------
(***************************************************************************)
(* The mouse driver (lib/hal/common-x86/mouse.cpp) and keyboardInit, which *)
(* share the 8042 controller: one output buffer, read at port 0x60, for    *)
(* the bytes of the keyboard, of the mouse and of the controller itself.   *)
(* The drivers poll it while they initialise, with interrupts off, and     *)
(* read it from their interrupt handlers afterwards; no reader looks at    *)
(* the bit that says whose byte it is.  The interrupt controllers          *)
(* (lib/hal/common-x86/pic.c) remember a line that rose while masked.      *)
(***************************************************************************)
EXTENDS Integers, Sequences, FiniteSets

CONSTANTS Kinds,       \* of mice that may be connected, or "none"
          Cols, Rows,  \* 80 and 25 in the code
          VelX,        \* mVelX, 8 in the code: mouse counts per column
          Moves,       \* motions the mouse reports, [dx, dy]
          KeyCodes     \* scan codes the typist may send

ASSUME MouseAssumption ==
  /\ Kinds \subseteq {"none", "ps2", "wheel", "five", "typhoon"}
  /\ Cols \in Nat \ {0} /\ Rows \in Nat \ {0} /\ VelX \in Nat \ {0}
  /\ Moves \subseteq [dx : -255 .. 255, dy : -255 .. 255]
  /\ KeyCodes \subseteq 0 .. 249

VARIABLES buf,      \* the output buffer: [full, byte]; the byte stays readable
          ctl,      \* the configuration byte: [ports, irqs] that are enabled
          queue,    \* bytes each device has not delivered to the buffer yet
          mouse,    \* [kind, id, rates, wants, reporting]
          pic,      \* [irr, isr, open]: pending, in service, not masked
          pc, todo, \* main: where it is, and what is left of mouseInit
          drv,      \* the driver: [mByte, mCycleMax, mPosX, mPosY]
          inverted, \* cells of the text screen shown in inverted colours
          touched   \* history: a key or the mouse was used while starting up

vars == <<buf, ctl, queue, mouse, pic, pc, todo, drv, inverted, touched>>

ACK == 250       \* 0xFA
BAT_OK == 170    \* 0xAA
TEST_OK == 85    \* 0x55
CONFIG == 68     \* what the configuration byte may read as
MOUSE_CMD_RESET == 255
MOUSE_CMD_SET_SAMPLE_RATE == 243
MOUSE_CMD_GET_DEVICE_ID == 242
MOUSE_CMD_SET_RESOLUTION == 232
MOUSE_CMD_SET_SCALING1 == 230
MOUSE_CMD_ENABLE == 244

KBD == 1         \* PIC_IRQ_KEYBOARD
AUX == 12        \* PIC_IRQ_MOUSE
CASCADE == 2     \* the master's line for the slave

Line(d) == IF d = "mouse" THEN AUX ELSE KBD
Byte(d, v, n) == [src |-> d, val |-> v, pos |-> n]   \* pos: its place in a packet
Reply(d, v) == Byte(d, v, -1)

VelY == (VelX * 14) \div 9
Cell(x, y) == Cols * (y \div VelY) + x \div VelX

-----------------------------------------------------------------------------
(* The mouse, as the driver expects it to behave.                          *)

NativeId(kind) == IF kind = "typhoon" THEN 8 ELSE 0

(* The three sample rates that make a wheel mouse, and then a five-button
   one, change its identity. *)
Identity(m, rates) ==
  CASE m.kind \in {"wheel", "five"} /\ rates = <<200, 100, 80>> -> 3
    [] m.kind = "five" /\ m.id = 3 /\ rates = <<200, 200, 80>> -> 4
    [] OTHER -> m.id

PacketLen(id) == CASE id \in {3, 4} -> 4 [] id = 8 -> 6 [] OTHER -> 3

Obey(m, v) ==
  CASE m.wants = "rate" ->
         LET rates == Append(IF Len(m.rates) < 3 THEN m.rates ELSE Tail(m.rates), v)
         IN  [m EXCEPT !.wants = "command", !.rates = rates, !.id = Identity(m, rates)]
    [] m.wants = "resolution" -> [m EXCEPT !.wants = "command"]
    [] OTHER ->
         CASE v = MOUSE_CMD_RESET ->
                [m EXCEPT !.rates = <<>>, !.id = NativeId(m.kind), !.reporting = FALSE]
           [] v = MOUSE_CMD_SET_SAMPLE_RATE -> [m EXCEPT !.wants = "rate"]
           [] v = MOUSE_CMD_SET_RESOLUTION -> [m EXCEPT !.wants = "resolution"]
           [] v = MOUSE_CMD_ENABLE -> [m EXCEPT !.reporting = TRUE]
           [] OTHER -> m

Answer(m, v) ==
  IF m.kind = "none" THEN <<>>
  ELSE CASE m.wants = "command" /\ v = MOUSE_CMD_RESET ->
              <<Reply("mouse", ACK), Reply("mouse", BAT_OK), Reply("mouse", NativeId(m.kind))>>
         [] m.wants = "command" /\ v = MOUSE_CMD_GET_DEVICE_ID ->
              <<Reply("mouse", ACK), Reply("mouse", m.id)>>
         [] OTHER -> <<Reply("mouse", ACK)>>

Packet(id, mv) ==
  LET bytes == <<8 + (IF mv.dx < 0 THEN 16 ELSE 0) + (IF mv.dy < 0 THEN 32 ELSE 0),
                 mv.dx % 256, mv.dy % 256, 0, 0, 0>>
  IN  [i \in 1 .. PacketLen(id) |-> Byte("mouse", bytes[i], i - 1)]

Use == touched' = (touched \/ pc # "loop")

Move(mv) ==
  /\ mouse.reporting /\ queue.mouse = <<>>
  /\ queue' = [queue EXCEPT !.mouse = Packet(mouse.id, mv)]
  /\ Use
  /\ UNCHANGED <<buf, ctl, mouse, pic, pc, todo, drv, inverted>>

Press(code) ==
  /\ queue.kbd = <<>>
  /\ queue' = [queue EXCEPT !.kbd = <<Reply("kbd", code)>>]
  /\ Use
  /\ UNCHANGED <<buf, ctl, mouse, pic, pc, todo, drv, inverted>>

-----------------------------------------------------------------------------
(* The controller hands on one byte at a time and raises the line of the
   device it is from, the keyboard's for its own replies. *)
Ready(d) == queue[d] # <<>> /\ (d = "ctl" \/ d \in ctl.ports)

Deliver(d) ==
  /\ ~buf.full /\ Ready(d)
  /\ buf' = [full |-> TRUE, byte |-> Head(queue[d])]
  /\ queue' = [queue EXCEPT ![d] = Tail(@)]
  /\ pic' = IF Line(d) \in ctl.irqs THEN [pic EXCEPT !.irr = @ \cup {Line(d)}] ELSE pic
  /\ UNCHANGED <<ctl, mouse, pc, todo, drv, inverted, touched>>

(* A polled byte takes its line down; a line that was pending may stay so. *)
Take ==
  /\ buf.full
  /\ buf' = [buf EXCEPT !.full = FALSE]
  /\ \E irr \in {pic.irr, pic.irr \ {Line(buf.byte.src)}} : pic' = [pic EXCEPT !.irr = irr]

(* Nothing comes any more: the wait of mouse_wait runs out. *)
Silent == ~buf.full /\ \A d \in {"ctl", "mouse"} : ~Ready(d)

(* Mutant of picSendEOI: only the controller the line belongs to is told. *)
picSendEOISlaveOnly(irq, isr) ==
  IF irq > 7 THEN isr \ {AUX} ELSE isr \ {KBD}

(* picSendEOI: unspecific, it ends the most urgent interrupt in service. *)
picSendEOI(irq, isr) ==
  LET slave == IF irq > 7 THEN isr \ {AUX} ELSE isr
  IN  slave \ (IF KBD \in slave THEN {KBD} ELSE {CASCADE})

picSetMask(irq, masked, open) == IF masked THEN open \ {irq} ELSE open \cup {irq}

(* An interrupt gets through: not masked, nothing as urgent in service, and
   the processor takes interrupts (main is past sti). *)
Interrupts == pc \in {"gap", "settling", "loop"}

Deliverable(irq) ==
  /\ Interrupts /\ irq \in pic.irr \cap pic.open
  /\ IF irq = KBD THEN KBD \notin pic.isr
                  ELSE pic.isr = {} /\ ~(KBD \in pic.irr \cap pic.open)

Quiet == \A irq \in {KBD, AUX} : ~Deliverable(irq)

InService(irq) == pic.isr \cup {irq} \cup (IF irq > 7 THEN {CASCADE} ELSE {})

Serve(irq) ==
  pic' = [pic EXCEPT !.irr = @ \ {irq}, !.isr = picSendEOI(irq, InService(irq))]

-----------------------------------------------------------------------------
(* MouseIrqHandler                                                         *)

Clip(v, most) == IF v < 0 THEN 0 ELSE IF v > most THEN most ELSE v

(* Mutant: the bottom row is taken for the one behind it. *)
MovedByLow(d, bytes) ==
  LET dX == bytes[2] - (IF (bytes[1] \div 16) % 2 = 1 THEN 256 ELSE 0)
      dY == bytes[3] - (IF (bytes[1] \div 32) % 2 = 1 THEN 256 ELSE 0)
  IN  [d EXCEPT !.mByte = <<>>,
                !.mPosX = Clip(d.mPosX + dX, (Cols - 1) * VelX),
                !.mPosY = Clip(d.mPosY - dY, Rows * VelY)]

MovedBy(d, bytes) ==
  LET dX == bytes[2] - (IF (bytes[1] \div 16) % 2 = 1 THEN 256 ELSE 0)
      dY == bytes[3] - (IF (bytes[1] \div 32) % 2 = 1 THEN 256 ELSE 0)
  IN  [d EXCEPT !.mByte = <<>>,
                !.mPosX = Clip(d.mPosX + dX, (Cols - 1) * VelX),
                !.mPosY = Clip(d.mPosY - dY, (Rows - 1) * VelY)]

(* The attribute of the old cell is complemented, then that of the new one:
   twice the same cell, when the pointer stays in it. *)
Flip(cells, c) == IF c \in cells THEN cells \ {c} ELSE cells \cup {c}

Receive(byte) ==
  LET bytes == Append(drv.mByte, byte.val)
      d == MovedBy(drv, bytes)
  IN  IF Len(bytes) >= drv.mCycleMax
      THEN /\ drv' = d
           /\ inverted' = Flip(Flip(inverted, Cell(drv.mPosX, drv.mPosY)),
                               Cell(d.mPosX, d.mPosY))
      ELSE /\ drv' = [drv EXCEPT !.mByte = bytes]
           /\ UNCHANGED inverted

MouseIrqHandler ==
  /\ Deliverable(AUX) /\ Serve(AUX)
  /\ \/ buf.full /\ Receive(buf.byte)
     \/ ~buf.full /\ UNCHANGED <<drv, inverted>>
  /\ buf' = [buf EXCEPT !.full = FALSE]
  /\ UNCHANGED <<ctl, queue, mouse, pc, todo, touched>>

(* What KeyboardIrqHandler does to the controllers; what it makes of the byte
   is module Keyboard. *)
KeyboardIrqHandler ==
  /\ Deliverable(KBD) /\ Serve(KBD)
  /\ buf' = [buf EXCEPT !.full = FALSE]
  /\ UNCHANGED <<ctl, queue, mouse, pc, todo, drv, inverted, touched>>

-----------------------------------------------------------------------------
(* mouseInit                                                               *)

Command(v) == <<[do |-> "write", arg |-> v], [do |-> "ack", must |-> FALSE]>>
Needed(v)  == <<[do |-> "write", arg |-> v], [do |-> "ack", must |-> TRUE]>>
Read(step) == <<[do |-> step]>>

SetSampleRate(rate) == Command(MOUSE_CMD_SET_SAMPLE_RATE) \o Command(rate)
Reset == Command(MOUSE_CMD_RESET) \o Read("bat")
Knock(a, b, c) ==
  SetSampleRate(a) \o SetSampleRate(b) \o SetSampleRate(c) \o Command(MOUSE_CMD_GET_DEVICE_ID)

Script ==
  Reset \o Knock(200, 100, 80) \o Read("id") \o Needed(MOUSE_CMD_SET_SCALING1)
  \o Command(MOUSE_CMD_SET_RESOLUTION) \o Command(0) \o Needed(MOUSE_CMD_ENABLE)

SecondKnock == Knock(200, 200, 80) \o Read("id again")

Init ==
  /\ buf = [full |-> FALSE, byte |-> Reply("ctl", 0)]
  /\ ctl = [ports |-> {"kbd", "mouse"}, irqs |-> {KBD, AUX}]
  /\ queue = [kbd |-> <<>>, mouse |-> <<>>, ctl |-> <<>>]
  /\ \E kind \in Kinds :
       mouse = [kind |-> kind, id |-> NativeId(kind), rates |-> <<>>,
                wants |-> "command", reporting |-> FALSE]
  /\ pic = [irr |-> {}, isr |-> {}, open |-> {}]
  /\ pc = "mouseInit" /\ todo = <<>>
  /\ drv = [mByte |-> <<>>, mCycleMax |-> 3, mPosX |-> 0, mPosY |-> 0]
  /\ inverted = {}
  /\ touched = FALSE

Ask(v) == queue' = [queue EXCEPT !.ctl = Append(@, Reply("ctl", v))]

(* cli; both ports are disabled and the configuration is asked for. *)
DisablePorts ==
  /\ pc = "mouseInit"
  /\ inverted' = Flip(inverted, Cell(0, 0))
  /\ ctl' = [ctl EXCEPT !.ports = {}]
  /\ Ask(CONFIG)
  /\ pc' = "config"
  /\ UNCHANGED <<buf, mouse, pic, todo, drv, touched>>

(* The byte read is written back as the configuration: a byte that is not the
   controller's own enables and disables ports at random. *)
Ports == IF buf.byte.src = "ctl" THEN {ctl.ports} ELSE SUBSET {"kbd", "mouse"}

DisableIrqs ==
  /\ pc = "config" /\ Take
  /\ \E ports \in Ports : ctl' = [ports |-> ports, irqs |-> {}]
  /\ Ask(TEST_OK)
  /\ pc' = "test"
  /\ UNCHANGED <<mouse, todo, drv, inverted, touched>>

(* The self-test passes: ports on, the configuration is read again; or it
   fails and mouseInit returns. *)
ControllerTest ==
  /\ pc = "test" /\ Take
  /\ \/ /\ buf.byte.val = TEST_OK
        /\ ctl' = [ctl EXCEPT !.ports = {"kbd", "mouse"}]
        /\ Ask(CONFIG)
        /\ pc' = "config again"
     \/ /\ buf.byte.val # TEST_OK
        /\ pc' = "gap"
        /\ UNCHANGED <<ctl, queue>>
  /\ UNCHANGED <<mouse, todo, drv, inverted, touched>>

EnableIrqs ==
  /\ pc = "config again" /\ Take
  /\ \E ports \in Ports : ctl' = [ports |-> ports, irqs |-> {KBD, AUX}]
  /\ pc' = "mouse" /\ todo' = Script
  /\ UNCHANGED <<queue, mouse, drv, inverted, touched>>

Doing(step) == pc = "mouse" /\ todo # <<>> /\ Head(todo).do = step

(* mouse_write: a command cuts short what the mouse was about to send. *)
Write ==
  /\ Doing("write")
  /\ \E rest \in {queue.mouse, <<>>} :
       queue' = [queue EXCEPT !.mouse = rest \o Answer(mouse, Head(todo).arg)]
  /\ mouse' = IF mouse.kind = "none" THEN mouse ELSE Obey(mouse, Head(todo).arg)
  /\ todo' = Tail(todo)
  /\ UNCHANGED <<buf, ctl, pic, pc, drv, inverted, touched>>

(* What mouse_write_ack returned: without the acknowledgement a needed
   command ends mouseInit, and Reset does not wait for the self-test. *)
Acked(ok) ==
  LET rest == Tail(todo)
  IN  IF ok THEN todo' = rest /\ UNCHANGED pc
      ELSE IF Head(todo).must THEN todo' = <<>> /\ pc' = "gap"
      ELSE /\ todo' = IF rest # <<>> /\ Head(rest).do = "bat" THEN Tail(rest) ELSE rest
           /\ UNCHANGED pc

(* Mutant: whatever the mouse sends acknowledges the command. *)
WaitAckAny ==
  /\ Doing("ack")
  /\ \/ Take /\ Acked(TRUE)
     \/ /\ Silent /\ Acked(buf.byte.val = ACK)
        /\ UNCHANGED <<buf, pic>>
  /\ UNCHANGED <<ctl, queue, mouse, drv, inverted, touched>>

(* mouse_wait(MOUSE_WAIT_ACK_FA): other bytes are thrown away.  When nothing
   comes, mouse_read returns the byte last read once more, each time. *)
WaitAck ==
  /\ Doing("ack")
  /\ \/ Take /\ buf.byte.val = ACK /\ Acked(TRUE)
     \/ Take /\ buf.byte.val # ACK /\ UNCHANGED <<todo, pc>>
     \/ /\ Silent /\ Acked(buf.byte.val = ACK)
        /\ UNCHANGED <<buf, pic>>
  /\ UNCHANGED <<ctl, queue, mouse, drv, inverted, touched>>

WaitBat ==
  /\ Doing("bat")
  /\ \/ Take /\ buf.byte.val = BAT_OK /\ todo' = Tail(todo)
     \/ Take /\ buf.byte.val # BAT_OK /\ UNCHANGED todo
     \/ /\ Silent /\ todo' = Tail(todo)
        /\ UNCHANGED <<buf, pic>>
  /\ UNCHANGED <<ctl, queue, mouse, pc, drv, inverted, touched>>

(* The switch of mouseInit over what DetectType found. *)
CycleOf(id) == CASE id = 8 -> 6 [] id \in {3, 4} -> 4 [] OTHER -> 3

(* ReadMouseID, in DetectType: one byte, whosever it is.  Identity 3 is asked
   again after the second knock. *)
ReadMouseID ==
  /\ Doing("id") \/ Doing("id again")
  /\ \/ Take
     \/ Silent /\ UNCHANGED <<buf, pic>>
  /\ IF Head(todo).do = "id" /\ buf.byte.val = 3
     THEN todo' = SecondKnock \o Tail(todo) /\ UNCHANGED drv
     ELSE todo' = Tail(todo) /\ drv' = [drv EXCEPT !.mCycleMax = CycleOf(buf.byte.val)]
  /\ UNCHANGED <<ctl, queue, mouse, pc, inverted, touched>>

(* halCpuRegisterIRQ, picSetMask, sti. *)
InstallMouse ==
  /\ pc = "mouse" /\ todo = <<>>
  /\ pic' = [pic EXCEPT !.open = picSetMask(AUX, FALSE, @)]
  /\ pc' = "gap"
  /\ UNCHANGED <<buf, ctl, queue, mouse, todo, drv, inverted, touched>>

-----------------------------------------------------------------------------
(* keyboardInit, after the interrupts that sti let in.                     *)

SelfTest ==
  /\ pc = "gap" /\ Quiet
  /\ Ask(TEST_OK)
  /\ pc' = "keyboardInit"
  /\ UNCHANGED <<buf, ctl, mouse, pic, todo, drv, inverted, touched>>

(* Any byte ends the wait; any but 0x55 fails the test. *)
InstallKeyboard ==
  /\ pc = "keyboardInit" /\ buf.full
  /\ buf' = [buf EXCEPT !.full = FALSE]
  /\ \E irr \in {pic.irr, pic.irr \ {Line(buf.byte.src)}} :
       pic' = [pic EXCEPT !.irr = irr,
                          !.open = IF buf.byte.val = TEST_OK
                                   THEN picSetMask(KBD, FALSE, @) ELSE @]
  /\ pc' = "settling"
  /\ UNCHANGED <<ctl, queue, mouse, todo, drv, inverted, touched>>

EnterLoop ==
  /\ pc = "settling" /\ Quiet
  /\ pc' = "loop"
  /\ UNCHANGED <<buf, ctl, queue, mouse, pic, todo, drv, inverted, touched>>

Main == \/ DisablePorts \/ DisableIrqs \/ ControllerTest \/ EnableIrqs
        \/ Write \/ WaitAck \/ WaitBat \/ ReadMouseID \/ InstallMouse
        \/ SelfTest \/ InstallKeyboard \/ EnterLoop

Handler == MouseIrqHandler \/ KeyboardIrqHandler

Next ==
  \/ Main \/ Handler
  \/ \E d \in {"kbd", "mouse", "ctl"} : Deliver(d)
  \/ \E mv \in Moves : Move(mv)
  \/ \E code \in KeyCodes : Press(code)

Spec == Init /\ [][Next]_vars

(* The processor runs, takes its interrupts, and the controller serves both
   ports however busy one of them is. *)
FairSpec ==
  /\ Spec
  /\ WF_vars(Main) /\ WF_vars(Handler)
  /\ \A d \in {"kbd", "mouse", "ctl"} : SF_vars(Deliver(d))

-----------------------------------------------------------------------------
(* Type invariant; a packet is never longer than the driver's buffer. *)
TypeOK ==
  /\ buf.full \in BOOLEAN /\ buf.byte.val \in 0 .. 255
  /\ ctl.ports \subseteq {"kbd", "mouse"} /\ ctl.irqs \subseteq {KBD, AUX}
  /\ pic.irr \subseteq {KBD, AUX} /\ pic.open \subseteq {KBD, AUX}
  /\ pic.isr \subseteq {KBD, AUX, CASCADE}
  /\ drv.mCycleMax \in {3, 4, 6} /\ Len(drv.mByte) < drv.mCycleMax
  /\ drv.mPosX \in 0 .. (Cols - 1) * VelX /\ drv.mPosY \in 0 .. (Rows - 1) * VelY
  /\ touched \in BOOLEAN

(* Exactly one cell is inverted, the one the pointer is in, and it is on the
   screen: also for packets out of step, and for motions beyond the edges. *)
OnePointer ==
  pc # "mouseInit" =>
    /\ inverted = {Cell(drv.mPosX, drv.mPosY)}
    /\ inverted \subseteq 0 .. Cols * Rows - 1

(* The bytes of the mouse that the handler has not read yet. *)
Coming == (IF buf.full /\ buf.byte.src = "mouse" THEN <<buf.byte>> ELSE <<>>) \o queue.mouse

(* The handler stays in step with the packets: the next byte has the place in
   its packet that the driver takes it for.  It needs the type to be detected
   right, every reply of the initialisation to be read, and no spurious
   interrupt to be taken for a byte.  A key or a motion before the main loop
   may break it for good. *)
InStep ==
  AUX \in pic.open /\ ~touched =>
    Len(drv.mByte) = IF Coming = <<>> THEN 0 ELSE Head(Coming).pos

(* Nothing gets stuck: a key or a motion made when the system is up reaches
   its handler, whatever the other device does. *)
Up == pc = "loop" /\ ~touched

InputReachesHandler ==
  /\ (Up /\ buf.full) ~> ~buf.full
  /\ \A d \in {"kbd", "mouse"} : (Up /\ queue[d] # <<>>) ~> queue[d] = <<>>

=============================================================================
