---------------------------- MODULE MouseProofs ----------------------------
(***************************************************************************)
(* The mouse driver, for any screen, any motions and any scan codes: there *)
(* is one pointer and it is on the screen, and nothing that happens while  *)
(* the system is up puts the driver out of step with the packets.          *)
(***************************************************************************)
EXTENDS Mouse, SequenceTheorems, TLAPS

USE MouseAssumption

Devices == {"kbd", "mouse", "ctl"}
Val     == 0 .. 255
From(d) == [src : {d}, val : Val, pos : Int]
Bytes   == [src : Devices, val : Val, pos : Int]
Queues  == [kbd : Seq(From("kbd")), mouse : Seq(From("mouse")), ctl : Seq(From("ctl"))]
Ids     == {0, 3, 4, 8}

Mice == [kind : Kinds, id : Ids, rates : Seq(Val),
         wants : {"command", "rate", "resolution"}, reporting : BOOLEAN]

(* The answers that are read. *)
Reads == {"bat", "id", "id again"}

Steps == [do : {"write"}, arg : Val] \cup [do : {"ack"}, must : BOOLEAN]
           \cup [do : Reads]

Starting == {"mouseInit", "config", "test", "config again", "mouse"}
Running  == {"gap", "keyboardInit", "settling", "loop"}

(* Every byte is one, the mouse has an identity, and the driver's buffer is empty
   while the driver starts. *)
Typed ==
  /\ buf \in [full : BOOLEAN, byte : Bytes]
  /\ queue \in Queues
  /\ mouse \in Mice
  /\ todo \in Seq(Steps)
  /\ pc \in Starting \cup Running
  /\ drv \in [mByte : Seq(Val), mCycleMax : {3, 4, 6},
              mPosX : 0 .. (Cols - 1) * VelX, mPosY : 0 .. (Rows - 1) * VelY]
  /\ Len(drv.mByte) < drv.mCycleMax
  /\ pc \in Starting => drv.mByte = <<>>

(* The one inverted cell. *)
OneInverted ==
  IF pc = "mouseInit" THEN inverted = {} /\ drv.mPosX = 0 /\ drv.mPosY = 0
  ELSE inverted = {Cell(drv.mPosX, drv.mPosY)}

-----------------------------------------------------------------------------
(* The pointer                                                             *)

(* The vertical velocity is not zero. *)
LEMMA VelYIsNat == VelY \in Nat \ {0}
  <1>1. VelX * 14 \in Nat /\ VelX * 14 >= 9
    OBVIOUS
  <1>2. \A n \in Nat : n >= 9 => n \div 9 \in Nat /\ n \div 9 >= 1
    OBVIOUS
  <1>3. QED
    BY <1>1, <1>2 DEF VelY

(* A position up to the last multiple divides to at most that multiple. *)
LEMMA QuotientBound ==
  ASSUME NEW v \in Nat \ {0}, NEW n \in Nat \ {0}, NEW x \in 0 .. (n - 1) * v
  PROVE  x \div v \in 0 .. n - 1
  <1> DEFINE q == x \div v
             r == x % v
  <1>1. q \in Int /\ r \in 0 .. v - 1 /\ x = v * q + r
    OBVIOUS
  <1> HIDE DEF q, r
  <1>2. x \in Nat /\ x <= (n - 1) * v
    <2>1. \A a \in Nat, b \in Nat : a * b \in Nat
      OBVIOUS
    <2>2. (n - 1) * v \in Nat
      BY <2>1
    <2>3. QED
      BY <2>2
  <1>3. q >= 0
    <2>1. ASSUME q <= -1 PROVE FALSE
      <3>1. v * q <= v * (-1)
        BY <1>1, <2>1
      <3>2. QED
        BY <1>1, <1>2, <3>1
    <2>2. QED
      BY <1>1, <2>1
  <1>4. q <= n - 1
    <2>1. ASSUME q >= n PROVE FALSE
      <3>1. v * q >= v * n
        BY <1>1, <2>1
      <3>2. (n - 1) * v = v * n - v
        OBVIOUS
      <3>3. QED
        BY <1>1, <1>2, <3>1, <3>2
    <2>2. QED
      BY <1>1, <2>1
  <1>5. QED
    BY <1>1, <1>3, <1>4 DEF q

(* Every position the driver clips to is in a cell of the screen. *)
LEMMA CellOnScreen ==
  ASSUME NEW x \in 0 .. (Cols - 1) * VelX, NEW y \in 0 .. (Rows - 1) * VelY
  PROVE  Cell(x, y) \in 0 .. Cols * Rows - 1
  <1> DEFINE a == x \div VelX
             b == y \div VelY
  <1>1. a \in 0 .. Cols - 1 /\ b \in 0 .. Rows - 1
    BY VelYIsNat, QuotientBound
  <1>2. Cell(x, y) = Cols * b + a
    BY DEF Cell
  <1> HIDE DEF a, b
  <1>3. Cols * b \in Int /\ Cols * b >= 0 /\ Cols * b <= Cols * (Rows - 1)
    BY <1>1
  <1>4. Cols * (Rows - 1) = Cols * Rows - Cols /\ Cols * Rows \in Int
    OBVIOUS
  <1>5. QED
    BY <1>1, <1>2, <1>3, <1>4

(* At first. *)
LEMMA MouseInit == Init => Typed /\ OneInverted
  <1> SUFFICES ASSUME Init PROVE Typed /\ OneInverted
    OBVIOUS
  <1>1. queue \in Queues
    BY DEF Init, Queues
  <1>2. mouse \in Mice /\ todo \in Seq(Steps)
    BY DEF Init, NativeId, Ids, Mice
  <1>3. \A a \in Nat, b \in Nat : a * b \in Nat
    OBVIOUS
  <1>4. 0 \in 0 .. (Cols - 1) * VelX /\ 0 \in 0 .. (Rows - 1) * VelY
    BY <1>3, VelYIsNat
  <1>5. drv \in [mByte : Seq(Val), mCycleMax : {3, 4, 6},
                mPosX : 0 .. (Cols - 1) * VelX, mPosY : 0 .. (Rows - 1) * VelY]
    BY <1>4 DEF Init
  <1>6. QED
    BY <1>1, <1>2, <1>5
       DEF Init, Typed, OneInverted, Starting, Running, Reply, Byte, Bytes, Devices, Val

(* What the mouse answers are bytes of the mouse. *)
LEMMA AnswerTyped ==
  ASSUME NEW m, m.id \in Ids, NEW v
  PROVE  Answer(m, v) \in Seq(From("mouse"))
  <1>1. \A x \in Val : Reply("mouse", x) \in From("mouse")
    BY DEF Reply, Byte, From, Val
  <1>2. ACK \in Val /\ BAT_OK \in Val /\ NativeId(m.kind) \in Val /\ m.id \in Val
    BY DEF ACK, BAT_OK, NativeId, Ids, Val
  <1> HIDE DEF ACK, BAT_OK, NativeId, Reply
  <1>3. /\ <<>> \in Seq(From("mouse")) /\ <<Reply("mouse", ACK)>> \in Seq(From("mouse"))
        /\ <<Reply("mouse", ACK), Reply("mouse", m.id)>> \in Seq(From("mouse"))
        /\ <<Reply("mouse", ACK), Reply("mouse", BAT_OK), Reply("mouse", NativeId(m.kind))>>
              \in Seq(From("mouse"))
    BY <1>1, <1>2
  <1>4. QED
    BY <1>3 DEF Answer

(* Commands and data leave the mouse an identity. *)
LEMMA ObeyTyped ==
  ASSUME NEW m \in Mice, NEW v \in Val
  PROVE  Obey(m, v) \in Mice
  <1>1. NativeId(m.kind) \in Ids /\ \A r : Identity(m, r) \in Ids
    BY DEF NativeId, Identity, Ids, Mice
  <1> DEFINE rates == Append(IF Len(m.rates) < 3 THEN m.rates ELSE Tail(m.rates), v)
  <1>2. CASE m.wants = "rate"
    <2>1. Obey(m, v) = [m EXCEPT !.wants = "command", !.rates = rates, !.id = Identity(m, rates)]
      BY <1>2 DEF Obey
    <2>2. rates \in Seq(Val)
      <3>1. m.rates \in Seq(Val) /\ (m.rates # <<>> => Tail(m.rates) \in Seq(Val))
        BY HeadTailProperties DEF Mice
      <3>2. ASSUME ~ Len(m.rates) < 3 PROVE m.rates # <<>>
        BY <3>1, <3>2
      <3>3. QED
        BY <3>1, <3>2, AppendProperties
    <2> DEFINE id == Identity(m, rates)
    <2>3. id \in Ids
      BY <1>1
    <2> HIDE DEF rates, id
    <2>4. Obey(m, v) = [kind |-> m.kind, id |-> id, rates |-> rates, wants |-> "command",
                        reporting |-> m.reporting]
      BY <2>1 DEF Mice, id
    <2>5. QED
      BY <2>2, <2>3, <2>4 DEF Mice
  <1>3. CASE m.wants = "resolution"
    <2>1. Obey(m, v) = [m EXCEPT !.wants = "command"]
      BY <1>3 DEF Obey
    <2>2. QED
      BY <2>1 DEF Mice
  <1>4. CASE m.wants \notin {"rate", "resolution"}
    <2>1. \/ Obey(m, v) = [m EXCEPT !.rates = <<>>, !.id = NativeId(m.kind), !.reporting = FALSE]
          \/ Obey(m, v) = [m EXCEPT !.wants = "rate"]
          \/ Obey(m, v) = [m EXCEPT !.wants = "resolution"]
          \/ Obey(m, v) = [m EXCEPT !.reporting = TRUE]
          \/ Obey(m, v) = m
      BY <1>4 DEF Obey
    <2>2. CASE Obey(m, v) = [m EXCEPT !.rates = <<>>, !.id = NativeId(m.kind),
                                      !.reporting = FALSE]
      <3>1. Obey(m, v) = [kind |-> m.kind, id |-> NativeId(m.kind), rates |-> <<>>,
                          wants |-> m.wants, reporting |-> FALSE]
        BY <2>2 DEF Mice
      <3>2. QED
        BY <1>1, <3>1 DEF Mice
    <2>3. [m EXCEPT !.wants = "rate"] \in Mice /\ [m EXCEPT !.wants = "resolution"] \in Mice
      BY DEF Mice
    <2>4. [m EXCEPT !.reporting = TRUE] \in Mice
      BY ZenonT(30) DEF Mice
    <2>5. QED
      BY <2>1, <2>2, <2>3, <2>4
  <1>5. QED
    BY <1>2, <1>3, <1>4

(* What a motion makes the mouse send: a packet as long as its identity says, each
   byte at its place. *)
LEMMA PacketDoes ==
  ASSUME NEW id \in Ids, NEW mv \in Moves
  PROVE  /\ Packet(id, mv) \in Seq(From("mouse"))
         /\ Len(Packet(id, mv)) = PacketLen(id) /\ PacketLen(id) \in {3, 4, 6}
         /\ \A i \in 1 .. PacketLen(id) : Packet(id, mv)[i].pos = i - 1
  <1> DEFINE b1 == 8 + (IF mv.dx < 0 THEN 16 ELSE 0) + (IF mv.dy < 0 THEN 32 ELSE 0)
             b2 == mv.dx % 256
             b3 == mv.dy % 256
             bytes == <<b1, b2, b3, 0, 0, 0>>
             n == PacketLen(id)
  <1>1. mv.dx \in Int /\ mv.dy \in Int
    BY MouseAssumption
  <1>2. b1 \in Val /\ b2 \in Val /\ b3 \in Val /\ 0 \in Val
    <2>1. \A a \in {0, 16}, b \in {0, 32} : 8 + a + b \in Val
      BY DEF Val
    <2>2. b1 \in Val
      BY <2>1
    <2>3. \A k \in Int : k % 256 \in Val
      BY DEF Val
    <2>4. b2 \in Val /\ b3 \in Val
      BY <1>1, <2>3
    <2>5. 0 \in Val
      BY DEF Val
    <2>6. QED
      BY <2>2, <2>4, <2>5
  <1>3. Packet(id, mv) = [i \in 1 .. n |-> Byte("mouse", bytes[i], i - 1)]
    BY DEF Packet
  <1>4. n \in {3, 4, 6}
    BY DEF PacketLen, Ids
  <1> HIDE DEF b1, b2, b3, n
  <1>5. \A i \in 1 .. 6 : bytes[i] \in Val
    BY <1>2
  <1> HIDE DEF bytes
  <1>6. \A i \in 1 .. n : Byte("mouse", bytes[i], i - 1) \in From("mouse")
    BY <1>4, <1>5 DEF Byte, From
  <1>7. \A i \in 1 .. n : Packet(id, mv)[i] = Byte("mouse", bytes[i], i - 1)
    BY <1>3
  <1>8. Packet(id, mv) \in Seq(From("mouse")) /\ Len(Packet(id, mv)) = n
    BY <1>3, <1>4, <1>6
  <1>9. QED
    BY <1>4, <1>7, <1>8 DEF n, Byte

(* The position stays on the screen whatever the packet says. *)
LEMMA MovedByDoes ==
  ASSUME Typed, NEW bytes \in Seq(Val), Len(bytes) >= 3
  PROVE  /\ MovedBy(drv, bytes).mByte = <<>>
         /\ MovedBy(drv, bytes).mCycleMax = drv.mCycleMax
         /\ MovedBy(drv, bytes) \in
              [mByte : Seq(Val), mCycleMax : {3, 4, 6},
               mPosX : 0 .. (Cols - 1) * VelX, mPosY : 0 .. (Rows - 1) * VelY]
  <1> DEFINE mx == (Cols - 1) * VelX
             my == (Rows - 1) * VelY
  <1>1. mx \in Nat /\ my \in Nat
    <2>1. \A a \in Nat, b \in Nat : a * b \in Nat
      OBVIOUS
    <2>2. QED
      BY <2>1, VelYIsNat
  <1>2. bytes[2] \in Int /\ bytes[3] \in Int
    <2>1. 2 \in 1 .. Len(bytes) /\ 3 \in 1 .. Len(bytes)
      OBVIOUS
    <2>2. bytes[2] \in Val /\ bytes[3] \in Val
      BY <2>1, ElementOfSeq
    <2>3. \A v \in Val : v \in Int
      BY DEF Val
    <2>4. QED
      BY <2>2, <2>3
  <1>3. drv.mByte \in Seq(Val) /\ drv.mCycleMax \in {3, 4, 6}
        /\ drv.mPosX \in 0 .. mx /\ drv.mPosY \in 0 .. my
        /\ drv = [mByte |-> drv.mByte, mCycleMax |-> drv.mCycleMax,
                  mPosX |-> drv.mPosX, mPosY |-> drv.mPosY]
    BY DEF Typed
  <1> DEFINE left == (bytes[1] \div 16) % 2
             down == (bytes[1] \div 32) % 2
             dX == bytes[2] - (IF left = 1 THEN 256 ELSE 0)
             dY == bytes[3] - (IF down = 1 THEN 256 ELSE 0)
             x == Clip(drv.mPosX + dX, mx)
             y == Clip(drv.mPosY - dY, my)
  <1>4. MovedBy(drv, bytes) = [drv EXCEPT !.mByte = <<>>, !.mPosX = x, !.mPosY = y]
    BY DEF MovedBy
  <1> HIDE DEF left, down
  <1>5. dX \in Int /\ dY \in Int
    BY <1>2
  <1> HIDE DEF dX, dY, mx, my
  <1>6. \A v \in Int : \A m \in Nat : Clip(v, m) \in 0 .. m
    BY DEF Clip
  <1>7. x \in 0 .. mx /\ y \in 0 .. my
    <2>1. drv.mPosX + dX \in Int /\ drv.mPosY - dY \in Int
      BY <1>1, <1>3, <1>5
    <2>2. QED
      BY <1>1, <1>6, <2>1
  <1> HIDE DEF x, y
  <1>8. MovedBy(drv, bytes) = [mByte |-> <<>>, mCycleMax |-> drv.mCycleMax, mPosX |-> x, mPosY |-> y]
    BY <1>3, <1>4
  <1>9. /\ MovedBy(drv, bytes).mByte = <<>>
        /\ MovedBy(drv, bytes).mCycleMax = drv.mCycleMax
        /\ MovedBy(drv, bytes) \in [mByte : Seq(Val), mCycleMax : {3, 4, 6},
                                     mPosX : 0 .. mx, mPosY : 0 .. my]
    BY <1>3, <1>7, <1>8
  <1>10. QED
    BY <1>9 DEF mx, my

-----------------------------------------------------------------------------
(* What mouseInit does, step by step                                       *)

(* The pieces of the script are sequences of steps. *)
LEMMA PiecesTyped ==
  /\ \A v \in Val : Command(v) \in Seq(Steps) /\ Needed(v) \in Seq(Steps)
  /\ \A step \in Reads : Read(step) \in Seq(Steps)
  <1>1. ASSUME NEW v \in Val PROVE Command(v) \in Seq(Steps) /\ Needed(v) \in Seq(Steps)
    <2>1. /\ [do |-> "write", arg |-> v] \in Steps
          /\ [do |-> "ack", must |-> FALSE] \in Steps /\ [do |-> "ack", must |-> TRUE] \in Steps
      BY DEF Steps
    <2>2. QED
      BY <2>1 DEF Command, Needed
  <1>2. \A r \in Steps : <<r>> \in Seq(Steps)
    OBVIOUS
  <1>3. \A step \in Reads : [do |-> step] \in Steps
    BY DEF Steps
  <1>4. QED
    BY <1>1, <1>2, <1>3 DEF Read

(* So is every knock, and so is the script. *)
LEMMA ScriptTyped == Script \in Seq(Steps) /\ SecondKnock \in Seq(Steps)
  <1>1. /\ {200, 100, 80, 0} \subseteq Val
        /\ MOUSE_CMD_RESET \in Val /\ MOUSE_CMD_SET_SAMPLE_RATE \in Val
        /\ MOUSE_CMD_GET_DEVICE_ID \in Val /\ MOUSE_CMD_SET_RESOLUTION \in Val
        /\ MOUSE_CMD_SET_SCALING1 \in Val /\ MOUSE_CMD_ENABLE \in Val
    BY DEF Val, MOUSE_CMD_RESET, MOUSE_CMD_SET_SAMPLE_RATE, MOUSE_CMD_GET_DEVICE_ID,
           MOUSE_CMD_SET_RESOLUTION, MOUSE_CMD_SET_SCALING1, MOUSE_CMD_ENABLE
  <1>2. \A s, t \in Seq(Steps) : s \o t \in Seq(Steps)
    BY ConcatProperties
  <1>3. \A r \in {200, 100, 80} : SetSampleRate(r) \in Seq(Steps)
    BY <1>1, <1>2, PiecesTyped DEF SetSampleRate
  <1>4. Knock(200, 100, 80) \in Seq(Steps) /\ Knock(200, 200, 80) \in Seq(Steps)
    <2> DEFINE a == SetSampleRate(200)
               b == SetSampleRate(100)
               c == SetSampleRate(80)
               d == Command(MOUSE_CMD_GET_DEVICE_ID)
    <2>1. a \in Seq(Steps) /\ b \in Seq(Steps) /\ c \in Seq(Steps) /\ d \in Seq(Steps)
      BY <1>1, <1>3, PiecesTyped
    <2>2. Knock(200, 100, 80) = a \o b \o c \o d /\ Knock(200, 200, 80) = a \o a \o c \o d
      BY DEF Knock
    <2> HIDE DEF a, b, c, d
    <2>3. a \o b \in Seq(Steps) /\ a \o a \in Seq(Steps)
      BY <1>2, <2>1
    <2>4. (a \o b) \o c \in Seq(Steps) /\ (a \o a) \o c \in Seq(Steps)
      BY <1>2, <2>1, <2>3
    <2>5. ((a \o b) \o c) \o d \in Seq(Steps) /\ ((a \o a) \o c) \o d \in Seq(Steps)
      BY <1>2, <2>1, <2>4
    <2>6. QED
      BY <2>2, <2>5, ZenonT(30)
  <1>5. Reset \in Seq(Steps)
    BY <1>1, <1>2, PiecesTyped DEF Reset, Reads
  <1>6. SecondKnock \in Seq(Steps)
    BY <1>2, <1>4, PiecesTyped DEF SecondKnock, Reads
  <1>7. Script \in Seq(Steps)
    <2> DEFINE a == Reset
               b == Knock(200, 100, 80)
               c == Read("id")
               d == Needed(MOUSE_CMD_SET_SCALING1)
               e == Command(MOUSE_CMD_SET_RESOLUTION)
               f == Command(0)
               g == Needed(MOUSE_CMD_ENABLE)
    <2>1. /\ a \in Seq(Steps) /\ b \in Seq(Steps) /\ c \in Seq(Steps) /\ d \in Seq(Steps)
          /\ e \in Seq(Steps) /\ f \in Seq(Steps) /\ g \in Seq(Steps)
      BY <1>1, <1>4, <1>5, PiecesTyped DEF Reads
    <2>2. Script = a \o b \o c \o d \o e \o f \o g
      BY DEF Script
    <2> HIDE DEF a, b, c, d, e, f, g
    <2>3. QED
      BY <1>2, <2>1, <2>2
  <1>8. QED
    BY <1>6, <1>7

(* A byte read by polling leaves the buffer typed. *)
LEMMA TakeTyped ==
  ASSUME Typed, Take \/ buf' = buf \/ buf' = [buf EXCEPT !.full = FALSE]
  PROVE  buf' \in [full : BOOLEAN, byte : Bytes]
  <1>1. buf' = buf \/ buf' = [buf EXCEPT !.full = FALSE]
    BY DEF Take
  <1>2. QED
    BY <1>1 DEF Typed

(* The controller's own replies. *)
LEMMA AskTyped ==
  ASSUME Typed, NEW v \in Val, Ask(v)
  PROVE  queue' \in Queues
  <1>1. Reply("ctl", v) \in From("ctl")
    BY DEF Reply, Byte, From
  <1>2. queue.ctl \in Seq(From("ctl"))
    BY DEF Typed, Queues
  <1>3. Append(queue.ctl, Reply("ctl", v)) \in Seq(From("ctl"))
    BY <1>1, <1>2, AppendProperties
  <1>4. QED
    BY <1>3 DEF Ask, Typed, Queues

(* The steps of the main program keep the types. *)
LEMMA MainTyped == ASSUME Typed, Main PROVE Typed'
  <1>0. /\ buf \in [full : BOOLEAN, byte : Bytes]
        /\ queue \in Queues
        /\ mouse \in Mice /\ todo \in Seq(Steps)
        /\ pc \in Starting \cup Running
        /\ drv \in [mByte : Seq(Val), mCycleMax : {3, 4, 6},
                    mPosX : 0 .. (Cols - 1) * VelX, mPosY : 0 .. (Rows - 1) * VelY]
        /\ Len(drv.mByte) < drv.mCycleMax
        /\ pc \in Starting => drv.mByte = <<>>
    BY DEF Typed
  <1>1. CONFIG \in Val /\ TEST_OK \in Val
    BY DEF CONFIG, TEST_OK, Val
  <1>2. todo # <<>> => Head(todo) \in Steps /\ Tail(todo) \in Seq(Steps)
    BY <1>0, HeadTailProperties
  <1> DEFINE BufOK   == buf' \in [full : BOOLEAN, byte : Bytes]
             QueueOK == queue' \in Queues
  <1>3. ASSUME DisablePorts PROVE Typed'
    <2>1. QueueOK
      BY <1>1, <1>3, AskTyped DEF DisablePorts
    <2>2. QED
      BY <1>0, <1>3, <2>1 DEF DisablePorts, Typed, Starting, Running
  <1>4. ASSUME DisableIrqs PROVE Typed'
    <2>1. QueueOK /\ BufOK
      BY <1>1, <1>4, AskTyped, TakeTyped DEF DisableIrqs
    <2>2. QED
      BY <1>0, <1>4, <2>1 DEF DisableIrqs, Typed, Starting, Running
  <1>5. ASSUME ControllerTest PROVE Typed'
    <2>1. BufOK
      BY <1>5, TakeTyped DEF ControllerTest
    <2>2. QueueOK
      BY <1>0, <1>1, <1>5, AskTyped DEF ControllerTest
    <2>3. QED
      BY <1>0, <1>5, <2>1, <2>2 DEF ControllerTest, Typed, Starting, Running
  <1>6. ASSUME EnableIrqs PROVE Typed'
    <2>1. BufOK
      BY <1>6, TakeTyped DEF EnableIrqs
    <2>2. QED
      BY <1>0, <1>6, <2>1, ScriptTyped DEF EnableIrqs, Typed, Starting, Running
  <1>7. ASSUME Write PROVE Typed'
    <2>1. Head(todo).arg \in Val /\ Tail(todo) \in Seq(Steps)
      BY <1>2, <1>7 DEF Write, Doing, Steps, Reads
    <2>2. mouse' \in Mice
      BY <1>0, <1>7, <2>1, ObeyTyped DEF Write
    <2>3. QueueOK
      <3>1. PICK rest \in {queue.mouse, <<>>} :
               queue' = [queue EXCEPT !.mouse = rest \o Answer(mouse, Head(todo).arg)]
        BY <1>7 DEF Write
      <3>2. Answer(mouse, Head(todo).arg) \in Seq(From("mouse"))
        BY <1>0, AnswerTyped DEF Mice
      <3>3. rest \in Seq(From("mouse"))
        <4>1. queue.mouse \in Seq(From("mouse")) /\ <<>> \in Seq(From("mouse"))
          BY <1>0 DEF Queues
        <4>2. QED
          BY <3>1, <4>1
      <3>4. rest \o Answer(mouse, Head(todo).arg) \in Seq(From("mouse"))
        BY <3>2, <3>3, ConcatProperties
      <3>5. QED
        BY <1>0, <3>1, <3>4 DEF Queues
    <2>4. QED
      BY <1>0, <1>7, <2>1, <2>2, <2>3 DEF Write, Typed
  <1>8. ASSUME WaitAck \/ WaitBat PROVE Typed'
    <2>1. BufOK
      BY <1>8, TakeTyped DEF WaitAck, WaitBat
    <2>2. todo' \in Seq(Steps)
      <3>1. todo # <<>>
        BY <1>8 DEF WaitAck, WaitBat, Doing
      <3>2. Tail(todo) # <<>> => Tail(Tail(todo)) \in Seq(Steps)
        BY <1>2, <3>1, HeadTailProperties
      <3>3. <<>> \in Seq(Steps)
        OBVIOUS
      <3>4. QED
        BY <1>0, <1>2, <1>8, <3>1, <3>2, <3>3 DEF WaitAck, WaitBat, Acked
    <2>3. pc = "mouse" /\ pc' \in {"mouse", "gap"} /\ UNCHANGED <<queue, mouse, drv>>
      BY <1>8 DEF WaitAck, WaitBat, Acked, Doing
    <2>4. QED
      BY <1>0, <2>1, <2>2, <2>3 DEF Typed, Starting, Running
  <1>9. ASSUME ReadMouseID PROVE Typed'
    <2>1. BufOK
      BY <1>9, TakeTyped DEF ReadMouseID
    <2>2. pc = "mouse" /\ todo # <<>> /\ UNCHANGED <<queue, mouse, pc>>
      BY <1>9 DEF ReadMouseID, Doing
    <2>3. todo' \in Seq(Steps)
      <3>1. SecondKnock \o Tail(todo) \in Seq(Steps)
        BY <1>2, <2>2, ScriptTyped, ConcatProperties
      <3>2. QED
        BY <1>2, <1>9, <2>2, <3>1 DEF ReadMouseID
    <2>4. /\ drv' = [drv EXCEPT !.mCycleMax = drv'.mCycleMax]
          /\ drv'.mCycleMax \in {3, 4, 6}
      <3>1. CycleOf(buf.byte.val) \in {3, 4, 6}
        BY DEF CycleOf
      <3>2. drv' = drv \/ drv' = [drv EXCEPT !.mCycleMax = CycleOf(buf.byte.val)]
        BY <1>9 DEF ReadMouseID
      <3>3. QED
        BY <1>0, <3>1, <3>2
    <2>5. drv.mByte = <<>>
      BY <1>0, <2>2 DEF Starting
    <2>6. /\ drv' \in [mByte : Seq(Val), mCycleMax : {3, 4, 6},
                       mPosX : 0 .. (Cols - 1) * VelX, mPosY : 0 .. (Rows - 1) * VelY]
          /\ drv'.mByte = <<>>
      BY <1>0, <2>4, <2>5
    <2>7. Len(drv'.mByte) < drv'.mCycleMax
      BY <2>4, <2>6
    <2>8. QED
      BY <1>0, <2>1, <2>2, <2>3, <2>6, <2>7 DEF Typed
  <1>10. ASSUME InstallMouse \/ EnterLoop PROVE Typed'
    BY <1>0, <1>10, ZenonT(30) DEF InstallMouse, EnterLoop, Typed, Starting, Running
  <1>11. ASSUME SelfTest PROVE Typed'
    <2>1. QueueOK
      BY <1>1, <1>11, AskTyped DEF SelfTest
    <2>2. QED
      BY <1>0, <1>11, <2>1 DEF SelfTest, Typed, Starting, Running
  <1>12. ASSUME InstallKeyboard PROVE Typed'
    <2>1. BufOK
      BY <1>12, TakeTyped DEF InstallKeyboard
    <2>2. QED
      BY <1>0, <1>12, <2>1 DEF InstallKeyboard, Typed, Starting, Running
  <1>13. QED
    BY <1>3, <1>4, <1>5, <1>6, <1>7, <1>8, <1>9, <1>10, <1>11, <1>12 DEF Main

-----------------------------------------------------------------------------
(* The devices and the handlers                                            *)

(* A byte moves from its device's queue to the buffer. *)
LEMMA DeliverTyped ==
  ASSUME Typed, NEW d \in Devices, Deliver(d)
  PROVE  Typed'
  <1>1. queue[d] \in Seq(From(d)) /\ queue[d] # <<>>
    BY DEF Typed, Queues, Deliver, Ready, Devices
  <1> DEFINE h == Head(queue[d])
             t == Tail(queue[d])
  <1>2. h \in From(d) /\ t \in Seq(From(d))
    BY <1>1, HeadTailProperties
  <1> HIDE DEF h, t
  <1>3. buf' = [full |-> TRUE, byte |-> h] /\ queue' = [queue EXCEPT ![d] = t]
    BY DEF Deliver, h, t
  <1>4. queue' \in Queues
    BY <1>2, <1>3, ZenonT(30) DEF Typed, Queues, Devices
  <1>5. h \in Bytes
    BY <1>2 DEF From, Bytes
  <1>6. buf' \in [full : BOOLEAN, byte : Bytes]
    BY <1>3, <1>5
  <1>7. QED
    BY <1>4, <1>6 DEF Deliver, Typed

(* A motion and a key queue bytes of their device. *)
LEMMA InputTyped ==
  ASSUME Typed, (\E mv \in Moves : Move(mv)) \/ (\E code \in KeyCodes : Press(code))
  PROVE  Typed'
  <1>1. ASSUME NEW mv \in Moves, Move(mv) PROVE Typed'
    <2>1. Packet(mouse.id, mv) \in Seq(From("mouse"))
      BY PacketDoes DEF Typed, Mice
    <2>2. queue' \in Queues
      BY <1>1, <2>1 DEF Move, Typed, Queues
    <2>3. QED
      BY <1>1, <2>2 DEF Move, Typed
  <1>2. ASSUME NEW code \in KeyCodes, Press(code) PROVE Typed'
    <2>1. Reply("kbd", code) \in From("kbd")
      BY MouseAssumption DEF Reply, Byte, From, Val
    <2>2. <<Reply("kbd", code)>> \in Seq(From("kbd"))
      BY <2>1
    <2>3. queue' \in Queues
      BY <1>2, <2>2 DEF Press, Typed, Queues
    <2>4. QED
      BY <1>2, <2>3 DEF Press, Typed
  <1>3. QED
    BY <1>1, <1>2

(* A byte received extends the packet or, when it completes one, moves the pointer:
   its old cell is inverted back before the new one is inverted. *)
LEMMA ReceiveDoes ==
  ASSUME Typed, NEW byte \in Bytes, Receive(byte)
  PROVE  /\ drv' \in [mByte : Seq(Val), mCycleMax : {3, 4, 6},
                      mPosX : 0 .. (Cols - 1) * VelX, mPosY : 0 .. (Rows - 1) * VelY]
         /\ Len(drv'.mByte) < drv'.mCycleMax
         /\ inverted = {Cell(drv.mPosX, drv.mPosY)} => inverted' = {Cell(drv'.mPosX, drv'.mPosY)}
  <1> DEFINE bytes == Append(drv.mByte, byte.val)
  <1>1. drv.mByte \in Seq(Val) /\ byte.val \in Val /\ drv.mCycleMax \in {3, 4, 6}
    BY DEF Typed, Bytes
  <1>2. bytes \in Seq(Val) /\ Len(bytes) \in Nat
    BY <1>1, AppendProperties
  <1>3. CASE Len(bytes) >= drv.mCycleMax
    <2>1. drv' = MovedBy(drv, bytes)
          /\ inverted' = Flip(Flip(inverted, Cell(drv.mPosX, drv.mPosY)),
                              Cell(drv'.mPosX, drv'.mPosY))
      BY <1>3 DEF Receive
    <2> HIDE DEF bytes
    <2>2. Len(bytes) >= 3
      BY <1>1, <1>2, <1>3
    <2>3. /\ drv'.mByte = <<>> /\ drv'.mCycleMax = drv.mCycleMax
          /\ drv' \in [mByte : Seq(Val), mCycleMax : {3, 4, 6},
                       mPosX : 0 .. (Cols - 1) * VelX, mPosY : 0 .. (Rows - 1) * VelY]
      BY <1>2, <2>1, <2>2, MovedByDoes
    <2>4. \A c, e : Flip(Flip({c}, c), e) = {e}
      BY DEF Flip
    <2>5. QED
      BY <1>1, <2>1, <2>3, <2>4
  <1>4. CASE ~ Len(bytes) >= drv.mCycleMax
    <2>1. drv' = [drv EXCEPT !.mByte = bytes] /\ inverted' = inverted
      BY <1>4 DEF Receive
    <2> HIDE DEF bytes
    <2>2. drv' = [mByte |-> bytes, mCycleMax |-> drv.mCycleMax,
                  mPosX |-> drv.mPosX, mPosY |-> drv.mPosY]
      BY <2>1 DEF Typed
    <2>3. drv.mPosX \in 0 .. (Cols - 1) * VelX /\ drv.mPosY \in 0 .. (Rows - 1) * VelY
      BY DEF Typed
    <2>4. /\ drv'.mByte = bytes /\ drv'.mCycleMax = drv.mCycleMax
          /\ drv'.mPosX = drv.mPosX /\ drv'.mPosY = drv.mPosY
      BY <2>2
    <2>5. drv' \in [mByte : Seq(Val), mCycleMax : {3, 4, 6},
                   mPosX : 0 .. (Cols - 1) * VelX, mPosY : 0 .. (Rows - 1) * VelY]
      BY <1>1, <1>2, <2>2, <2>3
    <2>6. Len(drv'.mByte) < drv'.mCycleMax
      BY <1>1, <1>2, <1>4, <2>4
    <2>7. QED
      BY <2>1, <2>4, <2>5, <2>6
  <1>5. QED
    BY <1>3, <1>4

(* The handlers keep the types, and the one pointer. *)
LEMMA HandlerDoes ==
  ASSUME Typed, OneInverted, Handler
  PROVE  Typed' /\ OneInverted'
  <1>1. buf' \in [full : BOOLEAN, byte : Bytes]
    BY TakeTyped DEF Handler, MouseIrqHandler, KeyboardIrqHandler
  <1>2. pc \in {"gap", "settling", "loop"} /\ UNCHANGED <<queue, mouse, pc, todo>>
    BY DEF Handler, MouseIrqHandler, KeyboardIrqHandler, Deliverable, Interrupts
  <1>3. CASE UNCHANGED <<drv, inverted>>
    BY <1>1, <1>2, <1>3 DEF Typed, OneInverted
  <1>4. CASE Receive(buf.byte)
    <2>1. buf.byte \in Bytes
      BY DEF Typed
    <2>2. inverted = {Cell(drv.mPosX, drv.mPosY)}
      BY <1>2 DEF OneInverted
    <2>3. QED
      BY <1>1, <1>2, <1>4, <2>1, <2>2, ReceiveDoes, ZenonT(30) DEF Typed, OneInverted, Starting
  <1>5. QED
    BY <1>3, <1>4 DEF Handler, MouseIrqHandler, KeyboardIrqHandler

(* The pointer appears when the ports are disabled, and mouseInit is not run twice. *)
LEMMA MainPointer == ASSUME Typed, OneInverted, Main PROVE OneInverted'
  <1>1. CASE DisablePorts
    BY <1>1 DEF DisablePorts, OneInverted, Flip
  <1>2. CASE ReadMouseID
    <2>1. UNCHANGED <<inverted, pc>> /\ pc = "mouse"
      BY <1>2 DEF ReadMouseID, Doing
    <2>2. drv'.mPosX = drv.mPosX /\ drv'.mPosY = drv.mPosY
      <3>1. drv' = drv \/ drv' = [drv EXCEPT !.mCycleMax = CycleOf(buf.byte.val)]
        BY <1>2 DEF ReadMouseID
      <3>2. QED
        BY <3>1 DEF Typed
    <2>3. QED
      BY <2>1, <2>2 DEF OneInverted
  <1>3. CASE Main /\ ~DisablePorts /\ ~ReadMouseID
    <2>1. UNCHANGED <<drv, inverted>> /\ pc # "mouseInit" /\ pc' # "mouseInit"
      BY <1>3 DEF Main, DisableIrqs, ControllerTest, EnableIrqs, Write, WaitAck, WaitBat,
                  InstallMouse, SelfTest, InstallKeyboard, EnterLoop, Doing, Acked
    <2>2. QED
      BY <2>1 DEF OneInverted
  <1>4. QED
    BY <1>1, <1>2, <1>3

(* Every step keeps both. *)
LEMMA MouseStep == Typed /\ OneInverted /\ [Next]_vars => Typed' /\ OneInverted'
  <1> SUFFICES ASSUME Typed, OneInverted, [Next]_vars PROVE Typed' /\ OneInverted'
    OBVIOUS
  <1>1. CASE Main
    BY <1>1, MainTyped, MainPointer
  <1>2. CASE Handler
    BY <1>2, HandlerDoes
  <1>3. ASSUME NEW d \in {"kbd", "mouse", "ctl"}, Deliver(d) PROVE Typed' /\ OneInverted'
    BY <1>3, DeliverTyped DEF Devices, Deliver, OneInverted
  <1>4. CASE (\E mv \in Moves : Move(mv)) \/ (\E code \in KeyCodes : Press(code))
    BY <1>4, InputTyped DEF Move, Press, OneInverted
  <1>5. CASE UNCHANGED vars
    BY <1>5 DEF vars, Typed, OneInverted
  <1>6. QED
    BY <1>1, <1>2, <1>3, <1>4, <1>5 DEF Next

(* Types and the one inverted cell are an invariant of the driver. *)
THEOREM MouseInvariant == Spec => [](Typed /\ OneInverted)
  BY MouseInit, MouseStep, PTL DEF Spec

(* Whatever the devices send, exactly one cell is inverted, the pointer's, and it is
   on the screen. *)
THEOREM PointerAlwaysOne == Spec => []OnePointer
  <1>1. Typed /\ OneInverted => OnePointer
    <2> SUFFICES ASSUME Typed, OneInverted, pc # "mouseInit"
                 PROVE  /\ inverted = {Cell(drv.mPosX, drv.mPosY)}
                        /\ inverted \subseteq 0 .. Cols * Rows - 1
      BY DEF OnePointer
    <2>1. inverted = {Cell(drv.mPosX, drv.mPosY)}
      BY DEF OneInverted
    <2>2. drv.mPosX \in 0 .. (Cols - 1) * VelX /\ drv.mPosY \in 0 .. (Rows - 1) * VelY
      BY DEF Typed
    <2>3. Cell(drv.mPosX, drv.mPosY) \in 0 .. Cols * Rows - 1
      BY <2>2, CellOnScreen
    <2>4. QED
      BY <2>1, <2>3
  <1>2. QED
    BY <1>1, MouseInvariant, PTL

-----------------------------------------------------------------------------
(* In step: what is left of mouseInit                                      *)

(* What remains of the script before a command is sent, what the mouse then takes
   the byte for, and whether its identity is still to be read. *)
At(steps, wants, ids) == [steps |-> steps, wants |-> wants, ids |-> ids]

Enabling   == Needed(MOUSE_CMD_ENABLE)
Resolution == Command(0) \o Enabling
Resolving  == Command(MOUSE_CMD_SET_RESOLUTION) \o Resolution
Settings   == Needed(MOUSE_CMD_SET_SCALING1) \o Resolving

Asking(x)     == Command(MOUSE_CMD_GET_DEVICE_ID) \o (Read(x) \o Settings)
Rate(r, s)    == Command(r) \o s
Sampling(r, s) == Command(MOUSE_CMD_SET_SAMPLE_RATE) \o Rate(r, s)
Knocking(a, b, c, x) == Sampling(a, Sampling(b, Sampling(c, Asking(x))))

Starts == Command(MOUSE_CMD_RESET) \o (Read("bat") \o Knocking(200, 100, 80, "id"))

(* The places within a knock. *)
KnockPlan(a, b, c, x) ==
  LET s1 == Sampling(c, Asking(x))
      s2 == Sampling(b, s1)
  IN  {At(Asking(x), "command", TRUE),
       At(Rate(c, Asking(x)), "rate", TRUE), At(s1, "command", TRUE),
       At(Rate(b, s1), "rate", TRUE),        At(s2, "command", TRUE),
       At(Rate(a, s2), "rate", TRUE),        At(Sampling(a, s2), "command", TRUE)}

Plan ==
  {At(<<>>, "command", FALSE), At(Enabling, "command", FALSE),
   At(Resolution, "resolution", FALSE), At(Resolving, "command", FALSE),
   At(Settings, "command", FALSE), At(Starts, "command", TRUE)}
  \cup KnockPlan(200, 100, 80, "id") \cup KnockPlan(200, 200, 80, "id again")

(* What a mouse says behind an acknowledgement, to be read by step x. *)
Said(x, id) == IF x = "bat" THEN <<Reply("mouse", BAT_OK), Reply("mouse", id)>>
               ELSE <<Reply("mouse", id)>>
Told(x) == Said(x, mouse.id)

(* A byte nobody read may come before the acknowledgement. *)
Stray(s) == Len(s) = 1 /\ Head(s).val # ACK

Heard(s, t) ==
  \/ s = <<Reply("mouse", ACK)>> \o t
  \/ s # <<>> /\ Head(s).val # ACK /\ Tail(s) = <<Reply("mouse", ACK)>> \o t

(* The driver knows how long a packet is, or will be told. *)
Detected(ids) == ids \/ drv.mCycleMax = PacketLen(mouse.id)

Ack(m) == <<[do |-> "ack", must |-> m]>>

(* Between two commands, waiting for an acknowledgement alone or with an answer
   behind it, waiting for the answer. *)
Between(p)   == /\ todo = p.steps /\ Detected(p.ids)
                /\ Coming = <<>> \/ (p.steps # <<>> /\ Stray(Coming))
Awaiting(p)  == /\ \E m \in BOOLEAN : todo = Ack(m) \o p.steps
                /\ Detected(p.ids) /\ Heard(Coming, <<>>)
Asked(p, x)  == todo = Ack(FALSE) \o (Read(x) \o p.steps) /\ Heard(Coming, Told(x))
Reading(p, x) == todo = Read(x) \o p.steps /\ Coming = Told(x)

(* The self-test comes first, the identity last. *)
Answers(p, x) ==
  IF x = "bat" THEN p = At(Knocking(200, 100, 80, "id"), "command", TRUE)
  ELSE p = At(Settings, "command", FALSE)

Talking ==
  /\ ctl.ports = {"kbd", "mouse"}
  /\ queue.kbd = <<>> /\ queue.ctl = <<>>
  /\ buf.full => buf.byte.src = "mouse"
  /\ IF mouse.kind = "none" THEN Coming = <<>> /\ ~mouse.reporting
     ELSE \E p \in Plan :
            /\ mouse.wants = p.wants
            /\ \/ Between(p) \/ Awaiting(p)
               \/ \E x \in Reads :
                    Answers(p, x) /\ (Asked(p, x) \/ Reading(p, x))

-----------------------------------------------------------------------------
(* In step: before and after it                                            *)

(* The mouse has not been spoken to. *)
Fresh == /\ mouse.wants = "command" /\ mouse.id = NativeId(mouse.kind) /\ ~mouse.reporting
         /\ queue.kbd = <<>> /\ queue.mouse = <<>>

NothingComes == ~buf.full /\ queue = [kbd |-> <<>>, mouse |-> <<>>, ctl |-> <<>>]

(* The controller's own reply v is under way, and nothing else. *)
Replies(v) ==
  /\ queue.kbd = <<>> /\ queue.mouse = <<>>
  /\ IF buf.full THEN buf.byte = Reply("ctl", v) /\ queue.ctl = <<>>
     ELSE queue.ctl = <<Reply("ctl", v)>>

(* The mouse reports in packets as long as the driver expects. *)
Agreed == mouse.reporting => drv.mCycleMax = PacketLen(mouse.id)

(* The queue holds the end of a packet; the byte in the buffer is the one before,
   and the driver has read what is before that. *)
Following ==
  LET N == drv.mCycleMax
      n == Len(queue.mouse)
  IN  /\ n <= N /\ \A i \in 1 .. n : queue.mouse[i].pos = N - n + i - 1
      /\ IF buf.full /\ buf.byte.src = "mouse"
         THEN /\ buf.byte.pos = Len(drv.mByte)
              /\ Len(drv.mByte) + 1 = IF n \in {0, N} THEN N ELSE N - n
         ELSE Len(drv.mByte) = IF n = 0 THEN 0 ELSE N - n

(* A line that gets through stands for a byte of its device in the buffer. *)
Latched ==
  /\ AUX \in pic.irr => buf.full /\ buf.byte.src = "mouse"
  /\ KBD \in pic.irr \cap pic.open => buf.full /\ buf.byte.src = "kbd"
  /\ buf.full => buf.byte.src # "ctl"
  /\ queue.ctl = <<>>

Listening ==
  /\ Agreed
  /\ pc = "gap" => NothingComes /\ drv.mByte = <<>>
  /\ pc = "keyboardInit" => Replies(TEST_OK) /\ drv.mByte = <<>> /\ AUX \notin pic.irr
  /\ pc = "settling" => NothingComes /\ drv.mByte = <<>> /\ AUX \notin pic.irr
  /\ pc = "loop" => Latched /\ Following

(* Nothing is in service between two handlers; the mouse's line is opened last. *)
Lines ==
  /\ ctl \in [ports : SUBSET {"kbd", "mouse"}, irqs : SUBSET {KBD, AUX}]
  /\ pic \in [irr : SUBSET {KBD, AUX}, isr : {{}}, open : SUBSET {KBD, AUX}]
  /\ pc \in Starting => pic.open = {}
  /\ touched \in BOOLEAN

Phases ==
  /\ pc = "mouseInit" => NothingComes /\ Fresh
  /\ pc = "config" => Replies(CONFIG) /\ Fresh
  /\ pc = "test" => Replies(TEST_OK) /\ Fresh
  /\ pc = "config again" => Replies(CONFIG) /\ Fresh /\ ctl.ports = {"kbd", "mouse"}
  /\ pc = "mouse" => Talking
  /\ pc \in Running /\ AUX \in pic.open => Listening

Synchronised == ~touched => Phases

-----------------------------------------------------------------------------
(* In step: the script                                                     *)

(* One item in front of others. *)
LEMMA FirstThen ==
  ASSUME NEW S, NEW x \in S, NEW r \in Seq(S)
  PROVE  LET s == <<x>> \o r
         IN  s \in Seq(S) /\ s # <<>> /\ Head(s) = x /\ Tail(s) = r
  <1> DEFINE s == <<x>> \o r
  <1>1. /\ <<x>> \in Seq(S) /\ Len(<<x>>) = 1 /\ <<x>>[1] = x
    OBVIOUS
  <1>2. s \in Seq(S) /\ Len(s) = Len(r) + 1 /\ s[1] = x
        /\ \A i \in 1 .. Len(r) : s[i + 1] = r[i]
    <2> DEFINE a == <<x>>
    <2>1. a \in Seq(S) /\ Len(a) = 1 /\ a[1] = x
      BY <1>1
    <2> HIDE DEF a
    <2>2. /\ a \o r \in Seq(S) /\ Len(a \o r) = Len(a) + Len(r)
          /\ \A i \in 1 .. Len(a) + Len(r) :
               (a \o r)[i] = IF i <= Len(a) THEN a[i] ELSE r[i - Len(a)]
      BY <2>1, ConcatProperties, SMTT(30)
    <2>3. QED
      BY <2>1, <2>2 DEF a
  <1> HIDE DEF s
  <1>3. s # <<>> /\ Head(s) = x
    BY <1>2
  <1>4. Tail(s) = r
    <2>1. Tail(s) \in Seq(S) /\ Len(Tail(s)) = Len(r)
          /\ \A i \in 1 .. Len(r) : Tail(s)[i] = s[i + 1]
      BY <1>2, <1>3, HeadTailProperties
    <2>2. \A i \in 1 .. Len(r) : Tail(s)[i] = r[i]
      BY <1>2, <2>1
    <2>3. QED
      BY <2>1, <2>2, SeqEqual
  <1>5. QED
    BY <1>2, <1>3, <1>4 DEF s

(* One step in front of others. *)
LEMMA OneThen ==
  ASSUME NEW x \in Steps, NEW r \in Seq(Steps)
  PROVE  LET s == <<x>> \o r
         IN  s \in Seq(Steps) /\ s # <<>> /\ Head(s) = x /\ Tail(s) = r
  BY FirstThen

(* One byte in front of others. *)
LEMMA ByteThen ==
  ASSUME NEW x \in From("mouse"), NEW r \in Seq(From("mouse"))
  PROVE  LET s == <<x>> \o r
         IN  s \in Seq(From("mouse")) /\ s # <<>> /\ Head(s) = x /\ Tail(s) = r
  BY FirstThen

(* The steps there are. *)
LEMMA StepsAre ==
  /\ \A v \in Val : [do |-> "write", arg |-> v] \in Steps
  /\ \A m \in BOOLEAN : [do |-> "ack", must |-> m] \in Steps
  /\ \A x \in Reads : [do |-> x] \in Steps
  BY DEF Steps

(* Concatenations of steps may be regrouped. *)
LEMMA Regroup ==
  /\ \A s, t \in Seq(Steps) : s \o t \in Seq(Steps)
  /\ \A s, t, u \in Seq(Steps) : (s \o t) \o u = s \o (t \o u)
  BY ConcatProperties, ConcatAssociative

(* Waiting for an acknowledgement, or for an answer, before the rest. *)
LEMMA AckThen ==
  ASSUME NEW m \in BOOLEAN, NEW r \in Seq(Steps)
  PROVE  LET s == Ack(m) \o r
         IN  /\ s \in Seq(Steps) /\ s # <<>> /\ Tail(s) = r
             /\ Head(s).do = "ack" /\ Head(s).must = m
  <1>1. [do |-> "ack", must |-> m] \in Steps
    BY StepsAre
  <1>2. QED
    BY <1>1, OneThen DEF Ack

(* Reading an answer before the rest. *)
LEMMA ReadThen ==
  ASSUME NEW x \in Reads, NEW r \in Seq(Steps)
  PROVE  LET s == Read(x) \o r
         IN  s \in Seq(Steps) /\ s # <<>> /\ Tail(s) = r /\ Head(s).do = x
  <1> DEFINE y == [do |-> x]
  <1>1. y \in Steps /\ y.do = x /\ Read(x) = <<y>>
    BY StepsAre DEF Read
  <1> HIDE DEF y
  <1>2. QED
    BY <1>1, OneThen

(* Two steps are one and another. *)
LEMMA TwoSteps ==
  ASSUME NEW x \in Steps, NEW y \in Steps
  PROVE  <<x, y>> = <<x>> \o <<y>>
  <1> DEFINE a == <<x>>
             b == <<y>>
             c == <<x, y>>
  <1>1. /\ a \in Seq(Steps) /\ Len(a) = 1 /\ a[1] = x
        /\ b \in Seq(Steps) /\ Len(b) = 1 /\ b[1] = y
    OBVIOUS
  <1>2. c \in Seq(Steps) /\ Len(c) = 2 /\ c[1] = x /\ c[2] = y
    OBVIOUS
  <1> HIDE DEF a, b, c
  <1>3. /\ a \o b \in Seq(Steps) /\ Len(a \o b) = 2
        /\ \A i \in 1 .. 2 : (a \o b)[i] = IF i <= 1 THEN a[i] ELSE b[i - 1]
    <2>1. /\ a \o b \in Seq(Steps) /\ Len(a \o b) = Len(a) + Len(b)
          /\ \A i \in 1 .. Len(a) + Len(b) :
               (a \o b)[i] = IF i <= Len(a) THEN a[i] ELSE b[i - Len(a)]
      BY <1>1, ConcatProperties, ZenonT(30)
    <2>2. QED
      BY <1>1, <2>1
  <1>4. \A i \in 1 .. Len(c) : c[i] = (a \o b)[i]
    BY <1>1, <1>2, <1>3
  <1>5. c = a \o b
    BY <1>2, <1>3, <1>4, SeqEqual
  <1>6. QED
    BY <1>5 DEF a, b, c

(* A command before the rest. *)
LEMMA CommandThen ==
  ASSUME NEW v \in Val, NEW r \in Seq(Steps), NEW m \in BOOLEAN,
         NEW c, c = IF m THEN Needed(v) ELSE Command(v)
  PROVE  LET s == c \o r
         IN  /\ s \in Seq(Steps) /\ s # <<>> /\ Tail(s) = Ack(m) \o r
             /\ Head(s).do = "write" /\ Head(s).arg = v
  <1> DEFINE w == [do |-> "write", arg |-> v]
             a == [do |-> "ack", must |-> m]
  <1>1. w \in Steps /\ a \in Steps /\ w.do = "write" /\ w.arg = v
    BY StepsAre
  <1>2. c = <<w, a>> /\ Ack(m) = <<a>>
    BY DEF Command, Needed, Ack
  <1> HIDE DEF w, a
  <1> DEFINE sw == <<w>>
             sa == <<a>>
  <1>3. sw \in Seq(Steps) /\ sa \in Seq(Steps)
    BY <1>1
  <1>4. c = sw \o sa
    BY <1>1, <1>2, TwoSteps
  <1>5. sa \o r \in Seq(Steps) /\ Ack(m) \o r = sa \o r
    BY <1>2, <1>3, Regroup
  <1>6. LET s == sw \o (sa \o r)
        IN  s \in Seq(Steps) /\ s # <<>> /\ Head(s) = w /\ Tail(s) = sa \o r
    BY <1>1, <1>5, OneThen
  <1> HIDE DEF sw, sa
  <1>7. c \o r = sw \o (sa \o r)
    <2>1. (sw \o sa) \o r = sw \o (sa \o r)
      BY <1>3, ConcatAssociative
    <2>2. QED
      BY <1>4, <2>1
  <1>8. QED
    BY <1>1, <1>5, <1>6, <1>7, ZenonT(30)

(* The pieces again, and the settings they end in. *)
LEMMA SettingsTyped ==
  /\ \A v \in {MOUSE_CMD_RESET, MOUSE_CMD_SET_SAMPLE_RATE, MOUSE_CMD_GET_DEVICE_ID,
               MOUSE_CMD_SET_RESOLUTION, MOUSE_CMD_SET_SCALING1, MOUSE_CMD_ENABLE,
               0, 80, 100, 200} :
       v \in Val /\ Command(v) \in Seq(Steps) /\ Needed(v) \in Seq(Steps)
  /\ \A x \in Reads : Read(x) \in Seq(Steps)
  /\ Enabling \in Seq(Steps) /\ Resolution \in Seq(Steps) /\ Resolving \in Seq(Steps)
  /\ Settings \in Seq(Steps)
  <1>1. ASSUME NEW v \in {MOUSE_CMD_RESET, MOUSE_CMD_SET_SAMPLE_RATE, MOUSE_CMD_GET_DEVICE_ID,
                          MOUSE_CMD_SET_RESOLUTION, MOUSE_CMD_SET_SCALING1, MOUSE_CMD_ENABLE,
                          0, 80, 100, 200}
        PROVE  v \in Val /\ Command(v) \in Seq(Steps) /\ Needed(v) \in Seq(Steps)
    <2>1. v \in Val
      BY DEF Val, MOUSE_CMD_RESET, MOUSE_CMD_SET_SAMPLE_RATE, MOUSE_CMD_GET_DEVICE_ID,
             MOUSE_CMD_SET_RESOLUTION, MOUSE_CMD_SET_SCALING1, MOUSE_CMD_ENABLE
    <2>2. QED
      BY <2>1, PiecesTyped
  <1>2. \A x \in Reads : Read(x) \in Seq(Steps)
    BY PiecesTyped
  <1>3. Enabling \in Seq(Steps)
    BY <1>1 DEF Enabling
  <1>4. Resolution \in Seq(Steps)
    BY <1>1, <1>3, Regroup DEF Resolution
  <1>5. Resolving \in Seq(Steps)
    BY <1>1, <1>4, Regroup DEF Resolving
  <1>6. Settings \in Seq(Steps)
    BY <1>1, <1>5, Regroup DEF Settings
  <1>7. QED
    BY <1>1, <1>2, <1>3, <1>4, <1>5, <1>6

(* The sample rates of a knock, and the answers it asks for. *)
Rates == {80, 100, 200}
AskedFor == {"id", "id again"}

(* A knock: three sample rates, then the question and its answer. *)
LEMMA KnockTyped ==
  ASSUME NEW a \in Rates, NEW s \in Seq(Steps)
  PROVE  /\ Rate(a, s) \in Seq(Steps) /\ Sampling(a, s) \in Seq(Steps)
         /\ SetSampleRate(a) \in Seq(Steps) /\ SetSampleRate(a) \o s = Sampling(a, s)
  <1> DEFINE w == Command(MOUSE_CMD_SET_SAMPLE_RATE)
             c == Command(a)
  <1>1. w \in Seq(Steps) /\ c \in Seq(Steps)
    BY SettingsTyped, ZenonT(30) DEF Rates
  <1>2. SetSampleRate(a) = w \o c /\ Rate(a, s) = c \o s /\ Sampling(a, s) = w \o (c \o s)
    BY DEF SetSampleRate, Rate, Sampling
  <1> HIDE DEF w, c
  <1>3. w \o c \in Seq(Steps) /\ c \o s \in Seq(Steps) /\ w \o (c \o s) \in Seq(Steps)
        /\ (w \o c) \o s = w \o (c \o s)
    BY <1>1, Regroup, ConcatAssociative
  <1>4. QED
    BY <1>2, <1>3

(* The question for the identity, its answer, and the rest. *)
LEMMA AskingTyped ==
  ASSUME NEW x \in AskedFor
  PROVE  Read(x) \o Settings \in Seq(Steps) /\ Asking(x) \in Seq(Steps)
  <1>1. Read(x) \o Settings \in Seq(Steps)
    BY SettingsTyped, Regroup DEF AskedFor, Reads
  <1>2. QED
    BY <1>1, SettingsTyped, Regroup DEF Asking

(* The knocks of the code are those of the plan. *)
LEMMA KnockShape ==
  ASSUME NEW a \in Rates, NEW b \in Rates, NEW c \in Rates, NEW x \in AskedFor
  PROVE  /\ Knock(a, b, c) \in Seq(Steps) /\ Knocking(a, b, c, x) \in Seq(Steps)
         /\ Knock(a, b, c) \o (Read(x) \o Settings) = Knocking(a, b, c, x)
  <1> DEFINE p  == SetSampleRate(a)
             q  == SetSampleRate(b)
             t  == SetSampleRate(c)
             g  == Command(MOUSE_CMD_GET_DEVICE_ID)
             u  == Read(x) \o Settings
             s0 == Asking(x)
             s1 == Sampling(c, s0)
             s2 == Sampling(b, s1)
             s3 == Sampling(a, s2)
  <1>1. g \in Seq(Steps) /\ u \in Seq(Steps)
    BY SettingsTyped, AskingTyped
  <1>2. s0 = g \o u /\ s0 \in Seq(Steps)
    BY AskingTyped DEF Asking
  <1>3. Knock(a, b, c) = ((p \o q) \o t) \o g /\ Knocking(a, b, c, x) = s3
    BY DEF Knock, Knocking
  <1> HIDE DEF u, g, s0
  <1>4. s0 \in Seq(Steps)
    BY <1>2
  <1>5. t \in Seq(Steps) /\ t \o s0 = s1 /\ s1 \in Seq(Steps)
    BY <1>4, KnockTyped
  <1> HIDE DEF s1, t
  <1>6. s1 \in Seq(Steps)
    BY <1>5
  <1>7. q \in Seq(Steps) /\ q \o s1 = s2 /\ s2 \in Seq(Steps)
    BY <1>6, KnockTyped
  <1> HIDE DEF s2, q
  <1>8. s2 \in Seq(Steps)
    BY <1>7
  <1>9. p \in Seq(Steps) /\ p \o s2 = s3 /\ s3 \in Seq(Steps)
    BY <1>8, KnockTyped
  <1> HIDE DEF s3, p
  <1>10. p \in Seq(Steps)
    BY <1>9
  <1>11. q \in Seq(Steps)
    BY <1>7
  <1>12. t \in Seq(Steps)
    BY <1>5
  <1> DEFINE pq  == p \o q
             pqt == pq \o t
  <1>13. pq \in Seq(Steps)
    BY <1>10, <1>11, ConcatProperties
  <1>14. (p \o q) \o s1 = p \o (q \o s1)
    BY <1>6, <1>10, <1>11, ConcatAssociative
  <1>15. pq \o s1 = s3
    BY <1>7, <1>9, <1>14
  <1> HIDE DEF pq
  <1>16. pqt \in Seq(Steps)
    BY <1>12, <1>13, ConcatProperties
  <1>17. (pq \o t) \o s0 = pq \o (t \o s0)
    BY <1>4, <1>12, <1>13, ConcatAssociative
  <1>18. pqt \o s0 = s3
    BY <1>5, <1>15, <1>17
  <1>19. Knock(a, b, c) = pqt \o g
    BY <1>3 DEF pq
  <1> HIDE DEF pqt
  <1>20. pqt \o g \in Seq(Steps)
    BY <1>1, <1>16, ConcatProperties
  <1>21. (pqt \o g) \o u = pqt \o (g \o u)
    BY <1>1, <1>16, ConcatAssociative
  <1>22. QED
    BY <1>2, <1>3, <1>9, <1>18, <1>19, <1>20, <1>21 DEF u

(* So is the script of the code. *)
LEMMA ScriptShape ==
  /\ Script = Starts /\ SecondKnock \o Settings = Knocking(200, 200, 80, "id again")
  /\ Starts \in Seq(Steps)
  <1> DEFINE r  == Command(MOUSE_CMD_RESET)
             k  == Read("bat")
             n  == Knock(200, 100, 80)
             i  == Read("id")
             d  == Needed(MOUSE_CMD_SET_SCALING1)
             e  == Command(MOUSE_CMD_SET_RESOLUTION)
             f  == Command(0)
             g  == Needed(MOUSE_CMD_ENABLE)
             n2 == Knock(200, 200, 80)
             j  == Read("id again")
  <1>1. r \in Seq(Steps) /\ k \in Seq(Steps) /\ i \in Seq(Steps)
    BY SettingsTyped DEF Reads
  <1>2. d \in Seq(Steps) /\ e \in Seq(Steps) /\ f \in Seq(Steps) /\ g \in Seq(Steps)
    BY SettingsTyped
  <1>2d. d \in Seq(Steps)
    BY <1>2
  <1>3. j \in Seq(Steps)
    BY SettingsTyped DEF Reads
  <1>4. n \in Seq(Steps)
    BY KnockShape, ZenonT(30) DEF Rates, AskedFor
  <1>5. n \o (i \o Settings) = Knocking(200, 100, 80, "id")
    BY KnockShape, ZenonT(30) DEF Rates, AskedFor
  <1>6. Knocking(200, 100, 80, "id") \in Seq(Steps)
    BY KnockShape, ZenonT(30) DEF Rates, AskedFor
  <1>7. n2 \in Seq(Steps)
    BY KnockShape DEF Rates, AskedFor
  <1>8. n2 \o (j \o Settings) = Knocking(200, 200, 80, "id again")
    BY KnockShape, ZenonT(30) DEF Rates, AskedFor
  <1>9. Settings \in Seq(Steps)
    BY SettingsTyped
  <1> DEFINE h  == ((r \o k) \o n) \o i
             kn == Knocking(200, 100, 80, "id")
             st == Settings
  <1>10. Script = (((h \o d) \o e) \o f) \o g
    BY DEF Script, Reset
  <1>11. SecondKnock = n2 \o j
    BY DEF SecondKnock
  <1>12. st = d \o (e \o (f \o g))
    BY DEF Settings, Resolving, Resolution, Enabling
  <1>13. Starts = r \o (k \o kn)
    BY DEF Starts
  <1> HIDE DEF r, k, n, i, d, e, f, g, n2, j, kn, st
  <1>14. st \in Seq(Steps)
    BY <1>9 DEF st
  <1>15. kn \in Seq(Steps) /\ n \o (i \o st) = kn
    BY <1>5, <1>6 DEF kn, st
  <1>16. (n2 \o j) \o st = n2 \o (j \o st)
    BY <1>3, <1>7, <1>14, ConcatAssociative
  <1>17. SecondKnock \o Settings = Knocking(200, 200, 80, "id again")
    BY <1>8, <1>11, <1>16 DEF st
  <1> DEFINE rk == r \o k
             rkn == rk \o n
             it == i \o st
  <1>18. rk \in Seq(Steps)
    BY <1>1, ConcatProperties
  <1>19. rk \o kn = Starts
    <2>1. (r \o k) \o kn = r \o (k \o kn)
      BY <1>1, <1>15, ConcatAssociative, SMTT(30)
    <2>2. QED
      BY <1>13, <2>1
  <1> HIDE DEF rk
  <1>20. Starts \in Seq(Steps)
    BY <1>15, <1>18, <1>19, ConcatProperties
  <1>21. rkn \in Seq(Steps)
    BY <1>4, <1>18, ConcatProperties
  <1>22. it \in Seq(Steps)
    BY <1>1, <1>14, ConcatProperties
  <1>23. rkn \o it = Starts
    <2>1. n \o it = kn
      BY <1>15
    <2> HIDE DEF it
    <2>2. (rk \o n) \o it = rk \o (n \o it)
      BY <1>4, <1>18, <1>22, ConcatAssociative
    <2>3. QED
      BY <1>19, <2>1, <2>2
  <1>24. h = rkn \o i
    BY DEF rk
  <1> HIDE DEF rkn
  <1>25. (rkn \o i) \o st = rkn \o (i \o st)
    BY <1>1, <1>14, <1>21, ConcatAssociative, SMTT(30)
  <1>26. h \in Seq(Steps)
    BY <1>1, <1>21, <1>24, ConcatProperties
  <1> HIDE DEF h
  <1>27. h \o st = Starts
    BY <1>23, <1>24, <1>25
  <1> HIDE DEF it
  <1> DEFINE hd  == h \o d
             hde == hd \o e
             fg  == f \o g
             efg == e \o fg
  <1>28. fg \in Seq(Steps)
    BY <1>2, ConcatProperties
  <1> HIDE DEF fg
  <1>29. efg \in Seq(Steps)
    BY <1>2, <1>28, ConcatProperties
  <1> HIDE DEF efg
  <1>30. hd \in Seq(Steps)
    BY <1>2, <1>26, ConcatProperties
  <1>31. (h \o d) \o efg = h \o (d \o efg)
    BY <1>2d, <1>26, <1>29, ConcatAssociative
  <1> HIDE DEF hd
  <1>32. (hd \o e) \o fg = hd \o (e \o fg)
    BY <1>2, <1>28, <1>30, ConcatAssociative, SMTT(30)
  <1>33. hde \in Seq(Steps)
    BY <1>2, <1>30, ConcatProperties
  <1> HIDE DEF hde
  <1>34. (hde \o f) \o g = hde \o (f \o g)
    BY <1>2, <1>33, ConcatAssociative, SMTT(30)
  <1>35. Script = h \o st
    BY <1>10, <1>12, <1>31, <1>32, <1>34 DEF hd, hde, fg, efg
  <1>36. QED
    BY <1>17, <1>20, <1>27, <1>35

-----------------------------------------------------------------------------
(* In step: what a command does to the plan                                *)

(* Command v is next in p and leads to q, as the mouse takes it: without an answer
   or with one to be read by step x. *)
Sends(p, v, m, s) ==
  /\ p.steps \in Seq(Steps) /\ p.steps # <<>>
  /\ Head(p.steps).do = "write" /\ Head(p.steps).arg = v
  /\ Tail(p.steps) = Ack(m) \o s /\ s \in Seq(Steps)

Plain(p, v, m, q) ==
  /\ Sends(p, v, m, q.steps) /\ q.ids = p.ids
  /\ v \notin {MOUSE_CMD_RESET, MOUSE_CMD_GET_DEVICE_ID}
  /\ \/ /\ p.wants = "command" /\ v = MOUSE_CMD_SET_SAMPLE_RATE
        /\ q.wants = "rate" /\ p.ids
     \/ /\ p.wants = "command" /\ v = MOUSE_CMD_SET_RESOLUTION
        /\ q.wants = "resolution"
     \/ /\ p.wants = "command" /\ q.wants = "command"
        /\ v \notin {MOUSE_CMD_SET_SAMPLE_RATE, MOUSE_CMD_SET_RESOLUTION}
     \/ p.wants = "rate" /\ q.wants = "command" /\ p.ids
     \/ p.wants = "resolution" /\ q.wants = "command"

Question(p, v, x, q) ==
  /\ Sends(p, v, FALSE, Read(x) \o q.steps) /\ q.steps \in Seq(Steps)
  /\ p.wants = "command" /\ q.wants = "command" /\ Answers(q, x)
  /\ \/ v = MOUSE_CMD_RESET /\ x = "bat"
     \/ v = MOUSE_CMD_GET_DEVICE_ID /\ x \in AskedFor

Unfolds(p, Q) ==
  \E v \in Val : \E q \in Q :
    \/ \E m \in BOOLEAN : Plain(p, v, m, q)
    \/ \E x \in Reads : Question(p, v, x, q)

(* What a command in front means. *)
LEMMA CommandSends ==
  ASSUME NEW v \in Val, NEW r \in Seq(Steps), NEW p
  PROVE  /\ p.steps = Command(v) \o r => Sends(p, v, FALSE, r)
         /\ p.steps = Needed(v) \o r => Sends(p, v, TRUE, r)
  <1>1. ASSUME p.steps = Command(v) \o r PROVE Sends(p, v, FALSE, r)
    <2> DEFINE s == Command(v) \o r
    <2>1. /\ s \in Seq(Steps) /\ s # <<>> /\ Tail(s) = Ack(FALSE) \o r
          /\ Head(s).do = "write" /\ Head(s).arg = v
      BY CommandThen
    <2> HIDE DEF s
    <2>2. p.steps = s
      BY <1>1 DEF s
    <2>3. QED
      BY <2>1, <2>2 DEF Sends
  <1>2. ASSUME p.steps = Needed(v) \o r PROVE Sends(p, v, TRUE, r)
    <2> DEFINE s == Needed(v) \o r
    <2>1. /\ s \in Seq(Steps) /\ s # <<>> /\ Tail(s) = Ack(TRUE) \o r
          /\ Head(s).do = "write" /\ Head(s).arg = v
      BY CommandThen
    <2> HIDE DEF s
    <2>2. p.steps = s
      BY <1>2 DEF s
    <2>3. QED
      BY <2>1, <2>2 DEF Sends
  <1>3. QED
    BY <1>1, <1>2

(* A sample rate is sent. *)
LEMMA RateUnfolds ==
  ASSUME NEW a \in Rates, NEW s \in Seq(Steps)
  PROVE  Unfolds(At(Rate(a, s), "rate", TRUE), {At(s, "command", TRUE)})
  <1> DEFINE p == At(Rate(a, s), "rate", TRUE)
             q == At(s, "command", TRUE)
  <1>1. /\ p.steps = Rate(a, s) /\ p.wants = "rate" /\ p.ids = TRUE
        /\ q.steps = s /\ q.wants = "command" /\ q.ids = TRUE
    BY DEF At
  <1> HIDE DEF p, q
  <1>2. a \in Val /\ a \notin {MOUSE_CMD_RESET, MOUSE_CMD_GET_DEVICE_ID}
    BY DEF Rates, Val, MOUSE_CMD_RESET, MOUSE_CMD_GET_DEVICE_ID
  <1>3. Sends(p, a, FALSE, q.steps)
    BY <1>1, <1>2, CommandSends DEF Rate
  <1>4. Plain(p, a, FALSE, q)
    BY <1>1, <1>2, <1>3 DEF Plain
  <1>5. Unfolds(p, {q})
    BY <1>2, <1>4 DEF Unfolds
  <1>6. QED
    BY <1>5 DEF p, q

(* A sample rate is announced. *)
LEMMA SamplingUnfolds ==
  ASSUME NEW a \in Rates, NEW s \in Seq(Steps)
  PROVE  Unfolds(At(Sampling(a, s), "command", TRUE), {At(Rate(a, s), "rate", TRUE)})
  <1> DEFINE p == At(Sampling(a, s), "command", TRUE)
             q == At(Rate(a, s), "rate", TRUE)
             v == MOUSE_CMD_SET_SAMPLE_RATE
  <1>1. /\ p.steps = Sampling(a, s) /\ p.wants = "command" /\ p.ids = TRUE
        /\ q.steps = Rate(a, s) /\ q.wants = "rate" /\ q.ids = TRUE
    BY DEF At
  <1> HIDE DEF p, q
  <1>2. v \in Val /\ v \notin {MOUSE_CMD_RESET, MOUSE_CMD_GET_DEVICE_ID}
    BY DEF Val, MOUSE_CMD_RESET, MOUSE_CMD_GET_DEVICE_ID, MOUSE_CMD_SET_SAMPLE_RATE
  <1>3. Rate(a, s) \in Seq(Steps)
    BY KnockTyped
  <1>4. Sends(p, v, FALSE, q.steps)
    BY <1>1, <1>2, <1>3, CommandSends DEF Sampling
  <1>5. Plain(p, v, FALSE, q)
    BY <1>1, <1>2, <1>4 DEF Plain
  <1>6. Unfolds(p, {q})
    BY <1>2, <1>5 DEF Unfolds
  <1>7. QED
    BY <1>6 DEF p, q

(* The identity is asked for. *)
LEMMA AskingUnfolds ==
  ASSUME NEW x \in AskedFor
  PROVE  Unfolds(At(Asking(x), "command", TRUE), {At(Settings, "command", FALSE)})
  <1> DEFINE p == At(Asking(x), "command", TRUE)
             q == At(Settings, "command", FALSE)
             v == MOUSE_CMD_GET_DEVICE_ID
  <1>1. /\ p.steps = Asking(x) /\ p.wants = "command" /\ p.ids = TRUE
        /\ q.steps = Settings /\ q.wants = "command" /\ q.ids = FALSE
    BY DEF At
  <1>2. Answers(q, x)
    BY DEF Answers, AskedFor
  <1> HIDE DEF p, q
  <1>3. v \in Val
    BY DEF Val, MOUSE_CMD_GET_DEVICE_ID
  <1>4. Read(x) \o q.steps \in Seq(Steps) /\ q.steps \in Seq(Steps)
    BY <1>1, AskingTyped, SettingsTyped
  <1>5. Sends(p, v, FALSE, Read(x) \o q.steps)
    BY <1>1, <1>3, <1>4, CommandSends DEF Asking
  <1>6. Question(p, v, x, q)
    BY <1>1, <1>2, <1>4, <1>5 DEF Question
  <1>7. x \in Reads
    BY DEF AskedFor, Reads
  <1>8. Unfolds(p, {q})
    BY <1>3, <1>6, <1>7 DEF Unfolds
  <1>9. QED
    BY <1>8 DEF p, q

(* The mouse is reset. *)
LEMMA StartsUnfolds ==
  Unfolds(At(Starts, "command", TRUE), {At(Knocking(200, 100, 80, "id"), "command", TRUE)})
  <1> DEFINE s == Knocking(200, 100, 80, "id")
             p == At(Starts, "command", TRUE)
             q == At(s, "command", TRUE)
             v == MOUSE_CMD_RESET
  <1>1. /\ p.steps = Starts /\ p.wants = "command" /\ p.ids = TRUE
        /\ q.steps = s /\ q.wants = "command" /\ q.ids = TRUE
    BY DEF At
  <1>2. Answers(q, "bat")
    BY DEF Answers
  <1>3. s \in Seq(Steps)
    BY KnockShape, ZenonT(30) DEF Rates, AskedFor
  <1>4. Starts = Command(v) \o (Read("bat") \o s)
    BY DEF Starts
  <1> HIDE DEF p, q, s
  <1>5. v \in Val
    BY DEF Val, MOUSE_CMD_RESET
  <1>6. Read("bat") \o q.steps \in Seq(Steps)
    BY <1>1, <1>3, ReadThen DEF Reads
  <1>7. Sends(p, v, FALSE, Read("bat") \o q.steps)
    BY <1>1, <1>4, <1>5, <1>6, CommandSends
  <1>8. Question(p, v, "bat", q)
    BY <1>1, <1>2, <1>3, <1>7 DEF Question
  <1>9. Unfolds(p, {q})
    <2>1. "bat" \in Reads
      BY DEF Reads
    <2>2. QED
      BY <1>5, <1>8, <2>1 DEF Unfolds
  <1>10. QED
    BY <1>9 DEF p, q, s

(* More places do no harm. *)
LEMMA UnfoldsMore ==
  ASSUME NEW p, NEW q, NEW Q, Unfolds(p, {q}), q \in Q
  PROVE  Unfolds(p, Q)
  <1>1. PICK v \in Val, r \in {q} :
           \/ \E m \in BOOLEAN : Plain(p, v, m, r)
           \/ \E x \in Reads : Question(p, v, x, r)
    BY DEF Unfolds
  <1>2. r \in Q
    OBVIOUS
  <1>3. QED
    BY <1>1, <1>2 DEF Unfolds

(* Within a knock. *)
LEMMA KnockUnfolds ==
  ASSUME NEW a \in Rates, NEW b \in Rates, NEW c \in Rates, NEW x \in AskedFor,
         NEW p \in KnockPlan(a, b, c, x)
  PROVE  Unfolds(p, KnockPlan(a, b, c, x) \cup {At(Settings, "command", FALSE)})
  <1> DEFINE s0 == Asking(x)
             s1 == Sampling(c, s0)
             s2 == Sampling(b, s1)
             s3 == Sampling(a, s2)
             K == KnockPlan(a, b, c, x)
             p0 == At(s0, "command", TRUE)
             p1 == At(Rate(c, s0), "rate", TRUE)
             p2 == At(s1, "command", TRUE)
             p3 == At(Rate(b, s1), "rate", TRUE)
             p4 == At(s2, "command", TRUE)
             p5 == At(Rate(a, s2), "rate", TRUE)
             p6 == At(s3, "command", TRUE)
             end == At(Settings, "command", FALSE)
  <1>1. s0 \in Seq(Steps)
    BY AskingTyped
  <1>2. s1 \in Seq(Steps)
    BY <1>1, KnockTyped
  <1>3. s2 \in Seq(Steps)
    BY <1>2, KnockTyped
  <1>4. K = {p0, p1, p2, p3, p4, p5, p6}
    BY DEF KnockPlan
  <1>5. Unfolds(p0, {end})
    BY AskingUnfolds
  <1>6. Unfolds(p1, {p0}) /\ Unfolds(p2, {p1})
    BY <1>1, RateUnfolds, SamplingUnfolds
  <1>7. Unfolds(p3, {p2}) /\ Unfolds(p4, {p3})
    BY <1>2, RateUnfolds, SamplingUnfolds
  <1>8. Unfolds(p5, {p4}) /\ Unfolds(p6, {p5})
    BY <1>3, RateUnfolds, SamplingUnfolds
  <1> HIDE DEF p0, p1, p2, p3, p4, p5, p6, end, K
  <1>9. p \in {p0, p1, p2, p3, p4, p5, p6}
    BY <1>4 DEF K
  <1> DEFINE Q == K \cup {end}
  <1>10. p0 \in Q /\ p1 \in Q /\ p2 \in Q /\ p3 \in Q /\ p4 \in Q /\ p5 \in Q /\ end \in Q
    BY <1>4
  <1> HIDE DEF Q
  <1>11. Unfolds(p0, Q)
    BY <1>5, <1>10, UnfoldsMore
  <1>12. Unfolds(p1, Q) /\ Unfolds(p2, Q)
    BY <1>6, <1>10, UnfoldsMore
  <1>13. Unfolds(p3, Q) /\ Unfolds(p4, Q)
    BY <1>7, <1>10, UnfoldsMore
  <1>14. Unfolds(p5, Q) /\ Unfolds(p6, Q)
    BY <1>8, <1>10, UnfoldsMore
  <1>15. Unfolds(p, Q)
    BY <1>9, <1>11, <1>12, <1>13, <1>14
  <1>16. QED
    BY <1>15 DEF Q, K, end

(* The settings at the end: none of them changes what the mouse is. *)
LEMMA SettingsUnfold ==
  /\ Unfolds(At(Settings, "command", FALSE), {At(Resolving, "command", FALSE)})
  /\ Unfolds(At(Resolving, "command", FALSE), {At(Resolution, "resolution", FALSE)})
  /\ Unfolds(At(Resolution, "resolution", FALSE), {At(Enabling, "command", FALSE)})
  /\ Unfolds(At(Enabling, "command", FALSE), {At(<<>>, "command", FALSE)})
  <1>1. ASSUME NEW v \in Val, NEW m \in BOOLEAN, NEW s, NEW t \in Seq(Steps),
               NEW w, NEW u, v \notin {MOUSE_CMD_RESET, MOUSE_CMD_GET_DEVICE_ID},
               s = IF m THEN Needed(v) \o t ELSE Command(v) \o t,
               \/ /\ w = "command" /\ u = "command"
                  /\ v \notin {MOUSE_CMD_SET_SAMPLE_RATE, MOUSE_CMD_SET_RESOLUTION}
               \/ w = "command" /\ u = "resolution" /\ v = MOUSE_CMD_SET_RESOLUTION
               \/ w = "resolution" /\ u = "command"
        PROVE  Unfolds(At(s, w, FALSE), {At(t, u, FALSE)})
    <2> DEFINE p == At(s, w, FALSE)
               q == At(t, u, FALSE)
    <2>1. /\ p.steps = s /\ p.wants = w /\ p.ids = FALSE
          /\ q.steps = t /\ q.wants = u /\ q.ids = FALSE
      BY DEF At
    <2> HIDE DEF p, q
    <2>2. Sends(p, v, m, q.steps)
      <3>1. p.steps = Command(v) \o t => Sends(p, v, FALSE, t)
        BY CommandSends
      <3>2. p.steps = Needed(v) \o t => Sends(p, v, TRUE, t)
        BY CommandSends
      <3>3. CASE m = TRUE
        BY <1>1, <2>1, <3>2, <3>3
      <3>4. CASE m = FALSE
        BY <1>1, <2>1, <3>1, <3>4
      <3>5. QED
        BY <3>3, <3>4
    <2>3. Plain(p, v, m, q)
      BY <1>1, <2>1, <2>2 DEF Plain
    <2>4. Unfolds(p, {q})
      BY <2>3 DEF Unfolds
    <2>5. QED
      BY <2>4 DEF p, q
  <1>2. /\ MOUSE_CMD_SET_SCALING1 \in Val /\ MOUSE_CMD_SET_RESOLUTION \in Val
        /\ 0 \in Val /\ MOUSE_CMD_ENABLE \in Val
        /\ \A v \in {MOUSE_CMD_SET_SCALING1, MOUSE_CMD_SET_RESOLUTION, 0, MOUSE_CMD_ENABLE} :
             v \notin {MOUSE_CMD_RESET, MOUSE_CMD_GET_DEVICE_ID}
        /\ \A v \in {MOUSE_CMD_SET_SCALING1, MOUSE_CMD_ENABLE} :
             v \notin {MOUSE_CMD_SET_SAMPLE_RATE, MOUSE_CMD_SET_RESOLUTION}
    BY DEF Val, MOUSE_CMD_RESET, MOUSE_CMD_SET_SAMPLE_RATE, MOUSE_CMD_GET_DEVICE_ID,
           MOUSE_CMD_SET_RESOLUTION, MOUSE_CMD_SET_SCALING1, MOUSE_CMD_ENABLE
  <1>3. Unfolds(At(Settings, "command", FALSE), {At(Resolving, "command", FALSE)})
    BY <1>1, <1>2, SettingsTyped DEF Settings
  <1>4. Unfolds(At(Resolving, "command", FALSE), {At(Resolution, "resolution", FALSE)})
    BY <1>1, <1>2, SettingsTyped DEF Resolving
  <1>5. Unfolds(At(Resolution, "resolution", FALSE), {At(Enabling, "command", FALSE)})
    BY <1>1, <1>2, SettingsTyped DEF Resolution
  <1>6. Unfolds(At(Enabling, "command", FALSE), {At(<<>>, "command", FALSE)})
    <2>1. Enabling = Needed(MOUSE_CMD_ENABLE) \o <<>>
      BY SettingsTyped, ConcatEmptySeq DEF Enabling
    <2>2. <<>> \in Seq(Steps)
      OBVIOUS
    <2>3. QED
      BY <1>1, <1>2, <2>1, <2>2
  <1>7. QED
    BY <1>3, <1>4, <1>5, <1>6

(* Every command of the plan is one the mouse takes as it is meant, and leads to
   another place of the plan. *)
LEMMA PlanUnfolds ==
  ASSUME NEW p \in Plan
  PROVE  \/ p = At(<<>>, "command", FALSE)
         \/ Unfolds(p, Plan)
  <1> DEFINE K1 == KnockPlan(200, 100, 80, "id")
             K2 == KnockPlan(200, 200, 80, "id again")
             e0 == At(<<>>, "command", FALSE)
             e1 == At(Enabling, "command", FALSE)
             e2 == At(Resolution, "resolution", FALSE)
             e3 == At(Resolving, "command", FALSE)
             e4 == At(Settings, "command", FALSE)
             st == At(Starts, "command", TRUE)
             k  == At(Knocking(200, 100, 80, "id"), "command", TRUE)
  <1>1. Plan = {e0, e1, e2, e3, e4, st} \cup K1 \cup K2
    BY DEF Plan
  <1>2. k \in K1
    BY DEF KnockPlan, Knocking
  <1>3. Unfolds(st, {k})
    BY StartsUnfolds
  <1>4. Unfolds(e4, {e3}) /\ Unfolds(e3, {e2}) /\ Unfolds(e2, {e1}) /\ Unfolds(e1, {e0})
    BY SettingsUnfold
  <1>5. \A r \in K1 : Unfolds(r, K1 \cup {e4})
    BY KnockUnfolds, ZenonT(30) DEF Rates, AskedFor
  <1>6. \A r \in K2 : Unfolds(r, K2 \cup {e4})
    BY KnockUnfolds DEF Rates, AskedFor
  <1> HIDE DEF K1, K2, e0, e1, e2, e3, e4, st, k
  <1>7. k \in Plan /\ e0 \in Plan /\ e1 \in Plan /\ e2 \in Plan /\ e3 \in Plan
        /\ K1 \cup {e4} \subseteq Plan /\ K2 \cup {e4} \subseteq Plan
    BY <1>1, <1>2
  <1>8. Unfolds(st, Plan) /\ Unfolds(e4, Plan) /\ Unfolds(e3, Plan)
        /\ Unfolds(e2, Plan) /\ Unfolds(e1, Plan)
    BY <1>3, <1>4, <1>7, UnfoldsMore
  <1>9. \A r, Q : Unfolds(r, Q) /\ Q \subseteq Plan => Unfolds(r, Plan)
    BY DEF Unfolds
  <1>10. \A r \in K1 \cup K2 : Unfolds(r, Plan)
    BY <1>5, <1>6, <1>7, <1>9
  <1>11. p = e0 \/ p \in {e1, e2, e3, e4, st} \/ p \in K1 \cup K2
    BY <1>1
  <1>12. p = e0 \/ Unfolds(p, Plan)
    BY <1>8, <1>10, <1>11
  <1>13. QED
    BY <1>12 DEF e0

-----------------------------------------------------------------------------
(* In step: the bytes under way                                            *)

(* The bytes the mouse has sent are those of its queue, behind the one in the buffer
   when that is the mouse's. *)
LEMMA ComingIs ==
  ASSUME Typed
  PROVE  /\ Coming \in Seq(From("mouse"))
         /\ buf.full /\ buf.byte.src = "mouse" =>
              /\ Coming = <<buf.byte>> \o queue.mouse /\ Coming # <<>>
              /\ Head(Coming) = buf.byte /\ Tail(Coming) = queue.mouse
         /\ ~(buf.full /\ buf.byte.src = "mouse") => Coming = queue.mouse
  <1>1. queue.mouse \in Seq(From("mouse"))
    BY DEF Typed, Queues
  <1>2. CASE buf.full /\ buf.byte.src = "mouse"
    <2>1. buf.byte \in From("mouse")
      BY <1>2 DEF Typed, Bytes, From
    <2>2. Coming = <<buf.byte>> \o queue.mouse
      BY <1>2 DEF Coming
    <2>3. QED
      BY <1>1, <1>2, <2>1, <2>2, ByteThen
  <1>3. CASE ~(buf.full /\ buf.byte.src = "mouse")
    <2>1. Coming = <<>> \o queue.mouse
      BY <1>3 DEF Coming
    <2>2. QED
      BY <1>1, <1>3, <2>1, ConcatEmptySeq
  <1>4. QED
    BY <1>2, <1>3

(* Reading the buffer takes the first of them. *)
LEMMA TakeTakes ==
  ASSUME Typed, Typed', buf.full, buf.byte.src = "mouse",
         buf' = [buf EXCEPT !.full = FALSE], queue'.mouse = queue.mouse
  PROVE  /\ Coming # <<>> /\ Head(Coming) = buf.byte /\ Coming' = Tail(Coming)
         /\ Coming \in Seq(From("mouse")) /\ ~buf'.full
  <1>1. ~buf'.full
    BY DEF Typed
  <1>2. Coming' = queue'.mouse
    <2>1. Coming' = <<>> \o queue'.mouse
      BY <1>1 DEF Coming
    <2>2. queue'.mouse \in Seq(From("mouse"))
      BY DEF Typed, Queues
    <2>3. QED
      BY <2>1, <2>2, ConcatEmptySeq
  <1>3. QED
    BY <1>1, <1>2, ComingIs

(* A byte on its way into the buffer is still coming. *)
LEMMA DeliverKeepsComing ==
  ASSUME Typed, Typed', Deliver("mouse")
  PROVE  /\ Coming' = Coming /\ buf'.full /\ buf'.byte.src = "mouse"
         /\ buf'.byte = Head(queue.mouse) /\ queue'.mouse = Tail(queue.mouse)
         /\ queue.mouse # <<>> /\ Coming = queue.mouse
         /\ queue'.kbd = queue.kbd /\ queue'.ctl = queue.ctl
  <1> DEFINE q == queue.mouse
  <1>1. q \in Seq(From("mouse")) /\ q # <<>>
    BY DEF Typed, Queues, Deliver, Ready
  <1>2. Head(q) \in From("mouse") /\ Tail(q) \in Seq(From("mouse"))
    BY <1>1, HeadTailProperties
  <1>3. buf' = [full |-> TRUE, byte |-> Head(q)] /\ queue' = [queue EXCEPT !.mouse = Tail(q)]
    BY DEF Deliver
  <1>4. Coming = q
    BY ComingIs DEF Deliver
  <1> HIDE DEF q
  <1>5. buf'.full /\ buf'.byte = Head(q) /\ buf'.byte.src = "mouse"
    BY <1>2, <1>3 DEF From
  <1>6. queue'.mouse = Tail(q) /\ queue'.kbd = queue.kbd /\ queue'.ctl = queue.ctl
    BY <1>3 DEF Typed, Queues
  <1>7. Coming' = <<Head(q)>> \o Tail(q)
    BY <1>5, <1>6 DEF Coming
  <1>8. <<Head(q)>> \o Tail(q) = q
    <2> DEFINE s == <<Head(q)>> \o Tail(q)
               h == Head(q)
               t == Tail(q)
    <2>1. s \in Seq(From("mouse")) /\ s # <<>> /\ Head(s) = h /\ Tail(s) = t
      BY <1>2, ByteThen
    <2> HIDE DEF s
    <2>2. /\ Len(Tail(s)) = Len(s) - 1 /\ \A i \in 1 .. Len(Tail(s)) : Tail(s)[i] = s[i + 1]
      BY <2>1, HeadTailProperties
    <2>3. /\ Len(Tail(q)) = Len(q) - 1 /\ \A i \in 1 .. Len(Tail(q)) : Tail(q)[i] = q[i + 1]
      BY <1>1, HeadTailProperties
    <2>4. Len(s) = Len(q) /\ Len(s) \in Nat
      <3>1. Len(s) \in Nat /\ Len(q) \in Nat
        BY <1>1, <2>1
      <3>2. Len(s) - 1 = Len(t) /\ Len(q) - 1 = Len(t)
        BY <2>1, <2>2, <2>3
      <3> HIDE DEF t
      <3>3. QED
        BY <3>1, <3>2
    <2>5. \A i \in 1 .. Len(s) : s[i] = q[i]
      <3>1. s[1] = q[1]
        BY <1>1, <2>1
      <3>2. ASSUME NEW i \in 1 .. Len(s), i # 1 PROVE s[i] = q[i]
        <4>1. i - 1 \in 1 .. Len(t) /\ (i - 1) + 1 = i
          BY <2>3, <2>4, <3>2
        <4>2. QED
          BY <2>1, <2>2, <2>3, <4>1
      <3>3. QED
        BY <3>1, <3>2
    <2>6. s = q
      BY <1>1, <2>1, <2>4, <2>5, SeqEqual
    <2>7. QED
      BY <2>6 DEF s
  <1>9. QED
    BY <1>1, <1>4, <1>5, <1>6, <1>7, <1>8 DEF q

(* Whether the acknowledgement comes first, or what is before it is thrown away. *)
LEMMA HeardAck ==
  ASSUME NEW t \in Seq(From("mouse")), NEW s \in Seq(From("mouse")), Heard(s, t)
  PROVE  /\ s # <<>>
         /\ Head(s).val = ACK => Tail(s) = t
         /\ Head(s).val # ACK => Heard(Tail(s), t)
  <1> DEFINE a == Reply("mouse", ACK)
  <1>1. a \in From("mouse") /\ a.val = ACK
    BY DEF Reply, Byte, From, Val, ACK
  <1> HIDE DEF a
  <1>2. CASE s = <<a>> \o t
    BY <1>1, <1>2, ByteThen
  <1>3. CASE s # <<>> /\ Head(s).val # ACK /\ Tail(s) = <<a>> \o t
    BY <1>3 DEF Heard, a
  <1>4. QED
    BY <1>2, <1>3 DEF Heard, a

(* What is told are bytes of the mouse, and no acknowledgement. *)
LEMMA SaidIs ==
  ASSUME NEW id \in Ids
  PROVE  LET b == Reply("mouse", BAT_OK)
             i == Reply("mouse", id)
         IN  /\ b \in From("mouse") /\ i \in From("mouse")
             /\ b.val = BAT_OK /\ i.val = id /\ id # ACK /\ BAT_OK # ACK
             /\ Said("bat", id) = <<b, i>> /\ Said("bat", id) \in Seq(From("mouse"))
             /\ \A x \in AskedFor : Said(x, id) = <<i>> /\ Said(x, id) \in Seq(From("mouse"))
  <1> DEFINE b == Reply("mouse", BAT_OK)
             i == Reply("mouse", id)
  <1>1. b \in From("mouse") /\ b.val = BAT_OK
    BY DEF Reply, Byte, From, Val, BAT_OK
  <1>2. i \in From("mouse") /\ i.val = id
    BY DEF Reply, Byte, From, Val, Ids
  <1>3. id # ACK /\ BAT_OK # ACK
    BY DEF Ids, ACK, BAT_OK
  <1>4. Said("bat", id) = <<b, i>>
    BY DEF Said
  <1>5. \A x \in AskedFor : Said(x, id) = <<i>>
    BY DEF Said, AskedFor
  <1> HIDE DEF b, i
  <1>6. <<b, i>> \in Seq(From("mouse")) /\ <<i>> \in Seq(From("mouse"))
    BY <1>1, <1>2
  <1>7. QED
    BY <1>1, <1>2, <1>3, <1>4, <1>5, <1>6 DEF b, i

-----------------------------------------------------------------------------
(* In step: what the mouse makes of a command                              *)

(* What a mouse takes the next byte for, and what it is afterwards. *)
LEMMA ObeyDoes ==
  ASSUME NEW m \in Mice, NEW v \in Val
  PROVE  /\ Obey(m, v).kind = m.kind
         /\ m.wants = "rate" => Obey(m, v).wants = "command"
         /\ m.wants = "resolution" => Obey(m, v).wants = "command" /\ Obey(m, v).id = m.id
         /\ m.wants = "command" =>
              /\ v = MOUSE_CMD_SET_SAMPLE_RATE =>
                   Obey(m, v).wants = "rate" /\ Obey(m, v).id = m.id
              /\ v = MOUSE_CMD_SET_RESOLUTION =>
                   Obey(m, v).wants = "resolution" /\ Obey(m, v).id = m.id
              /\ v = MOUSE_CMD_RESET =>
                   Obey(m, v).wants = "command" /\ Obey(m, v).id = NativeId(m.kind)
              /\ v \notin {MOUSE_CMD_SET_SAMPLE_RATE, MOUSE_CMD_SET_RESOLUTION, MOUSE_CMD_RESET} =>
                   Obey(m, v).wants = "command" /\ Obey(m, v).id = m.id
  <1>1. CASE m.wants = "rate"
    BY <1>1 DEF Obey, Mice
  <1>2. CASE m.wants = "resolution"
    BY <1>2 DEF Obey, Mice
  <1>3. CASE m.wants = "command"
    <2>1. /\ MOUSE_CMD_SET_SAMPLE_RATE # MOUSE_CMD_SET_RESOLUTION
          /\ MOUSE_CMD_SET_SAMPLE_RATE # MOUSE_CMD_RESET
          /\ MOUSE_CMD_SET_RESOLUTION # MOUSE_CMD_RESET
          /\ MOUSE_CMD_ENABLE \notin {MOUSE_CMD_SET_SAMPLE_RATE, MOUSE_CMD_SET_RESOLUTION,
                                      MOUSE_CMD_RESET}
      BY DEF MOUSE_CMD_SET_SAMPLE_RATE, MOUSE_CMD_SET_RESOLUTION, MOUSE_CMD_RESET,
             MOUSE_CMD_ENABLE
    <2>2. CASE v = MOUSE_CMD_SET_SAMPLE_RATE
      <3>1. Obey(m, v) = [m EXCEPT !.wants = "rate"]
        BY <1>3, <2>1, <2>2 DEF Obey
      <3>2. QED
        BY <1>3, <2>1, <2>2, <3>1 DEF Mice
    <2>3. CASE v = MOUSE_CMD_SET_RESOLUTION
      <3>1. Obey(m, v) = [m EXCEPT !.wants = "resolution"]
        BY <1>3, <2>1, <2>3 DEF Obey
      <3>2. QED
        BY <1>3, <2>1, <2>3, <3>1 DEF Mice
    <2>4. CASE v = MOUSE_CMD_RESET
      <3>1. Obey(m, v) = [m EXCEPT !.rates = <<>>, !.id = NativeId(m.kind), !.reporting = FALSE]
        BY <1>3, <2>1, <2>4 DEF Obey
      <3>2. QED
        BY <1>3, <2>1, <2>4, <3>1 DEF Mice
    <2>5. CASE v \notin {MOUSE_CMD_SET_SAMPLE_RATE, MOUSE_CMD_SET_RESOLUTION, MOUSE_CMD_RESET}
      <3>1. Obey(m, v) = m \/ Obey(m, v) = [m EXCEPT !.reporting = TRUE]
        BY <1>3, <2>1, <2>5 DEF Obey
      <3>2. QED
        BY <1>3, <2>1, <2>5, <3>1 DEF Mice
    <2>6. QED
      BY <2>2, <2>3, <2>4, <2>5
  <1>4. QED
    BY <1>1, <1>2, <1>3 DEF Mice

(* Three bytes are one and two more. *)
LEMMA ThreeBytes ==
  ASSUME NEW x \in From("mouse"), NEW y \in From("mouse"), NEW z \in From("mouse")
  PROVE  <<x, y, z>> = <<x>> \o <<y, z>> /\ <<x, y>> = <<x>> \o <<y>>
  <1> DEFINE S == From("mouse")
  <1>1. ASSUME NEW c \in Seq(S), NEW r \in Seq(S), Len(c) = Len(r) + 1, c[1] = x,
               \A i \in 1 .. Len(r) : c[i + 1] = r[i]
        PROVE  c = <<x>> \o r
    <2> DEFINE s == <<x>> \o r
    <2>1. s \in Seq(S) /\ s # <<>> /\ Head(s) = x /\ Tail(s) = r
      BY FirstThen
    <2> HIDE DEF s
    <2>2. Len(Tail(s)) = Len(s) - 1 /\ \A i \in 1 .. Len(Tail(s)) : Tail(s)[i] = s[i + 1]
      BY <2>1, HeadTailProperties
    <2>3. Len(s) \in Nat /\ Len(c) \in Nat /\ Len(r) \in Nat
      BY <1>1, <2>1
    <2>4. Len(s) = Len(c)
      <3>1. Len(s) - 1 = Len(r)
        BY <2>1, <2>2
      <3>2. QED
        BY <1>1, <2>3, <3>1
    <2>5. \A i \in 1 .. Len(c) : c[i] = s[i]
      <3>1. c[1] = s[1]
        BY <1>1, <2>1
      <3>2. ASSUME NEW i \in 1 .. Len(c), i # 1 PROVE c[i] = s[i]
        <4>1. i - 1 \in 1 .. Len(r) /\ (i - 1) + 1 = i
          BY <1>1, <2>3, <3>2
        <4>2. c[i] = r[i - 1] /\ s[i] = r[i - 1]
          BY <1>1, <2>1, <2>2, <4>1
        <4>3. QED
          BY <4>2
      <3>3. QED
        BY <3>1, <3>2
    <2>6. c = s
      BY <1>1, <2>1, <2>4, <2>5, SeqEqual
    <2>7. QED
      BY <2>6 DEF s
  <1> DEFINE c3 == <<x, y, z>>
             c2 == <<x, y>>
             r2 == <<y, z>>
             r1 == <<y>>
  <1>2. /\ c3 \in Seq(S) /\ Len(c3) = 3 /\ c3[1] = x /\ c3[2] = y /\ c3[3] = z
        /\ c2 \in Seq(S) /\ Len(c2) = 2 /\ c2[1] = x /\ c2[2] = y
        /\ r2 \in Seq(S) /\ Len(r2) = 2 /\ r2[1] = y /\ r2[2] = z
        /\ r1 \in Seq(S) /\ Len(r1) = 1 /\ r1[1] = y
    OBVIOUS
  <1> HIDE DEF c3, c2, r2, r1, S
  <1>3. c3 = <<x>> \o r2
    <2>1. \A i \in 1 .. Len(r2) : c3[i + 1] = r2[i]
      BY <1>2
    <2>2. c3 \in Seq(S) /\ r2 \in Seq(S) /\ Len(c3) = Len(r2) + 1 /\ c3[1] = x
      BY <1>2
    <2>3. QED
      BY <1>1, <2>1, <2>2
  <1>4. c2 = <<x>> \o r1
    <2>1. \A i \in 1 .. Len(r1) : c2[i + 1] = r1[i]
      BY <1>2
    <2>2. c2 \in Seq(S) /\ r1 \in Seq(S) /\ Len(c2) = Len(r1) + 1 /\ c2[1] = x
      BY <1>2
    <2>3. QED
      BY <1>1, <2>1, <2>2
  <1>5. QED
    BY <1>3, <1>4 DEF c3, c2, r2, r1

(* The mouse acknowledges everything, and says more when it was asked. *)
LEMMA AnswerDoes ==
  ASSUME NEW m \in Mice, m.kind # "none", NEW v \in Val
  PROVE  LET a == <<Reply("mouse", ACK)>>
         IN  /\ ~(m.wants = "command" /\ v \in {MOUSE_CMD_RESET, MOUSE_CMD_GET_DEVICE_ID}) =>
                  Answer(m, v) = a \o <<>>
             /\ m.wants = "command" /\ v = MOUSE_CMD_RESET =>
                  Answer(m, v) = a \o Said("bat", NativeId(m.kind))
             /\ m.wants = "command" /\ v = MOUSE_CMD_GET_DEVICE_ID =>
                  \A x \in AskedFor : Answer(m, v) = a \o Said(x, m.id)
  <1> DEFINE r == Reply("mouse", ACK)
             a == <<r>>
             b == Reply("mouse", BAT_OK)
             n == Reply("mouse", NativeId(m.kind))
             i == Reply("mouse", m.id)
  <1>1. m.id \in Ids /\ NativeId(m.kind) \in Ids
    BY DEF Mice, NativeId, Ids
  <1>2. MOUSE_CMD_RESET # MOUSE_CMD_GET_DEVICE_ID
    BY DEF MOUSE_CMD_RESET, MOUSE_CMD_GET_DEVICE_ID
  <1>3. r \in From("mouse")
    BY DEF Reply, Byte, From, Val, ACK
  <1>4. b \in From("mouse") /\ n \in From("mouse") /\ i \in From("mouse")
        /\ Said("bat", NativeId(m.kind)) = <<b, n>>
        /\ \A x \in AskedFor : Said(x, m.id) = <<i>>
    BY <1>1, SaidIs
  <1>5. /\ m.wants = "command" /\ v = MOUSE_CMD_RESET => Answer(m, v) = <<r, b, n>>
        /\ m.wants = "command" /\ v = MOUSE_CMD_GET_DEVICE_ID => Answer(m, v) = <<r, i>>
        /\ ~(m.wants = "command" /\ v \in {MOUSE_CMD_RESET, MOUSE_CMD_GET_DEVICE_ID}) =>
             Answer(m, v) = <<r>>
    BY <1>2 DEF Answer
  <1> HIDE DEF r, b, n, i
  <1>6. <<r, b, n>> = a \o <<b, n>> /\ <<r, i>> = a \o <<i>>
    BY <1>3, <1>4, ThreeBytes
  <1>7. a = a \o <<>>
    <2>1. a \in Seq(From("mouse"))
      BY <1>3
    <2>2. QED
      BY <2>1, ConcatEmptySeq
  <1>8. QED
    BY <1>4, <1>5, <1>6, <1>7 DEF r

(* Behind at most one byte nobody read, the acknowledgement is heard. *)
LEMMA HeardAfter ==
  ASSUME Typed, Typed', NEW t \in Seq(From("mouse")), NEW rest, rest = queue.mouse \/ rest = <<>>,
         buf' = buf, queue'.mouse = rest \o (<<Reply("mouse", ACK)>> \o t),
         buf.full => buf.byte.src = "mouse", Coming = <<>> \/ Stray(Coming)
  PROVE  Heard(Coming', t)
  <1> DEFINE a == <<Reply("mouse", ACK)>> \o t
             q == queue.mouse
             M == From("mouse")
  <1>1. a \in Seq(M)
    <2>1. Reply("mouse", ACK) \in From("mouse")
      BY DEF Reply, Byte, From, Val, ACK
    <2>2. QED
      BY <2>1, ByteThen
  <1>2. q \in Seq(M) /\ queue'.mouse \in Seq(M)
    BY DEF Typed, Queues
  <1>3. <<>> \o a = a
    BY <1>1, ConcatEmptySeq
  <1>4. Coming' = IF buf.full THEN <<buf.byte>> \o queue'.mouse ELSE queue'.mouse
    <2>1. CASE buf.full
      BY <2>1 DEF Coming
    <2>2. CASE ~buf.full
      <3>1. Coming' = <<>> \o queue'.mouse
        BY <2>2 DEF Coming
      <3>2. QED
        BY <1>2, <2>2, <3>1, ConcatEmptySeq
    <2>3. QED
      BY <2>1, <2>2
  <1>5. CASE buf.full
    <2>1. Coming # <<>> /\ Head(Coming) = buf.byte /\ Tail(Coming) = q /\ Coming \in Seq(M)
      BY <1>5, ComingIs
    <2>2. Len(Coming) = 1 /\ buf.byte.val # ACK
      BY <2>1 DEF Stray
    <2>3. q = <<>>
      <3>1. Len(q) = Len(Coming) - 1
        BY <2>1, HeadTailProperties
      <3>2. QED
        BY <1>2, <2>2, <3>1
    <2>4. queue'.mouse = a
      BY <1>3, <2>3
    <2>5. buf.byte \in M
      BY <1>5 DEF Typed, Bytes, From
    <2> HIDE DEF a
    <2>6. Coming' # <<>> /\ Head(Coming') = buf.byte /\ Tail(Coming') = a
      BY <1>1, <1>4, <1>5, <2>4, <2>5, ByteThen
    <2>7. QED
      BY <2>2, <2>6 DEF Heard, a
  <1>6. CASE ~buf.full /\ rest = <<>>
    BY <1>3, <1>4, <1>6 DEF Heard
  <1>7. CASE ~buf.full /\ rest = q /\ q # <<>>
    <2>1. Coming = q
      BY <1>7, ComingIs
    <2>2. Len(q) = 1 /\ Head(q).val # ACK
      BY <1>7, <2>1 DEF Stray
    <2> DEFINE h == Head(q)
    <2>3. q = <<h>> /\ h \in M
      <3>1. h \in M
        BY <1>2, <1>7, HeadTailProperties
      <3> HIDE DEF q
      <3>2. <<h>> \in Seq(M) /\ Len(<<h>>) = 1 /\ <<h>>[1] = q[1]
        BY <3>1
      <3>3. \A k \in 1 .. Len(q) : q[k] = <<h>>[k]
        BY <2>2, <3>2
      <3>4. q = <<h>>
        BY <1>2, <2>2, <3>2, <3>3, SeqEqual
      <3>5. QED
        BY <3>1, <3>4
    <2> HIDE DEF a
    <2>4. Coming' = q \o a
      BY <1>4, <1>7 DEF a
    <2> HIDE DEF q
    <2>5. h.val # ACK
      BY <2>2
    <2> HIDE DEF h
    <2>6. Coming' = <<h>> \o a
      BY <2>3, <2>4
    <2>7. Coming' # <<>> /\ Head(Coming') = h /\ Tail(Coming') = a
      BY <1>1, <2>3, <2>6, ByteThen
    <2>8. QED
      BY <2>5, <2>7 DEF Heard, a
  <1>8. QED
    BY <1>5, <1>6, <1>7

(* What remains of the script is empty at the end, and begins with a command before. *)
LEMMA PlanTyped ==
  ASSUME NEW p \in Plan
  PROVE  /\ p.steps \in Seq(Steps)
         /\ p.steps = <<>> => p = At(<<>>, "command", FALSE)
         /\ p.steps # <<>> => Head(p.steps).do = "write" /\ Unfolds(p, Plan)
  <1>1. CASE p = At(<<>>, "command", FALSE)
    <2>1. p.steps = <<>> /\ <<>> \in Seq(Steps)
      BY <1>1 DEF At
    <2>2. p.steps \in Seq(Steps)
      BY <2>1
    <2>3. QED
      BY <1>1, <2>1, <2>2
  <1>2. CASE Unfolds(p, Plan)
    BY <1>2 DEF Unfolds, Plain, Question, Sends
  <1>3. QED
    BY <1>1, <1>2, PlanUnfolds

(* Where the driver is in the script says what it does next. *)
LEMMA NowDoing ==
  ASSUME Typed, Talking, mouse.kind # "none"
  PROVE  \E p \in Plan :
           /\ mouse.wants = p.wants /\ p.steps \in Seq(Steps)
           /\ \/ /\ Between(p)
                 /\ todo = <<>> => p = At(<<>>, "command", FALSE)
                 /\ todo # <<>> => Head(todo).do = "write" /\ Unfolds(p, Plan)
              \/ /\ Awaiting(p) /\ todo # <<>> /\ Head(todo).do = "ack"
                 /\ Tail(todo) = p.steps
              \/ \E x \in Reads :
                   /\ Answers(p, x)
                   /\ \/ /\ Asked(p, x) /\ todo # <<>> /\ Head(todo).do = "ack"
                         /\ Tail(todo) = Read(x) \o p.steps
                      \/ /\ Reading(p, x) /\ todo # <<>> /\ Head(todo).do = x
                         /\ Tail(todo) = p.steps
  <1>1. PICK p \in Plan :
           /\ mouse.wants = p.wants
           /\ \/ Between(p) \/ Awaiting(p)
              \/ \E x \in Reads :
                   Answers(p, x) /\ (Asked(p, x) \/ Reading(p, x))
    BY DEF Talking
  <1>2. p.steps \in Seq(Steps)
    BY PlanTyped
  <1>3. CASE Between(p)
    <2>1. todo = p.steps
      BY <1>3 DEF Between
    <2>2. QED
      BY <1>1, <1>2, <1>3, <2>1, PlanTyped
  <1>4. CASE Awaiting(p)
    <2>1. PICK m \in BOOLEAN : todo = Ack(m) \o p.steps
      BY <1>4 DEF Awaiting
    <2>2. todo # <<>> /\ Tail(todo) = p.steps /\ Head(todo).do = "ack"
      BY <1>2, <2>1, AckThen
    <2>3. QED
      BY <1>1, <1>2, <1>4, <2>2
  <1>5. ASSUME NEW x \in Reads, Answers(p, x), Asked(p, x) \/ Reading(p, x)
        PROVE  /\ Asked(p, x) => /\ todo # <<>> /\ Head(todo).do = "ack"
                                 /\ Tail(todo) = Read(x) \o p.steps
               /\ Reading(p, x) => /\ todo # <<>> /\ Head(todo).do = x
                                   /\ Tail(todo) = p.steps
    <2> DEFINE s == Read(x) \o p.steps
    <2>1. s \in Seq(Steps) /\ s # <<>> /\ Tail(s) = p.steps /\ Head(s).do = x
      BY <1>2, ReadThen
    <2>2. Reading(p, x) => todo = s
      BY DEF Reading
    <2>3. Asked(p, x) => todo = Ack(FALSE) \o s
      BY DEF Asked
    <2> HIDE DEF s
    <2>4. Asked(p, x) => todo # <<>> /\ Head(todo).do = "ack" /\ Tail(todo) = s
      BY <2>1, <2>3, AckThen
    <2>5. QED
      BY <2>1, <2>2, <2>4 DEF s
  <1>6. QED
    BY <1>1, <1>2, <1>3, <1>4, <1>5

(* A command is sent: what follows is its acknowledgement, and its answer. *)
LEMMA WriteTalks ==
  ASSUME Typed, Typed', Talking, Write
  PROVE  Talking'
  <1>1. /\ ctl' = ctl /\ buf' = buf /\ drv' = drv /\ pc = "mouse"
        /\ todo # <<>> /\ Head(todo).do = "write" /\ todo' = Tail(todo)
    BY DEF Write, Doing
  <1> DEFINE arg == Head(todo).arg
  <1>2. PICK rest :
           /\ rest = queue.mouse \/ rest = <<>>
           /\ queue' = [queue EXCEPT !.mouse = rest \o Answer(mouse, arg)]
    BY DEF Write
  <1>3. /\ queue'.kbd = <<>> /\ queue'.ctl = <<>>
        /\ queue'.mouse = rest \o Answer(mouse, arg)
    BY <1>2 DEF Typed, Queues, Talking
  <1>4. ctl'.ports = {"kbd", "mouse"} /\ (buf'.full => buf'.byte.src = "mouse")
    BY <1>1 DEF Talking
  <1>5. mouse \in Mice /\ mouse.id \in Ids
    BY DEF Typed, Mice
  <1>6. CASE mouse.kind = "none"
    <2>0. mouse' = mouse
      BY <1>6 DEF Write
    <2> HIDE DEF arg
    <2>1. mouse' = mouse /\ Answer(mouse, arg) = <<>>
      BY <1>6, <2>0 DEF Answer
    <2>2. Coming = <<>> /\ ~mouse.reporting
      BY <1>6 DEF Talking
    <2>3. ~buf.full /\ queue.mouse = <<>>
      BY <2>2, ComingIs DEF Talking
    <2>4. queue'.mouse = <<>>
      <3>1. rest = <<>>
        BY <1>2, <2>3
      <3>2. <<>> \o <<>> = <<>>
        OBVIOUS
      <3>3. QED
        BY <1>3, <2>1, <3>1, <3>2
    <2>5. Coming' = <<>>
      BY <1>1, <2>3, <2>4 DEF Coming
    <2>6. QED
      BY <1>3, <1>4, <1>6, <2>1, <2>2, <2>5 DEF Talking
  <1>7. CASE mouse.kind # "none"
    <2>1. PICK p \in Plan :
             mouse.wants = p.wants /\ Between(p) /\ Unfolds(p, Plan)
      BY <1>1, <1>7, NowDoing DEF Reads
    <2>2. PICK v \in Val, q \in Plan :
             \/ \E m \in BOOLEAN : Plain(p, v, m, q)
             \/ \E x \in Reads : Question(p, v, x, q)
      BY <2>1 DEF Unfolds
    <2>3. todo = p.steps /\ Detected(p.ids) /\ (Coming = <<>> \/ Stray(Coming))
      BY <2>1 DEF Between
    <2>4. arg = v
      BY <2>2, <2>3 DEF Plain, Question, Sends
    <2> HIDE DEF arg
    <2>5. mouse' = Obey(mouse, v)
      BY <1>7, <2>4 DEF Write, arg
    <2>6. mouse'.kind = mouse.kind
      BY <1>5, <2>5, ObeyDoes
    <2> DEFINE a == <<Reply("mouse", ACK)>>
    <2>7. ASSUME NEW t \in Seq(From("mouse")), Answer(mouse, v) = a \o t
          PROVE  Heard(Coming', t)
      <3>1. queue'.mouse = rest \o (a \o t)
        BY <1>3, <2>4, <2>7
      <3>2. buf.full => buf.byte.src = "mouse"
        BY DEF Talking
      <3>3. QED
        BY <1>1, <1>2, <2>3, <2>7, <3>1, <3>2, HeardAfter
    <2>8. CASE \E m \in BOOLEAN : Plain(p, v, m, q)
      <3>1. PICK m \in BOOLEAN : Plain(p, v, m, q)
        BY <2>8
      <3>2. todo' = Ack(m) \o q.steps
        BY <1>1, <2>3, <3>1 DEF Plain, Sends
      <3>3. Answer(mouse, v) = a \o <<>>
        BY <1>5, <1>7, <3>1, AnswerDoes DEF Plain
      <3>4. Heard(Coming', <<>>)
        <4>1. <<>> \in Seq(From("mouse"))
          OBVIOUS
        <4>2. QED
          BY <2>7, <3>3, <4>1
      <3>5. mouse'.wants = q.wants /\ (~p.ids => mouse'.id = mouse.id)
        BY <1>5, <2>1, <2>5, <3>1, ObeyDoes DEF Plain
      <3>6. Detected(q.ids)'
        <4>1. q.ids = p.ids
          BY <3>1 DEF Plain
        <4>2. QED
          BY <1>1, <2>3, <3>5, <4>1 DEF Detected
      <3>7. Awaiting(q)'
        BY <3>2, <3>4, <3>6 DEF Awaiting
      <3>8. QED
        BY <1>3, <1>4, <1>7, <2>2, <2>6, <3>5, <3>7 DEF Talking
    <2>9. CASE \E x \in Reads : Question(p, v, x, q)
      <3>1. PICK x \in Reads : Question(p, v, x, q)
        BY <2>9
      <3>2. todo' = Ack(FALSE) \o (Read(x) \o q.steps) /\ Answers(q, x)
        BY <1>1, <2>3, <3>1 DEF Question, Sends
      <3>3. p.wants = "command" /\ q.wants = "command"
            /\ \/ v = MOUSE_CMD_RESET /\ x = "bat"
               \/ v = MOUSE_CMD_GET_DEVICE_ID /\ x \in AskedFor
        BY <3>1 DEF Question
      <3>4. /\ mouse'.wants = "command"
            /\ v = MOUSE_CMD_RESET => mouse'.id = NativeId(mouse.kind)
            /\ v = MOUSE_CMD_GET_DEVICE_ID => mouse'.id = mouse.id
        <4>1. MOUSE_CMD_GET_DEVICE_ID \notin
                {MOUSE_CMD_SET_SAMPLE_RATE, MOUSE_CMD_SET_RESOLUTION, MOUSE_CMD_RESET}
              /\ MOUSE_CMD_RESET \notin {MOUSE_CMD_SET_SAMPLE_RATE, MOUSE_CMD_SET_RESOLUTION}
          BY DEF MOUSE_CMD_SET_SAMPLE_RATE, MOUSE_CMD_SET_RESOLUTION, MOUSE_CMD_RESET,
                 MOUSE_CMD_GET_DEVICE_ID
        <4>2. QED
          BY <1>5, <2>1, <2>5, <3>3, <4>1, ObeyDoes
      <3>5. Answer(mouse, v) = a \o Said(x, mouse'.id)
        BY <1>5, <1>7, <2>1, <3>3, <3>4, AnswerDoes
      <3>6. mouse'.id \in Ids
        BY DEF Typed, Mice
      <3>7. Said(x, mouse'.id) \in Seq(From("mouse"))
        BY <3>3, <3>6, SaidIs
      <3>8. Heard(Coming', Told(x)')
        BY <2>7, <3>5, <3>7 DEF Told
      <3>9. Asked(q, x)'
        BY <3>2, <3>8 DEF Asked
      <3>10. mouse'.wants = q.wants
        BY <3>3, <3>4
      <3>11. QED
        BY <1>3, <1>4, <1>7, <2>2, <2>6, <3>1, <3>2, <3>9, <3>10 DEF Talking
    <2>10. QED
      BY <2>2, <2>8, <2>9
  <1>8. QED
    BY <1>6, <1>7

(* While the mouse is spoken to, an empty buffer and no byte to come is silence; and
   the byte in the buffer is the first one coming. *)
LEMMA TalkingTake ==
  ASSUME Typed, Typed', Talking, UNCHANGED <<ctl, queue, mouse>>
  PROVE  /\ Silent => Coming = <<>>
         /\ Take => /\ Coming # <<>> /\ Head(Coming) = buf.byte /\ Coming' = Tail(Coming)
                    /\ Coming \in Seq(From("mouse")) /\ ~buf'.full
         /\ ctl'.ports = {"kbd", "mouse"} /\ queue'.kbd = <<>> /\ queue'.ctl = <<>>
  <1>1. /\ ctl.ports = {"kbd", "mouse"} /\ queue.kbd = <<>> /\ queue.ctl = <<>>
        /\ buf.full => buf.byte.src = "mouse"
    BY DEF Talking
  <1>2. ASSUME Silent PROVE Coming = <<>>
    <2>1. ~buf.full /\ ~Ready("mouse")
      BY <1>2 DEF Silent
    <2>2. queue.mouse = <<>>
      BY <1>1, <2>1 DEF Ready
    <2>3. QED
      BY <2>1, <2>2, ComingIs
  <1>3. ASSUME Take
        PROVE  /\ Coming # <<>> /\ Head(Coming) = buf.byte /\ Coming' = Tail(Coming)
               /\ Coming \in Seq(From("mouse")) /\ ~buf'.full
    <2>1. /\ buf.full /\ buf.byte.src = "mouse" /\ buf' = [buf EXCEPT !.full = FALSE]
          /\ queue'.mouse = queue.mouse
      BY <1>1, <1>3 DEF Take
    <2>2. QED
      BY <2>1, TakeTakes
  <1>4. QED
    BY <1>1, <1>2, <1>3

(* The acknowledgement is waited for. *)
LEMMA WaitAckTalks ==
  ASSUME Typed, Typed', Talking, WaitAck, pc' = "mouse"
  PROVE  Talking'
  <1>1. /\ UNCHANGED <<ctl, queue, mouse, drv>> /\ pc = "mouse"
        /\ todo # <<>> /\ Head(todo).do = "ack"
        /\ \/ Take /\ buf.byte.val = ACK /\ todo' = Tail(todo)
           \/ Take /\ buf.byte.val # ACK /\ todo' = todo
           \/ Silent /\ buf' = buf
    BY DEF WaitAck, Doing, Acked
  <1>2. /\ Silent => Coming = <<>>
        /\ Take => /\ Coming # <<>> /\ Head(Coming) = buf.byte /\ Coming' = Tail(Coming)
                   /\ Coming \in Seq(From("mouse")) /\ ~buf'.full
        /\ ctl'.ports = {"kbd", "mouse"} /\ queue'.kbd = <<>> /\ queue'.ctl = <<>>
    BY <1>1, TalkingTake
  <1>3. CASE mouse.kind = "none"
    <2>1. Coming = <<>> /\ ~mouse.reporting
      BY <1>3 DEF Talking
    <2>2. Silent /\ buf' = buf
      BY <1>1, <1>2, <2>1
    <2>3. Coming' = Coming /\ ~buf'.full
      BY <1>1, <2>2 DEF Coming, Silent
    <2>4. QED
      BY <1>1, <1>2, <1>3, <2>1, <2>3 DEF Talking
  <1>4. CASE mouse.kind # "none"
    <2>1. PICK p \in Plan :
             /\ mouse.wants = p.wants /\ p.steps \in Seq(Steps)
             /\ \/ Awaiting(p) /\ Tail(todo) = p.steps
                \/ \E x \in Reads :
                     Answers(p, x) /\ Asked(p, x) /\ Tail(todo) = Read(x) \o p.steps
      BY <1>1, <1>4, NowDoing DEF Reads
    <2>2. CASE Awaiting(p) /\ Tail(todo) = p.steps
      <3>1. Heard(Coming, <<>>) /\ Detected(p.ids)
            /\ \E m \in BOOLEAN : todo = Ack(m) \o p.steps
        BY <2>2 DEF Awaiting
      <3>2. /\ Coming # <<>>
            /\ Head(Coming).val = ACK => Tail(Coming) = <<>>
            /\ Head(Coming).val # ACK => Heard(Tail(Coming), <<>>)
        <4>1. <<>> \in Seq(From("mouse")) /\ Coming \in Seq(From("mouse"))
          BY ComingIs
        <4>2. QED
          BY <3>1, <4>1, HeardAck
      <3>3. Take
        BY <1>1, <1>2, <3>2
      <3>4. /\ buf.byte.val = ACK => Coming' = <<>>
            /\ buf.byte.val # ACK => Heard(Coming', <<>>)
        BY <1>2, <3>2, <3>3
      <3>5. Detected(p.ids)'
        BY <1>1, <3>1 DEF Detected
      <3>6. CASE buf.byte.val = ACK
        <4>1. Coming' = <<>> /\ todo' = p.steps
          BY <1>1, <1>2, <2>2, <3>2, <3>4, <3>6
        <4>2. Between(p)'
          BY <3>5, <4>1 DEF Between
        <4>3. QED
          BY <1>1, <1>2, <1>4, <2>1, <3>3, <4>2 DEF Talking
      <3>7. CASE buf.byte.val # ACK
        <4>1. Heard(Coming', <<>>) /\ todo' = todo
          BY <1>1, <1>2, <3>2, <3>4, <3>7
        <4>2. Awaiting(p)'
          BY <3>1, <3>5, <4>1 DEF Awaiting
        <4>3. QED
          BY <1>1, <1>2, <1>4, <2>1, <3>3, <4>2 DEF Talking
      <3>8. QED
        BY <3>6, <3>7
    <2>3. ASSUME NEW x \in Reads,
                 Answers(p, x), Asked(p, x), Tail(todo) = Read(x) \o p.steps
          PROVE  Talking'
      <3>1. Heard(Coming, Told(x)) /\ todo = Ack(FALSE) \o (Read(x) \o p.steps)
        BY <2>3 DEF Asked
      <3>2. Told(x) \in Seq(From("mouse")) /\ Told(x)' = Told(x)
        <4>1. mouse.id \in Ids
          BY DEF Typed, Mice
        <4>2. x = "bat" \/ x \in AskedFor
          BY DEF Reads, AskedFor
        <4>3. Told(x) \in Seq(From("mouse"))
          BY <4>1, <4>2, SaidIs DEF Told
        <4>4. QED
          BY <1>1, <4>3 DEF Told
      <3>3. /\ Coming # <<>>
            /\ Head(Coming).val = ACK => Tail(Coming) = Told(x)
            /\ Head(Coming).val # ACK => Heard(Tail(Coming), Told(x))
        <4>1. Coming \in Seq(From("mouse"))
          BY ComingIs
        <4>2. QED
          BY <3>1, <3>2, <4>1, HeardAck
      <3>4. Take
        BY <1>1, <1>2, <3>3
      <3>5. /\ buf.byte.val = ACK => Coming' = Told(x)
            /\ buf.byte.val # ACK => Heard(Coming', Told(x))
        BY <1>2, <3>3, <3>4
      <3>6. CASE buf.byte.val = ACK
        <4>1. Coming' = Told(x)' /\ todo' = Read(x) \o p.steps
          BY <1>1, <1>2, <2>3, <3>2, <3>3, <3>5, <3>6
        <4>2. Reading(p, x)'
          BY <4>1 DEF Reading
        <4>3. QED
          BY <1>1, <1>2, <1>4, <2>1, <2>3, <3>4, <4>2 DEF Talking
      <3>7. CASE buf.byte.val # ACK
        <4>1. Heard(Coming', Told(x)') /\ todo' = todo
          BY <1>1, <1>2, <3>2, <3>3, <3>5, <3>7
        <4>2. Asked(p, x)'
          BY <3>1, <4>1 DEF Asked
        <4>3. QED
          BY <1>1, <1>2, <1>4, <2>1, <2>3, <3>4, <4>2 DEF Talking
      <3>8. QED
        BY <3>6, <3>7
    <2>4. QED
      BY <2>1, <2>2, <2>3
  <1>5. QED
    BY <1>3, <1>4

(* The self-test is waited for: the identity behind it is left for the next wait to
   throw away. *)
LEMMA WaitBatTalks ==
  ASSUME Typed, Typed', Talking, WaitBat
  PROVE  Talking'
  <1>1. /\ UNCHANGED <<ctl, queue, mouse, drv>> /\ pc = "mouse"
        /\ todo # <<>> /\ Head(todo).do = "bat"
        /\ \/ Take /\ buf.byte.val = BAT_OK /\ todo' = Tail(todo)
           \/ Take /\ buf.byte.val # BAT_OK
           \/ Silent /\ buf' = buf
    BY DEF WaitBat, Doing
  <1>2. /\ Silent => Coming = <<>>
        /\ Take => /\ Coming # <<>> /\ Head(Coming) = buf.byte /\ Coming' = Tail(Coming)
                   /\ Coming \in Seq(From("mouse")) /\ ~buf'.full
        /\ ctl'.ports = {"kbd", "mouse"} /\ queue'.kbd = <<>> /\ queue'.ctl = <<>>
    BY <1>1, TalkingTake
  <1>3. CASE mouse.kind = "none"
    <2>1. Coming = <<>> /\ ~mouse.reporting
      BY <1>3 DEF Talking
    <2>2. Silent /\ buf' = buf
      BY <1>1, <1>2, <2>1
    <2>3. Coming' = Coming /\ ~buf'.full
      BY <1>1, <2>2 DEF Coming, Silent
    <2>4. QED
      BY <1>1, <1>2, <1>3, <2>1, <2>3 DEF Talking
  <1>4. CASE mouse.kind # "none"
    <2>1. PICK p \in Plan :
             /\ mouse.wants = p.wants
             /\ Answers(p, "bat") /\ Reading(p, "bat") /\ Tail(todo) = p.steps
      BY <1>1, <1>4, NowDoing
    <2> DEFINE b == Reply("mouse", BAT_OK)
               i == Reply("mouse", mouse.id)
    <2>2. mouse.id \in Ids
      BY DEF Typed, Mice
    <2>3. /\ b.val = BAT_OK /\ i.val = mouse.id /\ mouse.id # ACK
          /\ b \in From("mouse") /\ i \in From("mouse")
      BY <2>2, SaidIs
    <2>4. Coming = <<b, i>>
      BY <2>1, <2>2, SaidIs DEF Reading, Told
    <2> HIDE DEF b, i
    <2>5. Coming # <<>> /\ Head(Coming) = b /\ Tail(Coming) = <<i>>
      BY <2>4
    <2>6. Take /\ todo' = p.steps /\ Coming' = <<i>>
      BY <1>1, <1>2, <2>1, <2>3, <2>5
    <2>7. Stray(Coming')
      <3>1. Len(<<i>>) = 1 /\ Head(<<i>>) = i
        OBVIOUS
      <3>2. QED
        BY <2>3, <2>6, <3>1 DEF Stray
    <2>8. p.ids = TRUE /\ p.steps = Knocking(200, 100, 80, "id")
      BY <2>1 DEF Answers, At
    <2>9. p.steps # <<>>
      <3>1. At(<<>>, "command", FALSE).ids = FALSE
        BY DEF At
      <3>2. p # At(<<>>, "command", FALSE)
        BY <2>8, <3>1
      <3>3. QED
        BY <3>2, PlanTyped
    <2>10. Between(p)'
      BY <2>6, <2>7, <2>8, <2>9 DEF Between, Detected
    <2>11. QED
      BY <1>1, <1>2, <1>4, <2>1, <2>6, <2>10 DEF Talking
  <1>5. QED
    BY <1>3, <1>4

(* The identity is read: a wheel mouse is asked again, any other one, and one asked
   again, has been detected right. *)
LEMMA ReadIdTalks ==
  ASSUME Typed, Typed', Talking, ReadMouseID
  PROVE  Talking'
  <1>1. /\ UNCHANGED <<ctl, queue, mouse>> /\ pc = "mouse"
        /\ todo # <<>> /\ Head(todo).do \in AskedFor
        /\ Take \/ (Silent /\ buf' = buf)
        /\ IF Head(todo).do = "id" /\ buf.byte.val = 3
           THEN todo' = SecondKnock \o Tail(todo) /\ drv' = drv
           ELSE todo' = Tail(todo)
                /\ drv' = [drv EXCEPT !.mCycleMax = CycleOf(buf.byte.val)]
    BY DEF ReadMouseID, Doing, AskedFor
  <1>2. /\ Silent => Coming = <<>>
        /\ Take => /\ Coming # <<>> /\ Head(Coming) = buf.byte /\ Coming' = Tail(Coming)
                   /\ Coming \in Seq(From("mouse")) /\ ~buf'.full
        /\ ctl'.ports = {"kbd", "mouse"} /\ queue'.kbd = <<>> /\ queue'.ctl = <<>>
    BY <1>1, TalkingTake
  <1>3. CASE mouse.kind = "none"
    <2>1. Coming = <<>> /\ ~mouse.reporting
      BY <1>3 DEF Talking
    <2>2. Silent /\ buf' = buf
      BY <1>1, <1>2, <2>1
    <2>3. Coming' = Coming /\ ~buf'.full
      BY <1>1, <2>2 DEF Coming, Silent
    <2>4. QED
      BY <1>1, <1>2, <1>3, <2>1, <2>3 DEF Talking
  <1>4. CASE mouse.kind # "none"
    <2>1. PICK p \in Plan, x \in AskedFor :
             /\ mouse.wants = p.wants /\ Head(todo).do = x
             /\ Answers(p, x) /\ Reading(p, x) /\ Tail(todo) = p.steps
      <3>1. \A x \in AskedFor : x # "write" /\ x # "ack" /\ x # "bat"
        BY DEF AskedFor
      <3>2. QED
        BY <1>1, <1>4, <3>1, NowDoing
    <2>2. mouse.id \in Ids
      BY DEF Typed, Mice
    <2> DEFINE i == Reply("mouse", mouse.id)
    <2>3. i.val = mouse.id /\ Coming = <<i>>
      BY <2>1, <2>2, SaidIs DEF Reading, Told
    <2> HIDE DEF i
    <2>4. Coming # <<>> /\ Head(Coming) = i /\ Tail(Coming) = <<>>
      BY <2>3
    <2>5. Coming' = <<>> /\ buf.byte.val = mouse.id /\ ~buf'.full
      BY <1>1, <1>2, <2>3, <2>4
    <2>6. p = At(Settings, "command", FALSE)
      BY <2>1 DEF Answers, AskedFor
    <2>7. p.steps = Settings /\ p.wants = "command"
      BY <2>6 DEF At
    <2>8. CASE x = "id" /\ mouse.id = 3
      <3> DEFINE s == Knocking(200, 200, 80, "id again")
                 q == At(s, "command", TRUE)
      <3>1. todo' = s
        BY <1>1, <2>1, <2>5, <2>7, <2>8, ScriptShape
      <3>2. q \in Plan
        BY ZenonT(30) DEF Plan, KnockPlan, Knocking
      <3>3. q.steps = s /\ q.wants = "command" /\ q.ids = TRUE
        BY DEF At
      <3> HIDE DEF q, s
      <3>4. Between(q)'
        BY <2>5, <3>1, <3>3 DEF Between, Detected
      <3>5. QED
        BY <1>1, <1>2, <1>4, <2>1, <2>5, <2>7, <3>2, <3>3, <3>4 DEF Talking
    <2>9. CASE ~(x = "id" /\ mouse.id = 3)
      <3>1. todo' = p.steps /\ drv' = [drv EXCEPT !.mCycleMax = CycleOf(mouse.id)]
        BY <1>1, <2>1, <2>5, <2>9
      <3>2. drv'.mCycleMax = CycleOf(mouse.id)
        BY <3>1 DEF Typed
      <3>3. CycleOf(mouse.id) = PacketLen(mouse.id)
        BY <2>2 DEF Ids, CycleOf, PacketLen
      <3>4. Between(p)'
        BY <1>1, <2>5, <3>1, <3>2, <3>3 DEF Between, Detected
      <3>5. QED
        BY <1>1, <1>2, <1>4, <2>1, <2>5, <3>4 DEF Talking
    <2>10. QED
      BY <2>8, <2>9
  <1>5. QED
    BY <1>3, <1>4

(* What is said and heard stays so while nobody speaks or reads. *)
LEMMA StillTalks ==
  ASSUME Talking, UNCHANGED <<ctl, mouse, todo, drv>>, Coming' = Coming,
         buf'.full => buf'.byte.src = "mouse", queue'.kbd = <<>>, queue'.ctl = <<>>
  PROVE  Talking'
  <1>1. CASE mouse.kind = "none"
    BY <1>1 DEF Talking
  <1>2. CASE mouse.kind # "none"
    <2>1. PICK p \in Plan :
             /\ mouse.wants = p.wants
             /\ \/ Between(p) \/ Awaiting(p)
                \/ \E x \in Reads : Answers(p, x) /\ (Asked(p, x) \/ Reading(p, x))
      BY <1>2 DEF Talking
    <2>2. /\ Between(p) => Between(p)'
          /\ Awaiting(p) => Awaiting(p)'
          /\ \A x \in Reads : (Asked(p, x) => Asked(p, x)') /\ (Reading(p, x) => Reading(p, x)')
      BY DEF Between, Awaiting, Asked, Reading, Detected, Told
    <2>3. ctl'.ports = {"kbd", "mouse"} /\ mouse'.kind # "none" /\ mouse'.wants = p.wants
      BY <1>2, <2>1 DEF Talking
    <2>4. QED
      BY <2>1, <2>2, <2>3 DEF Talking
  <1>3. QED
    BY <1>1, <1>2

(* A byte delivered meanwhile is the mouse's. *)
LEMMA DeliverTalks ==
  ASSUME Typed, Typed', Talking, NEW d \in Devices, Deliver(d)
  PROVE  Talking'
  <1>1. d = "mouse"
    BY DEF Devices, Talking, Deliver, Ready
  <1>2. UNCHANGED <<ctl, mouse, todo, drv>>
    BY DEF Deliver
  <1>3. /\ Coming' = Coming /\ buf'.byte.src = "mouse"
        /\ queue'.kbd = <<>> /\ queue'.ctl = <<>>
    BY <1>1, DeliverKeepsComing DEF Talking
  <1>4. QED
    BY <1>2, <1>3, StillTalks

(* At the end of the script everything has been read and the type is known. *)
LEMMA TalkedOut ==
  ASSUME Typed, Talking, todo = <<>>
  PROVE  NothingComes /\ Agreed
  <1>1. Coming = <<>> => NothingComes
    <2> SUFFICES ASSUME Coming = <<>> PROVE NothingComes
      OBVIOUS
    <2>1. ~buf.full /\ queue.mouse = <<>> /\ queue.kbd = <<>> /\ queue.ctl = <<>>
      BY ComingIs DEF Talking
    <2>2. queue = [kbd |-> queue.kbd, mouse |-> queue.mouse, ctl |-> queue.ctl]
      BY DEF Typed, Queues
    <2>3. QED
      BY <2>1, <2>2 DEF NothingComes
  <1>2. CASE mouse.kind = "none"
    BY <1>1, <1>2 DEF Talking, Agreed
  <1>3. CASE mouse.kind # "none"
    <2>1. PICK p \in Plan : Between(p) /\ p = At(<<>>, "command", FALSE)
      BY <1>3, NowDoing
    <2>2. p.steps = <<>> /\ p.ids = FALSE
      BY <2>1 DEF At
    <2>3. Coming = <<>> /\ Detected(FALSE)
      BY <2>1, <2>2 DEF Between
    <2>4. QED
      BY <1>1, <2>3 DEF Detected, Agreed
  <1>4. QED
    BY <1>2, <1>3

-----------------------------------------------------------------------------
(* In step: the interrupt lines                                            *)

(* The two lines the drivers use. *)
TwoLines == {KBD, AUX}

(* Whatever a handler serves, nothing is in service when it returns. *)
LEMMA ServeDoes ==
  ASSUME Lines, NEW irq \in TwoLines, Serve(irq)
  PROVE  /\ pic' \in [irr : SUBSET {KBD, AUX}, isr : {{}}, open : SUBSET {KBD, AUX}]
         /\ pic'.irr = pic.irr \ {irq} /\ pic'.open = pic.open
  <1> DEFINE isr == picSendEOI(irq, InService(irq))
             irr == pic.irr \ {irq}
  <1>1. isr = {}
    <2>1. pic.isr = {}
      BY DEF Lines
    <2>2. CASE irq = KBD
      <3>1. InService(irq) = {KBD}
        BY <2>1, <2>2 DEF InService, KBD
      <3>2. QED
        BY <2>2, <3>1 DEF picSendEOI, KBD
    <2>3. CASE irq = AUX
      <3>1. InService(irq) = {AUX, CASCADE}
        BY <2>1, <2>3 DEF InService, AUX
      <3>2. KBD \notin {CASCADE} /\ {AUX, CASCADE} \ {AUX} = {CASCADE}
        BY DEF AUX, CASCADE, KBD
      <3>3. QED
        BY <2>3, <3>1, <3>2 DEF picSendEOI, AUX
    <2>4. QED
      BY <2>2, <2>3 DEF TwoLines
  <1>2. pic' = [pic EXCEPT !.irr = irr, !.isr = isr]
    BY DEF Serve
  <1>3. irr \in SUBSET {KBD, AUX}
    BY DEF Lines
  <1> HIDE DEF isr, irr
  <1>4. pic' = [irr |-> irr, isr |-> isr, open |-> pic.open]
    BY <1>2 DEF Lines
  <1>5. QED
    BY <1>1, <1>3, <1>4 DEF Lines, irr

(* A polled byte changes what is pending, and nothing else. *)
LEMMA TakeLines ==
  ASSUME Lines, Take
  PROVE  /\ pic' \in [irr : SUBSET {KBD, AUX}, isr : {{}}, open : SUBSET {KBD, AUX}]
         /\ pic'.open = pic.open
  <1>1. PICK irr \in {pic.irr, pic.irr \ {Line(buf.byte.src)}} : pic' = [pic EXCEPT !.irr = irr]
    BY DEF Take
  <1>2. irr \in SUBSET {KBD, AUX}
    BY <1>1 DEF Lines
  <1>3. QED
    BY <1>1, <1>2 DEF Lines

(* The main program opens lines only when it is through with the controller. *)
LEMMA MainLines ==
  ASSUME Lines, Main
  PROVE  Lines'
  <1>0. /\ ctl \in [ports : SUBSET {"kbd", "mouse"}, irqs : SUBSET {KBD, AUX}]
        /\ pic \in [irr : SUBSET {KBD, AUX}, isr : {{}}, open : SUBSET {KBD, AUX}]
        /\ pc \in Starting => pic.open = {}
        /\ touched \in BOOLEAN
    BY DEF Lines
  <1>1. touched' = touched
    BY DEF Main, DisablePorts, DisableIrqs, ControllerTest, EnableIrqs, Write, WaitAck, WaitBat,
           ReadMouseID, InstallMouse, SelfTest, InstallKeyboard, EnterLoop
  <1>2. CASE DisablePorts
    <2>1. ctl' = [ctl EXCEPT !.ports = {}] /\ pic' = pic /\ pc \in Starting
      BY <1>2 DEF DisablePorts, Starting
    <2>2. QED
      BY <1>0, <1>1, <2>1 DEF Lines
  <1>3. CASE DisableIrqs \/ EnableIrqs
    <2>1. /\ pic' \in [irr : SUBSET {KBD, AUX}, isr : {{}}, open : SUBSET {KBD, AUX}]
          /\ pic'.open = pic.open
      BY <1>3, TakeLines DEF DisableIrqs, EnableIrqs
    <2>2. PICK ports \in Ports : \E irqs \in SUBSET {KBD, AUX} :
                                   ctl' = [ports |-> ports, irqs |-> irqs]
      <3>1. CASE DisableIrqs
        BY <3>1 DEF DisableIrqs
      <3>2. CASE EnableIrqs
        BY <3>2 DEF EnableIrqs
      <3>3. QED
        BY <1>3, <3>1, <3>2
    <2>3. ports \in SUBSET {"kbd", "mouse"}
      BY <1>0, <2>2 DEF Ports
    <2>4. ctl' \in [ports : SUBSET {"kbd", "mouse"}, irqs : SUBSET {KBD, AUX}]
      BY <2>2, <2>3
    <2>5. pc \in Starting
      BY <1>3 DEF DisableIrqs, EnableIrqs, Starting
    <2>6. QED
      BY <1>0, <1>1, <2>1, <2>4, <2>5 DEF Lines
  <1>4. CASE ControllerTest
    <2>1. /\ pic' \in [irr : SUBSET {KBD, AUX}, isr : {{}}, open : SUBSET {KBD, AUX}]
          /\ pic'.open = pic.open
      BY <1>4, TakeLines DEF ControllerTest
    <2>2. ctl' = ctl \/ ctl' = [ctl EXCEPT !.ports = {"kbd", "mouse"}]
      BY <1>4 DEF ControllerTest
    <2>3. pc \in Starting
      BY <1>4 DEF ControllerTest, Starting
    <2>4. ctl' \in [ports : SUBSET {"kbd", "mouse"}, irqs : SUBSET {KBD, AUX}]
      BY <1>0, <2>2
    <2>5. QED
      BY <1>0, <1>1, <2>1, <2>3, <2>4 DEF Lines
  <1>5. CASE Write \/ WaitAck \/ WaitBat \/ ReadMouseID
    <2>1. ctl' = ctl /\ pc \in Starting /\ (Take \/ pic' = pic)
      BY <1>5 DEF Write, WaitAck, WaitBat, ReadMouseID, Doing, Starting
    <2>2. /\ pic' \in [irr : SUBSET {KBD, AUX}, isr : {{}}, open : SUBSET {KBD, AUX}]
          /\ pic'.open = pic.open
      BY <1>0, <2>1, TakeLines
    <2>3. QED
      BY <1>0, <1>1, <2>1, <2>2 DEF Lines
  <1>6. CASE InstallMouse
    <2>1. ctl' = ctl /\ pc' \notin Starting
          /\ pic' = [pic EXCEPT !.open = pic.open \cup {AUX}]
      BY <1>6 DEF InstallMouse, Starting, picSetMask
    <2>2. QED
      BY <1>0, <1>1, <2>1 DEF Lines
  <1>7. CASE SelfTest \/ EnterLoop
    BY <1>0, <1>1, <1>7 DEF SelfTest, EnterLoop, Lines, Starting
  <1>8. CASE InstallKeyboard
    <2>1. ctl' = ctl /\ pc' \notin Starting
      BY <1>8 DEF InstallKeyboard, Starting
    <2>2. PICK irr \in SUBSET {KBD, AUX}, open \in SUBSET {KBD, AUX} :
             pic' = [pic EXCEPT !.irr = irr, !.open = open]
      BY <1>0, <1>8 DEF InstallKeyboard, picSetMask
    <2>3. QED
      BY <1>0, <1>1, <2>1, <2>2 DEF Lines
  <1>9. QED
    BY <1>2, <1>3, <1>4, <1>5, <1>6, <1>7, <1>8 DEF Main

(* Nothing else opens a line. *)
LEMMA LinesStep == Lines /\ [Next]_vars => Lines'
  <1> SUFFICES ASSUME Lines, [Next]_vars PROVE Lines'
    OBVIOUS
  <1>0. /\ ctl \in [ports : SUBSET {"kbd", "mouse"}, irqs : SUBSET {KBD, AUX}]
        /\ pic \in [irr : SUBSET {KBD, AUX}, isr : {{}}, open : SUBSET {KBD, AUX}]
        /\ pc \in Starting => pic.open = {}
        /\ touched \in BOOLEAN
    BY DEF Lines
  <1>1. CASE Main
    BY <1>1, MainLines
  <1>2. CASE Handler
    <2>1. PICK irq \in TwoLines : Serve(irq)
      BY <1>2 DEF Handler, MouseIrqHandler, KeyboardIrqHandler, TwoLines
    <2>2. UNCHANGED <<ctl, pc, touched>>
      BY <1>2 DEF Handler, MouseIrqHandler, KeyboardIrqHandler
    <2>3. QED
      BY <1>0, <2>1, <2>2, ServeDoes DEF Lines
  <1>3. ASSUME NEW d \in {"kbd", "mouse", "ctl"}, Deliver(d) PROVE Lines'
    <2>1. Line(d) \in {KBD, AUX}
      BY DEF Line
    <2>2. pic' = pic \/ pic' = [pic EXCEPT !.irr = pic.irr \cup {Line(d)}]
      BY <1>3 DEF Deliver
    <2>3. UNCHANGED <<ctl, pc, touched>>
      BY <1>3 DEF Deliver
    <2>4. QED
      BY <1>0, <2>1, <2>2, <2>3 DEF Lines
  <1>4. CASE (\E mv \in Moves : Move(mv)) \/ (\E code \in KeyCodes : Press(code))
    <2>1. UNCHANGED <<ctl, pic, pc>> /\ touched' \in BOOLEAN
      BY <1>4 DEF Move, Press, Use
    <2>2. QED
      BY <1>0, <2>1 DEF Lines
  <1>5. CASE UNCHANGED vars
    BY <1>0, <1>5 DEF vars, Lines
  <1>6. QED
    BY <1>1, <1>2, <1>3, <1>4, <1>5 DEF Next

(* At a moment when no line gets through, none that is open is pending. *)
LEMMA QuietIs ==
  ASSUME Lines, Quiet, pc \in {"gap", "settling", "loop"}
  PROVE  AUX \notin pic.irr \cap pic.open /\ KBD \notin pic.irr \cap pic.open
  <1>1. Interrupts /\ pic.isr = {}
    BY DEF Interrupts, Lines
  <1>2. KBD \notin pic.irr \cap pic.open
    BY <1>1 DEF Quiet, Deliverable
  <1>3. AUX # KBD
    BY DEF AUX, KBD
  <1>4. QED
    BY <1>1, <1>2, <1>3 DEF Quiet, Deliverable

-----------------------------------------------------------------------------
(* In step: before the mouse is spoken to                                  *)

(* The controller's reply is the next byte, and the only one. *)
LEMMA AskDoes ==
  ASSUME Typed, NEW v, queue.kbd = <<>>, queue.mouse = <<>>, queue.ctl = <<>>, ~buf'.full, Ask(v)
  PROVE  Replies(v)'
  <1> DEFINE r == Reply("ctl", v)
  <1>1. queue' = [queue EXCEPT !.ctl = <<r>>]
    <2>1. Append(<<>>, r) = <<r>>
      OBVIOUS
    <2>2. queue' = [queue EXCEPT !.ctl = Append(queue.ctl, r)]
      BY DEF Ask
    <2>3. QED
      BY <2>1, <2>2
  <1> HIDE DEF r
  <1>2. queue'.kbd = <<>> /\ queue'.mouse = <<>> /\ queue'.ctl = <<r>>
    BY <1>1 DEF Typed, Queues
  <1>3. QED
    BY <1>2 DEF Replies, r

(* It is delivered. *)
LEMMA DeliverReplies ==
  ASSUME Typed, NEW v, Replies(v), NEW d \in Devices, Deliver(d)
  PROVE  Replies(v)' /\ d = "ctl"
  <1> DEFINE r == Reply("ctl", v)
  <1>1. d = "ctl"
    BY DEF Devices, Deliver, Ready, Replies
  <1>2. queue.kbd = <<>> /\ queue.mouse = <<>> /\ queue.ctl = <<r>>
    BY DEF Replies, Deliver
  <1> HIDE DEF r
  <1>3. Head(<<r>>) = r /\ Tail(<<r>>) = <<>>
    OBVIOUS
  <1>4. buf' = [full |-> TRUE, byte |-> r] /\ queue' = [queue EXCEPT !.ctl = <<>>]
    BY <1>1, <1>2, <1>3 DEF Deliver
  <1>5. queue'.kbd = <<>> /\ queue'.mouse = <<>> /\ queue'.ctl = <<>>
    BY <1>2, <1>4 DEF Typed, Queues
  <1>6. QED
    BY <1>1, <1>4, <1>5 DEF Replies, r

(* It is read. *)
LEMMA TakeReplies ==
  ASSUME Typed, NEW v, Replies(v), buf.full, buf' = [buf EXCEPT !.full = FALSE]
  PROVE  /\ buf.byte = Reply("ctl", v) /\ buf.byte.src = "ctl" /\ buf.byte.val = v
         /\ ~buf'.full /\ queue = [kbd |-> <<>>, mouse |-> <<>>, ctl |-> <<>>]
         /\ queue.kbd = <<>> /\ queue.mouse = <<>> /\ queue.ctl = <<>>
  <1>1. buf.byte = Reply("ctl", v) /\ queue.kbd = <<>> /\ queue.mouse = <<>> /\ queue.ctl = <<>>
    BY DEF Replies
  <1>2. buf.byte.src = "ctl" /\ buf.byte.val = v
    BY <1>1 DEF Reply, Byte
  <1>3. ~buf'.full
    BY DEF Typed
  <1>4. queue = [kbd |-> <<>>, mouse |-> <<>>, ctl |-> <<>>]
    BY <1>1 DEF Typed, Queues
  <1>5. QED
    BY <1>1, <1>2, <1>3, <1>4

(* The controller is set up, byte by byte, and then the mouse is spoken to. *)
LEMMA SetUpPhases ==
  ASSUME Typed, Typed', Lines, Phases, DisablePorts \/ DisableIrqs \/ ControllerTest \/ EnableIrqs
  PROVE  Phases'
  <1>1. CASE DisablePorts
    <2>1. pc = "mouseInit" /\ pc' = "config" /\ Ask(CONFIG) /\ buf' = buf /\ mouse' = mouse
      BY <1>1 DEF DisablePorts
    <2>2. NothingComes /\ Fresh
      BY <2>1 DEF Phases
    <2>3. queue.kbd = <<>> /\ queue.mouse = <<>> /\ queue.ctl = <<>> /\ ~buf'.full
      BY <2>1, <2>2 DEF NothingComes
    <2>4. Replies(CONFIG)'
      BY <2>1, <2>3, AskDoes
    <2>5. Fresh'
      BY <2>1, <2>2, <2>4 DEF Fresh, Replies
    <2>6. QED
      BY <2>1, <2>4, <2>5 DEF Phases, Running
  <1>2. CASE DisableIrqs
    <2>1. /\ pc = "config" /\ pc' = "test" /\ Ask(TEST_OK) /\ mouse' = mouse
          /\ buf.full /\ buf' = [buf EXCEPT !.full = FALSE]
      BY <1>2 DEF DisableIrqs, Take
    <2>2. Replies(CONFIG) /\ Fresh
      BY <2>1 DEF Phases
    <2>3. queue.kbd = <<>> /\ queue.mouse = <<>> /\ queue.ctl = <<>> /\ ~buf'.full
      BY <2>1, <2>2, TakeReplies
    <2>4. Replies(TEST_OK)'
      BY <2>1, <2>3, AskDoes
    <2>5. Fresh'
      BY <2>1, <2>2, <2>4 DEF Fresh, Replies
    <2>6. QED
      BY <2>1, <2>4, <2>5 DEF Phases, Running
  <1>3. CASE ControllerTest
    <2>1. /\ pc = "test" /\ mouse' = mouse
          /\ buf.full /\ buf' = [buf EXCEPT !.full = FALSE]
      BY <1>3 DEF ControllerTest, Take
    <2>2. Replies(TEST_OK) /\ Fresh
      BY <2>1 DEF Phases
    <2>3. /\ queue.kbd = <<>> /\ queue.mouse = <<>> /\ queue.ctl = <<>> /\ ~buf'.full
          /\ buf.byte.val = TEST_OK
      BY <2>1, <2>2, TakeReplies
    <2>4. /\ pc' = "config again" /\ Ask(CONFIG)
          /\ ctl' = [ctl EXCEPT !.ports = {"kbd", "mouse"}]
      BY <1>3, <2>3 DEF ControllerTest
    <2>5. Replies(CONFIG)'
      BY <2>3, <2>4, AskDoes
    <2>6. Fresh'
      BY <2>1, <2>2, <2>5 DEF Fresh, Replies
    <2>7. ctl'.ports = {"kbd", "mouse"}
      BY <2>4 DEF Lines
    <2>8. QED
      BY <2>4, <2>5, <2>6, <2>7 DEF Phases, Running
  <1>4. CASE EnableIrqs
    <2>1. /\ pc = "config again" /\ pc' = "mouse" /\ todo' = Script
          /\ mouse' = mouse /\ queue' = queue
          /\ buf.full /\ buf' = [buf EXCEPT !.full = FALSE]
      BY <1>4 DEF EnableIrqs, Take
    <2>2. Replies(CONFIG) /\ Fresh /\ ctl.ports = {"kbd", "mouse"}
      BY <2>1 DEF Phases
    <2>3. /\ queue.kbd = <<>> /\ queue.mouse = <<>> /\ queue.ctl = <<>> /\ ~buf'.full
          /\ buf.byte.src = "ctl"
      BY <2>1, <2>2, TakeReplies
    <2>4. ctl'.ports = {"kbd", "mouse"}
      <3>1. PICK ports \in Ports : ctl' = [ports |-> ports, irqs |-> {KBD, AUX}]
        BY <1>4 DEF EnableIrqs
      <3>2. QED
        BY <2>2, <2>3, <3>1 DEF Ports
    <2>5. Coming' = <<>>
      <3>1. Coming' = <<>> \o <<>>
        BY <2>1, <2>3 DEF Coming
      <3>2. QED
        BY <3>1
    <2> DEFINE p == At(Starts, "command", TRUE)
    <2>6. p \in Plan /\ p.steps = Starts /\ p.wants = "command" /\ p.ids = TRUE
      BY DEF Plan, At
    <2> HIDE DEF p
    <2>7. Between(p)'
      BY <2>1, <2>5, <2>6, ScriptShape DEF Between, Detected
    <2>8. mouse.wants = p.wants /\ ~mouse.reporting
      BY <2>2, <2>6 DEF Fresh
    <2>9. Talking'
      BY <2>1, <2>3, <2>4, <2>5, <2>6, <2>7, <2>8 DEF Talking
    <2>10. QED
      BY <2>1, <2>9 DEF Phases, Running
  <1>5. QED
    BY <1>1, <1>2, <1>3, <1>4

-----------------------------------------------------------------------------
(* In step: the handlers listen                                            *)

(* Once the mouse is installed its line stays open. *)
LEMMA InstallListens ==
  ASSUME Typed, Typed', Lines, Phases, InstallMouse
  PROVE  Phases'
  <1>1. pc = "mouse" /\ pc' = "gap" /\ todo = <<>> /\ UNCHANGED <<buf, queue, mouse, drv>>
    BY DEF InstallMouse
  <1>2. Talking /\ drv.mByte = <<>>
    BY <1>1 DEF Phases, Typed, Starting
  <1>3. NothingComes /\ Agreed
    BY <1>1, <1>2, TalkedOut
  <1>4. NothingComes' /\ Agreed' /\ drv'.mByte = <<>>
    BY <1>1, <1>2, <1>3 DEF NothingComes, Agreed
  <1>5. Listening'
    BY <1>1, <1>4 DEF Listening
  <1>6. QED
    BY <1>1, <1>5 DEF Phases

(* The keyboard is tested and installed with nothing of the mouse under way. *)
LEMMA KeyboardListens ==
  ASSUME Typed, Typed', Lines, Lines', Phases, SelfTest \/ InstallKeyboard \/ EnterLoop
  PROVE  Phases'
  <1>1. pc \in {"gap", "keyboardInit", "settling"} /\ UNCHANGED <<mouse, drv>>
    BY DEF SelfTest, InstallKeyboard, EnterLoop
  <1>2. pc' \in {"keyboardInit", "settling", "loop"}
    BY DEF SelfTest, InstallKeyboard, EnterLoop
  <1>3. SUFFICES ASSUME AUX \in pic'.open PROVE Listening'
    BY <1>2 DEF Phases
  <1>4. CASE SelfTest
    <2>1. pc = "gap" /\ Quiet /\ pc' = "keyboardInit" /\ pic' = pic /\ buf' = buf /\ Ask(TEST_OK)
      BY <1>4 DEF SelfTest
    <2>2. Listening
      BY <1>3, <2>1 DEF Phases, Running
    <2>3. Agreed /\ NothingComes /\ drv.mByte = <<>>
      BY <2>1, <2>2 DEF Listening
    <2>4. queue.kbd = <<>> /\ queue.mouse = <<>> /\ queue.ctl = <<>> /\ ~buf'.full
      BY <2>1, <2>3 DEF NothingComes
    <2>5. Replies(TEST_OK)'
      BY <2>1, <2>4, AskDoes
    <2>6. AUX \notin pic.irr
      BY <1>3, <2>1, QuietIs
    <2>7. Agreed'
      BY <1>1, <2>3 DEF Agreed
    <2>8. QED
      BY <1>1, <2>1, <2>3, <2>5, <2>6, <2>7 DEF Listening
  <1>5. CASE InstallKeyboard
    <2>1. /\ pc = "keyboardInit" /\ pc' = "settling" /\ queue' = queue
          /\ buf.full /\ buf' = [buf EXCEPT !.full = FALSE]
      BY <1>5 DEF InstallKeyboard
    <2>2. /\ pic'.irr \subseteq pic.irr
          /\ pic'.open = pic.open \/ pic'.open = pic.open \cup {KBD}
      <3>1. PICK irr \in {pic.irr, pic.irr \ {Line(buf.byte.src)}} :
               pic' = [pic EXCEPT !.irr = irr,
                                  !.open = IF buf.byte.val = TEST_OK
                                           THEN picSetMask(KBD, FALSE, @) ELSE @]
        BY <1>5 DEF InstallKeyboard
      <3>2. QED
        BY <3>1 DEF Lines, picSetMask
    <2>3. AUX \in pic.open
      BY <1>3, <2>2 DEF AUX, KBD
    <2>4. Listening
      BY <2>1, <2>3 DEF Phases, Running
    <2>5. Agreed /\ Replies(TEST_OK) /\ drv.mByte = <<>> /\ AUX \notin pic.irr
      BY <2>1, <2>4 DEF Listening
    <2>6. ~buf'.full /\ queue = [kbd |-> <<>>, mouse |-> <<>>, ctl |-> <<>>]
      BY <2>1, <2>5, TakeReplies
    <2>7. NothingComes'
      BY <2>1, <2>6 DEF NothingComes
    <2>8. Agreed'
      BY <1>1, <2>5 DEF Agreed
    <2>9. QED
      BY <1>1, <2>1, <2>2, <2>5, <2>7, <2>8 DEF Listening
  <1>6. CASE EnterLoop
    <2>1. pc = "settling" /\ Quiet /\ pc' = "loop" /\ pic' = pic /\ UNCHANGED <<buf, queue>>
      BY <1>6 DEF EnterLoop
    <2>2. Listening
      BY <1>3, <2>1 DEF Phases, Running
    <2>3. Agreed /\ NothingComes /\ drv.mByte = <<>> /\ AUX \notin pic.irr
      BY <2>1, <2>2 DEF Listening
    <2>4. KBD \notin pic.irr \cap pic.open
      BY <2>1, QuietIs
    <2>5. ~buf.full /\ queue.mouse = <<>> /\ queue.ctl = <<>>
      BY <2>3 DEF NothingComes
    <2>6. Latched'
      BY <2>1, <2>3, <2>4, <2>5 DEF Latched
    <2>7. Following'
      <3>1. drv.mCycleMax \in {3, 4, 6} /\ Len(<<>>) = 0
        BY DEF Typed
      <3>2. QED
        BY <1>1, <2>1, <2>3, <2>5, <3>1 DEF Following
    <2>8. Agreed'
      BY <1>1, <2>3 DEF Agreed
    <2>9. QED
      BY <2>1, <2>6, <2>7, <2>8 DEF Listening
  <1>7. QED
    BY <1>4, <1>5, <1>6

(* A byte of a packet is received at its place. *)
LEMMA ReceiveFollows ==
  ASSUME Typed, Typed', Following, buf.full, buf.byte.src = "mouse", Receive(buf.byte),
         ~buf'.full, queue' = queue
  PROVE  Following' /\ drv'.mCycleMax = drv.mCycleMax
  <1> DEFINE N == drv.mCycleMax
             n == Len(queue.mouse)
             L == Len(drv.mByte)
             bytes == Append(drv.mByte, buf.byte.val)
  <1>1. N \in {3, 4, 6} /\ n \in Nat /\ L \in Nat /\ L < N
        /\ drv.mByte \in Seq(Val) /\ buf.byte.val \in Val
    BY DEF Typed, Queues, Bytes
  <1>2. bytes \in Seq(Val) /\ Len(bytes) = L + 1
    BY <1>1, AppendProperties
  <1>3. /\ n <= N /\ \A i \in 1 .. n : queue.mouse[i].pos = N - n + i - 1
        /\ L + 1 = IF n \in {0, N} THEN N ELSE N - n
    BY DEF Following
  <1>4. CASE L + 1 >= N
    <2>1. drv' = MovedBy(drv, bytes)
      BY <1>2, <1>4 DEF Receive
    <2> HIDE DEF bytes
    <2>2. Len(bytes) >= 3
      BY <1>1, <1>2, <1>4
    <2>3. drv'.mByte = <<>> /\ drv'.mCycleMax = N
      BY <1>2, <2>1, <2>2, MovedByDoes
    <2> DEFINE k == Len(drv'.mByte)
    <2>4. k = 0
      BY <2>3
    <2>5. n = 0 \/ n = N
      BY <1>1, <1>3, <1>4
    <2>6. k = IF n = 0 THEN 0 ELSE N - n
      BY <1>1, <2>4, <2>5
    <2>7. QED
      BY <1>3, <2>3, <2>6 DEF Following
  <1>5. CASE ~(L + 1 >= N)
    <2>1. drv' = [drv EXCEPT !.mByte = bytes]
      BY <1>2, <1>5 DEF Receive
    <2> HIDE DEF bytes
    <2>2. drv'.mByte = bytes /\ drv'.mCycleMax = N
      BY <2>1 DEF Typed
    <2>3. n \notin {0, N}
      BY <1>1, <1>3, <1>5
    <2>4. Len(drv'.mByte) = IF n = 0 THEN 0 ELSE N - n
      BY <1>2, <1>3, <2>2, <2>3
    <2>5. QED
      BY <1>3, <2>2, <2>4 DEF Following
  <1>6. QED
    BY <1>4, <1>5

(* The handlers take the byte their line stands for. *)
LEMMA HandlerPhases ==
  ASSUME Typed, Typed', Lines, Lines', Phases, Handler
  PROVE  Phases'
  <1>1. pc \in {"gap", "settling", "loop"} /\ UNCHANGED <<queue, mouse, pc>>
    BY DEF Handler, MouseIrqHandler, KeyboardIrqHandler, Deliverable, Interrupts
  <1>2. PICK irq \in TwoLines : Serve(irq) /\ Deliverable(irq)
                                /\ (irq = AUX => MouseIrqHandler)
                                /\ (irq = KBD => KeyboardIrqHandler)
    <2>1. AUX # KBD
      BY DEF AUX, KBD
    <2>2. QED
      BY <2>1 DEF Handler, MouseIrqHandler, KeyboardIrqHandler, TwoLines
  <1>3. pic'.irr = pic.irr \ {irq} /\ pic'.open = pic.open
    BY <1>2, ServeDoes
  <1>4. SUFFICES ASSUME AUX \in pic.open PROVE Listening'
    BY <1>1, <1>3 DEF Phases
  <1>5. Listening
    BY <1>1, <1>4 DEF Phases, Running
  <1>6. ~buf'.full
    <2>1. buf' = [buf EXCEPT !.full = FALSE]
      BY DEF Handler, MouseIrqHandler, KeyboardIrqHandler
    <2>2. QED
      BY <2>1 DEF Typed
  <1>7. CASE pc \in {"gap", "settling"}
    <2>1. /\ Agreed /\ NothingComes /\ drv.mByte = <<>>
          /\ pc = "settling" => AUX \notin pic.irr
      BY <1>5, <1>7 DEF Listening
    <2>2. drv' = drv
      BY <2>1 DEF Handler, MouseIrqHandler, KeyboardIrqHandler, NothingComes
    <2>3. NothingComes' /\ Agreed'
      BY <1>1, <1>6, <2>1, <2>2 DEF NothingComes, Agreed
    <2>4. QED
      BY <1>1, <1>3, <1>7, <2>1, <2>2, <2>3 DEF Listening
  <1>8. CASE pc = "loop"
    <2>1. Agreed /\ Latched /\ Following
      BY <1>5, <1>8 DEF Listening
    <2>2. irq \in pic.irr \cap pic.open
      BY <1>2 DEF Deliverable
    <2>3. /\ AUX \in pic.irr => buf.full /\ buf.byte.src = "mouse"
          /\ KBD \in pic.irr \cap pic.open => buf.full /\ buf.byte.src = "kbd"
          /\ queue.ctl = <<>>
      BY <2>1 DEF Latched
    <2>4. CASE irq = AUX
      <3>1. MouseIrqHandler /\ buf.full /\ buf.byte.src = "mouse"
        BY <1>2, <2>2, <2>3, <2>4
      <3>2. Receive(buf.byte)
        BY <3>1 DEF MouseIrqHandler
      <3>3. Following' /\ drv'.mCycleMax = drv.mCycleMax
        BY <1>1, <1>6, <2>1, <3>1, <3>2, ReceiveFollows
      <3>4. KBD \notin pic.irr \cap pic.open
        BY <2>3, <3>1
      <3>5. Latched'
        BY <1>1, <1>3, <1>6, <2>3, <2>4, <3>4 DEF Latched
      <3>6. Agreed'
        BY <1>1, <2>1, <3>3 DEF Agreed
      <3>7. QED
        BY <1>1, <1>8, <3>3, <3>5, <3>6 DEF Listening
    <2>5. CASE irq = KBD
      <3>1. drv' = drv /\ buf.full /\ buf.byte.src = "kbd"
        BY <1>2, <2>2, <2>3, <2>5 DEF KeyboardIrqHandler
      <3>2. AUX \notin pic.irr
        BY <2>3, <3>1
      <3>3. Latched'
        BY <1>1, <1>3, <1>6, <2>3, <2>5, <3>2 DEF Latched
      <3>4. Following'
        BY <1>1, <1>6, <2>1, <3>1 DEF Following
      <3>5. Agreed'
        BY <1>1, <2>1, <3>1 DEF Agreed
      <3>6. QED
        BY <1>1, <1>8, <3>3, <3>4, <3>5 DEF Listening
    <2>6. QED
      BY <2>4, <2>5 DEF TwoLines
  <1>9. QED
    BY <1>1, <1>7, <1>8

(* The head of a packet on its way into the buffer. *)
LEMMA DeliverFollows ==
  ASSUME Typed, Typed', Following, ~buf.full, Deliver("mouse")
  PROVE  Following'
  <1> DEFINE N == drv.mCycleMax
             q == queue.mouse
             n == Len(q)
             L == Len(drv.mByte)
             t == Tail(q)
  <1>1. /\ q \in Seq(From("mouse")) /\ q # <<>> /\ drv' = drv
        /\ buf'.full /\ buf'.byte.src = "mouse" /\ buf'.byte = Head(q) /\ queue'.mouse = t
    BY DeliverKeepsComing DEF Typed, Queues, Deliver
  <1>2. N \in {3, 4, 6} /\ L \in Nat
    BY DEF Typed
  <1>3. n \in Nat \ {0} /\ Head(q) = q[1]
    BY <1>1
  <1>4. /\ n <= N /\ \A i \in 1 .. n : q[i].pos = N - n + i - 1
        /\ L = IF n = 0 THEN 0 ELSE N - n
    BY DEF Following
  <1>5. Len(t) = n - 1 /\ \A i \in 1 .. Len(t) : t[i] = q[i + 1]
    BY <1>1, HeadTailProperties
  <1> HIDE DEF q, t, n, L, N
  <1> DEFINE k == Len(t)
  <1>6. k \in Nat /\ k = n - 1 /\ n = k + 1
    BY <1>3, <1>5
  <1>7. L = N - n /\ q[1].pos = L
    <2>1. 1 \in 1 .. n
      BY <1>3
    <2>2. q[1].pos = N - n + 1 - 1
      BY <1>4, <2>1
    <2>3. QED
      BY <1>2, <1>3, <1>4, <2>2
  <1>8. \A i \in 1 .. k : t[i].pos = N - k + i - 1
    <2> SUFFICES ASSUME NEW i \in 1 .. k PROVE t[i].pos = N - k + i - 1
      OBVIOUS
    <2>1. i + 1 \in 1 .. n /\ i \in Nat
      BY <1>3, <1>6
    <2>2. t[i] = q[i + 1]
      BY <1>5
    <2>3. q[i + 1].pos = N - n + (i + 1) - 1
      BY <1>4, <2>1
    <2>4. N - n + (i + 1) - 1 = N - k + i - 1
      BY <1>2, <1>6, <2>1
    <2>5. QED
      BY <2>2, <2>3, <2>4
  <1>9. k <= N /\ L + 1 = IF k \in {0, N} THEN N ELSE N - k
    BY <1>2, <1>3, <1>4, <1>6, <1>7
  <1>10. buf'.byte.pos = L
    BY <1>1, <1>3, <1>7
  <1>11. Len(drv'.mByte) = L /\ drv'.mCycleMax = N
    BY <1>1 DEF L, N
  <1>12. QED
    BY <1>1, <1>8, <1>9, <1>10, <1>11 DEF Following

(* Bytes are handed on as each phase expects them. *)
LEMMA DeliverPhases ==
  ASSUME Typed, Typed', Lines, Phases, NEW d \in Devices, Deliver(d)
  PROVE  Phases'
  <1>1. /\ UNCHANGED <<ctl, mouse, pc, todo, drv>> /\ ~buf.full /\ queue[d] # <<>>
        /\ pic' = pic \/ pic' = [pic EXCEPT !.irr = pic.irr \cup {Line(d)}]
    BY DEF Deliver, Ready
  <1>2. pic'.open = pic.open /\ pic'.irr \subseteq pic.irr \cup {Line(d)}
    BY <1>1 DEF Lines
  <1>3. ~NothingComes
    BY <1>1 DEF NothingComes, Devices
  <1>4. \A v : Replies(v) => Replies(v)' /\ d = "ctl"
    BY DeliverReplies
  <1>5. \A v : Replies(v) /\ Fresh => Fresh'
    <2> SUFFICES ASSUME NEW v, Replies(v), Fresh PROVE Fresh'
      OBVIOUS
    <2>1. Replies(v)'
      BY <1>4
    <2>2. QED
      BY <1>1, <2>1 DEF Fresh, Replies
  <1>6. Talking => Talking'
    BY DeliverTalks
  <1>7. ASSUME Listening, pc \in Running PROVE Listening'
    <2>1. Agreed'
      BY <1>1, <1>7 DEF Listening, Agreed
    <2>2. CASE pc \in {"gap", "settling"}
      BY <1>3, <1>7, <2>2 DEF Listening
    <2>3. CASE pc = "keyboardInit"
      <3>1. Replies(TEST_OK) /\ drv.mByte = <<>> /\ AUX \notin pic.irr
        BY <1>7, <2>3 DEF Listening
      <3>2. Replies(TEST_OK)' /\ d = "ctl"
        BY <1>4, <3>1
      <3>3. AUX \notin pic'.irr
        <4>1. Line(d) # AUX
          BY <3>2 DEF Line, KBD, AUX
        <4>2. QED
          BY <1>2, <3>1, <4>1
      <3>4. QED
        BY <1>1, <2>1, <2>3, <3>1, <3>2, <3>3 DEF Listening
    <2>4. CASE pc = "loop"
      <3>1. Latched /\ Following
        BY <1>7, <2>4 DEF Listening
      <3>2. AUX \notin pic.irr /\ KBD \notin pic.irr \cap pic.open /\ queue.ctl = <<>>
        BY <1>1, <3>1 DEF Latched
      <3>3. d # "ctl"
        BY <1>1, <3>2
      <3>4. CASE d = "mouse"
        <4>1. Line(d) = AUX /\ AUX # KBD
          BY <3>4 DEF Line, AUX, KBD
        <4>2. buf'.full /\ buf'.byte.src = "mouse" /\ queue'.ctl = <<>>
          BY <3>2, <3>4, DeliverKeepsComing
        <4>3. Latched'
          BY <1>2, <3>2, <4>1, <4>2 DEF Latched
        <4>4. Following'
          BY <1>1, <3>1, <3>4, DeliverFollows
        <4>5. QED
          BY <1>1, <2>1, <2>4, <4>3, <4>4 DEF Listening
      <3>5. CASE d = "kbd"
        <4>1. Line(d) = KBD /\ AUX # KBD
          BY <3>5 DEF Line, AUX, KBD
        <4>2. buf'.full /\ buf'.byte = Head(queue.kbd)
              /\ queue' = [queue EXCEPT !.kbd = Tail(queue.kbd)]
          BY <3>5 DEF Deliver
        <4>3. buf'.byte.src = "kbd"
          <5>1. queue.kbd \in Seq(From("kbd")) /\ queue.kbd # <<>>
            BY <1>1, <3>5 DEF Typed, Queues
          <5>2. Head(queue.kbd) \in From("kbd")
            BY <5>1, HeadTailProperties
          <5>3. QED
            BY <4>2, <5>2 DEF From
        <4>4. queue'.ctl = <<>> /\ queue'.mouse = queue.mouse
          BY <3>2, <4>2 DEF Typed, Queues
        <4>5. Latched'
          BY <1>2, <3>2, <4>1, <4>2, <4>3, <4>4 DEF Latched
        <4>6. Following'
          BY <1>1, <3>1, <4>3, <4>4 DEF Following
        <4>7. QED
          BY <1>1, <2>1, <2>4, <4>5, <4>6 DEF Listening
      <3>6. QED
        BY <3>3, <3>4, <3>5 DEF Devices
    <2>5. QED
      BY <1>7, <2>2, <2>3, <2>4 DEF Running
  <1>8. QED
    BY <1>1, <1>2, <1>3, <1>4, <1>5, <1>6, <1>7 DEF Phases

(* A motion in the main loop is a whole packet, as long as the driver expects; a key
   is none of the mouse's bytes. *)
LEMMA InputPhases ==
  ASSUME Typed, Typed', Lines, Phases, ~touched', ~touched,
         (\E mv \in Moves : Move(mv)) \/ (\E code \in KeyCodes : Press(code))
  PROVE  Phases'
  <1>1. pc = "loop" /\ UNCHANGED <<buf, ctl, mouse, pic, pc, todo, drv>>
    BY DEF Move, Press, Use
  <1>2. SUFFICES ASSUME AUX \in pic.open PROVE Listening'
    BY <1>1 DEF Phases
  <1>3. Agreed /\ Latched /\ Following
    BY <1>1, <1>2 DEF Phases, Running, Listening
  <1>4. Agreed'
    BY <1>1, <1>3 DEF Agreed
  <1>5. ASSUME NEW mv \in Moves, Move(mv) PROVE Listening'
    <2> DEFINE N == drv.mCycleMax
               pk == Packet(mouse.id, mv)
               L == Len(drv.mByte)
    <2>1. mouse.reporting /\ queue.mouse = <<>> /\ queue' = [queue EXCEPT !.mouse = pk]
      BY <1>5 DEF Move
    <2>2. mouse.id \in Ids
      BY DEF Typed, Mice
    <2>3. /\ Len(pk) = PacketLen(mouse.id)
          /\ \A i \in 1 .. PacketLen(mouse.id) : pk[i].pos = i - 1
      BY <2>2, PacketDoes
    <2>4. N = PacketLen(mouse.id) /\ N \in {3, 4, 6} /\ L \in Nat
      BY <1>3, <2>1 DEF Agreed, Typed
    <2> HIDE DEF pk
    <2>5. queue'.mouse = pk /\ queue'.ctl = queue.ctl
      BY <2>1 DEF Typed, Queues
    <2>6. /\ buf.full /\ buf.byte.src = "mouse" => buf.byte.pos = L /\ L + 1 = N
          /\ ~(buf.full /\ buf.byte.src = "mouse") => L = 0
      <3>1. Len(queue.mouse) = 0
        BY <2>1
      <3>2. QED
        BY <1>3, <3>1 DEF Following
    <2> HIDE DEF N, L
    <2> DEFINE n == Len(pk)
    <2>7. n = N
      BY <2>3, <2>4
    <2>8. \A i \in 1 .. n : pk[i].pos = N - n + i - 1
      BY <2>3, <2>4, <2>7
    <2>9. n <= N /\ N - n = 0 /\ n # 0
      BY <2>4, <2>7
    <2>10. drv'.mCycleMax = N /\ Len(drv'.mByte) = L
      BY <1>1 DEF N, L
    <2> HIDE DEF n
    <2>11. Following'
      BY <1>1, <2>5, <2>6, <2>7, <2>8, <2>9, <2>10 DEF Following, n
    <2>12. Latched'
      BY <1>1, <1>3, <2>5 DEF Latched
    <2>13. QED
      BY <1>1, <1>4, <2>11, <2>12 DEF Listening
  <1>6. ASSUME NEW code \in KeyCodes, Press(code) PROVE Listening'
    <2>1. queue' = [queue EXCEPT !.kbd = <<Reply("kbd", code)>>]
      BY <1>6 DEF Press
    <2>2. queue'.mouse = queue.mouse /\ queue'.ctl = queue.ctl
      BY <2>1 DEF Typed, Queues
    <2>3. Following'
      BY <1>1, <1>3, <2>2 DEF Following
    <2>4. Latched'
      BY <1>1, <1>3, <2>2 DEF Latched
    <2>5. QED
      BY <1>1, <1>4, <2>3, <2>4 DEF Listening
  <1>7. QED
    BY <1>5, <1>6

-----------------------------------------------------------------------------
(* In step: the invariant                                                  *)

(* At first nothing has been said. *)
LEMMA SynchronisedInit == Init => Lines /\ Synchronised
  <1> SUFFICES ASSUME Init PROVE Lines /\ Synchronised
    OBVIOUS
  <1>1. Lines
    BY DEF Init, Lines
  <1>2. NothingComes /\ Fresh
    BY DEF Init, NothingComes, Fresh
  <1>3. pc = "mouseInit"
    BY DEF Init
  <1>4. QED
    BY <1>1, <1>2, <1>3 DEF Synchronised, Phases, Running

(* Every step keeps what is said in step with what is heard. *)
LEMMA SynchronisedStep ==
  Typed /\ Typed' /\ Lines /\ Lines' /\ Synchronised /\ [Next]_vars => Synchronised'
  <1> SUFFICES ASSUME Typed, Typed', Lines, Lines', Synchronised, [Next]_vars, ~touched'
               PROVE  Phases'
    BY DEF Synchronised
  <1>1. ~touched
    BY DEF Next, Main, Handler, Move, Press, Use, Deliver, MouseIrqHandler, KeyboardIrqHandler,
           DisablePorts, DisableIrqs, ControllerTest, EnableIrqs, Write, WaitAck, WaitBat,
           ReadMouseID, InstallMouse, SelfTest, InstallKeyboard, EnterLoop, vars
  <1>2. Phases
    BY <1>1 DEF Synchronised
  <1>3. CASE DisablePorts \/ DisableIrqs \/ ControllerTest \/ EnableIrqs
    BY <1>2, <1>3, SetUpPhases
  <1>4. CASE Write \/ WaitAck \/ WaitBat \/ ReadMouseID
    <2>1. pc = "mouse" /\ pc' \in {"mouse", "gap"}
      BY <1>4 DEF Write, WaitAck, WaitBat, ReadMouseID, Doing, Acked
    <2>2. Talking
      BY <1>2, <2>1 DEF Phases
    <2>3. CASE pc' = "mouse"
      <3>1. Talking'
        BY <1>4, <2>2, <2>3, WriteTalks, WaitAckTalks, WaitBatTalks, ReadIdTalks
      <3>2. QED
        BY <2>3, <3>1 DEF Phases, Running
    <2>4. CASE pc' = "gap"
      <3>1. pic.open = {}
        BY <2>1 DEF Lines, Starting
      <3>2. pic'.open = {}
        <4>1. pic' = pic \/ Take
          BY <1>4 DEF Write, WaitAck, WaitBat, ReadMouseID
        <4>2. QED
          BY <3>1, <4>1, TakeLines
      <3>3. QED
        BY <2>4, <3>2 DEF Phases
    <2>5. QED
      BY <2>1, <2>3, <2>4
  <1>5. CASE InstallMouse
    BY <1>2, <1>5, InstallListens
  <1>6. CASE SelfTest \/ InstallKeyboard \/ EnterLoop
    BY <1>2, <1>6, KeyboardListens
  <1>7. CASE Handler
    BY <1>2, <1>7, HandlerPhases
  <1>8. ASSUME NEW d \in {"kbd", "mouse", "ctl"}, Deliver(d) PROVE Phases'
    BY <1>2, <1>8, DeliverPhases DEF Devices
  <1>9. CASE (\E mv \in Moves : Move(mv)) \/ (\E code \in KeyCodes : Press(code))
    BY <1>1, <1>2, <1>9, InputPhases
  <1>10. CASE UNCHANGED vars
    <2>1. UNCHANGED <<buf, ctl, queue, mouse, pic, pc, todo, drv>>
      BY <1>10 DEF vars
    <2>2. Coming' = Coming
      BY <2>1 DEF Coming
    <2>3. Talking => Talking'
      <3>1. ASSUME Talking
            PROVE  /\ buf'.full => buf'.byte.src = "mouse"
                   /\ queue'.kbd = <<>> /\ queue'.ctl = <<>>
        BY <2>1, <3>1 DEF Talking
      <3>2. QED
        BY <2>1, <2>2, <3>1, StillTalks
    <2>4. /\ NothingComes => NothingComes'
          /\ Fresh => Fresh'
          /\ \A v : Replies(v) => Replies(v)'
      BY <2>1 DEF NothingComes, Fresh, Replies
    <2>5. Agreed' = Agreed /\ Latched' = Latched /\ Following' = Following
      BY <2>1 DEF Agreed, Latched, Following
    <2>6. Listening => Listening'
      BY <2>1, <2>4, <2>5 DEF Listening
    <2>7. QED
      BY <1>2, <2>1, <2>3, <2>4, <2>6 DEF Phases
  <1>11. QED
    BY <1>3, <1>4, <1>5, <1>6, <1>7, <1>8, <1>9, <1>10 DEF Next, Main

(* Who has said what to whom, in every phase of the start and in the main loop, is an
   invariant of the driver. *)
THEOREM SynchronisedInvariant == Spec => [](Typed /\ Lines /\ Synchronised)
  <1>1. Init => Typed /\ OneInverted /\ Lines /\ Synchronised
    BY MouseInit, SynchronisedInit
  <1>2. Typed /\ OneInverted /\ Lines /\ Synchronised /\ [Next]_vars
          => Typed' /\ OneInverted' /\ Lines' /\ Synchronised'
    BY MouseStep, LinesStep, SynchronisedStep
  <1>3. QED
    BY <1>1, <1>2, PTL DEF Spec

(* The controller, the interrupt lines and the driver's buffer always hold what they
   can hold; a packet is never longer than the buffer. *)
THEOREM MouseTypeCorrect == Spec => []TypeOK
  <1>1. Typed /\ Lines => TypeOK
    <2> SUFFICES ASSUME Typed, Lines PROVE TypeOK
      OBVIOUS
    <2>1. buf.full \in BOOLEAN /\ buf.byte.val \in 0 .. 255
      BY DEF Typed, Bytes, Val
    <2>2. /\ ctl.ports \subseteq {"kbd", "mouse"} /\ ctl.irqs \subseteq {KBD, AUX}
          /\ pic.irr \subseteq {KBD, AUX} /\ pic.open \subseteq {KBD, AUX}
          /\ pic.isr \subseteq {KBD, AUX, CASCADE} /\ touched \in BOOLEAN
      BY DEF Lines
    <2>3. /\ drv.mCycleMax \in {3, 4, 6} /\ Len(drv.mByte) < drv.mCycleMax
          /\ drv.mPosX \in 0 .. (Cols - 1) * VelX /\ drv.mPosY \in 0 .. (Rows - 1) * VelY
      BY DEF Typed
    <2>4. QED
      BY <2>1, <2>2, <2>3 DEF TypeOK
  <1>2. QED
    BY <1>1, SynchronisedInvariant, PTL

(* While nothing was touched before the main loop, every byte of the mouse has the
   place in its packet that the handler takes it for: whatever mouse is connected,
   however it moves and whatever is typed in between. *)
THEOREM AlwaysInStep == Spec => []InStep
  <1>1. Typed /\ Lines /\ Synchronised => InStep
    <2> SUFFICES ASSUME Typed, Lines, Synchronised, AUX \in pic.open, ~touched
                 PROVE  Len(drv.mByte) = IF Coming = <<>> THEN 0 ELSE Head(Coming).pos
      BY DEF InStep
    <2>1. pc \in Running /\ Listening
      <3>1. pc \in Running
        BY DEF Typed, Lines
      <3>2. QED
        BY <3>1 DEF Synchronised, Phases
    <2>2. CASE pc \in {"gap", "keyboardInit", "settling"}
      <3>1. drv.mByte = <<>> /\ queue.mouse = <<>> /\ ~(buf.full /\ buf.byte.src = "mouse")
        BY <2>1, <2>2 DEF Listening, NothingComes, Replies, Reply, Byte
      <3>2. Coming = <<>> /\ Len(<<>>) = 0
        BY <3>1, ComingIs
      <3>3. QED
        BY <3>1, <3>2
    <2>3. CASE pc = "loop"
      <3> DEFINE N == drv.mCycleMax
                 n == Len(queue.mouse)
                 L == Len(drv.mByte)
      <3>1. Following
        BY <2>1, <2>3 DEF Listening
      <3>2. CASE buf.full /\ buf.byte.src = "mouse"
        BY <3>1, <3>2, ComingIs DEF Following
      <3>3. CASE ~(buf.full /\ buf.byte.src = "mouse")
        <4>1. Coming = queue.mouse /\ queue.mouse \in Seq(From("mouse"))
          BY <3>3, ComingIs DEF Typed, Queues
        <4>2. /\ \A i \in 1 .. n : queue.mouse[i].pos = N - n + i - 1
              /\ L = IF n = 0 THEN 0 ELSE N - n
          BY <3>1, <3>3 DEF Following
        <4>3. n \in Nat /\ N \in Int
          BY <4>1 DEF Typed
        <4>4. CASE queue.mouse = <<>>
          BY <4>1, <4>2, <4>4
        <4>5. CASE queue.mouse # <<>>
          <5>1. n # 0 /\ Head(queue.mouse) = queue.mouse[1] /\ 1 \in 1 .. n
            BY <4>1, <4>3, <4>5
          <5>2. queue.mouse[1].pos = N - n
            BY <4>2, <4>3, <5>1
          <5>3. QED
            BY <4>1, <4>2, <4>5, <5>1, <5>2
        <4>6. QED
          BY <4>4, <4>5
      <3>4. QED
        BY <3>2, <3>3
    <2>4. QED
      BY <2>1, <2>2, <2>3 DEF Running
  <1>2. QED
    BY <1>1, SynchronisedInvariant, PTL

=============================================================================
