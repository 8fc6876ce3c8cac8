--------------------------- MODULE KeyboardProofs ---------------------------
(***************************************************************************)
(* The keyboard's interrupt handler and the keyboard, for any keys, any    *)
(* length of the wire and whatever stands behind the table of scan codes:  *)
(* no modifier is left on, no reply is taken for a key, the LEDs show the  *)
(* locks.                                                                  *)
(***************************************************************************)
EXTENDS Keyboard, SequenceTheorems, TLAPS

USE KeyboardAssumption

(* What stands on the wire: a prefix, make and break codes, replies. *)
Codes == {42, 54, 29, 56, 58, 69, 70, 14, 30}
Bytes == {224} \cup Codes \cup {code + KeyReleased : code \in Codes}
           \cup {ERR_ACK, ERR_RESEND_CMD}

Kbds == [mShift : BOOLEAN, mCtrl : BOOLEAN, mAlt : BOOLEAN, mCapsLock : BOOLEAN,
         mNumLock : BOOLEAN, mScrollLock : BOOLEAN, mExtended : BOOLEAN, mBat : BOOLEAN,
         mDiag : BOOLEAN, mResend : BOOLEAN]

(* No byte of w is in M; one is in B, and none after it in M. *)
NoneOf(w, M) == \A i \in 1 .. Len(w) : w[i] \notin M
Ends(w, B, M) == \E i \in 1 .. Len(w) : w[i] \in B /\ \A j \in i + 1 .. Len(w) : w[j] \notin M

(* With all the keys of a modifier up, it is off and will stay so, or a break code
   that turns it off for good is on the way. *)
Breaks(codes) == {code + KeyReleased : code \in codes}

Off(on, h, w, keys, codes) ==
  h \cap keys = {} => \/ ~on /\ NoneOf(w, codes)
                      \/ Ends(w, Breaks(codes), codes)

Shifts == {"LSHIFT", "RSHIFT"}
Ctrls  == {"LCTRL", "RCTRL"}
Alts   == {"LALT", "RALT"}

(* The inductive invariant. *)
IInv ==
  /\ held \subseteq PhysicalKeys
  /\ wire \in Seq(Bytes)
  /\ kbd \in Kbds
  /\ Off(kbd.mShift, held, wire, Shifts, {42, 54})
  /\ Off(kbd.mCtrl, held, wire, Ctrls, {29})
  /\ Off(kbd.mAlt, held, wire, Alts, {56})

-----------------------------------------------------------------------------
(* The wire                                                                *)

(* The elements of two sequences put together. *)
LEMMA Joined ==
  ASSUME NEW w \in Seq(Bytes), NEW e \in Seq(Bytes)
  PROVE  /\ w \o e \in Seq(Bytes) /\ Len(w \o e) = Len(w) + Len(e)
         /\ Len(w) \in Nat /\ Len(e) \in Nat
         /\ \A i \in 1 .. Len(w) : (w \o e)[i] = w[i]
         /\ \A i \in Len(w) + 1 .. Len(w) + Len(e) : (w \o e)[i] = e[i - Len(w)]
  BY ConcatProperties

(* Bytes that are no make code of the modifier do not turn it on. *)
LEMMA OffAndMore ==
  ASSUME NEW w \in Seq(Bytes), NEW e \in Seq(Bytes), NEW on, NEW h, NEW keys, NEW codes,
         Off(on, h, w, keys, codes), NoneOf(e, codes)
  PROVE  Off(on, h, w \o e, keys, codes)
  <1> SUFFICES ASSUME h \cap keys = {}
               PROVE  \/ ~on /\ NoneOf(w \o e, codes)
                      \/ Ends(w \o e, Breaks(codes), codes)
    BY DEF Off
  <1> DEFINE we == w \o e
             B == Breaks(codes)
  <1>1. /\ Len(we) = Len(w) + Len(e) /\ Len(w) \in Nat /\ Len(e) \in Nat
        /\ \A i \in 1 .. Len(w) : we[i] = w[i]
        /\ \A i \in Len(w) + 1 .. Len(w) + Len(e) : we[i] = e[i - Len(w)]
    BY Joined
  <1> HIDE DEF we, B
  <1>2. \A j \in Len(w) + 1 .. Len(we) : we[j] \notin codes
    BY <1>1 DEF NoneOf
  <1>3. CASE ~on /\ NoneOf(w, codes)
    <2>1. NoneOf(we, codes)
      BY <1>1, <1>2, <1>3 DEF NoneOf
    <2>2. QED
      BY <1>3, <2>1 DEF we
  <1>4. CASE Ends(w, B, codes)
    <2>1. PICK i \in 1 .. Len(w) : w[i] \in B /\ \A j \in i + 1 .. Len(w) : w[j] \notin codes
      BY <1>4 DEF Ends
    <2>2. i \in 1 .. Len(we) /\ we[i] \in B
      BY <1>1, <2>1
    <2>3. \A j \in i + 1 .. Len(we) : we[j] \notin codes
      BY <1>1, <1>2, <2>1
    <2>4. QED
      BY <2>2, <2>3 DEF Ends, we, B
  <1>5. QED
    BY <1>3, <1>4 DEF Off, B

(* A break code at the end of the wire does turn the modifier off. *)
LEMMA OffAtEnd ==
  ASSUME NEW w \in Seq(Bytes), NEW e \in Seq(Bytes), NEW on, NEW h, NEW keys, NEW codes,
         Len(e) >= 1, e[Len(e)] \in Breaks(codes)
  PROVE  Off(on, h, w \o e, keys, codes)
  <1> DEFINE we == w \o e
  <1>1. /\ Len(we) = Len(w) + Len(e) /\ Len(w) \in Nat /\ Len(e) \in Nat
        /\ \A i \in Len(w) + 1 .. Len(w) + Len(e) : we[i] = e[i - Len(w)]
    BY Joined
  <1> HIDE DEF we
  <1>2. Len(we) \in 1 .. Len(we) /\ we[Len(we)] = e[Len(e)]
    BY <1>1
  <1>3. \A j \in Len(we) + 1 .. Len(we) : we[j] \notin codes
    BY <1>1
  <1>4. Ends(we, Breaks(codes), codes)
    BY <1>2, <1>3 DEF Ends
  <1>5. QED
    BY <1>4 DEF Off, we

(* The first byte is taken from the wire: a make code of the modifier may turn it
   on, a break code turns it off. *)
LEMMA OffAfterHead ==
  ASSUME NEW w \in Seq(Bytes), w # <<>>, NEW on, NEW on2, NEW h, NEW keys, NEW codes,
         Off(on, h, w, keys, codes),
         Head(w) \in Breaks(codes) => ~on2,
         Head(w) \notin codes /\ ~on => ~on2
  PROVE  Off(on2, h, Tail(w), keys, codes)
  <1> SUFFICES ASSUME h \cap keys = {}
               PROVE  \/ ~on2 /\ NoneOf(Tail(w), codes)
                      \/ Ends(Tail(w), Breaks(codes), codes)
    BY DEF Off
  <1> DEFINE t == Tail(w)
             B == Breaks(codes)
  <1>1. /\ Len(t) = Len(w) - 1 /\ Len(w) \in Nat /\ Len(w) >= 1 /\ Head(w) = w[1]
        /\ \A i \in 1 .. Len(w) - 1 : t[i] = w[i + 1]
    BY HeadTailProperties
  <1> HIDE DEF t, B
  <1>2. CASE ~on /\ NoneOf(w, codes)
    <2>1. NoneOf(t, codes) /\ Head(w) \notin codes
      BY <1>1, <1>2 DEF NoneOf
    <2>2. QED
      BY <1>2, <2>1 DEF t
  <1>3. CASE Ends(w, B, codes)
    <2>1. PICK i \in 1 .. Len(w) : w[i] \in B /\ \A j \in i + 1 .. Len(w) : w[j] \notin codes
      BY <1>3 DEF Ends
    <2>2. CASE i = 1
      <3>1. NoneOf(t, codes)
        BY <1>1, <2>1, <2>2 DEF NoneOf
      <3>2. ~on2
        BY <1>1, <2>1, <2>2 DEF B
      <3>3. QED
        BY <3>1, <3>2 DEF t
    <2>3. CASE i # 1
      <3>1. i - 1 \in 1 .. Len(t) /\ t[i - 1] \in B
        BY <1>1, <2>1, <2>3
      <3>2. \A j \in (i - 1) + 1 .. Len(t) : t[j] \notin codes
        BY <1>1, <2>1, <2>3
      <3>3. QED
        BY <3>1, <3>2 DEF Ends, t, B
    <2>4. QED
      BY <2>2, <2>3
  <1>4. QED
    BY <1>2, <1>3 DEF Off, B

-----------------------------------------------------------------------------
(* The keys                                                                *)

(* The codes of a modifier are those its keys send. *)
Group(keys, codes) ==
  /\ codes \subseteq Codes
  /\ \A k \in PhysicalKeys : Scancode[k] \in codes <=> k \in keys

(* Every key has a code, and the modifiers have those of their keys. *)
LEMMA ScancodesRight ==
  /\ \A k \in PhysicalKeys : Scancode[k] \in Codes
  /\ Group(Shifts, {42, 54}) /\ Group(Ctrls, {29}) /\ Group(Alts, {56})
  <1>1. ASSUME NEW k \in PhysicalKeys
        PROVE  /\ Scancode[k] \in Codes
               /\ Scancode[k] \in {42, 54} <=> k \in Shifts
               /\ Scancode[k] \in {29} <=> k \in Ctrls
               /\ Scancode[k] \in {56} <=> k \in Alts
    BY DEF Scancode, Codes, Shifts, Ctrls, Alts
  <1>2. QED
    BY <1>1 DEF Group, Codes

(* What a key sends when it goes down ... *)
LEMMA MakeDoes ==
  ASSUME NEW k \in PhysicalKeys
  PROVE  /\ Make(k) \in Seq(Bytes)
         /\ \A keys, codes : Group(keys, codes) /\ k \notin keys => NoneOf(Make(k), codes)
  <1>1. Scancode[k] \in Bytes /\ 224 \in Bytes /\ 224 \notin Codes
    BY ScancodesRight DEF Bytes, Codes
  <1>2. CASE k \in Prefixed
    <2>1. Make(k) = <<224, Scancode[k]>>
      BY <1>2 DEF Make
    <2> HIDE DEF Make
    <2>2. QED
      BY <1>1, <2>1 DEF NoneOf, Group
  <1>3. CASE k \notin Prefixed
    <2>1. Make(k) = <<Scancode[k]>>
      BY <1>3 DEF Make
    <2>2. QED
      BY <1>1, <2>1 DEF NoneOf, Group
  <1>4. QED
    BY <1>2, <1>3

(* ... and when it comes up. *)
LEMMA BreakDoes ==
  ASSUME NEW k \in PhysicalKeys
  PROVE  /\ Break(k) \in Seq(Bytes) /\ Len(Break(k)) >= 1
         /\ \A codes : codes \subseteq Codes => NoneOf(Break(k), codes)
         /\ \A keys, codes : Group(keys, codes) /\ k \in keys =>
               Break(k)[Len(Break(k))] \in Breaks(codes)
  <1> DEFINE b == Scancode[k] + KeyReleased
  <1>1. b \in Bytes /\ 224 \in Bytes /\ 224 \notin Codes /\ b \notin Codes
    BY ScancodesRight DEF Bytes, Codes, KeyReleased
  <1>2. \A keys, codes : Group(keys, codes) /\ k \in keys => b \in Breaks(codes)
    BY DEF Group, Breaks
  <1> HIDE DEF b
  <1>3. CASE k \in Prefixed
    <2>1. Break(k) = <<224, b>>
      BY <1>3 DEF Break, b
    <2>2. QED
      BY <1>1, <1>2, <2>1 DEF NoneOf
  <1>4. CASE k \notin Prefixed
    <2>1. Break(k) = <<b>>
      BY <1>4 DEF Break, b
    <2>2. QED
      BY <1>1, <1>2, <2>1 DEF NoneOf
  <1>5. QED
    BY <1>3, <1>4

(* A key going down or held: the other modifiers will still be off. *)
LEMMA DownKeepsOff ==
  ASSUME IInv, NEW k \in PhysicalKeys, NEW h, h \cup {k} = h, h \ {k} = held \ {k},
         NEW on, NEW keys, NEW codes, Group(keys, codes), Off(on, held, wire, keys, codes)
  PROVE  Off(on, h, wire \o Make(k), keys, codes)
  <1>1. CASE k \in keys
    BY <1>1 DEF Off
  <1>2. CASE k \notin keys
    <2>1. Off(on, held, wire \o Make(k), keys, codes)
      BY <1>2, MakeDoes, OffAndMore DEF IInv
    <2>2. h \cap keys = held \cap keys
      BY <1>2
    <2>3. QED
      BY <2>1, <2>2 DEF Off
  <1>3. QED
    BY <1>1, <1>2

(* A key coming up: its modifier, too, will be off. *)
LEMMA UpKeepsOff ==
  ASSUME IInv, NEW k \in PhysicalKeys,
         NEW on, NEW keys, NEW codes, Group(keys, codes), Off(on, held, wire, keys, codes)
  PROVE  Off(on, held \ {k}, wire \o Break(k), keys, codes)
  <1>1. CASE k \in keys
    BY <1>1, BreakDoes, OffAtEnd DEF IInv
  <1>2. CASE k \notin keys
    <2>1. Off(on, held, wire \o Break(k), keys, codes)
      BY <1>2, BreakDoes, OffAndMore DEF IInv, Group
    <2>2. (held \ {k}) \cap keys = held \cap keys
      BY <1>2
    <2>3. QED
      BY <2>1, <2>2 DEF Off
  <1>3. QED
    BY <1>1, <1>2

-----------------------------------------------------------------------------
(* The handler                                                             *)

ShiftKeys == {"KEY_LSHIFT", "KEY_RSHIFT"}
CtrlKeys  == {"KEY_LCTRL", "KEY_RCTRL"}
AltKeys   == {"KEY_LALT", "KEY_RALT"}

SameLocks(s, t) ==
  t.mCapsLock = s.mCapsLock /\ t.mNumLock = s.mNumLock /\ t.mScrollLock = s.mScrollLock

SameKeys(s, t) ==
  t.mShift = s.mShift /\ t.mCtrl = s.mCtrl /\ t.mAlt = s.mAlt /\ SameLocks(s, t)

(* A key coming up turns its modifier off and nothing on. *)
LEMMA KeyUpDoes ==
  ASSUME NEW s \in Kbds, NEW key
  PROVE  /\ KeyUp(s, key) \in Kbds
         /\ KeyUp(s, key).mShift = (s.mShift /\ key \notin ShiftKeys)
         /\ KeyUp(s, key).mCtrl = (s.mCtrl /\ key \notin CtrlKeys)
         /\ KeyUp(s, key).mAlt = (s.mAlt /\ key \notin AltKeys)
         /\ SameLocks(s, KeyUp(s, key))
  <1>1. CASE key \in CtrlKeys
    BY <1>1 DEF KeyUp, Kbds, ShiftKeys, CtrlKeys, AltKeys, SameLocks
  <1>2. CASE key \in ShiftKeys
    BY <1>2 DEF KeyUp, Kbds, ShiftKeys, CtrlKeys, AltKeys, SameLocks
  <1>3. CASE key \in AltKeys
    BY <1>3 DEF KeyUp, Kbds, ShiftKeys, CtrlKeys, AltKeys, SameLocks
  <1>4. CASE key \notin CtrlKeys \cup ShiftKeys \cup AltKeys
    <2>1. KeyUp(s, key) = s
      BY <1>4 DEF KeyUp, ShiftKeys, CtrlKeys, AltKeys
    <2>2. QED
      BY <1>4, <2>1 DEF Kbds, SameLocks
  <1>5. QED
    BY <1>1, <1>2, <1>3, <1>4

(* A key going down turns at most its own modifier on; only a lock toggles a lock. *)
LEMMA KeyDownDoes ==
  ASSUME NEW s \in Kbds, NEW key
  PROVE  /\ KeyDown(s, key) \in Kbds
         /\ key \notin ShiftKeys => KeyDown(s, key).mShift = s.mShift
         /\ key \notin CtrlKeys => KeyDown(s, key).mCtrl = s.mCtrl
         /\ key \notin AltKeys => KeyDown(s, key).mAlt = s.mAlt
         /\ key \notin Locks => SameLocks(s, KeyDown(s, key))
  <1>1. CASE key \in CtrlKeys
    BY <1>1 DEF KeyDown, Kbds, ShiftKeys, CtrlKeys, AltKeys, SameLocks
  <1>2. CASE key \in ShiftKeys
    BY <1>2 DEF KeyDown, Kbds, ShiftKeys, CtrlKeys, AltKeys, SameLocks
  <1>3. CASE key \in AltKeys
    BY <1>3 DEF KeyDown, Kbds, ShiftKeys, CtrlKeys, AltKeys, SameLocks
  <1>4. CASE key \in Locks
    BY <1>4 DEF KeyDown, Kbds, ShiftKeys, CtrlKeys, AltKeys, Locks
  <1>5. CASE key \notin CtrlKeys \cup ShiftKeys \cup AltKeys \cup Locks
    <2>1. KeyDown(s, key) = s
      BY <1>5 DEF KeyDown, ShiftKeys, CtrlKeys, AltKeys, Locks
    <2>2. QED
      BY <2>1 DEF Kbds, SameLocks
  <1>6. QED
    BY <1>1, <1>2, <1>3, <1>4, <1>5

(* The rest of the handler leaves modifiers and locks alone. *)
LEMMA RestDoes ==
  ASSUME NEW s \in Kbds, NEW b \in BOOLEAN, NEW code
  PROVE  LET t == WatchErrors([s EXCEPT !.mExtended = b], code)
         IN  t \in Kbds /\ SameKeys(s, t)
  BY DEF WatchErrors, Kbds, SameKeys, SameLocks

(* The table of scan codes gives a modifier's key for its codes only. *)
LEMMA TableRight ==
  ASSUME NEW code \in Codes
  PROVE  /\ KeyScancodes(code) \in ShiftKeys <=> code \in {42, 54}
         /\ KeyScancodes(code) \in CtrlKeys <=> code \in {29}
         /\ KeyScancodes(code) \in AltKeys <=> code \in {56}
  BY DEF Codes, KeyScancodes, TableSize, ShiftKeys, CtrlKeys, AltKeys

(* What one byte may do to a modifier. *)
Handled(b, on, on2, codes) ==
  (b \in Breaks(codes) => ~on2) /\ (b \notin codes /\ ~on => ~on2)

(* What the handler does to modifiers and wire. *)
LEMMA HandlerDoes ==
  ASSUME IInv, KeyboardIrqHandler
  PROVE  /\ wire # <<>> /\ kbd' \in Kbds
         /\ \E e \in Seq(Bytes) :
              /\ wire' = Tail(wire) \o e
              /\ \A codes : codes \subseteq Codes => NoneOf(e, codes)
         /\ Handled(Head(wire), kbd.mShift, kbd'.mShift, {42, 54})
         /\ Handled(Head(wire), kbd.mCtrl, kbd'.mCtrl, {29})
         /\ Handled(Head(wire), kbd.mAlt, kbd'.mAlt, {56})
  <1> DEFINE b == Head(wire)
  <1>1. wire # <<>> /\ b \in Bytes /\ kbd \in Kbds /\ Tail(wire) \in Seq(Bytes)
    BY HeadTailProperties DEF KeyboardIrqHandler, IInv
  <1>2. Tail(wire) = Tail(wire) \o <<>> /\ <<>> \in Seq(Bytes)
    BY <1>1, ConcatEmptySeq
  <1>3. \A codes : NoneOf(<<>>, codes)
    BY DEF NoneOf
  <1> HIDE DEF b
  <1>4. CASE PrefixByte(b)
    <2>1. kbd' \in Kbds /\ SameKeys(kbd, kbd')
      BY <1>1, <1>4, RestDoes DEF PrefixByte
    <2>2. b \notin Breaks({42, 54}) /\ b \notin Breaks({29}) /\ b \notin Breaks({56})
      BY <1>4 DEF PrefixByte, Extended, Breaks, KeyReleased
    <2>3. wire' = Tail(wire)
      BY <1>4 DEF PrefixByte
    <2>4. QED
      BY <1>1, <1>2, <1>3, <2>1, <2>2, <2>3 DEF Handled, SameKeys, b
  <1>5. CASE BreakByte(b)
    <2> DEFINE code == b - KeyReleased
               s == KeyUp(kbd, KeyScancodes(code))
    <2>1. kbd' = WatchErrors([s EXCEPT !.mExtended = FALSE], code)
      BY <1>5 DEF BreakByte
    <2> HIDE DEF code
    <2>2. /\ s \in Kbds
          /\ s.mShift = (kbd.mShift /\ KeyScancodes(code) \notin ShiftKeys)
          /\ s.mCtrl = (kbd.mCtrl /\ KeyScancodes(code) \notin CtrlKeys)
          /\ s.mAlt = (kbd.mAlt /\ KeyScancodes(code) \notin AltKeys)
      BY <1>1, KeyUpDoes
    <2> HIDE DEF s
    <2>3. kbd' \in Kbds /\ SameKeys(s, kbd')
      BY <2>1, <2>2, RestDoes
    <2>4. /\ b \in Breaks({42, 54}) => code \in {42, 54} /\ code \in Codes
          /\ b \in Breaks({29}) => code \in {29} /\ code \in Codes
          /\ b \in Breaks({56}) => code \in {56} /\ code \in Codes
      BY DEF Breaks, KeyReleased, code, Codes
    <2>5. /\ b \in Breaks({42, 54}) => KeyScancodes(code) \in ShiftKeys
          /\ b \in Breaks({29}) => KeyScancodes(code) \in CtrlKeys
          /\ b \in Breaks({56}) => KeyScancodes(code) \in AltKeys
      BY <2>4, TableRight
    <2>6. wire' = Tail(wire)
      BY <1>5 DEF BreakByte
    <2>7. QED
      BY <1>1, <1>2, <1>3, <2>2, <2>3, <2>5, <2>6 DEF Handled, SameKeys, b
  <1>6. CASE MakeByte(b)
    <2> DEFINE key == KeyScancodes(b)
               s == KeyDown(kbd, key)
               t == WatchErrors([s EXCEPT !.mExtended = FALSE], b)
    <2>1. /\ kbd' = t /\ b < KeyReleased
          /\ IF key \in Locks THEN SetLeds(t, Tail(wire)) ELSE wire' = Tail(wire)
      BY <1>6 DEF MakeByte
    <2>2. b \in Codes
      BY <1>1, <2>1 DEF Bytes, Codes, KeyReleased, ERR_ACK, ERR_RESEND_CMD
    <2> HIDE DEF key
    <2>3. /\ s \in Kbds
          /\ key \notin ShiftKeys => s.mShift = kbd.mShift
          /\ key \notin CtrlKeys => s.mCtrl = kbd.mCtrl
          /\ key \notin AltKeys => s.mAlt = kbd.mAlt
      BY <1>1, KeyDownDoes
    <2> HIDE DEF s
    <2>4. t \in Kbds /\ SameKeys(s, t)
      BY <2>3, RestDoes
    <2> HIDE DEF t
    <2>5. /\ b \notin {42, 54} => key \notin ShiftKeys
          /\ b \notin {29} => key \notin CtrlKeys
          /\ b \notin {56} => key \notin AltKeys
      BY <2>2, TableRight DEF key
    <2>6. b \notin Breaks({42, 54}) /\ b \notin Breaks({29}) /\ b \notin Breaks({56})
      BY <2>2 DEF Breaks, KeyReleased, Codes
    <2>7. \E e \in Seq(Bytes) :
              /\ wire' = Tail(wire) \o e
              /\ \A codes : codes \subseteq Codes => NoneOf(e, codes)
      <3>1. ERR_ACK \in Bytes /\ ERR_RESEND_CMD \in Bytes
        BY DEF Bytes
      <3>2. \A codes : codes \subseteq Codes =>
              NoneOf(<<ERR_ACK, ERR_ACK>>, codes) /\ NoneOf(<<ERR_RESEND_CMD>>, codes)
        BY DEF NoneOf, Codes, ERR_ACK, ERR_RESEND_CMD
      <3>3. \/ wire' = Tail(wire)
            \/ wire' = Tail(wire) \o <<ERR_ACK, ERR_ACK>>
            \/ wire' = Tail(wire) \o <<ERR_RESEND_CMD>>
        BY <2>1 DEF SetLeds
      <3>4. <<ERR_ACK, ERR_ACK>> \in Seq(Bytes) /\ <<ERR_RESEND_CMD>> \in Seq(Bytes)
        BY <3>1
      <3>5. QED
        BY <1>2, <1>3, <3>2, <3>3, <3>4
    <2>8. QED
      BY <1>1, <2>1, <2>3, <2>4, <2>5, <2>6, <2>7 DEF Handled, SameKeys, b
  <1>7. QED
    BY <1>4, <1>5, <1>6 DEF KeyboardIrqHandler, b

-----------------------------------------------------------------------------
(* The inductive invariant                                                 *)

(* At first no key is down, nothing on the wire, and all is off. *)
LEMMA KeyboardInit == Init => IInv
  <1> SUFFICES ASSUME Init PROVE IInv
    OBVIOUS
  <1>1. wire = <<>> /\ held = {} /\ kbd \in Kbds /\ ~kbd.mShift /\ ~kbd.mCtrl /\ ~kbd.mAlt
    BY DEF Init, Kbds
  <1>2. \A codes : NoneOf(<<>>, codes)
    BY DEF NoneOf
  <1>3. QED
    BY <1>1, <1>2 DEF IInv, Off

(* Every step keeps the invariant. *)
LEMMA KeyboardStep == IInv /\ [Next]_vars => IInv'
  <1> SUFFICES ASSUME IInv, [Next]_vars PROVE IInv'
    OBVIOUS
  <1>0. /\ held \subseteq PhysicalKeys /\ wire \in Seq(Bytes) /\ kbd \in Kbds
        /\ Off(kbd.mShift, held, wire, Shifts, {42, 54})
        /\ Off(kbd.mCtrl, held, wire, Ctrls, {29})
        /\ Off(kbd.mAlt, held, wire, Alts, {56})
    BY DEF IInv
  <1>1. ASSUME NEW k \in PhysicalKeys, Press(k) \/ Repeat(k) PROVE IInv'
    <2>1. /\ wire' = wire \o Make(k) /\ kbd' = kbd
          /\ held' \cup {k} = held' /\ held' \ {k} = held \ {k}
      BY <1>1 DEF Press, Repeat, Send
    <2>2. held' \subseteq PhysicalKeys /\ wire' \in Seq(Bytes)
      BY <1>0, <2>1, MakeDoes, Joined
    <2>3. /\ Off(kbd.mShift, held', wire', Shifts, {42, 54})
          /\ Off(kbd.mCtrl, held', wire', Ctrls, {29})
          /\ Off(kbd.mAlt, held', wire', Alts, {56})
      BY <1>0, <2>1, DownKeepsOff, ScancodesRight
    <2>4. QED
      BY <1>0, <2>1, <2>2, <2>3 DEF IInv
  <1>2. ASSUME NEW k \in PhysicalKeys, Release(k) PROVE IInv'
    <2>1. wire' = wire \o Break(k) /\ kbd' = kbd /\ held' = held \ {k}
      BY <1>2 DEF Release, Send
    <2>2. held' \subseteq PhysicalKeys /\ wire' \in Seq(Bytes)
      BY <1>0, <2>1, BreakDoes, Joined
    <2>3. /\ Off(kbd.mShift, held', wire', Shifts, {42, 54})
          /\ Off(kbd.mCtrl, held', wire', Ctrls, {29})
          /\ Off(kbd.mAlt, held', wire', Alts, {56})
      BY <1>0, <2>1, UpKeepsOff, ScancodesRight
    <2>4. QED
      BY <1>0, <2>1, <2>2, <2>3 DEF IInv
  <1>3. ASSUME KeyboardIrqHandler PROVE IInv'
    <2>1. /\ wire # <<>> /\ kbd' \in Kbds /\ held' = held
          /\ Handled(Head(wire), kbd.mShift, kbd'.mShift, {42, 54})
          /\ Handled(Head(wire), kbd.mCtrl, kbd'.mCtrl, {29})
          /\ Handled(Head(wire), kbd.mAlt, kbd'.mAlt, {56})
      BY <1>3, HandlerDoes DEF KeyboardIrqHandler
    <2>2. PICK e \in Seq(Bytes) :
             /\ wire' = Tail(wire) \o e
             /\ \A codes : codes \subseteq Codes => NoneOf(e, codes)
      BY <1>3, HandlerDoes
    <2>3. Tail(wire) \in Seq(Bytes)
      BY <1>0, <2>1, HeadTailProperties
    <2>4. ASSUME NEW on, NEW on2, NEW keys, NEW codes, Group(keys, codes),
                 Off(on, held, wire, keys, codes), Handled(Head(wire), on, on2, codes)
          PROVE  Off(on2, held', wire', keys, codes)
      <3>1. Off(on2, held, Tail(wire), keys, codes)
        BY <1>0, <2>1, <2>4, OffAfterHead DEF Handled
      <3>2. NoneOf(e, codes)
        BY <2>2, <2>4 DEF Group
      <3>3. QED
        BY <2>1, <2>2, <2>3, <3>1, <3>2, OffAndMore
    <2>5. wire' \in Seq(Bytes)
      BY <2>2, <2>3, Joined
    <2>6. /\ Off(kbd'.mShift, held', wire', Shifts, {42, 54})
          /\ Off(kbd'.mCtrl, held', wire', Ctrls, {29})
          /\ Off(kbd'.mAlt, held', wire', Alts, {56})
      BY <1>0, <2>1, <2>4, ScancodesRight
    <2>7. QED
      BY <1>0, <2>1, <2>5, <2>6 DEF IInv
  <1>4. CASE UNCHANGED vars
    BY <1>0, <1>4 DEF vars, IInv
  <1>5. QED
    BY <1>1, <1>2, <1>3, <1>4 DEF Next

(* The inductive invariant holds throughout. *)
THEOREM KeyboardInvariant == Spec => []IInv
  BY KeyboardInit, KeyboardStep, PTL DEF Spec

-----------------------------------------------------------------------------
(* What the runs check                                                     *)

(* Once every byte is handled, a modifier is on only while one of its keys is down
   (KeyboardIrqHandler: left and right share a flag, prefixes are not looked at). *)
THEOREM ModifiersNeverStuck == Spec => []NoModifierStuck
  <1>1. ASSUME IInv PROVE NoModifierStuck
    <2>1. ASSUME NEW on, NEW keys, NEW codes, Off(on, held, wire, keys, codes), wire = <<>>
          PROVE  on => held \cap keys # {}
      <3>1. ~Ends(wire, Breaks(codes), codes)
        BY <2>1 DEF Ends
      <3>2. QED
        BY <2>1, <3>1 DEF Off
    <2>2. QED
      BY <1>1, <2>1 DEF IInv, NoModifierStuck, Shifts, Ctrls, Alts
  <1>2. QED
    BY <1>1, KeyboardInvariant, PTL

(* An acknowledgement and a request to resend have the values of break codes: the
   handler pushes nothing for them and leaves the LEDs alone. *)
THEOREM RepliesNeverPush == Spec => RepliesPushNothing
  <1>1. ASSUME wire # <<>>, Head(wire) \in {ERR_ACK, ERR_RESEND_CMD}, KeyboardIrqHandler
        PROVE  pushed' = None /\ leds' = leds
    BY <1>1 DEF KeyboardIrqHandler, PrefixByte, BreakByte, MakeByte, ERR_ACK, ERR_RESEND_CMD,
                KeyReleased
  <1>2. QED
    BY <1>1, PTL DEF Spec, RepliesPushNothing

(* When a lock or an LED changes, the LEDs then show the locks, or the keyboard has
   refused the command (keyboardSetLeds). *)
THEOREM LedsAlwaysShowLocks == Spec => LedsShowLocks
  <1>1. ASSUME IInv, [Next]_vars, LedsOf(kbd') # LedsOf(kbd) \/ leds' # leds
        PROVE  leds' = LedsOf(kbd') \/ wire'[Len(wire')] = ERR_RESEND_CMD
    <2>0. /\ kbd \in Kbds /\ wire \in Seq(Bytes)
          /\ wire # <<>> => Tail(wire) \in Seq(Bytes)
      BY <1>1, HeadTailProperties DEF IInv
    <2>1. ASSUME NEW s, SameLocks(kbd, s) PROVE LedsOf(s) = LedsOf(kbd)
      BY <2>1 DEF LedsOf, SameLocks
    <2>2. CASE kbd' = kbd /\ leds' = leds
      BY <1>1, <2>2
    <2>3. ASSUME wire # <<>>, PrefixByte(Head(wire)) PROVE FALSE
      <3>1. SameKeys(kbd, kbd') /\ leds' = leds
        BY <2>0, <2>3, RestDoes DEF PrefixByte
      <3>2. QED
        BY <1>1, <2>1, <3>1 DEF SameKeys
    <2>4. ASSUME wire # <<>>, BreakByte(Head(wire)) PROVE FALSE
      <3> DEFINE code == Head(wire) - KeyReleased
                 s == KeyUp(kbd, KeyScancodes(code))
      <3>1. kbd' = WatchErrors([s EXCEPT !.mExtended = FALSE], code) /\ leds' = leds
        BY <2>4 DEF BreakByte
      <3>2. s \in Kbds /\ SameLocks(kbd, s)
        BY <2>0, KeyUpDoes
      <3> HIDE DEF code, s
      <3>3. SameKeys(s, kbd')
        BY <3>1, <3>2, RestDoes
      <3>4. SameLocks(kbd, kbd')
        BY <3>2, <3>3 DEF SameKeys, SameLocks
      <3>5. QED
        BY <1>1, <2>1, <3>1, <3>4
    <2>5. ASSUME wire # <<>>, MakeByte(Head(wire))
          PROVE  leds' = LedsOf(kbd') \/ wire'[Len(wire')] = ERR_RESEND_CMD
      <3> DEFINE key == KeyScancodes(Head(wire))
                 s == KeyDown(kbd, key)
                 t == WatchErrors([s EXCEPT !.mExtended = FALSE], Head(wire))
      <3>1. /\ kbd' = t
            /\ IF key \in Locks THEN SetLeds(t, Tail(wire)) ELSE leds' = leds
        BY <2>5 DEF MakeByte
      <3>2. s \in Kbds /\ (key \notin Locks => SameLocks(kbd, s))
        BY <2>0, KeyDownDoes
      <3> HIDE DEF key, s
      <3>3. SameKeys(s, t)
        BY <3>2, RestDoes
      <3> HIDE DEF t
      <3>4. CASE key \in Locks
        <4>1. \/ leds' = LedsOf(t)
              \/ wire' = Tail(wire) \o <<ERR_RESEND_CMD>>
          BY <3>1, <3>4 DEF SetLeds
        <4>2. ASSUME wire' = Tail(wire) \o <<ERR_RESEND_CMD>>
              PROVE  wire'[Len(wire')] = ERR_RESEND_CMD
          BY <2>0, <2>5, <4>2
        <4>3. QED
          BY <3>1, <4>1, <4>2
      <3>5. CASE key \notin Locks
        <4>1. SameLocks(kbd, kbd') /\ leds' = leds
          BY <3>1, <3>2, <3>3, <3>5 DEF SameKeys, SameLocks
        <4>2. QED
          BY <1>1, <2>1, <4>1
      <3>6. QED
        BY <3>4, <3>5
    <2>6. QED
      BY <1>1, <2>2, <2>3, <2>4, <2>5
         DEF Next, vars, Press, Repeat, Release, KeyboardIrqHandler
  <1>2. QED
    BY <1>1, KeyboardInvariant, PTL DEF Spec, LedsShowLocks

=============================================================================
