------------------------------ MODULE Keyboard ------------------------------
(***************************************************************************)
(* KeyboardIrqHandler (lib/hal/common-x86/keyboard.cpp) and the keyboard   *)
(* at the other end of the wire.  The keyboard sends make and break codes  *)
(* of the keys the typist holds, and replies to the LED command the        *)
(* handler itself sends from inside the interrupt; the handler tells them  *)
(* apart by their value only.  The bytes arrive in order and the handler   *)
(* runs with interrupts off, one byte at a time.                           *)
(***************************************************************************)
EXTENDS Integers, Sequences

CONSTANTS PhysicalKeys,  \* keys of the keyboard that are used
          Behind,        \* key codes the memory behind KeyScancodes may read as
          Rejects,       \* the keyboard may answer a command with "resend"
          MaxWire        \* bytes in the keyboard not yet handled

ASSUME KeyboardAssumption ==
  /\ PhysicalKeys \subseteq {"LSHIFT", "RSHIFT", "LCTRL", "RCTRL", "LALT", "RALT",
                             "CAPSLOCK", "NUMLOCK", "SCROLLLOCK", "BACKSPACE", "A"}
  /\ Rejects \in BOOLEAN
  /\ MaxWire \in Nat

VARIABLES held,   \* keys down at the moment
          wire,   \* bytes sent and not handled yet
          leds,   \* LEDs lit: a subset of {"num", "caps", "scroll"}
          kbd,    \* the handler's globals
          pushed, \* the key the last interrupt pushed into mBuffer, if any
          reset,  \* the handler has reset the machine
          behind  \* what the memory behind KeyScancodes reads as in this build

vars == <<held, wire, leds, kbd, pushed, reset, behind>>

None == "none"

(* Scan codes of set 1, keys with the prefix 0xE0 apart. *)
Scancode == [LSHIFT |-> 42, RSHIFT |-> 54, LCTRL |-> 29, RCTRL |-> 29,
             LALT |-> 56, RALT |-> 56, CAPSLOCK |-> 58, NUMLOCK |-> 69,
             SCROLLLOCK |-> 70, BACKSPACE |-> 14, A |-> 30]
Prefixed == {"RCTRL", "RALT"}

KeyReleased == 128
Extended == {224, 225}   \* 0xE0, 0xE1
ERR_ACK == 250
ERR_BAT_FAILED == 252
ERR_DIAG_FAILED == 253
ERR_RESEND_CMD == 254

Make(k) == IF k \in Prefixed THEN <<224, Scancode[k]>> ELSE <<Scancode[k]>>
Break(k) == IF k \in Prefixed THEN <<224, Scancode[k] + KeyReleased>>
                              ELSE <<Scancode[k] + KeyReleased>>

(* KeyScancodes has 83 entries; left and right keys share theirs, and what a
   larger index reads is whatever follows the table. *)
TableSize == 83
KeyScancodes(code) ==
  IF code >= TableSize THEN behind
  ELSE CASE code = 42 -> "KEY_LSHIFT" [] code = 54 -> "KEY_RSHIFT"
         [] code = 29 -> "KEY_LCTRL" [] code = 56 -> "KEY_RALT"
         [] code = 58 -> "KEY_CAPSLOCK" [] code = 69 -> "KEY_KP_NUMLOCK"
         [] code = 70 -> "KEY_SCROLLLOCK" [] code = 14 -> "KEY_BACKSPACE"
         [] OTHER -> "KEY_A"

Init ==
  /\ held = {} /\ wire = <<>>
  /\ leds \in SUBSET {"num", "caps", "scroll"}   \* as the firmware left them
  /\ kbd = [mShift |-> FALSE, mCtrl |-> FALSE, mAlt |-> FALSE, mCapsLock |-> FALSE,
            mNumLock |-> FALSE, mScrollLock |-> FALSE, mExtended |-> FALSE, mBat |-> FALSE,
            mDiag |-> FALSE, mResend |-> FALSE]
  /\ pushed = None
  /\ reset = FALSE
  /\ behind \in Behind

-----------------------------------------------------------------------------
(* The typist                                                              *)

Send(bytes) ==
  /\ Len(wire) + Len(bytes) <= MaxWire
  /\ wire' = wire \o bytes

Press(k) ==
  /\ ~reset /\ k \notin held
  /\ Send(Make(k)) /\ held' = held \cup {k}
  /\ UNCHANGED <<leds, kbd, pushed, reset, behind>>

(* Typematic repeat of a key held down. *)
Repeat(k) ==
  /\ ~reset /\ k \in held
  /\ Send(Make(k))
  /\ UNCHANGED <<held, leds, kbd, pushed, reset, behind>>

Release(k) ==
  /\ ~reset /\ k \in held
  /\ Send(Break(k)) /\ held' = held \ {k}
  /\ UNCHANGED <<leds, kbd, pushed, reset, behind>>

-----------------------------------------------------------------------------
(* KeyboardIrqHandler                                                      *)

(* Mutant: the release of the right shift is forgotten. *)
KeyUpLeftOnly(s, key) ==
  CASE key \in {"KEY_LCTRL", "KEY_RCTRL"} -> [s EXCEPT !.mCtrl = FALSE]
    [] key \in {"KEY_LSHIFT"}             -> [s EXCEPT !.mShift = FALSE]
    [] key \in {"KEY_LALT", "KEY_RALT"}   -> [s EXCEPT !.mAlt = FALSE]
    [] OTHER -> s

KeyUp(s, key) ==
  CASE key \in {"KEY_LCTRL", "KEY_RCTRL"}   -> [s EXCEPT !.mCtrl = FALSE]
    [] key \in {"KEY_LSHIFT", "KEY_RSHIFT"} -> [s EXCEPT !.mShift = FALSE]
    [] key \in {"KEY_LALT", "KEY_RALT"}     -> [s EXCEPT !.mAlt = FALSE]
    [] OTHER -> s

KeyDown(s, key) ==
  CASE key \in {"KEY_LCTRL", "KEY_RCTRL"}   -> [s EXCEPT !.mCtrl = TRUE]
    [] key \in {"KEY_LSHIFT", "KEY_RSHIFT"} -> [s EXCEPT !.mShift = TRUE]
    [] key \in {"KEY_LALT", "KEY_RALT"}     -> [s EXCEPT !.mAlt = TRUE]
    [] key = "KEY_CAPSLOCK"                 -> [s EXCEPT !.mCapsLock = ~s.mCapsLock]
    [] key = "KEY_KP_NUMLOCK"               -> [s EXCEPT !.mNumLock = ~s.mNumLock]
    [] key = "KEY_SCROLLLOCK"               -> [s EXCEPT !.mScrollLock = ~s.mScrollLock]
    [] OTHER -> s

Locks == {"KEY_CAPSLOCK", "KEY_KP_NUMLOCK", "KEY_SCROLLLOCK"}
Modifiers == {"KEY_LCTRL", "KEY_RCTRL", "KEY_LSHIFT", "KEY_RSHIFT", "KEY_LALT", "KEY_RALT"}

ResetChord(s, key) == s.mCtrl /\ s.mAlt /\ key = "KEY_BACKSPACE"

(* "watch for errors": the scan code by now has lost the bit of a break code. *)
WatchErrors(s, code) ==
  [s EXCEPT !.mBat = IF code = ERR_BAT_FAILED THEN FALSE ELSE s.mBat,
            !.mDiag = IF code = ERR_DIAG_FAILED THEN FALSE ELSE s.mDiag,
            !.mResend = (s.mResend \/ code = ERR_RESEND_CMD)]

LedsOf(s) == {led \in {"num", "caps", "scroll"} :
                \/ led = "num" /\ s.mNumLock
                \/ led = "caps" /\ s.mCapsLock
                \/ led = "scroll" /\ s.mScrollLock}

(* keyboardSetLeds: the keyboard acknowledges each of the two bytes, or asks
   for the first again and takes no command. *)
SetLeds(s, rest) ==
  \/ /\ leds' = LedsOf(s)
     /\ wire' = rest \o <<ERR_ACK, ERR_ACK>>
  \/ /\ Rejects
     /\ wire' = rest \o <<ERR_RESEND_CMD>>
     /\ UNCHANGED leds

PrefixByte(byte) ==
  /\ byte \in Extended
  /\ kbd' = WatchErrors([kbd EXCEPT !.mExtended = TRUE], byte)
  /\ wire' = Tail(wire)
  /\ pushed' = None
  /\ UNCHANGED <<leds, reset>>

(* Mutant: a break code pushes its key as well. *)
BreakBytePushes(byte) ==
  /\ byte \notin Extended /\ byte >= KeyReleased
  /\ LET code == byte - KeyReleased IN
       /\ kbd' = WatchErrors([KeyUp(kbd, KeyScancodes(code)) EXCEPT !.mExtended = FALSE], code)
       /\ pushed' = KeyScancodes(code)
  /\ wire' = Tail(wire)
  /\ UNCHANGED <<leds, reset>>

BreakByte(byte) ==
  /\ byte \notin Extended /\ byte >= KeyReleased
  /\ LET code == byte - KeyReleased IN
       kbd' = WatchErrors([KeyUp(kbd, KeyScancodes(code)) EXCEPT !.mExtended = FALSE], code)
  /\ wire' = Tail(wire)
  /\ pushed' = None
  /\ UNCHANGED <<leds, reset>>

(* Mutant: the LEDs are set before the lock is toggled. *)
MakeByteOldLeds(byte) ==
  /\ byte < KeyReleased
  /\ LET key == KeyScancodes(byte)
         s == WatchErrors([KeyDown(kbd, key) EXCEPT !.mExtended = FALSE], byte)
     IN  /\ kbd' = s
         /\ reset' = ResetChord(kbd, key)
         /\ IF key \in Locks THEN SetLeds(kbd, Tail(wire))
                             ELSE wire' = Tail(wire) /\ UNCHANGED leds
         /\ pushed' = IF key \in Locks \cup Modifiers THEN None ELSE key

MakeByte(byte) ==
  /\ byte < KeyReleased
  /\ LET key == KeyScancodes(byte)
         s == WatchErrors([KeyDown(kbd, key) EXCEPT !.mExtended = FALSE], byte)
     IN  /\ kbd' = s
         /\ reset' = ResetChord(kbd, key)
         /\ IF key \in Locks THEN SetLeds(s, Tail(wire))
                             ELSE wire' = Tail(wire) /\ UNCHANGED leds
         /\ pushed' = IF key \in Locks \cup Modifiers THEN None ELSE key

KeyboardIrqHandler ==
  /\ ~reset /\ wire # <<>>
  /\ \/ PrefixByte(Head(wire)) \/ BreakByte(Head(wire)) \/ MakeByte(Head(wire))
  /\ UNCHANGED <<held, behind>>

Next ==
  \/ \E k \in PhysicalKeys : Press(k) \/ Repeat(k) \/ Release(k)
  \/ KeyboardIrqHandler

Spec == Init /\ [][Next]_vars

-----------------------------------------------------------------------------
(* Type invariant.  Two replies may stand for each byte that was a lock key. *)
TypeOK ==
  /\ held \subseteq PhysicalKeys
  /\ wire \in Seq(0 .. 255) /\ Len(wire) <= 2 * MaxWire
  /\ leds \subseteq {"num", "caps", "scroll"}
  /\ DOMAIN kbd = {"mShift", "mCtrl", "mAlt", "mCapsLock", "mNumLock",
                   "mScrollLock", "mExtended", "mBat", "mDiag", "mResend"}
  /\ \A f \in DOMAIN kbd : kbd[f] \in BOOLEAN
  /\ reset \in BOOLEAN
  /\ behind \in Behind

(* Once every byte is handled, no modifier is stuck: it is on only while one
   of its keys is down, whatever keys were pressed, repeated and released in
   whatever order, and whatever replies of the keyboard came in between. *)
NoModifierStuck ==
  wire = <<>> =>
    /\ kbd.mShift => held \cap {"LSHIFT", "RSHIFT"} # {}
    /\ kbd.mCtrl => held \cap {"LCTRL", "RCTRL"} # {}
    /\ kbd.mAlt => held \cap {"LALT", "RALT"} # {}

(* The replies to a command are not taken for keys: nothing a key sends
   stands for one of them, and a reply pushes nothing. *)
RepliesPushNothing ==
  [][wire # <<>> /\ Head(wire) \in {ERR_ACK, ERR_RESEND_CMD} /\ KeyboardIrqHandler
       => pushed' = None /\ leds' = leds]_vars

(* Whenever a lock or an LED changes, the LEDs show the locks, unless the
   keyboard has just refused the command. *)
LedsShowLocks ==
  [][LedsOf(kbd') # LedsOf(kbd) \/ leds' # leds
       => leds' = LedsOf(kbd') \/ wire'[Len(wire')] = ERR_RESEND_CMD]_vars

(* "//! watch for errors" (keyboard.cpp:535): a request to resend is noticed. *)
ResendNoticed ==
  [][wire # <<>> /\ Head(wire) = ERR_RESEND_CMD /\ KeyboardIrqHandler
       => kbd'.mResend]_vars

=============================================================================
