------------------------------ MODULE KeyChars ------------------------------
(***************************************************************************)
(* From a key's scan code to the character keyboardGetChar returns         *)
(* (lib/hal/common-x86/keyboard.cpp): the table KeyScancodes, the          *)
(* modifiers the interrupt handler keeps, the buffer (KeyQueue shows it to *)
(* be a FIFO) and KeyCodeToASCII, which looks at the modifiers when the    *)
(* main loop takes the key out, not when the typist pressed it.            *)
(***************************************************************************)
EXTENDS Integers, Sequences, SequencesExt

CONSTANTS Codes,       \* scan codes of the keys pressed, modifiers apart
          MaxWaiting   \* keys the main loop leaves in the buffer

VARIABLES mods,     \* the modifiers that are on: a subset of {"shift", "caps", "num"}
          waiting,  \* mBuffer; with each key its scan code, and what the modifiers
                    \* seen since it was pressed called for
          got       \* what keyboardGetChar returned last, and that of its key

vars == <<mods, waiting, got>>

(* The table, entry for entry: the codes 0x4a to 0x4f have none. *)
KeyScancodes ==
  <<"?", "ESC", "1", "2", "3", "4", "5", "6", "7", "8", "9", "0", "-", "=", "BACKSPACE", "TAB",
    "q", "w", "e", "r", "t", "y", "u", "i", "o", "p", "[", "]", "RETURN", "LCTRL", "a", "s",
    "d", "f", "g", "h", "j", "k", "l", ";", "'", "GRAVE", "LSHIFT", "BACKSLASH", "z", "x", "c", "v",
    "b", "n", "m", ",", ".", "/", "RSHIFT", "*", "RALT", " ", "CAPSLOCK", "F1", "F2", "F3",
    "F4", "F5", "F6", "F7", "F8", "F9", "F10", "NUMLOCK", "SCROLLLOCK", "HOME", "8",
    "PAGEUP", "2", "3", "0", ".", "?", "?", "?", "F11", "F12">>

Code(scancode) == KeyScancodes[scancode + 1]

(* The scan code the comment at an entry of the table gives. *)
Commented(i) == IF i <= 74 THEN i - 1 ELSE i + 5

(* The switch both mShift and mNumLock go through; code: no case for it. *)
Shifted(code) ==
  LET cases == <<"1", "2", "3", "4", "5", "6", "7", "8", "9", "0", ",", ".", "/", ";", "'",
                 "[", "]", "GRAVE", "-", "=", "BACKSLASH">>
      chars == <<"!", "@", "#", "$", "%", "^", "&", "*", "(", ")", "<", ">", "?", ":",
                 "QUOTEDOUBLE", "{", "}", "~", "_", "+", "|">>
      i == SelectInSeq(cases, LAMBDA c : c = code)
  IN  IF i = 0 THEN code ELSE chars[i]

Letters == <<"q", "w", "e", "r", "t", "y", "u", "i", "o", "p", "a", "s", "d", "f", "g", "h",
             "j", "k", "l", "z", "x", "c", "v", "b", "n", "m">>
Capitals == <<"Q", "W", "E", "R", "T", "Y", "U", "I", "O", "P", "A", "S", "D", "F", "G", "H",
              "J", "K", "L", "Z", "X", "C", "V", "B", "N", "M">>
Capital(c) == Capitals[SelectInSeq(Letters, LAMBDA l : l = c)]

(* The codes isprint has an entry for. *)
Ascii == ToSet(Letters) \cup {"1", "2", "3", "4", "5", "6", "7", "8", "9", "0", "-", "=", "[",
          "]", ";", "'", "GRAVE", "BACKSLASH", ",", ".", "/", "*", " "}

(* Mutant: either of the two keys gives a capital. *)
KeyCodeToASCIIOr(code) ==
  CASE code = "BACKSPACE" -> {"BACKSPACE"}
    [] code = "RETURN" -> {"NEWLINE"}
    [] code = "TAB" -> {"TAB"}
    [] code \in ToSet(Letters) ->
         {IF mods \cap {"shift", "caps"} # {} THEN Capital(code) ELSE code}
    [] code \in Ascii \ ToSet(Letters) ->
         {IF mods \cap {"shift", "num"} # {} THEN Shifted(code) ELSE code}
    [] OTHER -> {"none", "any"}

(* The codes of the keys without a character are above 0x1000: isprint looks
   them up far behind its table of 257, so any answer may come. *)
KeyCodeToASCII(code) ==
  CASE code = "BACKSPACE" -> {"BACKSPACE"}
    [] code = "RETURN" -> {"NEWLINE"}
    [] code = "TAB" -> {"TAB"}
    [] code \in ToSet(Letters) ->
         {IF ("shift" \in mods) # ("caps" \in mods) THEN Capital(code) ELSE code}
    [] code \in Ascii \ ToSet(Letters) ->
         {IF mods \cap {"shift", "num"} # {} THEN Shifted(code) ELSE code}
    [] OTHER -> {"none", "any"}

(* The caps of a keyboard: the first scan code of each row with what is on
   the lower and on the upper half of its keys. *)
Rows ==
  {<<2, <<"1", "2", "3", "4", "5", "6", "7", "8", "9", "0", "-", "=">>,
        <<"!", "@", "#", "$", "%", "^", "&", "*", "(", ")", "_", "+">>>>,
   <<16, SubSeq(Letters, 1, 10), SubSeq(Capitals, 1, 10)>>,
   <<26, <<"[", "]">>, <<"{", "}">>>>,
   <<30, SubSeq(Letters, 11, 19), SubSeq(Capitals, 11, 19)>>,
   <<39, <<";", "'", "GRAVE">>, <<":", "QUOTEDOUBLE", "~">>>>,
   <<43, <<"BACKSLASH">>, <<"|">>>>,
   <<44, SubSeq(Letters, 20, 26), SubSeq(Capitals, 20, 26)>>,
   <<51, <<",", ".", "/">>, <<"<", ">", "?">>>>}

(* What the modifiers call for: a letter is a capital under Shift or Caps
   Lock but not both, Caps Lock leaves the other keys alone.  The code lets
   Num Lock shift the digits, and not every key has a cap: then anything. *)
OnCap(scancode, modifiers) ==
  LET rows == {r \in Rows : scancode - r[1] + 1 \in DOMAIN r[2]}
      Half(i, plain, upper) ==
        IF ("shift" \in modifiers) # ("caps" \in modifiers /\ plain[i] \in ToSet(Letters))
        THEN upper[i] ELSE plain[i]
  IN  IF "num" \in modifiers \/ rows = {} THEN "anything"
      ELSE LET r == CHOOSE r \in rows : TRUE IN Half(scancode - r[1] + 1, r[2], r[3])

Init == mods = {} /\ waiting = <<>> /\ got = [char |-> "none", called |-> {"none"}]

(* The handler: a shift key goes down or up, a lock toggles.  The keys in the
   buffer will be read under the new modifiers. *)
Change(mod) ==
  /\ mods' = IF mod \in mods THEN mods \ {mod} ELSE mods \cup {mod}
  /\ waiting' = [i \in DOMAIN waiting |->
                   [waiting[i] EXCEPT !.called = @ \cup {OnCap(waiting[i].scancode, mods')}]]
  /\ UNCHANGED got

(* The handler: any other key. *)
Press(scancode) ==
  /\ Len(waiting) < MaxWaiting
  /\ waiting' = waiting \o <<[code |-> Code(scancode), scancode |-> scancode,
                              called |-> {OnCap(scancode, mods)}]>>
  /\ UNCHANGED <<mods, got>>

(* keyboardGetChar: Pop and convert; 0 sends it back to the wait. *)
GetChar ==
  /\ waiting # <<>>
  /\ waiting' = Tail(waiting)
  /\ \E c \in KeyCodeToASCII(Head(waiting).code) :
       got' = [char |-> c, called |-> Head(waiting).called]
  /\ UNCHANGED mods

Next == (\E m \in {"shift", "caps", "num"} : Change(m)) \/ (\E s \in Codes : Press(s)) \/ GetChar

Spec == Init /\ [][Next]_vars

-----------------------------------------------------------------------------
(* However the typist plays with Shift and Caps Lock while keys wait in the
   buffer, each key becomes a character that is on its cap for modifiers that
   were on at some time since it was pressed; with Num Lock off all the time,
   as the code lets Num Lock shift the digits. *)
CharsAsTyped == got.char \in got.called \/ "anything" \in got.called

(* The comments of the table (keyboard.cpp:247-330, "// key  scancode"): the
   key pushed for a scan code is the one the table has for it. *)
KeysWhereCommented ==
  \A i \in DOMAIN waiting : \A e \in DOMAIN KeyScancodes :
    Commented(e) = waiting[i].scancode => waiting[i].code = KeyScancodes[e]

=============================================================================
