-------------------------------- MODULE Ansi --------------------------------
(***************************************************************************)
(* The filter for ANSI escape sequences of the console (Console.cpp,       *)
(* AnsiEscFilter): a state machine fed one character at a time, which      *)
(* collects the parameters of a sequence in a buffer, parses them with     *)
(* strtol and obeys the command.  What the cursor commands do to the       *)
(* canvas is Console's; here a command ends in `done', and the colours,    *)
(* which Console leaves out, in `pen'.                                     *)
(***************************************************************************)
EXTENDS StdLib

CONSTANTS Typed,     \* characters that arrive
          MaxTyped   \* how many do; keeps buffer and parameters in bounds

VARIABLES pos,     \* _ansiBufferPos
          buffer,  \* _ansiBuffer from index 2 on
          pen,     \* colours and switches
          shown,   \* what goes on to PutChar and its like
          done,    \* the commands: [cmd, params], and how much was typed by then
          typed    \* history: everything that arrived

vars == <<pos, buffer, pen, shown, done, typed>>

CSI == "CSI"   \* 0x9B
ESC == "ESC"   \* 0x1B

Colours == <<"BLACK", "RED", "GREEN", "BROWN", "BLUE", "MAGENTA", "CYAN", "WHITE">>
Brights == <<"GRAY", "RED_B", "LIME", "YELLOW", "BLUE_B", "MAGENTA_B", "CYAN_B", "WHITE_B">>

ResetAttributes(p) == [p EXCEPT !.bg = "BLACK", !.fg = "WHITE", !.reverse = FALSE]

(* The constructor leaves _ansiBufferPos and _lineWrap as the heap had them: as
   if an ESC, or a CSI, had been printed before.  (Values above 2 stand for
   parameters nobody typed, or lie outside the buffer.) *)
Init ==
  /\ \/ pos = 0 /\ typed = <<>>
     \/ pos = 1 /\ typed = <<ESC>>
     \/ pos = 2 /\ typed = <<CSI>>
  /\ pen \in [bg : {"BLACK"}, fg : {"WHITE"}, reverse : {FALSE}, wrap : BOOLEAN]
  /\ buffer = <<>> /\ shown = <<>> /\ done = <<>>

-----------------------------------------------------------------------------
(* Mutant: a parameter that is left out is skipped. *)
ParseNonEmpty(s) ==
  LET params[i \in 1 .. Len(s) + 2] ==
        LET number == strtol(s, i, 0)
        IN  IF CharAt(s, number.endptr) = NUL THEN <<number.value>>
            ELSE IF number.endptr = i THEN params[i + 1]
            ELSE <<number.value>> \o params[number.endptr + 1]
  IN  IF s = <<>> THEN <<>> ELSE params[1]

(* AnsiEscParseParams: base 0, so a field with a leading zero is octal; one
   character is skipped behind each number whatever it is. *)
ParseParams(s) ==
  LET params[i \in 1 .. Len(s) + 2] ==
        LET number == strtol(s, i, 0)
        IN  IF CharAt(s, number.endptr) = NUL THEN <<number.value>>
            ELSE <<number.value>> \o params[number.endptr + 1]
  IN  IF s = <<>> THEN <<>> ELSE params[1]

(* Bold and blink are empty functions; other numbers are ignored. *)
Rendition(p, n) ==
  CASE n = 0             -> ResetAttributes(p)
    [] n = 7             -> [p EXCEPT !.reverse = TRUE]
    [] n \in 30 .. 37    -> [p EXCEPT !.fg = Colours[n - 29]]
    [] n \in 90 .. 97    -> [p EXCEPT !.fg = Brights[n - 89]]
    [] n \in 40 .. 47    -> [p EXCEPT !.bg = Colours[n - 39]]
    [] n \in 100 .. 107  -> [p EXCEPT !.bg = Brights[n - 99]]
    [] OTHER             -> p

(* Commands that Console obeys; any other makes the buffer be printed from its
   beginning, where the two characters in front of the parameters were never
   written. *)
Known == {"c", "h", "l", "A", "B", "C", "D", "H", "f", "s", "u", "J", "K", "m"}

Obey(c, params) ==
  pen' = CASE c = "c" \/ (c = "m" /\ params = <<>>) -> ResetAttributes(pen)
           [] c = "m" /\ params # <<>> -> FoldLeft(Rendition, pen, params)
           [] c \in {"h", "l"} /\ params = <<7>> -> [pen EXCEPT !.wrap = (c = "h")]
           [] OTHER -> pen

Garbage == {<<>>, <<"?">>, <<"?", "?">> \o buffer}

-----------------------------------------------------------------------------
(* A CSI inside a sequence would be looked up in front of the tables of isdigit
   and vals, as char is signed: the text printed has none. *)
Take(c) ==
  /\ Len(typed) < MaxTyped
  /\ c \in Typed
  /\ pos > 1 => c # CSI
  /\ typed' = Append(typed, c)

(* The filter lets the character through: PrintChar goes on with it. *)
Pass(c) ==
  /\ Take(c)
  /\ pos = 0 /\ c \notin {ESC, CSI}
  /\ shown' = Append(shown, c)
  /\ UNCHANGED <<pos, buffer, pen, done>>

Introduce(c) ==
  /\ Take(c)
  /\ \/ pos = 0 /\ c = CSI /\ pos' = 2
     \/ pos = 0 /\ c = ESC /\ pos' = 1
     \/ pos = 1 /\ c = "[" /\ pos' = 2
  /\ buffer' = <<>>
  /\ UNCHANGED <<pen, shown, done>>

(* ESC and anything else: the ESC is lost, the character is printed. *)
NoSequence(c) ==
  /\ Take(c)
  /\ pos = 1 /\ c # "["
  /\ pos' = 0
  /\ shown' = Append(shown, c)
  /\ UNCHANGED <<buffer, pen, done>>

Parameter(c) ==
  /\ Take(c)
  /\ pos > 1 /\ (isdigit(c) \/ c = ";")
  /\ buffer' = Append(buffer, c)
  /\ pos' = pos + 1
  /\ UNCHANGED <<pen, shown, done>>

Command(c) ==
  /\ Take(c)
  /\ pos > 1 /\ ~isdigit(c) /\ c # ";"
  /\ pos' = 0
  /\ LET params == ParseParams(buffer)
     IN  /\ done' = Append(done, [cmd |-> c, params |-> params, at |-> Len(typed')])
         /\ \/ c \in Known /\ Obey(c, params) /\ UNCHANGED shown
            \/ c \notin Known /\ shown' \in {shown \o g : g \in Garbage} /\ UNCHANGED pen
  /\ UNCHANGED buffer

Next == \E c \in Typed : Pass(c) \/ Introduce(c) \/ NoSequence(c) \/ Parameter(c) \/ Command(c)

Spec == Init /\ [][Next]_vars

-----------------------------------------------------------------------------
(* What was typed between the beginning of the command just obeyed and its
   letter, and the fields of that. *)
IsParameter(c) == isdigit(c) \/ c = ";"
LastParameters ==
  LET n == Len(typed)
      from == Max({i \in 1 .. n - 1 : ~IsParameter(typed[i])}) + 1
  IN  SubSeq(typed, from, n - 1)
Fields(s) ==
  LET cuts == SetToSortSeq({0, Len(s) + 1} \cup {i \in DOMAIN s : s[i] = ";"}, <)
  IN  [k \in 1 .. Len(cuts) - 1 |-> SubSeq(s, cuts[k] + 1, cuts[k + 1] - 1)]
Decimal(s) == FoldLeft(LAMBDA sum, c : 10 * sum + vals(c), 0, s)

(* The command just obeyed got the numbers that were typed, in their order, a
   field left out being 0; behind a 0 at the end strtol finds one more 0, which
   no command minds but 7h and 7l.  A field with a leading zero is octal, or two
   fields, and excepted. *)
ParamsAsTyped ==
  done # <<>> /\ done[Len(done)].at = Len(typed) =>
    LET fields == Fields(LastParameters)
        params == done[Len(done)].params
    IN  IF LastParameters = <<>> THEN params = <<>>
        ELSE (\A k \in DOMAIN fields : Len(fields[k]) > 1 => fields[k][1] # "0") =>
               /\ Len(params) \in {Len(fields), Len(fields) + 1}
               /\ \A k \in DOMAIN params :
                    params[k] = IF k \in DOMAIN fields THEN Decimal(fields[k]) ELSE 0

(* The text with its sequences cut out: a sequence is CSI, or ESC [, with the
   parameters behind it and one more character. *)
TextOnly ==
  LET n == Len(typed)
      Behind(i) == Min({k \in i .. n + 1 : k > n \/ ~IsParameter(typed[k])}) + 1
      text[i \in 1 .. n + 2] ==
        IF i > n THEN <<>>
        ELSE IF typed[i] = CSI THEN text[Behind(i + 1)]
        ELSE IF typed[i] # ESC THEN <<typed[i]>> \o text[i + 1]
        ELSE IF i = n THEN <<>>
        ELSE IF typed[i + 1] = "[" THEN text[Behind(i + 2)]
        ELSE <<typed[i + 1]>> \o text[i + 2]
  IN  text[1]

(* Everything outside the sequences is printed, once and in order, and nothing
   of them is, as long as every command is known. *)
TextKept == (\A k \in DOMAIN done : done[k].cmd \in Known) => shown = TextOnly

=============================================================================
