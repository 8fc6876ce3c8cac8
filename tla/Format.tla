------------------------------- MODULE Format -------------------------------
(***************************************************************************)
(* Formatted printing: vsnprintf and its helpers (lib/libc/sprintf.c), one *)
(* step per character printed or conversion done.  The caller prints one   *)
(* number between two letters, in every way the flags, the width and the   *)
(* conversion allow, or a percent sign.  Precision is parsed and ignored   *)
(* by the code, floating point prints nothing; both are left out, and so   *)
(* are the size of the buffer, which the code ignores, the length letters  *)
(* (h reads an int, l one twice as wide), capitals, and a conversion that  *)
(* does not exist, which prints its letter.                                *)
(***************************************************************************)
EXTENDS StdLib

CONSTANTS IntRange,   \* 2 to the bits of an int
          PtrWidth,   \* digits of a pointer, sizeof(size_t) * 2
          FlagSets,   \* sets of flags asked for
          Widths,     \* widths as they stand in a format, perhaps with a sign
          Values      \* arguments

VARIABLES format, at, out, args, reported, asked

vars == <<format, at, out, args, reported, asked>>

Text == <<"b", "c">>                \* the argument of %s; that of %c is its head
Flags == {"-", "0", "+", " ", "#"}
Conversions == {"d", "o", "u", "x", "b", "p", "s", "c", "n"}

None == [conv |-> "none", flags |-> {}, width |-> <<>>, value |-> 0]

(* `asked' remembers what the caller asked for. *)
Init ==
  /\ format = <<>> /\ at = 1 /\ out = <<>> /\ args = <<>> /\ reported = 0
  /\ asked = None

Idle == asked = None

CallNumber ==
  /\ Idle
  /\ \E flags \in FlagSets, width \in Widths, star \in BOOLEAN, conv \in Conversions,
        value \in Values :
       /\ asked' = [conv |-> conv, flags |-> flags, width |-> width, value |-> value]
       /\ format' = <<"a", "%">> \o SetToSeq(flags) \o (IF star THEN <<"*">> ELSE width)
                      \o <<conv, "z">>
       /\ args' = (IF star THEN <<strtol(width, 1, 10).value>> ELSE <<>>) \o <<value>>
  /\ UNCHANGED <<at, out, reported>>

CallPercent ==
  /\ Idle
  /\ asked' = [None EXCEPT !.conv = "%"]
  /\ format' \in {<<"a", "%", "%", "y", "z">>, <<"a", "%", "%">>}
  /\ UNCHANGED <<at, out, args, reported>>

-----------------------------------------------------------------------------
(* The digits keep no sign but in base 10 and 8; what else is negative would
   print digits that do not exist, but no conversion asks for it. *)
putSigned(value, base, plus) ==
  IF value < 0 THEN <<"-">> \o PutDigits(-value, base)
  ELSE (IF plus THEN <<"+">> ELSE <<>>) \o PutDigits(value, base)

putUnsigned(value, base) == PutDigits(value % IntRange, base)

(* Console::operator <<, of 32 and of 64 bits: the sign, then the magnitude as
   an unsigned number, its digits last one first and then backwards. *)
PrintNumber(value, signed) ==
  LET ud == (IF signed /\ value < 0 THEN -value ELSE value) % IntRange
  IN  (IF signed /\ value < 0 THEN <<"-">> ELSE <<>>) \o PutDigits(ud, 10)

Repeat(c, n) == [i \in 1 .. n |-> c]

Pad(digits, width, left, zero) ==
  LET fill == Repeat(IF zero THEN "0" ELSE " ", width - Len(digits))
  IN  IF left THEN digits \o fill ELSE fill \o digits

(* Flags, width and conversion of the specification behind a percent sign at
   `at': the flags in any order, then a width or a star. *)
Specification ==
  LET first == Min({i \in at + 1 .. Len(format) : format[i] \notin Flags})
      star == format[first] = "*"
      number == strtol(format, first, 10)
      width == IF star THEN args[1] ELSE number.value
  IN  [flags |-> {format[i] : i \in at + 1 .. first - 1}
                   \cup (IF width < 0 THEN {"-"} ELSE {}),
       width |-> IF width < 0 THEN -width ELSE width,
       conv  |-> IF star THEN first + 1 ELSE number.endptr,
       arg   |-> IF star THEN 2 ELSE 1]

Base(conv) == CASE conv \in {"d", "u"} -> 10 [] conv = "o" -> 8 [] conv = "b" -> 2 [] OTHER -> 16

Integer(spec, conv) ==
  LET value == args[spec.arg]
      digits == IF conv \in {"d", "o"}
                THEN putSigned(value, Base(conv), "+" \in spec.flags)
                ELSE putUnsigned(value, Base(conv))
  IN  Pad(digits, IF conv = "p" THEN PtrWidth ELSE spec.width, "-" \in spec.flags,
          conv = "p" \/ "0" \in spec.flags)

Literal ==
  /\ at \in 1 .. Len(format)
  /\ format[at] # "%"
  /\ out' = Append(out, format[at])
  /\ at' = at + 1
  /\ UNCHANGED <<format, args, reported, asked>>

(* A percent sign is printed; two steps are made past it, one too many, so
   that the next character is lost, or the terminator. *)
Percent ==
  /\ at < Len(format)
  /\ format[at] = "%" /\ format[at + 1] = "%"
  /\ out' = Append(out, "%")
  /\ at' = at + 3
  /\ UNCHANGED <<format, args, reported, asked>>

Convert ==
  /\ at < Len(format)
  /\ format[at] = "%" /\ format[at + 1] # "%"
  /\ LET spec == Specification
         conv == format[spec.conv]
     IN  /\ out' = out \o (CASE conv = "c" -> <<Head(Text)>>
                             [] conv = "s" -> Text
                             [] conv = "n" -> <<>>
                             [] OTHER -> Integer(spec, conv))
         /\ reported' = IF conv = "n" THEN Len(out) ELSE reported
         /\ at' = spec.conv + 1
  /\ UNCHANGED <<format, args, asked>>

Next == CallNumber \/ CallPercent \/ Literal \/ Percent \/ Convert

Spec == Init /\ [][Next]_vars

-----------------------------------------------------------------------------
Done == ~Idle /\ at = Len(format) + 1

Shown == SubSeq(out, 2, Len(out) - 1)
Without(s, C) == SelectSeq(s, LAMBDA c : c \notin C)
Read(s, base) == FoldLeft(LAMBDA sum, c : sum * base + vals(c), 0, s)

(* What vsnprintf prints for a number reads as that number in the base asked
   for, is as wide as asked or as its digits need, and leaves the text around
   it alone.  Not claimed, as the code does otherwise than C: zeros to the left
   of a sign, and zeros to the right of a number flushed left. *)
NumberPrinted ==
  LET left == "-" \in asked.flags \cup ToSet(asked.width)
      width == IF asked.conv = "p" THEN PtrWidth
               ELSE strtol(Without(asked.width, {"-"}), 1, 10).value
      base == Base(asked.conv)
      signed == asked.conv \in {"d", "o"}
      target == IF signed THEN asked.value ELSE asked.value % IntRange
      size == IF target < 0 THEN -target ELSE target
      shift == left /\ (asked.conv = "p" \/ "0" \in asked.flags)
      digits == Without(Shown, {" ", "+", "-"})
      plain == LET sign == IF signed /\ (target < 0 \/ "+" \in asked.flags) THEN 1 ELSE 0
               IN  sign + Min({n \in 1 .. 8 : size \div base ^ (n - 1) < base})
  IN
  Done /\ asked.conv \in {"d", "o", "u", "x", "b", "p"} =>
    /\ out[1] = "a" /\ out[Len(out)] = "z"
    /\ Len(Shown) = Max({width, plain})
    /\ ~shift => Read(digits, base) = size
    /\ signed /\ target < 0 <=> "-" \in ToSet(Shown)
    /\ left => Shown[1] # " "

(* Console::operator << writes every number, whatever its type, so that it reads
   as that number, and with no more digits than it needs. *)
ConsolePrinted ==
  asked.conv \in {"d", "u"} =>
    LET signed == asked.conv = "d"
        value == IF signed THEN asked.value ELSE asked.value % IntRange
        text == PrintNumber(value, signed)
        back == strtol(text, 1, 10)
    IN  /\ back.value = value
        /\ Without(text, {"-"})[1] = "0" => value = 0

(* Numbers survive being written by itoa and read by strtol: in base 10 with
   their sign, in the other bases as unsigned numbers; all digits are used, but
   for the 0 that strtol takes for a prefix. *)
NumberReadBack ==
  asked.conv \in {"d", "o", "u", "x", "b", "p"} =>
    LET base == Base(asked.conv)
        value == IF base = 10 THEN asked.value ELSE asked.value % IntRange
        text == itoa(value, base, IntRange)
        back == strtol(text, 1, base)
    IN  /\ back.value = value
        /\ back.endptr = Len(text) + 1 \/ value = 0

=============================================================================
