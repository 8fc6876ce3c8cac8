------------------------------- MODULE StdLib -------------------------------
(***************************************************************************)
(* The conversions between numbers and text of lib/libc/stdlib.c.  A text  *)
(* is a sequence of characters, each a string of one letter, without the   *)
(* terminator NUL that CharAt reads behind the last one.                   *)
(***************************************************************************)
EXTENDS Integers, Sequences, SequencesExt, FiniteSetsExt

NUL == "NUL"

(* The digits up to base 16 of the 36 in symb. *)
symb == <<"0", "1", "2", "3", "4", "5", "6", "7", "8", "9", "a", "b", "c", "d", "e", "f">>

vals(c) == IF c \in ToSet(symb) THEN SelectInSeq(symb, LAMBDA d : d = c) - 1 ELSE -1

isdigit(c) == vals(c) \in 0 .. 9

CharAt(s, i) == IF i \in 1 .. Len(s) THEN s[i] ELSE NUL

(* The last digit first, then turned round by memrev. *)
PutDigits(u, base) ==
  LET digits[x \in 0 .. u] ==
        <<symb[(x % base) + 1]>> \o (IF x < base THEN <<>> ELSE digits[x \div base])
  IN  Reverse(digits[u])

(* value as an int of `range' values: negative ones keep their sign in base 10 only. *)
itoa(value, base, range) ==
  IF base = 10 /\ value < 0 THEN <<"-">> \o PutDigits(-value, base)
  ELSE PutDigits(value % range, base)

(* Reads s from position i on.  A leading 0x or 0 decides the base, whatever
   base the caller asks for.  endptr is left as it was, here at i, when the
   text ends before the digits or behind a leading 0. *)
strtol(s, i, base) ==
  LET Skip(from, C) == Min({k \in from .. Len(s) + 1 : CharAt(s, k) \notin C})
      sign == Skip(i, {" "})
      first == IF CharAt(s, sign) \in {"-", "+"} THEN sign + 1 ELSE sign
      hex == CharAt(s, first) = "0" /\ CharAt(s, first + 1) = "x"
      oct == CharAt(s, first) = "0" /\ ~hex
      b == CASE hex -> 16 [] oct -> 8 [] ~hex /\ ~oct /\ base = 0 -> 10 [] OTHER -> base
      from == first + (IF hex THEN 2 ELSE IF oct THEN 1 ELSE 0)
      end == Skip(from, {c \in ToSet(symb) : vals(c) < b})
      magnitude == FoldLeft(LAMBDA sum, c : sum * b + vals(c), 0, SubSeq(s, from, end - 1))
  IN  IF CharAt(s, from) = NUL THEN [value |-> 0, endptr |-> i]
      ELSE [value |-> IF CharAt(s, sign) = "-" THEN -magnitude ELSE magnitude,
            endptr |-> end]

=============================================================================
