-------------------------------- MODULE Ctype --------------------------------
(***************************************************************************)
(* The tables of the C library that are looked up by a character: the      *)
(* classes of lib/libc/ctype.c, and the values of digits in stdlib.c.      *)
(* Characters are their codes; -1 is EOF.                                  *)
(***************************************************************************)
EXTENDS Integers, Sequences

VARIABLE char   \* the character looked at; None before the first call

None == -2
Chars == -1 .. 255

(* p[c], the classes of a character; behind 0x7F the table holds zeros. *)
ctype_table(c) ==
  (IF c \in 65 .. 90 THEN {"UPPER"} ELSE {})
    \cup (IF c \in 97 .. 122 THEN {"LOWER"} ELSE {})
    \cup (IF c \in 48 .. 57 THEN {"DIGIT"} ELSE {})
    \cup (IF c \in 9 .. 13 \/ c = 32 THEN {"SPACE"} ELSE {})
    \cup (IF c \in (33 .. 47) \cup (58 .. 64) \cup (91 .. 96) \cup (123 .. 126)
          THEN {"PUNCT"} ELSE {})
    \cup (IF c \in 0 .. 31 \/ c = 127 THEN {"CONTROL"} ELSE {})
    \cup (IF c = 32 THEN {"BLANK"} ELSE {})
    \cup (IF c \in (48 .. 57) \cup (65 .. 70) \cup (97 .. 102) THEN {"HEX"} ELSE {})

Is(c, classes) == ctype_table(c) \cap classes # {}

isupper(c)  == Is(c, {"UPPER"})
islower(c)  == Is(c, {"LOWER"})
isdigit(c)  == Is(c, {"DIGIT"})
isxdigit(c) == Is(c, {"HEX"})
isspace(c)  == Is(c, {"SPACE"})
ispunct(c)  == Is(c, {"PUNCT"})
iscntrl(c)  == Is(c, {"CONTROL"})
isalnum(c)  == Is(c, {"UPPER", "LOWER", "DIGIT"})
isprint(c)  == Is(c, {"BLANK", "PUNCT", "UPPER", "LOWER", "DIGIT"})
isgraph(c)  == Is(c, {"PUNCT", "UPPER", "LOWER", "DIGIT"})
isalpha(c)  == Is(c, {"UPPER", "LOWER"})

tolower(c) == IF c \in 65 .. 90 THEN c + 97 - 65 ELSE c
toupper(c) == IF c \in 97 .. 122 THEN c + 65 - 97 ELSE c

(* The table has no entry behind the small letters. *)
Valued == 0 .. 122
vals(c) ==
  CASE c \in 48 .. 57  -> c - 48
    [] c \in 65 .. 90  -> c - 65 + 10
    [] c \in 97 .. 122 -> c - 97 + 10
    [] OTHER           -> -1

symb(i) == IF i < 10 THEN 48 + i ELSE 97 + i - 10

Init == char = None

Look == char = None /\ char' \in Chars

Next == Look

Spec == Init /\ [][Next]_char

-----------------------------------------------------------------------------
(* The classes stand to one another as the C standard has them, letter case is
   what tolower and toupper change and nothing else, and the tables of stdlib.c
   agree: what counts as a digit in some base has a value below that base, and
   symb writes a value as a character that reads as that value. *)
ClassesAgree ==
  LET c == char IN
  c \in Chars =>
    /\ isalpha(c) <=> isupper(c) # islower(c)
    /\ isalnum(c) <=> isalpha(c) # isdigit(c)
    /\ isgraph(c) <=> isalnum(c) # ispunct(c)
    /\ isprint(c) <=> isgraph(c) # (c = 32)
    /\ iscntrl(c) /\ isprint(c) <=> FALSE
    /\ c \in 0 .. 127 => iscntrl(c) # isprint(c)
    /\ isspace(c) => iscntrl(c) \/ c = 32
    /\ isupper(c) <=> tolower(c) # c
    /\ islower(c) <=> toupper(c) # c
    /\ isupper(c) => islower(tolower(c)) /\ toupper(tolower(c)) = c
    /\ islower(c) => isupper(toupper(c)) /\ tolower(toupper(c)) = c
    /\ c \in Valued =>
         /\ isdigit(c) <=> vals(c) \in 0 .. 9
         /\ isxdigit(c) <=> vals(c) \in 0 .. 15
         /\ isalnum(c) <=> vals(c) \in 0 .. 35
         /\ isalnum(c) => symb(vals(c)) = tolower(c)
         /\ vals(tolower(c)) = vals(c)

=============================================================================
