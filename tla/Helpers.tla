------------------------------- MODULE Helpers -------------------------------
(***************************************************************************)
(* The helpers of include/std/Helpers.h and lib/std/Utils.cpp: comparing,  *)
(* clamping and mapping numbers, hexdump, and CommandLineToArgv, which     *)
(* splits a command line into its arguments, one step per character (for   *)
(* no command line at all it returns NULL, which is left out).             *)
(* Numbers are of a type wide enough for LinearMap's product.              *)
(***************************************************************************)
EXTENDS Integers, Sequences, SequencesExt, FiniteSetsExt

CONSTANTS Numbers,   \* numbers compared and mapped
          Lines,     \* command lines
          Dumps,     \* blocks of memory dumped
          Width      \* bytes in a row of a dump

VARIABLES job,      \* what was asked for: [fn, arg]
          i,        \* CommandLineToArgv: the next character
          argv,     \* where in `text' each argument begins, from 0
          text,     \* _argv, the characters kept
          in_QM, in_TEXT, in_SPACE

vars == <<job, i, argv, text, in_QM, in_TEXT, in_SPACE>>

NUL == "NUL"
QUOTE == "QUOTE"
Spaces == {" ", "TAB"}

-----------------------------------------------------------------------------
Smaller(a, b) == IF a < b THEN a ELSE b
Larger(a, b) == IF a > b THEN a ELSE b

AbsDiff(v1, v2) == IF v1 > v2 THEN v1 - v2 ELSE v2 - v1

AlmostEquals(v1, v2, epsilon) == AbsDiff(v1, v2) < epsilon

InRange(x, a, b) == Smaller(a, b) <= x /\ x <= Larger(a, b)

OutOfRange(x, a, b) == x < Smaller(a, b) \/ Larger(a, b) < x

ClampRange(x, a, b) ==
  IF x > Larger(a, b) THEN Larger(a, b)
  ELSE IF x < Smaller(a, b) THEN Smaller(a, b) ELSE x

(* The division of C, towards zero. *)
Quotient(a, b) ==
  LET size == AbsDiff(a, 0) \div AbsDiff(b, 0)
  IN  IF (a < 0) # (b < 0) THEN -size ELSE size

LinearMap(x, in_min, in_max, out_min, out_max) ==
  ClampRange(Quotient((x - in_min) * (out_max - out_min), in_max - in_min) + out_min,
             out_min, out_max)

(* The rows of a dump: the address and the bytes, once as numbers and once as
   characters, which differ in how a byte is written only.  With neither of them the loop
   never moves on, and no caller asks for that. *)
hexdump(data) ==
  LET row[b \in 1 .. Len(data) + Width] ==
        IF b > Len(data) THEN <<>>
        ELSE <<[addr |-> b,
                cells |-> [k \in 1 .. Width |->
                             IF b + k - 1 <= Len(data) THEN data[b + k - 1] ELSE " "]]>>
               \o row[b + Width]
  IN  row[1]

-----------------------------------------------------------------------------
NoJob == [fn |-> "none", arg |-> <<>>]

Init ==
  /\ job = NoJob /\ i = 1 /\ argv = <<>> /\ text = <<>>
  /\ in_QM = FALSE /\ in_TEXT = FALSE /\ in_SPACE = TRUE

Ask ==
  /\ job = NoJob
  /\ \/ job' \in [fn : {"numbers"}, arg : Numbers \X Numbers \X Numbers]
     \/ job' \in [fn : {"dump"}, arg : Dumps]
     \/ job' \in [fn : {"split"}, arg : Lines]
  /\ UNCHANGED <<i, argv, text, in_QM, in_TEXT, in_SPACE>>

command == job.arg
Splitting == job.fn = "split" /\ i <= Len(command)

Begin == IF in_SPACE THEN Append(argv, Len(text)) ELSE argv

Quoted ==
  /\ Splitting /\ in_QM
  /\ IF command[i] = QUOTE THEN in_QM' = FALSE /\ UNCHANGED text
     ELSE text' = Append(text, command[i]) /\ UNCHANGED in_QM
  /\ i' = i + 1
  /\ UNCHANGED <<job, argv, in_TEXT, in_SPACE>>

OpenQuote ==
  /\ Splitting /\ ~in_QM /\ command[i] = QUOTE
  /\ in_QM' = TRUE /\ in_TEXT' = TRUE /\ in_SPACE' = FALSE
  /\ argv' = Begin
  /\ i' = i + 1
  /\ UNCHANGED <<job, text>>

Space ==
  /\ Splitting /\ ~in_QM /\ command[i] \in Spaces
  /\ text' = IF in_TEXT THEN Append(text, NUL) ELSE text
  /\ in_TEXT' = FALSE /\ in_SPACE' = TRUE
  /\ i' = i + 1
  /\ UNCHANGED <<job, argv, in_QM>>

Letter ==
  /\ Splitting /\ ~in_QM /\ command[i] \notin Spaces \cup {QUOTE}
  /\ argv' = Begin
  /\ text' = Append(text, command[i])
  /\ in_TEXT' = TRUE /\ in_SPACE' = FALSE
  /\ i' = i + 1
  /\ UNCHANGED <<job, in_QM>>

Next == Ask \/ Quoted \/ OpenQuote \/ Space \/ Letter

Spec == Init /\ [][Next]_vars

-----------------------------------------------------------------------------
(* Clamping lands inside, ranges may be given either way round, and a map from
   one range to another keeps its ends, its order and its range. *)
NumbersRight ==
  job.fn = "numbers" =>
    LET x == job.arg[1] a == job.arg[2] b == job.arg[3] IN
    /\ InRange(ClampRange(x, a, b), a, b)
    /\ ClampRange(x, a, b) = ClampRange(x, b, a)
    /\ InRange(x, a, b) <=> ClampRange(x, a, b) = x
    /\ OutOfRange(x, a, b) <=> ~InRange(x, a, b)
    /\ AlmostEquals(a, b, x) <=> a - b < x /\ b - a < x
    /\ \A c, d \in Numbers :
         a # b =>
           /\ InRange(LinearMap(x, a, b, c, d), c, d)
           /\ LinearMap(a, a, b, c, d) = c /\ LinearMap(b, a, b, c, d) = d
           /\ a < b /\ c < d /\ x < b => LinearMap(x, a, b, c, d) <= LinearMap(x + 1, a, b, c, d)

(* Every byte is dumped once, in its place, and the last row is filled up. *)
DumpRight ==
  job.fn = "dump" =>
    LET rows == hexdump(job.arg)
        cells == FlattenSeq([r \in DOMAIN rows |-> rows[r].cells])
    IN  /\ \A r \in DOMAIN rows : rows[r].addr = Width * (r - 1) + 1
        /\ SelectSeq(cells, LAMBDA c : c # " ") = job.arg
        /\ Len(cells) - Len(job.arg) \in 0 .. Width - 1

(* What CommandLineToArgv should find: the characters between separators, a
   separator being a space outside quotes; the quotes themselves are dropped. *)
Outside(k) == Cardinality({q \in 1 .. k - 1 : command[q] = QUOTE}) % 2 = 0
IsSeparator(k) == command[k] \in Spaces /\ Outside(k)
Arguments ==
  LET n == Len(command)
      starts == {k \in 1 .. n : ~IsSeparator(k) /\ (k = 1 \/ IsSeparator(k - 1))}
      End(k) == Min({e \in k .. n + 1 : e > n \/ IsSeparator(e)})
      order == SetToSortSeq(starts, <)
  IN  [a \in DOMAIN order |-> SelectSeq(SubSeq(command, order[a], End(order[a]) - 1),
                                        LAMBDA c : c # QUOTE)]

(* The string a pointer of argv leads to: up to the next NUL. *)
StringAt(at) ==
  LET all == Append(text, NUL)
      end == Min({e \in at + 1 .. Len(all) : all[e] = NUL})
  IN  SubSeq(all, at + 1, end - 1)

(* The arguments are those of the command line, and both tables, sized from its
   length before it is read, have room for them and their terminators. *)
SplitRight ==
  job.fn = "split" =>
    LET len == Len(command) IN
    /\ Len(argv) + 1 <= (len + 2) \div 2 + 1
    /\ Len(text) + 1 <= len + 2
    /\ i > len => [a \in DOMAIN argv |-> StringAt(argv[a])] = Arguments

=============================================================================
