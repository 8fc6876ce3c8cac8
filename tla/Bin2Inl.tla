------------------------------- MODULE Bin2Inl -------------------------------
(***************************************************************************)
(* tools/bin2inl.cpp, which writes the bytes of a file as the text of a C  *)
(* array, to be included in the kernel.  A character of the output is an   *)
(* element of `out'; so are the words the header is made of.  The C        *)
(* library of the host formats the numbers and keeps the file.             *)
(***************************************************************************)
EXTENDS StdLib

CONSTANTS Files,      \* contents of source files
          ArgLists    \* argv from the name of the file on; "gone" cannot be opened

VARIABLES pc,      \* where main is
          argv, params,
          src,     \* the source file
          c,       \* the place of the byte read last
          n,       \* how many commas were written
          out, status

vars == <<pc, argv, params, src, c, n, out, status>>

NL == "NL"
TAB == "TAB"
Array == "unsigned char data[] = {"
Running == -1

Parameters == [width |-> 16, nul |-> 0, line |-> 0, header |-> FALSE, tabs |-> TRUE,
               align |-> TRUE, nb |-> "-hex"]

(* One argument, and which value the next one is then, if not a parameter.
   -append, -tabs, -align and the line terminators change nothing. *)
Parse(state, arg) ==
  LET p == state.params
      Set(q) == [state EXCEPT !.params = q]
  IN  CASE state.wants = "-w" -> IF vals(arg) > 0
                                 THEN [Set([p EXCEPT !.width = vals(arg)]) EXCEPT !.wants = "none"]
                                 ELSE [state EXCEPT !.wants = "error"]
        [] state.wants = "-hvar" -> [state EXCEPT !.wants = "none"]
        [] state.wants \in {"error", "exit"} -> state
        [] OTHER ->
             CASE arg \in {"-w", "-hvar"} -> [state EXCEPT !.wants = arg]
               [] arg \in {"-oct", "-dec", "-hex"} -> Set([p EXCEPT !.nb = arg])
               [] arg = "-header" -> Set([p EXCEPT !.header = TRUE, !.line = @ + 1])
               [] arg = "-null" -> Set([p EXCEPT !.nul = @ + 1])
               [] arg = "-line" -> Set([p EXCEPT !.line = @ + 1])
               [] arg = "-help" -> [state EXCEPT !.wants = "exit"]
               [] arg \in {"-append", "-tabs", "-align", "-unix", "-mac", "-win"} -> state
               [] OTHER -> [state EXCEPT !.wants = "error"]

Zeros(width, digits) == [k \in 1 .. width - Len(digits) |-> "0"] \o digits

WriteChar(p, byte) ==
  CASE p.nb = "-oct" -> <<"0">> \o Zeros(IF p.align THEN 3 ELSE 1, PutDigits(byte, 8))
    [] p.nb = "-dec" -> LET digits == PutDigits(byte, 10)
                        IN  [k \in 1 .. (IF p.align THEN 3 - Len(digits) ELSE 0) |-> " "] \o digits
    [] p.nb = "-hex" -> <<"0", "x">> \o Zeros(IF p.align THEN 2 ELSE 1, PutDigits(byte, 16))

WriteLineTerm(p, k) ==
  <<",", IF (k + 1) % p.width = 0 THEN NL ELSE IF p.tabs THEN TAB ELSE " ">>

-----------------------------------------------------------------------------
Init ==
  /\ pc = "parse" /\ argv \in ArgLists /\ src \in Files
  /\ params = Parameters /\ c = 0 /\ n = 0 /\ out = <<>> /\ status = Running

ParseParams ==
  /\ pc = "parse"
  /\ LET parsed == FoldLeft(Parse, [params |-> Parameters, wants |-> IF argv = <<>> THEN "error" ELSE "none"],
                              SubSeq(argv, 2, Len(argv)))
         wrong == parsed.wants = "error"
     IN  /\ status' = IF wrong THEN 1 ELSE IF parsed.wants = "exit" THEN 0 ELSE Running
         /\ pc' = IF wrong \/ parsed.wants = "exit" THEN "end" ELSE "open"
         /\ params' = IF wrong THEN params ELSE parsed.params
  /\ UNCHANGED <<argv, src, c, n, out>>

Open ==
  /\ pc = "open"
  /\ IF Head(argv) = "gone"
     THEN pc' = "end" /\ status' = 2 /\ UNCHANGED <<out, c>>
     ELSE /\ out' = IF params.header THEN <<Array, NL>> ELSE <<>>
          /\ c' = 1
          /\ pc' = IF src = <<>> THEN "close" ELSE "bytes"
          /\ UNCHANGED status
  /\ UNCHANGED <<argv, params, src, n>>

(* The next byte is read before the comma is written, none behind the last. *)
WriteByte ==
  /\ pc = "bytes"
  /\ c' = c + 1
  /\ LET more == c + 1 <= Len(src)
     IN  /\ out' = out \o WriteChar(params, src[c])
                       \o (IF more THEN WriteLineTerm(params, n) ELSE <<>>)
         /\ n' = IF more THEN n + 1 ELSE n
         /\ pc' = IF more THEN "bytes" ELSE "nulls"
  /\ UNCHANGED <<argv, params, src, status>>

WriteNull ==
  /\ pc = "nulls"
  /\ IF params.nul > 0
     THEN /\ out' = out \o WriteLineTerm(params, n) \o WriteChar(params, 0)
          /\ n' = n + 1
          /\ params' = [params EXCEPT !.nul = @ - 1]
          /\ UNCHANGED pc
     ELSE pc' = "close" /\ UNCHANGED <<out, n, params>>
  /\ UNCHANGED <<argv, src, c, status>>

Close ==
  /\ pc = "close"
  /\ out' = out \o (IF params.header THEN <<NL, "};">> ELSE <<>>)
                \o [k \in 1 .. params.line |-> NL]
  /\ pc' = "end" /\ status' = 0
  /\ UNCHANGED <<argv, params, src, c, n>>

Next == ParseParams \/ Open \/ WriteByte \/ WriteNull \/ Close

Spec == Init /\ [][Next]_vars

-----------------------------------------------------------------------------
(* What a C compiler makes of the text: the numbers between the commas, each in
   the base its prefix says. *)
Pieces(s, separator) ==
  FoldLeft(LAMBDA ps, x : IF x = separator THEN Append(ps, <<>>)
                          ELSE [ps EXCEPT ![Len(ps)] = Append(@, x)], <<<<>>>>, s)
Bare(s) == SelectSeq(s, LAMBDA x : x \notin {NL, TAB, " ", Array, "};"})
Literal(s) ==
  LET prefix == IF Len(s) > 1 /\ s[1] = "0" THEN (IF s[2] = "x" THEN 2 ELSE 1) ELSE 0
      base == CASE prefix = 2 -> 16 [] prefix = 1 -> 8 [] OTHER -> 10
  IN  FoldLeft(LAMBDA sum, d : sum * base + vals(d), 0, SubSeq(s, prefix + 1, Len(s)))

(* A file that was written without an error reads as the bytes of the source
   and the terminators asked for (none behind an empty file), in whatever base
   and layout; no line has more numbers than asked for, and all but the last
   have as many; the header is opened and closed.  After an error there is
   nothing. *)
ArrayReads ==
  /\ status \notin {Running, 0} => out = <<>>
  /\ status = 0 /\ "-help" \notin ToSet(argv) =>
       LET text == Bare(out)
           nulls == Cardinality({k \in DOMAIN argv : argv[k] = "-null"})
           wanted == IF src = <<>> THEN <<>> ELSE src \o [k \in 1 .. nulls |-> 0]
           lines == SelectSeq([k \in DOMAIN Pieces(out, NL) |-> Bare(Pieces(out, NL)[k])],
                              LAMBDA l : l # <<>>)
           Count(k) == Cardinality({j \in DOMAIN Pieces(lines[k], ",") :
                                      Pieces(lines[k], ",")[j] # <<>>})
           numbers == [k \in DOMAIN Pieces(text, ",") |-> Literal(Pieces(text, ",")[k])]
       IN  /\ text # <<>> => numbers = wanted
           /\ text = <<>> <=> wanted = <<>>
           /\ \A k \in DOMAIN lines : Count(k) <= params.width
           /\ \A k \in 1 .. Len(lines) - 1 : Count(k) = params.width
           /\ params.header <=> Array \in ToSet(out)
           /\ params.header => out[1] = Array /\ out[Len(out) - params.line] = "};"

=============================================================================
