------------------------------ MODULE Console ------------------------------
(***************************************************************************)
(* The text console (kernel/Console.cpp): the characters the kernel and    *)
(* the user print, and the ANSI commands that move the cursor, on a canvas *)
(* of W x H cells.  The cursor is a pointer into the canvas, here the      *)
(* number of the cell; nothing keeps it inside.  One thread prints, so a   *)
(* whole escape sequence is one step.  Colours are left out: a cell holds  *)
(* a character or Blank, the character 0 in the current colours.           *)
(***************************************************************************)
EXTENDS Integers, Sequences

CONSTANTS W, H,      \* canvas size; 80 columns in the code
          TabWidth,  \* _tab, 4 in the code
          Chars,     \* printable characters
          Blank,     \* the character 0
          MaxSaved   \* SIZE of _ansiCursorStack, 64 in the code

ASSUME ConsoleAssumption ==
  /\ W \in Nat /\ W >= 2
  /\ H \in Nat /\ H >= 2
  /\ TabWidth \in 1 .. W
  /\ Blank \notin Chars
  /\ MaxSaved \in Nat

VARIABLES screen,  \* [cells, cursor]
          saved,   \* _ansiCursorStack
          jumped,  \* history: the cursor has been put back over older text
          status   \* "ok", or "wild" once a pointer has left its array

vars == <<screen, saved, jumped, status>>

End   == W * H
Cells == 0 .. End - 1

Fill(cells, from, count) ==
  [i \in Cells |-> IF from <= i /\ i < from + count THEN Blank ELSE cells[i]]

(* What is printed at the end of the canvas goes into the heap behind it. *)
Put(cells, at, c) == IF at \in Cells THEN [cells EXCEPT ![at] = c] ELSE cells

-----------------------------------------------------------------------------
(* One screen to the next.                                                 *)

(* Mutants of Scroll: nothing is cleared; the whole row of the cursor is. *)
ScrollKeepsRow(s) ==
  [cells |-> [i \in Cells |-> IF i < End - W THEN s.cells[i + W] ELSE s.cells[i]],
   cursor |-> s.cursor - W]

ScrollClearsRow(s) ==
  LET up == [i \in Cells |-> IF i < End - W THEN s.cells[i + W] ELSE s.cells[i]]
  IN  [cells |-> Fill(up, s.cursor - W - (s.cursor % W), W), cursor |-> s.cursor - W]

(* Scroll: the rows move up, the cursor with them; the row it is about to
   fill is cleared from the cursor on, W cells long. *)
Scroll(s) ==
  LET up == [i \in Cells |-> IF i < End - W THEN s.cells[i + W] ELSE s.cells[i]]
  IN  [cells |-> Fill(up, s.cursor - W, W), cursor |-> s.cursor - W]

PutChar(s, c) ==
  LET put == [cells |-> Put(s.cells, s.cursor, c), cursor |-> s.cursor + 1]
  IN  IF s.cursor < End - 1 THEN put ELSE Scroll(put)

PutNewLine(s) ==
  LET t == IF s.cursor > End - W THEN Scroll(s) ELSE s
      count == W - (t.cursor % W)
  IN  [cells |-> Fill(t.cells, t.cursor, count), cursor |-> t.cursor + count]

PutTab(s) ==
  LET count == TabWidth - (s.cursor % TabWidth)
      t == IF s.cursor + count > End - 1 THEN Scroll(s) ELSE s
  IN  [cells |-> Fill(t.cells, t.cursor, count), cursor |-> t.cursor + count]

PutReturn(s) == [s EXCEPT !.cursor = s.cursor - (s.cursor % W)]

(* PutBackspace goes back over blanks to the character before them; without
   one it runs off the front of the canvas. *)
Shown(s) == {i \in Cells : i < s.cursor /\ s.cells[i] # Blank}

LastShown(s) == CHOOSE i \in Shown(s) : \A j \in Shown(s) : j <= i

(* Mutant: the character is left standing. *)
PutBackspaceMoves(s) ==
  IF s.cells[s.cursor - 1] = Blank
  THEN [s EXCEPT !.cursor = LastShown(s) + 1]
  ELSE [s EXCEPT !.cursor = s.cursor - 1]

PutBackspace(s) ==
  IF s.cells[s.cursor - 1] = Blank
  THEN [s EXCEPT !.cursor = LastShown(s) + 1]
  ELSE [cells |-> Fill(s.cells, s.cursor - 1, 1), cursor |-> s.cursor - 1]

Cleared == [cells |-> [i \in Cells |-> Blank], cursor |-> 0]

-----------------------------------------------------------------------------
Init ==
  /\ screen = Cleared
  /\ saved = <<>>
  /\ jumped = FALSE
  /\ status = "ok"

(* PrintChar, the characters that advance. *)
Char(c) ==
  /\ status = "ok"
  /\ screen' = PutChar(screen, c)
  /\ UNCHANGED <<saved, jumped, status>>

NewLine ==
  /\ status = "ok"
  /\ screen' = PutNewLine(screen)
  /\ UNCHANGED <<saved, jumped, status>>

HTab ==
  /\ status = "ok"
  /\ screen' = PutTab(screen)
  /\ UNCHANGED <<saved, jumped, status>>

Return ==
  /\ status = "ok"
  /\ screen' = PutReturn(screen)
  /\ jumped' = (jumped \/ screen'.cursor # screen.cursor)
  /\ UNCHANGED <<saved, status>>

Backspace ==
  /\ status = "ok"
  /\ \/ /\ Shown(screen) # {}
        /\ screen' = PutBackspace(screen)
        /\ UNCHANGED status
     \/ /\ Shown(screen) = {}
        /\ status' = "wild"
        /\ UNCHANGED screen
  /\ UNCHANGED <<saved, jumped>>

(* ESC [ n A, B, C, D and ESC [ y ; x H: the cursor is moved by pointer
   arithmetic ("@todo Check boundaries"). *)
MoveTo(cursor) ==
  /\ status = "ok"
  /\ IF cursor \in 0 .. End
     THEN screen' = [screen EXCEPT !.cursor = cursor] /\ UNCHANGED status
     ELSE status' = "wild" /\ UNCHANGED screen
  /\ jumped' = TRUE

CursorUp       == MoveTo(screen.cursor - W) /\ UNCHANGED saved
CursorDown     == MoveTo(screen.cursor + W) /\ UNCHANGED saved
CursorForward  == MoveTo(screen.cursor + 1) /\ UNCHANGED saved
CursorBackward == MoveTo(screen.cursor - 1) /\ UNCHANGED saved
CursorHome(y, x) == MoveTo(W * y + x) /\ UNCHANGED saved

(* ESC [ s, ESC [ u *)
SaveCursor ==
  /\ status = "ok"
  /\ IF Len(saved) < MaxSaved
     THEN saved' = Append(saved, screen.cursor) /\ UNCHANGED status
     ELSE status' = "wild" /\ UNCHANGED saved
  /\ UNCHANGED <<screen, jumped>>

UnsaveCursor ==
  IF saved # <<>>
  THEN MoveTo(saved[Len(saved)]) /\ saved' = SubSeq(saved, 1, Len(saved) - 1)
  ELSE /\ status = "ok" /\ status' = "wild"
       /\ UNCHANGED <<screen, saved, jumped>>

(* ESC [ c, ESC [ 2 J: Erase(BOTH, false).  The other erasures are empty
   ("@todo Implement"). *)
EraseAll ==
  /\ status = "ok"
  /\ screen' = Cleared
  /\ jumped' = FALSE
  /\ UNCHANGED <<saved, status>>

Next ==
  \/ \E c \in Chars : Char(c)
  \/ NewLine \/ HTab \/ Return \/ Backspace
  \/ CursorUp \/ CursorDown \/ CursorForward \/ CursorBackward
  \/ \E y \in 0 .. H - 1, x \in 0 .. W - 1 : CursorHome(y, x)
  \/ SaveCursor \/ UnsaveCursor \/ EraseAll

Spec == Init /\ [][Next]_vars

-----------------------------------------------------------------------------
(* Type invariant; End itself is a place the cursor can be. *)
TypeOK ==
  /\ screen \in [cells : [Cells -> Chars \cup {Blank}], cursor : 0 .. End]
  /\ saved \in Seq(0 .. End) /\ Len(saved) <= MaxSaved
  /\ jumped \in BOOLEAN
  /\ status \in {"ok", "wild"}

(* Scrolling in the middle of a line, by a character, a tab or a new line,
   leaves no stale text in front of the cursor: as long as the cursor was
   never put back, everything from it on is blank. *)
BlankAhead ==
  ~jumped => \A i \in Cells : i >= screen.cursor => screen.cells[i] = Blank

(* What stands before the cursor survives whatever is printed next, where it
   was or one row up: a scroll never moves by more, never eats a character. *)
KeptBefore(s, t) ==
  \E up \in {0, W} :
    \A i \in Cells : up <= i /\ i < s.cursor => t.cells[i - up] = s.cells[i]

PrintedTextKept ==
  [][((\E c \in Chars : Char(c)) \/ NewLine \/ HTab)
       => KeptBefore(screen, screen')]_vars

(* A backspace takes back the character just printed, also when printing it
   scrolled: the text then stands as after the scroll alone. *)
BackspaceUndoesChar ==
  ~jumped /\ screen.cursor < End =>
    \A c \in Chars :
      LET after == PutBackspace(PutChar(screen, c))
      IN  after = screen \/ after = Scroll(screen)

(* "Puts any character as it is" (Console.h:63): the character just printed
   stands before the cursor. *)
CharShown ==
  [][\A c \in Chars : Char(c) => screen'.cells[screen'.cursor - 1] = c]_vars

=============================================================================
