--------------------------- MODULE ConsoleProofs ---------------------------
(***************************************************************************)
(* The text console on a canvas of any size: nothing stale in front of the *)
(* cursor, what stands before it survives a scroll, and a backspace takes  *)
(* back the character printed last.  And the windows that share the        *)
(* screen, of any sizes: every cell shows the topmost of them.             *)
(***************************************************************************)
EXTENDS Console, NaturalsInduction, SequenceTheorems, WellFoundedInduction, TLAPS

CONSTANTS Sizes, CaptionLen, Offsets, Regions      \* Windows
VARIABLES canvas, offset, children

Win == INSTANCE Windows

USE ConsoleAssumption

Grids   == [Cells -> Chars \cup {Blank}]
Screens == [cells : Grids, cursor : 0 .. End]

(* Everything from the cursor on is blank. *)
Ahead(s) == \A i \in Cells : i >= s.cursor => s.cells[i] = Blank

(* The inductive invariant. *)
IInv == TypeOK /\ BlankAhead

-----------------------------------------------------------------------------
(* Numbers                                                                 *)

(* The canvas has at least two rows. *)
LEMMA EndIsNat == End \in Nat /\ End >= 2 * W
  <1>1. ASSUME NEW a \in Nat, NEW b \in Nat, b >= 2 PROVE a * b \in Nat /\ a * b >= 2 * a
    BY <1>1
  <1>2. QED
    BY <1>1 DEF End

(* A remainder is smaller than the divisor and not above the dividend. *)
LEMMA Remainder ==
  ASSUME NEW x \in Nat, NEW d \in Nat \ {0}
  PROVE  x % d \in Nat /\ x % d < d /\ x % d <= x
  <1>1. x = d * (x \div d) + (x % d) /\ x % d \in 0 .. d - 1
    OBVIOUS
  <1>2. x \div d \in Nat
    OBVIOUS
  <1>3. \A a \in Nat : \A b \in Nat : a * b \in Nat
    OBVIOUS
  <1>4. d * (x \div d) \in Nat
    BY <1>2, <1>3
  <1>5. QED
    BY <1>1, <1>4

(* A set of numbers with a bound has a greatest one. *)
LEMMA GreatestNatural ==
  ASSUME NEW n \in Nat, NEW S \in SUBSET (0 .. n), S # {}
  PROVE  \E x \in S : \A y \in S : y <= x
  <1> DEFINE LT == {ij \in Nat \X Nat : ij[1] < ij[2]}
             T == {n - x : x \in S}
  <1>1. IsWellFoundedOn(LT, Nat)
    BY NatLessThanWellFounded DEF OpToRel
  <1>2. T \in SUBSET Nat /\ T # {}
    <2>1. \A x \in S : n - x \in Nat
      OBVIOUS
    <2>2. QED
      BY <2>1
  <1> HIDE DEF LT, T
  <1>3. PICK t \in T : \A u \in T : ~ (<<u, t>> \in LT)
    BY <1>1, <1>2, WFMin
  <1>4. ASSUME NEW u \in T PROVE t <= u
    <2>1. u \in Nat /\ t \in Nat /\ (<<u, t>> \in LT <=> u < t)
      BY <1>2 DEF LT
    <2>2. QED
      BY <2>1, <1>3
  <1>5. PICK x \in S : t = n - x
    BY DEF T
  <1>6. ASSUME NEW y \in S PROVE y <= x
    <2>1. n - x <= n - y
      BY <1>4, <1>5 DEF T
    <2>2. QED
      BY <2>1
  <1>7. QED
    BY <1>6

(* A set of numbers has a least one. *)
LEMMA LeastNatural ==
  ASSUME NEW n \in Nat, NEW S \in SUBSET (0 .. n), S # {}
  PROVE  \E x \in S : \A y \in S : x <= y
  <1> DEFINE T == {n - x : x \in S}
  <1>1. T \in SUBSET (0 .. n) /\ T # {}
    <2>1. \A x \in S : n - x \in 0 .. n
      OBVIOUS
    <2>2. QED
      BY <2>1
  <1> HIDE DEF T
  <1>2. PICK t \in T : \A u \in T : u <= t
    BY <1>1, GreatestNatural
  <1>3. PICK x \in S : t = n - x
    BY DEF T
  <1>4. ASSUME NEW y \in S PROVE x <= y
    <2>1. n - y <= n - x
      BY <1>2, <1>3 DEF T
    <2>2. QED
      BY <2>1
  <1>5. QED
    BY <1>4

(* A stack without its last element. *)
LEMMA LastTaken ==
  ASSUME NEW S, NEW s \in Seq(S), Len(s) >= 1
  PROVE  SubSeq(s, 1, Len(s) - 1) \in Seq(S) /\ Len(SubSeq(s, 1, Len(s) - 1)) = Len(s) - 1
  <1> DEFINE n == Len(s) - 1
  <1>1. n \in Nat /\ Len(s) \in Nat
    OBVIOUS
  <1>2. \A i \in 1 .. n : s[i] \in S
    OBVIOUS
  <1> HIDE DEF n
  <1>3. /\ SubSeq(s, 1, n) \in Seq(S)
        /\ Len(SubSeq(s, 1, n)) = IF 1 <= n THEN n - 1 + 1 ELSE 0
    BY <1>1, <1>2, SubSeqProperties
  <1>4. Len(SubSeq(s, 1, n)) = n
    BY <1>1, <1>3
  <1>5. QED
    BY <1>3, <1>4 DEF n

-----------------------------------------------------------------------------
(* The operators on the screen                                             *)

(* What Fill leaves in each cell. *)
LEMMA FillDoes ==
  ASSUME NEW f \in Grids, NEW from, NEW count
  PROVE  /\ Fill(f, from, count) \in Grids
         /\ \A i \in Cells : Fill(f, from, count)[i] =
              IF from <= i /\ i < from + count THEN Blank ELSE f[i]
  BY DEF Fill, Grids

(* Scroll moves every row up and blanks one row's length from the cursor on. *)
LEMMA ScrollDoes ==
  ASSUME NEW s, s.cells \in Grids, s.cursor \in Int
  PROVE  /\ Scroll(s).cursor = s.cursor - W
         /\ Scroll(s).cells \in Grids
         /\ \A i \in Cells :
              Scroll(s).cells[i] = IF s.cursor - W <= i /\ i < s.cursor THEN Blank
                                   ELSE IF i < End - W THEN s.cells[i + W] ELSE s.cells[i]
  <1> DEFINE up == [i \in Cells |-> IF i < End - W THEN s.cells[i + W] ELSE s.cells[i]]
  <1>1. /\ up \in Grids
        /\ \A i \in Cells : up[i] = IF i < End - W THEN s.cells[i + W] ELSE s.cells[i]
    BY EndIsNat DEF Grids, Cells
  <1>2. Scroll(s) = [cells |-> Fill(up, s.cursor - W, W), cursor |-> s.cursor - W]
    BY DEF Scroll
  <1>3. Cells \subseteq Int
    BY EndIsNat DEF Cells
  <1> HIDE DEF up
  <1>4. QED
    BY <1>1, <1>2, <1>3, FillDoes

(* Scrolling when the cursor is past the first row: a screen again, blank ahead
   if it was, and every cell before the cursor one row up. *)
LEMMA ScrollKeeps ==
  ASSUME NEW s \in Screens, s.cursor >= W
  PROVE  /\ Scroll(s) \in Screens
         /\ Ahead(s) => Ahead(Scroll(s))
         /\ \A i \in Cells : W <= i /\ i < s.cursor => Scroll(s).cells[i - W] = s.cells[i]
  <1>1. s.cells \in Grids /\ s.cursor \in 0 .. End /\ End \in Nat /\ End >= 2 * W
    BY EndIsNat DEF Screens
  <1>2. Scroll(s) \in Screens
    <2>1. Scroll(s) = [cells |-> Scroll(s).cells, cursor |-> Scroll(s).cursor]
      BY DEF Scroll
    <2>2. QED
      BY <1>1, <2>1, ScrollDoes DEF Screens
  <1>3. ASSUME Ahead(s) PROVE Ahead(Scroll(s))
    <2>1. ASSUME NEW i \in Cells, i >= s.cursor - W PROVE Scroll(s).cells[i] = Blank
      <3>1. CASE i < s.cursor
        BY <1>1, <2>1, <3>1, ScrollDoes DEF Cells
      <3>2. CASE i >= s.cursor /\ i < End - W
        <4>1. i + W \in Cells /\ i + W >= s.cursor
          BY <1>1, <3>2 DEF Cells
        <4>2. QED
          BY <1>1, <1>3, <3>2, <4>1, ScrollDoes DEF Ahead, Cells
      <3>3. CASE i >= s.cursor /\ i >= End - W
        BY <1>1, <1>3, <3>3, ScrollDoes DEF Ahead, Cells
      <3>4. QED
        BY <1>1, <3>1, <3>2, <3>3 DEF Cells
    <2>2. QED
      BY <1>1, <2>1, ScrollDoes DEF Ahead
  <1>4. ASSUME NEW i \in Cells, W <= i, i < s.cursor PROVE Scroll(s).cells[i - W] = s.cells[i]
    <2>1. i - W \in Cells /\ i - W < s.cursor - W /\ i - W < End - W /\ (i - W) + W = i
      BY <1>1, <1>4 DEF Cells
    <2>2. QED
      BY <1>1, <2>1, ScrollDoes DEF Cells
  <1>5. QED
    BY <1>2, <1>3, <1>4

(* Blanks put from the cursor on, and the cursor after them. *)
LEMMA FillKeeps ==
  ASSUME NEW s \in Screens, NEW count \in Nat, s.cursor + count <= End
  PROVE  LET t == [cells |-> Fill(s.cells, s.cursor, count), cursor |-> s.cursor + count]
         IN  /\ t \in Screens
             /\ Ahead(s) => Ahead(t)
             /\ \A i \in Cells : i < s.cursor => t.cells[i] = s.cells[i]
  <1> DEFINE g == Fill(s.cells, s.cursor, count)
             t == [cells |-> g, cursor |-> s.cursor + count]
  <1>1. s.cells \in Grids /\ s.cursor \in 0 .. End /\ End \in Nat /\ Cells \subseteq Int
    BY EndIsNat DEF Screens, Cells
  <1>2. /\ g \in Grids
        /\ \A i \in Cells : g[i] = IF s.cursor <= i /\ i < s.cursor + count THEN Blank
                                                                          ELSE s.cells[i]
    BY <1>1, FillDoes
  <1> HIDE DEF g
  <1>3. t \in Screens
    BY <1>1, <1>2 DEF Screens
  <1>4. Ahead(s) => Ahead(t)
    BY <1>1, <1>2 DEF Ahead
  <1>5. \A i \in Cells : i < s.cursor => t.cells[i] = s.cells[i]
    BY <1>1, <1>2
  <1>6. QED
    BY <1>3, <1>4, <1>5 DEF g

(* The screen with c put at the cursor. *)
With(s, c) == [cells |-> Put(s.cells, s.cursor, c), cursor |-> s.cursor + 1]

(* What Put leaves in each cell. *)
LEMMA PutDoes ==
  ASSUME NEW s \in Screens, NEW c \in Chars
  PROVE  /\ With(s, c).cells \in Grids /\ With(s, c).cursor = s.cursor + 1
         /\ \A i \in Cells : With(s, c).cells[i] = IF i = s.cursor THEN c ELSE s.cells[i]
  BY DEF With, Put, Screens, Grids

(* A character: a screen again, blank ahead if it was, the text before it kept. *)
LEMMA PutCharKeeps ==
  ASSUME NEW s \in Screens, NEW c \in Chars
  PROVE  /\ PutChar(s, c) \in Screens
         /\ Ahead(s) => Ahead(PutChar(s, c))
         /\ KeptBefore(s, PutChar(s, c))
  <1> DEFINE put == With(s, c)
             t == PutChar(s, c)
  <1>1. /\ s.cells \in Grids /\ s.cursor \in 0 .. End
        /\ End \in Nat /\ End >= 2 * W /\ Cells \subseteq Int
    BY EndIsNat DEF Screens, Cells
  <1>2. /\ put.cells \in Grids /\ put.cursor = s.cursor + 1
        /\ \A i \in Cells : put.cells[i] = IF i = s.cursor THEN c ELSE s.cells[i]
    BY PutDoes
  <1>3. CASE s.cursor < End - 1
    <2>1. t = put
      BY <1>3 DEF PutChar, With
    <2>2. put \in Screens
      BY <1>1, <1>2, <1>3 DEF Screens, With
    <2>3. Ahead(s) => Ahead(put)
      BY <1>1, <1>2 DEF Ahead
    <2>4. \A i \in Cells : 0 <= i /\ i < s.cursor => put.cells[i - 0] = s.cells[i]
      BY <1>1, <1>2
    <2>5. QED
      BY <2>1, <2>2, <2>3, <2>4 DEF KeptBefore
  <1>4. CASE ~ s.cursor < End - 1
    <2>1. t = Scroll(put)
      BY <1>4 DEF PutChar, With
    <2>2. /\ t.cursor = s.cursor + 1 - W /\ t.cells \in Grids
          /\ \A i \in Cells :
               t.cells[i] = IF s.cursor + 1 - W <= i /\ i < s.cursor + 1 THEN Blank
                            ELSE IF i < End - W THEN put.cells[i + W] ELSE put.cells[i]
      BY <1>1, <1>2, <2>1, ScrollDoes
    <2> HIDE DEF put
    <2>3. t \in Screens
      <3>1. t = [cells |-> t.cells, cursor |-> t.cursor]
        BY <2>1 DEF Scroll
      <3>2. QED
        BY <1>1, <1>4, <2>2, <3>1 DEF Screens
    <2>4. Ahead(t)
      BY <1>1, <1>4, <2>2 DEF Ahead, Cells
    <2>5. ASSUME NEW i \in Cells, W <= i, i < s.cursor PROVE t.cells[i - W] = s.cells[i]
      <3>1. /\ i - W \in Cells /\ i - W < s.cursor + 1 - W /\ i - W < End - W
            /\ (i - W) + W = i /\ i # s.cursor
        BY <1>1, <2>5 DEF Cells
      <3>2. QED
        BY <1>1, <1>2, <2>2, <3>1
    <2>6. KeptBefore(s, t)
      BY <2>5 DEF KeptBefore
    <2>7. QED
      BY <2>3, <2>4, <2>6
  <1>5. QED
    BY <1>3, <1>4

(* A new line, likewise. *)
LEMMA PutNewLineKeeps ==
  ASSUME NEW s \in Screens
  PROVE  /\ PutNewLine(s) \in Screens
         /\ Ahead(s) => Ahead(PutNewLine(s))
         /\ KeptBefore(s, PutNewLine(s))
  <1> DEFINE t == IF s.cursor > End - W THEN Scroll(s) ELSE s
             count == W - (t.cursor % W)
  <1>1. s.cursor \in 0 .. End /\ End \in Nat /\ End >= 2 * W /\ Cells \subseteq Int
    BY EndIsNat DEF Screens, Cells
  <1>2. /\ t \in Screens /\ t.cursor \in Nat /\ t.cursor <= End - W
        /\ Ahead(s) => Ahead(t)
        /\ \E up \in {0, W} :
             /\ t.cursor = s.cursor - up
             /\ \A i \in Cells : up <= i /\ i < s.cursor => t.cells[i - up] = s.cells[i]
    <2>1. CASE s.cursor > End - W
      <3>1. t = Scroll(s) /\ s.cursor >= W
        BY <1>1, <2>1
      <3> HIDE DEF t
      <3>2. /\ t \in Screens /\ t.cursor = s.cursor - W
            /\ \A i \in Cells : W <= i /\ i < s.cursor => t.cells[i - W] = s.cells[i]
        BY <3>1, ScrollKeeps DEF Scroll
      <3>3. Ahead(s) => Ahead(t)
        BY <3>1, ScrollKeeps
      <3>4. QED
        BY <1>1, <2>1, <3>1, <3>2, <3>3
    <2>2. CASE ~ s.cursor > End - W
      <3>1. t = s
        BY <2>2
      <3> HIDE DEF t
      <3>2. \A i \in Cells : 0 <= i /\ i < s.cursor => t.cells[i - 0] = s.cells[i]
        BY <1>1, <3>1
      <3>3. QED
        BY <1>1, <2>2, <3>1, <3>2
    <2>3. QED
      BY <2>1, <2>2
  <1>3. PutNewLine(s) = [cells |-> Fill(t.cells, t.cursor, count), cursor |-> t.cursor + count]
    BY DEF PutNewLine
  <1> HIDE DEF t
  <1>4. count \in Nat /\ t.cursor + count <= End
    BY <1>1, <1>2, Remainder
  <1> HIDE DEF count
  <1>5. /\ PutNewLine(s) \in Screens
        /\ Ahead(s) => Ahead(PutNewLine(s))
        /\ \A i \in Cells : i < t.cursor => PutNewLine(s).cells[i] = t.cells[i]
    BY <1>2, <1>3, <1>4, FillKeeps
  <1>6. KeptBefore(s, PutNewLine(s))
    <2>1. PICK up \in {0, W} :
             /\ t.cursor = s.cursor - up
             /\ \A i \in Cells : up <= i /\ i < s.cursor => t.cells[i - up] = s.cells[i]
      BY <1>2
    <2>2. ASSUME NEW i \in Cells, up <= i, i < s.cursor
          PROVE  PutNewLine(s).cells[i - up] = s.cells[i]
      <3>1. i - up \in Cells /\ i - up < t.cursor
        BY <1>1, <2>1, <2>2 DEF Cells
      <3>2. QED
        BY <1>5, <2>1, <2>2, <3>1
    <2>3. QED
      BY <2>2 DEF KeptBefore
  <1>7. QED
    BY <1>5, <1>6

(* A tab, likewise: it scrolls only far from the top, and is not longer than a row. *)
LEMMA PutTabKeeps ==
  ASSUME NEW s \in Screens
  PROVE  /\ PutTab(s) \in Screens
         /\ Ahead(s) => Ahead(PutTab(s))
         /\ KeptBefore(s, PutTab(s))
  <1> DEFINE count == TabWidth - (s.cursor % TabWidth)
             t == IF s.cursor + count > End - 1 THEN Scroll(s) ELSE s
  <1>1. s.cursor \in 0 .. End /\ End \in Nat /\ End >= 2 * W /\ Cells \subseteq Int
    BY EndIsNat DEF Screens, Cells
  <1>2. count \in Nat /\ count <= W
    BY <1>1, Remainder
  <1>3. PutTab(s) = [cells |-> Fill(t.cells, t.cursor, count), cursor |-> t.cursor + count]
    BY DEF PutTab
  <1> HIDE DEF count
  <1>4. /\ t \in Screens /\ t.cursor \in Nat /\ t.cursor + count <= End
        /\ Ahead(s) => Ahead(t)
        /\ \E up \in {0, W} :
             /\ t.cursor = s.cursor - up
             /\ \A i \in Cells : up <= i /\ i < s.cursor => t.cells[i - up] = s.cells[i]
    <2>1. CASE s.cursor + count > End - 1
      <3>1. t = Scroll(s) /\ s.cursor >= W
        BY <1>1, <1>2, <2>1
      <3> HIDE DEF t
      <3>2. /\ t \in Screens /\ t.cursor = s.cursor - W
            /\ \A i \in Cells : W <= i /\ i < s.cursor => t.cells[i - W] = s.cells[i]
        BY <3>1, ScrollKeeps DEF Scroll
      <3>3. Ahead(s) => Ahead(t)
        BY <3>1, ScrollKeeps
      <3>4. QED
        BY <1>1, <1>2, <2>1, <3>1, <3>2, <3>3
    <2>2. CASE ~ s.cursor + count > End - 1
      <3>1. t = s
        BY <2>2
      <3> HIDE DEF t
      <3>2. \A i \in Cells : 0 <= i /\ i < s.cursor => t.cells[i - 0] = s.cells[i]
        BY <1>1, <3>1
      <3>3. QED
        BY <1>1, <1>2, <2>2, <3>1, <3>2
    <2>3. QED
      BY <2>1, <2>2
  <1> HIDE DEF t
  <1>5. /\ PutTab(s) \in Screens
        /\ Ahead(s) => Ahead(PutTab(s))
        /\ \A i \in Cells : i < t.cursor => PutTab(s).cells[i] = t.cells[i]
    BY <1>2, <1>3, <1>4, FillKeeps
  <1>6. KeptBefore(s, PutTab(s))
    <2>1. PICK up \in {0, W} :
             /\ t.cursor = s.cursor - up
             /\ \A i \in Cells : up <= i /\ i < s.cursor => t.cells[i - up] = s.cells[i]
      BY <1>4
    <2>2. ASSUME NEW i \in Cells, up <= i, i < s.cursor
          PROVE  PutTab(s).cells[i - up] = s.cells[i]
      <3>1. i - up \in Cells /\ i - up < t.cursor
        BY <1>1, <2>1, <2>2 DEF Cells
      <3>2. QED
        BY <1>5, <2>1, <2>2, <3>1
    <2>3. QED
      BY <2>2 DEF KeptBefore
  <1>7. QED
    BY <1>5, <1>6

(* The character a backspace goes back to is the last one before the cursor. *)
LEMMA LastShownIs ==
  ASSUME NEW s \in Screens, Shown(s) # {}
  PROVE  LastShown(s) \in Shown(s) /\ \A j \in Shown(s) : j <= LastShown(s)
  <1>1. End \in Nat /\ Shown(s) \in SUBSET (0 .. End)
    BY EndIsNat DEF Shown, Cells
  <1>2. \E i \in Shown(s) : \A j \in Shown(s) : j <= i
    BY <1>1, GreatestNatural
  <1>3. QED
    BY <1>2 DEF LastShown

(* A backspace where there is something to go back to. *)
LEMMA PutBackspaceKeeps ==
  ASSUME NEW s \in Screens, Shown(s) # {}
  PROVE  /\ PutBackspace(s) \in Screens
         /\ Ahead(s) => Ahead(PutBackspace(s))
  <1>1. /\ s.cells \in Grids /\ s.cursor \in 0 .. End /\ End \in Nat /\ Cells \subseteq Int
        /\ s = [cells |-> s.cells, cursor |-> s.cursor]
    BY EndIsNat DEF Screens, Cells
  <1> DEFINE last == LastShown(s)
  <1>2. /\ last \in Cells /\ last < s.cursor
        /\ \A j \in Cells : j < s.cursor /\ s.cells[j] # Blank => j <= last
    BY LastShownIs DEF Shown
  <1> HIDE DEF last
  <1>3. CASE s.cells[s.cursor - 1] = Blank
    <2>1. PutBackspace(s) = [cells |-> s.cells, cursor |-> last + 1]
      BY <1>1, <1>3 DEF PutBackspace, last
    <2>2. last + 1 \in 0 .. End
      BY <1>1, <1>2 DEF Cells
    <2>3. Ahead(s) => Ahead(PutBackspace(s))
      BY <1>1, <1>2, <2>1 DEF Ahead, Cells
    <2>4. QED
      BY <1>1, <2>1, <2>2, <2>3 DEF Screens
  <1>4. CASE s.cells[s.cursor - 1] # Blank
    <2> DEFINE g == Fill(s.cells, s.cursor - 1, 1)
    <2>1. PutBackspace(s) = [cells |-> g, cursor |-> s.cursor - 1]
      BY <1>4 DEF PutBackspace
    <2>2. /\ g \in Grids
          /\ \A i \in Cells : g[i] = IF s.cursor - 1 <= i /\ i < (s.cursor - 1) + 1
                                     THEN Blank ELSE s.cells[i]
      BY <1>1, FillDoes
    <2> HIDE DEF g
    <2>3. s.cursor - 1 \in 0 .. End
      BY <1>1, <1>2 DEF Cells
    <2>4. Ahead(s) => Ahead(PutBackspace(s))
      BY <1>1, <2>1, <2>2 DEF Ahead
    <2>5. QED
      BY <2>1, <2>2, <2>3, <2>4 DEF Screens
  <1>5. QED
    BY <1>3, <1>4

-----------------------------------------------------------------------------
(* The inductive invariant                                                 *)

(* TypeOK and BlankAhead in terms of the screen. *)
LEMMA IInvMeans ==
  IInv <=> /\ screen \in Screens
           /\ saved \in Seq(0 .. End) /\ Len(saved) <= MaxSaved
           /\ jumped \in BOOLEAN
           /\ status \in {"ok", "wild"}
           /\ ~jumped => Ahead(screen)
  BY DEF IInv, TypeOK, BlankAhead, Screens, Grids, Ahead

(* The canvas is cleared. *)
LEMMA ClearedIsScreen == Cleared \in Screens /\ Ahead(Cleared)
  BY EndIsNat DEF Cleared, Screens, Grids, Ahead

(* At first. *)
LEMMA ConsoleInit == Init => IInv
  <1> SUFFICES ASSUME Init PROVE IInv
    OBVIOUS
  <1>1. saved \in Seq(0 .. End) /\ Len(saved) <= MaxSaved
    BY DEF Init
  <1>2. QED
    BY <1>1, ClearedIsScreen, IInvMeans DEF Init

(* A jump, with the cursor then on the canvas or the console wild. *)
LEMMA MoveToKeeps ==
  ASSUME IInv, NEW cursor, MoveTo(cursor)
  PROVE  screen' \in Screens /\ jumped' = TRUE /\ status' \in {"ok", "wild"}
  <1>1. screen \in Screens /\ status \in {"ok", "wild"}
    BY IInvMeans
  <1>2. CASE cursor \in 0 .. End
    <2>1. screen' = [screen EXCEPT !.cursor = cursor] /\ jumped' = TRUE /\ status' = status
      BY <1>2 DEF MoveTo
    <2>2. QED
      BY <1>1, <1>2, <2>1 DEF Screens
  <1>3. CASE cursor \notin 0 .. End
    BY <1>1, <1>3 DEF MoveTo
  <1>4. QED
    BY <1>2, <1>3

(* Every step keeps the invariant. *)
LEMMA ConsoleStep == IInv /\ [Next]_vars => IInv'
  <1> SUFFICES ASSUME IInv, [Next]_vars PROVE IInv'
    OBVIOUS
  <1>0. /\ screen \in Screens
        /\ saved \in Seq(0 .. End) /\ Len(saved) <= MaxSaved
        /\ jumped \in BOOLEAN
        /\ status \in {"ok", "wild"}
        /\ ~jumped => Ahead(screen)
    BY IInvMeans
  <1> DEFINE Goal == /\ screen' \in Screens
                     /\ saved' \in Seq(0 .. End) /\ Len(saved') <= MaxSaved
                     /\ jumped' \in BOOLEAN
                     /\ status' \in {"ok", "wild"}
                     /\ ~jumped' => Ahead(screen')
  <1>1. ASSUME NEW c \in Chars, Char(c) PROVE Goal
    BY <1>0, <1>1, PutCharKeeps DEF Char
  <1>2. ASSUME NewLine PROVE Goal
    BY <1>0, <1>2, PutNewLineKeeps DEF NewLine
  <1>3. ASSUME HTab PROVE Goal
    BY <1>0, <1>3, PutTabKeeps DEF HTab
  <1>4. ASSUME Return PROVE Goal
    <2>1. screen.cursor \in Nat /\ screen.cursor <= End /\ End \in Nat
      BY <1>0, EndIsNat DEF Screens
    <2>2. screen.cursor - (screen.cursor % W) \in 0 .. End
      BY <2>1, Remainder
    <2>3. screen' = [screen EXCEPT !.cursor = screen.cursor - (screen.cursor % W)]
      BY <1>4 DEF Return, PutReturn
    <2>4. screen' \in Screens
      BY <1>0, <2>2, <2>3 DEF Screens
    <2>5. jumped' = (jumped \/ screen'.cursor # screen.cursor)
      BY <1>4 DEF Return
    <2>6. ASSUME ~jumped' PROVE Ahead(screen')
      <3>1. ~jumped /\ screen'.cursor = screen.cursor
        BY <2>5, <2>6
      <3>2. screen'.cells = screen.cells
        BY <1>0, <2>3 DEF Screens
      <3>3. QED
        BY <1>0, <3>1, <3>2 DEF Ahead
    <2>7. QED
      BY <1>0, <1>4, <2>4, <2>5, <2>6 DEF Return
  <1>5. ASSUME Backspace PROVE Goal
    BY <1>0, <1>5, PutBackspaceKeeps DEF Backspace
  <1>6. ASSUME NEW cursor, MoveTo(cursor), UNCHANGED saved PROVE Goal
    BY <1>0, <1>6, MoveToKeeps
  <1>7. ASSUME SaveCursor PROVE Goal
    <2>1. screen.cursor \in 0 .. End
      BY <1>0 DEF Screens
    <2>2. CASE Len(saved) < MaxSaved
      <3>1. saved' = Append(saved, screen.cursor) /\ Len(saved) \in Nat
        BY <1>0, <1>7, <2>2 DEF SaveCursor
      <3>2. saved' \in Seq(0 .. End) /\ Len(saved') = Len(saved) + 1
        BY <1>0, <2>1, <3>1
      <3>3. QED
        BY <1>0, <1>7, <2>2, <3>1, <3>2 DEF SaveCursor
    <2>3. CASE ~ Len(saved) < MaxSaved
      BY <1>0, <1>7, <2>3 DEF SaveCursor
    <2>4. QED
      BY <2>2, <2>3
  <1>8. ASSUME UnsaveCursor PROVE Goal
    <2>1. CASE saved # <<>>
      <3>1. /\ MoveTo(saved[Len(saved)])
            /\ saved' = SubSeq(saved, 1, Len(saved) - 1)
        BY <1>8, <2>1 DEF UnsaveCursor
      <3>2. Len(saved) \in Nat /\ Len(saved) >= 1
        BY <1>0, <2>1
      <3>3. saved' \in Seq(0 .. End) /\ Len(saved') = Len(saved) - 1
        BY <1>0, <3>1, <3>2, LastTaken
      <3>4. screen' \in Screens /\ jumped' = TRUE /\ status' \in {"ok", "wild"}
        BY <3>1, MoveToKeeps
      <3>5. QED
        BY <1>0, <3>2, <3>3, <3>4
    <2>2. CASE saved = <<>>
      BY <1>0, <1>8, <2>2 DEF UnsaveCursor
    <2>3. QED
      BY <2>1, <2>2
  <1>9. ASSUME EraseAll PROVE Goal
    BY <1>0, <1>9, ClearedIsScreen DEF EraseAll
  <1>10. ASSUME UNCHANGED vars PROVE Goal
    BY <1>0, <1>10 DEF vars
  <1> HIDE DEF Goal
  <1>11. Goal
    <2>1. ASSUME CursorUp \/ CursorDown \/ CursorForward \/ CursorBackward PROVE Goal
      BY <2>1, <1>6 DEF CursorUp, CursorDown, CursorForward, CursorBackward
    <2>2. ASSUME NEW y \in 0 .. H - 1, NEW x \in 0 .. W - 1, CursorHome(y, x) PROVE Goal
      BY <2>2, <1>6 DEF CursorHome
    <2>3. QED
      BY <1>1, <1>2, <1>3, <1>4, <1>5, <1>7, <1>8, <1>9, <1>10, <2>1, <2>2 DEF Next
  <1>12. QED
    BY <1>11 DEF Goal, IInv, TypeOK, BlankAhead, Screens, Grids, Ahead

(* The inductive invariant holds throughout. *)
THEOREM ConsoleInvariant == Spec => []IInv
  BY ConsoleInit, ConsoleStep, PTL DEF Spec

-----------------------------------------------------------------------------
(* What the runs check                                                     *)

(* The cursor stays on the canvas or just behind it, the saved cursors in their
   array, until the console goes wild. *)
THEOREM ConsoleTypeCorrect == Spec => []TypeOK
  <1>1. IInv => TypeOK
    BY DEF IInv
  <1>2. QED
    BY <1>1, ConsoleInvariant, PTL

(* Wherever a line ends in a scroll (Console.cpp, Scroll), no old text comes up in
   front of the cursor. *)
THEOREM AlwaysBlankAhead == Spec => []BlankAhead
  <1>1. IInv => BlankAhead
    BY DEF IInv
  <1>2. QED
    BY <1>1, ConsoleInvariant, PTL

(* The backspace after a character that did not scroll restores the screen. *)
LEMMA BackspaceOnLine ==
  ASSUME NEW s \in Screens, Ahead(s), s.cursor < End - 1, NEW c \in Chars
  PROVE  PutBackspace(PutChar(s, c)) = s
  <1> DEFINE t == With(s, c)
             g == Fill(t.cells, t.cursor - 1, 1)
  <1>1. /\ s.cells \in Grids /\ s.cursor \in Cells /\ End \in Nat /\ Cells \subseteq Int
        /\ s = [cells |-> s.cells, cursor |-> s.cursor]
    BY EndIsNat DEF Screens, Cells
  <1>2. PutChar(s, c) = t
    BY DEF PutChar, With
  <1>3. /\ t.cells \in Grids /\ t.cursor = s.cursor + 1
        /\ \A i \in Cells : t.cells[i] = IF i = s.cursor THEN c ELSE s.cells[i]
    BY PutDoes
  <1> HIDE DEF t
  <1>4. t.cursor - 1 = s.cursor /\ t.cells[t.cursor - 1] # Blank
    BY <1>1, <1>3
  <1>5. PutBackspace(t) = [cells |-> g, cursor |-> s.cursor]
    BY <1>4 DEF PutBackspace
  <1>6. /\ g \in Grids
        /\ \A i \in Cells : g[i] = IF t.cursor - 1 <= i /\ i < (t.cursor - 1) + 1
                                   THEN Blank ELSE t.cells[i]
    BY <1>3, FillDoes
  <1> HIDE DEF g
  <1>7. \A i \in Cells : g[i] = s.cells[i]
    BY <1>1, <1>3, <1>4, <1>6 DEF Ahead
  <1>8. g = s.cells
    BY <1>1, <1>6, <1>7 DEF Grids
  <1>9. QED
    BY <1>1, <1>2, <1>5, <1>8

(* The backspace after a character in the last cell leaves what the scroll alone
   would have. *)
LEMMA BackspaceAtEnd ==
  ASSUME NEW s \in Screens, Ahead(s), s.cursor = End - 1, NEW c \in Chars
  PROVE  PutBackspace(PutChar(s, c)) = Scroll(s)
  <1> DEFINE put == With(s, c)
             t == PutChar(s, c)
             u == Scroll(s)
             g == Fill(t.cells, t.cursor - 1, 1)
  <1>1. /\ s.cells \in Grids /\ s.cursor \in Cells /\ s.cursor \in Int
        /\ End \in Nat /\ End >= 2 * W /\ Cells \subseteq Int
    BY EndIsNat DEF Screens, Cells
  <1>2. /\ put.cells \in Grids /\ put.cursor = s.cursor + 1
        /\ \A i \in Cells : put.cells[i] = IF i = s.cursor THEN c ELSE s.cells[i]
    BY PutDoes
  <1>3. t = Scroll(put)
    BY <1>1 DEF PutChar, With
  <1>4. /\ t.cursor = End - W /\ t.cells \in Grids
        /\ \A i \in Cells :
             t.cells[i] = IF End - W <= i /\ i < End THEN Blank
                          ELSE IF i < End - W THEN put.cells[i + W] ELSE put.cells[i]
    BY <1>1, <1>2, <1>3, ScrollDoes
  <1>5. /\ u = [cells |-> u.cells, cursor |-> u.cursor]
        /\ u.cursor = (End - 1) - W /\ u.cells \in Grids
        /\ \A i \in Cells :
             u.cells[i] = IF (End - 1) - W <= i /\ i < End - 1 THEN Blank
                          ELSE IF i < End - W THEN s.cells[i + W] ELSE s.cells[i]
    BY <1>1, ScrollDoes DEF Scroll
  <1> HIDE DEF put, t, u
  <1>6. t.cells[t.cursor - 1] # Blank
    <2>1. /\ (End - W) - 1 \in Cells /\ ((End - W) - 1) + W = s.cursor
          /\ (End - W) - 1 < End - W
      BY <1>1 DEF Cells
    <2>2. t.cells[(End - W) - 1] = c
      BY <1>1, <1>2, <1>4, <2>1
    <2>3. QED
      BY <1>4, <2>2
  <1>7. PutBackspace(t) = [cells |-> g, cursor |-> t.cursor - 1]
    BY <1>6 DEF PutBackspace
  <1>8. /\ g \in Grids
        /\ \A i \in Cells : g[i] = IF t.cursor - 1 <= i /\ i < (t.cursor - 1) + 1
                                   THEN Blank ELSE t.cells[i]
    BY <1>4, FillDoes
  <1> HIDE DEF g
  <1>9. ASSUME NEW i \in Cells PROVE g[i] = u.cells[i]
    <2>1. CASE i < (End - 1) - W
      <3>1. i + W \in Cells /\ i + W # s.cursor
        BY <1>1, <2>1 DEF Cells
      <3>2. t.cells[i] = put.cells[i + W] /\ u.cells[i] = s.cells[i + W]
        BY <1>1, <1>4, <1>5, <2>1
      <3>3. g[i] = t.cells[i]
        BY <1>1, <1>4, <1>8, <2>1
      <3>4. QED
        BY <1>2, <3>1, <3>2, <3>3
    <2>2. CASE (End - 1) - W <= i /\ i < End - 1
      BY <1>1, <1>4, <1>5, <1>8, <2>2
    <2>3. CASE i = End - 1
      BY <1>1, <1>4, <1>5, <1>8, <2>3 DEF Ahead
    <2>4. QED
      BY <1>1, <2>1, <2>2, <2>3 DEF Cells
  <1>10. g = u.cells
    BY <1>5, <1>8, <1>9 DEF Grids
  <1>11. t.cursor - 1 = u.cursor
    BY <1>1, <1>4, <1>5
  <1>12. QED
    BY <1>5, <1>7, <1>10, <1>11 DEF t, u

(* A backspace takes back the character just printed, also one in the last cell
   whose printing scrolled (Console.cpp, PrintChar and Scroll). *)
THEOREM BackspaceAlwaysUndoes == Spec => []BackspaceUndoesChar
  <1>1. ASSUME IInv PROVE BackspaceUndoesChar
    <2>1. SUFFICES ASSUME ~jumped, screen.cursor < End, NEW c \in Chars
                   PROVE  \/ PutBackspace(PutChar(screen, c)) = screen
                          \/ PutBackspace(PutChar(screen, c)) = Scroll(screen)
      BY DEF BackspaceUndoesChar
    <2>2. screen \in Screens /\ Ahead(screen)
      BY <1>1, <2>1, IInvMeans
    <2>3. screen.cursor < End - 1 \/ screen.cursor = End - 1
      BY <2>1, <2>2, EndIsNat DEF Screens
    <2>4. QED
      BY <2>2, <2>3, BackspaceOnLine, BackspaceAtEnd
  <1>2. QED
    BY <1>1, ConsoleInvariant, PTL

(* No character, new line or tab eats anything before the cursor: it stays where
   it was or moves up by the one row scrolled. *)
THEOREM TextAlwaysKept == Spec => PrintedTextKept
  <1>1. ASSUME IInv, (\E c \in Chars : Char(c)) \/ NewLine \/ HTab
        PROVE  KeptBefore(screen, screen')
    <2>1. screen \in Screens
      BY <1>1, IInvMeans
    <2>2. ASSUME NEW c \in Chars, Char(c) PROVE KeptBefore(screen, screen')
      BY <2>1, <2>2, PutCharKeeps DEF Char
    <2>3. ASSUME NewLine PROVE KeptBefore(screen, screen')
      BY <2>1, <2>3, PutNewLineKeeps DEF NewLine
    <2>4. ASSUME HTab PROVE KeptBefore(screen, screen')
      BY <2>1, <2>4, PutTabKeeps DEF HTab
    <2>5. QED
      BY <1>1, <2>2, <2>3, <2>4
  <1>2. QED
    BY <1>1, ConsoleInvariant, PTL DEF PrintedTextKept

-----------------------------------------------------------------------------
(* Windows                                                                 *)

(* Windows have no negative sizes, and neither has what is drawn. *)
WindowsGiven ==
  /\ \A w \in Win!Windows : Sizes[w] \in Nat \X Nat
  /\ CaptionLen \in Nat
  /\ Offsets \subseteq Int \X Int
  /\ Regions \subseteq [l: Int, t: Int, w: Nat, h: Nat]

Points == Int \X Int
Rects  == [l: Int, t: Int, w: Int, h: Int]
Attrs  == Win!Windows \X {0, 1, 2, 3}

Lesser(a, b)  == IF a <= b THEN a ELSE b
Greater(a, b) == IF a >= b THEN a ELSE b

(* The states windows are in: canvases of their sizes, each child once. *)
Typed(s) ==
  /\ s = [canvas |-> s.canvas, offset |-> s.offset, children |-> s.children]
  /\ s.canvas = [w \in Win!Windows |-> s.canvas[w]]
  /\ \A w \in Win!Windows : s.canvas[w] \in [Win!CellsOf(w) -> Attrs]
  /\ s.offset \in [Win!Windows -> Points]
  /\ s.offset["client"] = <<0, 0>>
  /\ s.children \in Seq(Win!Movable)
  /\ \A i, j \in 1 .. Len(s.children) : s.children[i] = s.children[j] => i = j

(* The lesser and the greater of two numbers. *)
LEMMA OfTwo ==
  ASSUME NEW a \in Int, NEW b \in Int
  PROVE  Win!Min({a, b}) = Lesser(a, b) /\ Win!Max({a, b}) = Greater(a, b)
  <1>1. Win!Min({a, b}) = Lesser(a, b)
    <2>1. \A x \in {a, b} : (\A y \in {a, b} : x <= y) <=> x = Lesser(a, b)
      BY DEF Lesser
    <2>2. Lesser(a, b) \in {a, b}
      BY DEF Lesser
    <2>3. QED
      BY <2>1, <2>2 DEF Win!Min
  <1>2. Win!Max({a, b}) = Greater(a, b)
    <2>1. \A x \in {a, b} : (\A y \in {a, b} : x >= y) <=> x = Greater(a, b)
      BY DEF Greater
    <2>2. Greater(a, b) \in {a, b}
      BY DEF Greater
    <2>3. QED
      BY <2>1, <2>2 DEF Win!Max
  <1>3. QED
    BY <1>1, <1>2

(* The intersection, by the lesser and the greater. *)
LEMMA IntersectIs ==
  ASSUME NEW r \in Rects, NEW s \in Rects
  PROVE  /\ Win!Intersect(r, s).l = Greater(r.l, s.l)
         /\ Win!Intersect(r, s).t = Greater(r.t, s.t)
         /\ Win!Intersect(r, s).w = Lesser(r.l + r.w, s.l + s.w) - Greater(r.l, s.l)
         /\ Win!Intersect(r, s).h = Lesser(r.t + r.h, s.t + s.h) - Greater(r.t, s.t)
         /\ Win!Intersect(r, s) \in Rects
  <1>1. /\ r.l \in Int /\ r.t \in Int /\ r.l + r.w \in Int /\ r.t + r.h \in Int
        /\ s.l \in Int /\ s.t \in Int /\ s.l + s.w \in Int /\ s.t + s.h \in Int
    BY DEF Rects
  <1>2. /\ Win!Max({r.l, s.l}) = Greater(r.l, s.l)
        /\ Win!Max({r.t, s.t}) = Greater(r.t, s.t)
        /\ Win!Min({r.l + r.w, s.l + s.w}) = Lesser(r.l + r.w, s.l + s.w)
        /\ Win!Min({r.t + r.h, s.t + s.h}) = Lesser(r.t + r.h, s.t + s.h)
    BY <1>1, OfTwo
  <1>3. Win!Intersect(r, s) =
          [l |-> Greater(r.l, s.l), t |-> Greater(r.t, s.t),
           w |-> Lesser(r.l + r.w, s.l + s.w) - Greater(r.l, s.l),
           h |-> Lesser(r.t + r.h, s.t + s.h) - Greater(r.t, s.t)]
    BY <1>2 DEF Win!Intersect, Win!Rect, Win!Right, Win!Bottom
  <1>4. /\ Greater(r.l, s.l) \in Int /\ Greater(r.t, s.t) \in Int
        /\ Lesser(r.l + r.w, s.l + s.w) \in Int /\ Lesser(r.t + r.h, s.t + s.h) \in Int
    BY <1>1 DEF Greater, Lesser
  <1>5. QED
    BY <1>3, <1>4 DEF Rects

(* What the intersection covers both rectangles cover, and if they do not
   intersect they have nothing in common. *)
LEMMA IntersectCovers ==
  ASSUME NEW r \in Rects, NEW s \in Rects
  PROVE  /\ Win!Intersect(r, s) \in Rects
         /\ \A p \in Points :
              Win!Covers(Win!Intersect(r, s), p) <=> Win!Covers(r, p) /\ Win!Covers(s, p)
         /\ ~Win!Intersects(r, s) =>
              \A p \in Points : ~(Win!Covers(r, p) /\ Win!Covers(s, p))
  <1>1. Win!Intersect(r, s) \in Rects
    BY IntersectIs
  <1>2. ASSUME NEW p \in Points
        PROVE  Win!Covers(Win!Intersect(r, s), p) <=> Win!Covers(r, p) /\ Win!Covers(s, p)
    <2> DEFINE i == Win!Intersect(r, s)
    <2>1. /\ i.l = Greater(r.l, s.l) /\ i.l + i.w = Lesser(r.l + r.w, s.l + s.w)
          /\ i.t = Greater(r.t, s.t) /\ i.t + i.h = Lesser(r.t + r.h, s.t + s.h)
      <3>1. /\ r.l \in Int /\ r.t \in Int /\ r.l + r.w \in Int /\ r.t + r.h \in Int
            /\ s.l \in Int /\ s.t \in Int /\ s.l + s.w \in Int /\ s.t + s.h \in Int
        BY DEF Rects
      <3>2. /\ Greater(r.l, s.l) \in Int /\ Greater(r.t, s.t) \in Int
            /\ Lesser(r.l + r.w, s.l + s.w) \in Int /\ Lesser(r.t + r.h, s.t + s.h) \in Int
        BY <3>1 DEF Greater, Lesser
      <3>3. \A a, b \in Int : a + (b - a) = b
        OBVIOUS
      <3>4. QED
        BY <3>2, <3>3, IntersectIs
    <2> HIDE DEF i
    <2>2. p[1] \in Int /\ p[2] \in Int
      BY DEF Points
    <2>3. Win!Covers(i, p) <=>
            /\ Greater(r.l, s.l) <= p[1] /\ p[1] < Lesser(r.l + r.w, s.l + s.w)
            /\ Greater(r.t, s.t) <= p[2] /\ p[2] < Lesser(r.t + r.h, s.t + s.h)
      BY <2>1 DEF Win!Covers, Win!Right, Win!Bottom
    <2>4. /\ r.l \in Int /\ r.t \in Int /\ r.l + r.w \in Int /\ r.t + r.h \in Int
          /\ s.l \in Int /\ s.t \in Int /\ s.l + s.w \in Int /\ s.t + s.h \in Int
      BY DEF Rects
    <2>5. Win!Covers(i, p) <=> Win!Covers(r, p) /\ Win!Covers(s, p)
      <3>1. /\ Greater(r.l, s.l) <= p[1] <=> r.l <= p[1] /\ s.l <= p[1]
            /\ Greater(r.t, s.t) <= p[2] <=> r.t <= p[2] /\ s.t <= p[2]
        BY <2>2, <2>4 DEF Greater, Lesser
      <3>2. /\ p[1] < Lesser(r.l + r.w, s.l + s.w) <=> p[1] < r.l + r.w /\ p[1] < s.l + s.w
            /\ p[2] < Lesser(r.t + r.h, s.t + s.h) <=> p[2] < r.t + r.h /\ p[2] < s.t + s.h
        BY <2>2, <2>4 DEF Greater, Lesser
      <3>3. QED
        BY <2>3, <3>1, <3>2 DEF Win!Covers, Win!Right, Win!Bottom
    <2>6. QED
      BY <2>5 DEF i
  <1>3. ASSUME ~Win!Intersects(r, s), NEW p \in Points
        PROVE  ~(Win!Covers(r, p) /\ Win!Covers(s, p))
    BY <1>3 DEF Win!Intersects, Win!Covers, Win!Right, Win!Bottom, Rects, Points
  <1>4. QED
    BY <1>1, <1>2, <1>3

(* The cells of a window are the points its canvas covers. *)
LEMMA CellsCovered ==
  ASSUME WindowsGiven, NEW w \in Win!Windows
  PROVE  /\ Win!GetDrawBounds(w) \in Rects
         /\ \A p : p \in Win!CellsOf(w) <=> p \in Points /\ Win!Covers(Win!GetDrawBounds(w), p)
  <1> DEFINE m == Sizes[w][1]
             n == Sizes[w][2]
  <1>1. m \in Nat /\ n \in Nat
    BY DEF WindowsGiven
  <1>2. /\ Win!GetDrawBounds(w) = [l |-> 0, t |-> 0, w |-> m, h |-> n]
        /\ Win!CellsOf(w) = (0 .. m - 1) \X (0 .. n - 1)
    BY DEF Win!GetDrawBounds, Win!Rect, Win!CellsOf
  <1> HIDE DEF m, n
  <1>3. ASSUME NEW p
        PROVE  p \in (0 .. m - 1) \X (0 .. n - 1)
                 <=> p \in Points /\ Win!Covers([l |-> 0, t |-> 0, w |-> m, h |-> n], p)
    <2>1. p \in Points => p = <<p[1], p[2]>> /\ p[1] \in Int /\ p[2] \in Int
      BY DEF Points
    <2>2. p \in (0 .. m - 1) \X (0 .. n - 1) => p \in Points
      BY <1>1 DEF Points
    <2>3. QED
      BY <1>1, <2>1, <2>2 DEF Win!Covers, Win!Right, Win!Bottom
  <1>4. QED
    BY <1>1, <1>2, <1>3 DEF Rects

(* Fill colours what the rectangle covers. *)
LEMMA FillColours ==
  ASSUME WindowsGiven, NEW w \in Win!Windows, NEW cells \in [Win!CellsOf(w) -> Attrs],
         NEW r \in Rects, NEW a \in Attrs
  PROVE  /\ Win!Fill(cells, w, r, a) \in [Win!CellsOf(w) -> Attrs]
         /\ \A p \in Win!CellsOf(w) :
              Win!Fill(cells, w, r, a)[p] = IF Win!Covers(r, p) THEN a ELSE cells[p]
  <1> DEFINE g == Win!GetDrawBounds(w)
  <1>1. g \in Rects /\ \A p \in Win!CellsOf(w) : p \in Points /\ Win!Covers(g, p)
    BY CellsCovered
  <1>2. DOMAIN cells = Win!CellsOf(w)
    OBVIOUS
  <1>3. Win!Fill(cells, w, r, a) =
          IF ~Win!Intersects(r, g) THEN cells
          ELSE [p \in Win!CellsOf(w) |-> IF Win!Covers(Win!Intersect(r, g), p) THEN a ELSE cells[p]]
    BY <1>2 DEF Win!Fill
  <1> HIDE DEF g
  <1>4. CASE ~Win!Intersects(r, g)
    BY <1>1, <1>3, <1>4, IntersectCovers
  <1>5. CASE Win!Intersects(r, g)
    <2>1. \A p \in Win!CellsOf(w) : Win!Covers(Win!Intersect(r, g), p) <=> Win!Covers(r, p)
      BY <1>1, IntersectCovers
    <2>2. QED
      BY <1>3, <1>5, <2>1
  <1>6. QED
    BY <1>4, <1>5

(* A rectangle moved covers the points moved with it. *)
LEMMA MovedCovers ==
  ASSUME NEW r \in Rects, NEW d \in Points
  PROVE  /\ Win!Moved(r, d) \in Rects
         /\ Win!Moved(r, d) = [l |-> r.l + d[1], t |-> r.t + d[2], w |-> r.w, h |-> r.h]
         /\ \A p \in Points : /\ Win!Minus(p, d) \in Points
                              /\ Win!Covers(Win!Moved(r, d), p) <=> Win!Covers(r, Win!Minus(p, d))
  <1>1. /\ d[1] \in Int /\ d[2] \in Int
        /\ r.l \in Int /\ r.t \in Int /\ r.w \in Int /\ r.h \in Int
    BY DEF Points, Rects
  <1>2. Win!Moved(r, d) = [l |-> r.l + d[1], t |-> r.t + d[2], w |-> r.w, h |-> r.h]
    BY DEF Win!Moved, Win!Rect
  <1>3. ASSUME NEW p \in Points
        PROVE  /\ Win!Minus(p, d) \in Points
               /\ Win!Covers(Win!Moved(r, d), p) <=> Win!Covers(r, Win!Minus(p, d))
    <2>1. p[1] \in Int /\ p[2] \in Int
      BY DEF Points
    <2>2. Win!Minus(p, d) = <<p[1] - d[1], p[2] - d[2]>>
      BY DEF Win!Minus
    <2>3. QED
      BY <1>1, <1>2, <2>1, <2>2 DEF Win!Covers, Win!Right, Win!Bottom, Points
  <1>4. QED
    BY <1>1, <1>2, <1>3 DEF Rects

(* Copy copies what both the source and the rectangle cover. *)
Copied(new, dw, dst, sw, src, from, d) ==
  /\ new \in [Win!CellsOf(dw) -> Attrs]
  /\ \A p \in Win!CellsOf(dw) :
       LET q == Win!Minus(p, d)
       IN  new[p] = IF q \in Win!CellsOf(sw) /\ Win!Covers(from, q) THEN src[q] ELSE dst[p]

LEMMA CopyCopies ==
  ASSUME WindowsGiven, NEW dw \in Win!Windows, NEW sw \in Win!Windows,
         NEW dst \in [Win!CellsOf(dw) -> Attrs], NEW src \in [Win!CellsOf(sw) -> Attrs],
         NEW from \in Rects, NEW d \in Points
  PROVE  Copied(Win!Copy(dst, dw, src, sw, from, Win!Plus(Win!TopLeft(from), d)),
                dw, dst, sw, src, from, d)
  <1> DEFINE g == Win!GetDrawBounds(sw)
             h == Win!GetDrawBounds(dw)
             to == Win!Plus(Win!TopLeft(from), d)
             s == Win!Intersect(g, from)
             toRect == Win!Moved(Win!Rect(to[1], to[2], s.w, s.h),
                                 Win!Minus(Win!TopLeft(s), Win!TopLeft(from)))
             t == Win!Intersect(h, toRect)
             shift == Win!Minus(Win!TopLeft(t), Win!TopLeft(toRect))
             from1 == Win!Moved(s, shift)
             area == Win!Rect(t.l, t.t, Win!Min({s.w - shift[1], t.w}),
                              Win!Min({s.h - shift[2], t.h}))
             new == Win!Copy(dst, dw, src, sw, from, to)
  <1>1. /\ new = [p \in DOMAIN dst |->
                   IF Win!Covers(area, p)
                   THEN src[Win!Plus(Win!TopLeft(from1), Win!Minus(p, Win!TopLeft(t)))]
                   ELSE dst[p]]
        /\ DOMAIN dst = Win!CellsOf(dw)
    BY DEF Win!Copy
  <1>2. g \in Rects /\ h \in Rects /\ s \in Rects
    BY CellsCovered, IntersectCovers
  <1>3. /\ from.l \in Int /\ from.t \in Int /\ from.w \in Int /\ from.h \in Int
        /\ d[1] \in Int /\ d[2] \in Int /\ d = <<d[1], d[2]>>
    BY DEF Points, Rects
  <1>4. /\ s.l \in Int /\ s.t \in Int /\ s.w \in Int /\ s.h \in Int
    <2> HIDE DEF s
    <2>1. QED
      BY <1>2 DEF Rects
  <1>5. toRect = Win!Moved(s, d)
    <2> HIDE DEF s
    <2>1. to = <<from.l + d[1], from.t + d[2]>>
      BY DEF Win!Plus, Win!TopLeft
    <2>2. Win!Moved(s, d) = [l |-> s.l + d[1], t |-> s.t + d[2], w |-> s.w, h |-> s.h]
      BY <1>2, MovedCovers
    <2> HIDE DEF to
    <2>3. toRect = [l |-> from.l + d[1] + (s.l - from.l), t |-> from.t + d[2] + (s.t - from.t),
                    w |-> s.w, h |-> s.h]
      <3>1. /\ Win!Rect(to[1], to[2], s.w, s.h)
                 = [l |-> from.l + d[1], t |-> from.t + d[2], w |-> s.w, h |-> s.h]
            /\ Win!Minus(Win!TopLeft(s), Win!TopLeft(from)) = <<s.l - from.l, s.t - from.t>>
        BY <2>1 DEF Win!Rect, Win!Minus, Win!TopLeft
      <3>2. QED
        BY <3>1 DEF Win!Moved, Win!Rect
    <2>4. /\ from.l + d[1] + (s.l - from.l) = s.l + d[1]
          /\ from.t + d[2] + (s.t - from.t) = s.t + d[2]
      BY <1>3, <1>4
    <2>5. QED
      BY <2>2, <2>3, <2>4
  <1>6. /\ toRect \in Rects
        /\ toRect = [l |-> s.l + d[1], t |-> s.t + d[2], w |-> s.w, h |-> s.h]
        /\ \A p \in Points : Win!Covers(toRect, p) <=> Win!Covers(s, Win!Minus(p, d))
    BY <1>2, <1>5, MovedCovers
  <1> HIDE DEF toRect, s
  <1>7. /\ t \in Rects /\ t.l \in Int /\ t.t \in Int /\ t.w \in Int /\ t.h \in Int
        /\ t.w <= s.l + d[1] + s.w - t.l
        /\ t.h <= s.t + d[2] + s.h - t.t
    <2>1. /\ t \in Rects
          /\ t.l = Greater(h.l, toRect.l)
          /\ t.t = Greater(h.t, toRect.t)
          /\ t.w = Lesser(h.l + h.w, toRect.l + toRect.w) - t.l
          /\ t.h = Lesser(h.t + h.h, toRect.t + toRect.h) - t.t
      BY <1>2, <1>6, IntersectIs
    <2> HIDE DEF t, h
    <2>2. /\ h.l \in Int /\ h.t \in Int /\ h.w \in Int /\ h.h \in Int
          /\ t.l \in Int /\ t.t \in Int /\ t.w \in Int /\ t.h \in Int
      BY <1>2, <2>1 DEF Rects
    <2>3. /\ toRect.l = s.l + d[1] /\ toRect.t = s.t + d[2]
          /\ toRect.w = s.w /\ toRect.h = s.h
      BY <1>6
    <2>4. QED
      BY <1>3, <1>4, <2>1, <2>2, <2>3 DEF Lesser
  <1> HIDE DEF t
  <1>8. shift = <<t.l - (s.l + d[1]), t.t - (s.t + d[2])>>
    BY <1>6 DEF Win!Minus, Win!TopLeft
  <1>9. area = t
    <2>1. /\ s.w - (t.l - (s.l + d[1])) \in Int /\ s.h - (t.t - (s.t + d[2])) \in Int
          /\ t.w <= s.w - (t.l - (s.l + d[1]))
          /\ t.h <= s.h - (t.t - (s.t + d[2]))
      BY <1>3, <1>4, <1>7
    <2>2. /\ Win!Min({s.w - (t.l - (s.l + d[1])), t.w}) = t.w
          /\ Win!Min({s.h - (t.t - (s.t + d[2])), t.h}) = t.h
      <3>1. \A a, b \in Int : b <= a => Win!Min({a, b}) = b
        <4>1. \A a, b \in Int : b <= a => Lesser(a, b) = b
          BY DEF Lesser
        <4>2. QED
          BY <4>1, OfTwo
      <3> DEFINE v == s.w - (t.l - (s.l + d[1]))
                 u == s.h - (t.t - (s.t + d[2]))
      <3>2. v \in Int /\ u \in Int /\ t.w <= v /\ t.h <= u
        BY <2>1
      <3> HIDE DEF v, u
      <3>3. Win!Min({v, t.w}) = t.w /\ Win!Min({u, t.h}) = t.h
        BY <1>7, <3>1, <3>2
      <3>4. QED
        BY <3>3 DEF v, u
    <2>3. area = [l |-> t.l, t |-> t.t, w |-> t.w, h |-> t.h]
      BY <1>8, <2>2 DEF Win!Rect
    <2>4. QED
      BY <1>7, <2>3 DEF Rects
  <1>10. Win!TopLeft(from1) = <<t.l - d[1], t.t - d[2]>>
    <2>1. from1.l = s.l + (t.l - (s.l + d[1])) /\ from1.t = s.t + (t.t - (s.t + d[2]))
      BY <1>2, <1>8 DEF Win!Moved, Win!Rect, Rects
    <2>2. /\ s.l + (t.l - (s.l + d[1])) = t.l - d[1]
          /\ s.t + (t.t - (s.t + d[2])) = t.t - d[2]
      BY <1>3, <1>4, <1>7
    <2>3. QED
      BY <2>1, <2>2 DEF Win!TopLeft
  <1> HIDE DEF from1, area
  <1>11. ASSUME NEW p \in Win!CellsOf(dw)
         PROVE  LET q == Win!Minus(p, d)
                IN  /\ Win!Plus(Win!TopLeft(from1), Win!Minus(p, Win!TopLeft(t))) = q
                    /\ Win!Covers(area, p) <=> q \in Win!CellsOf(sw) /\ Win!Covers(from, q)
    <2>1. /\ p \in Points /\ p[1] \in Int /\ p[2] \in Int /\ Win!Covers(h, p)
      BY CellsCovered DEF Points
    <2> DEFINE q == Win!Minus(p, d)
    <2>2. q = <<p[1] - d[1], p[2] - d[2]>> /\ q \in Points
      BY <1>3, <2>1 DEF Win!Minus, Points
    <2>3. Win!Plus(Win!TopLeft(from1), Win!Minus(p, Win!TopLeft(t))) = q
      <3>1. Win!Plus(Win!TopLeft(from1), Win!Minus(p, Win!TopLeft(t)))
              = <<(t.l - d[1]) + (p[1] - t.l), (t.t - d[2]) + (p[2] - t.t)>>
        BY <1>10 DEF Win!Plus, Win!Minus, Win!TopLeft
      <3>2. /\ (t.l - d[1]) + (p[1] - t.l) = p[1] - d[1]
            /\ (t.t - d[2]) + (p[2] - t.t) = p[2] - d[2]
        BY <1>3, <1>7, <2>1
      <3>3. QED
        BY <2>2, <3>1, <3>2
    <2> HIDE DEF q
    <2>4. Win!Covers(t, p) <=> Win!Covers(h, p) /\ Win!Covers(toRect, p)
      BY <1>2, <1>6, <2>1, IntersectCovers DEF t
    <2>5. Win!Covers(s, q) <=> Win!Covers(g, q) /\ Win!Covers(from, q)
      BY <1>2, <2>2, IntersectCovers DEF s
    <2>6. q \in Win!CellsOf(sw) <=> Win!Covers(g, q)
      BY <2>2, CellsCovered
    <2>7. Win!Covers(toRect, p) <=> Win!Covers(s, q)
      BY <1>6, <2>1 DEF q
    <2>8. QED
      BY <1>9, <2>1, <2>3, <2>4, <2>5, <2>6, <2>7 DEF q
  <1>12. Copied(new, dw, dst, sw, src, from, d)
    BY <1>1, <1>11 DEF Copied
  <1>13. QED
    BY <1>12

(* The rectangle of a child on its parent, and its top left corner. *)
ChildRect(s, w, child) == Win!Moved(Win!Bounds(s, child), Win!ClientOffset(w))
Place(s, w, child) == Win!TopLeft(ChildRect(s, w, child))

LEMMA ChildRectIs ==
  ASSUME WindowsGiven, NEW s, Typed(s), NEW w \in Win!Windows, NEW child \in Win!Windows
  PROVE  /\ ChildRect(s, w, child) \in Rects /\ Place(s, w, child) \in Points
         /\ ChildRect(s, w, child) = Win!Moved(Win!GetDrawBounds(child), Place(s, w, child))
         /\ Place(s, w, child) = Win!Plus(s.offset[child], Win!ClientOffset(w))
         /\ \A p \in Points :
              /\ Win!Minus(p, Place(s, w, child)) \in Points
              /\ Win!Covers(ChildRect(s, w, child), p)
                   <=> Win!Minus(p, Place(s, w, child)) \in Win!CellsOf(child)
  <1> DEFINE o == s.offset[child]
             c == Win!ClientOffset(w)
             g == Win!GetDrawBounds(child)
  <1>1. /\ o \in Points /\ c \in Points /\ g \in Rects
        /\ o[1] \in Int /\ o[2] \in Int /\ c[1] \in Int /\ c[2] \in Int
    BY CellsCovered DEF Typed, Points, Win!ClientOffset
  <1>2. g = [l |-> 0, t |-> 0, w |-> g.w, h |-> g.h] /\ g.w \in Int /\ g.h \in Int
    BY <1>1 DEF Win!GetDrawBounds, Win!Rect, Rects
  <1>3. Win!Bounds(s, child) = [l |-> o[1], t |-> o[2], w |-> g.w, h |-> g.h]
    BY DEF Win!Bounds, Win!GetDrawBounds, Win!Rect
  <1> HIDE DEF o, c, g
  <1>4. ChildRect(s, w, child) = [l |-> o[1] + c[1], t |-> o[2] + c[2], w |-> g.w, h |-> g.h]
    BY <1>3 DEF ChildRect, Win!Moved, Win!Rect, c
  <1>5. Place(s, w, child) = <<o[1] + c[1], o[2] + c[2]>> /\ Place(s, w, child) \in Points
    BY <1>1, <1>4 DEF Place, Win!TopLeft, Points
  <1>6. Win!Moved(g, Place(s, w, child)) = ChildRect(s, w, child)
    <2>1. 0 + (o[1] + c[1]) = o[1] + c[1] /\ 0 + (o[2] + c[2]) = o[2] + c[2]
      BY <1>1
    <2>2. Win!Moved(g, Place(s, w, child))
            = [l |-> 0 + (o[1] + c[1]), t |-> 0 + (o[2] + c[2]), w |-> g.w, h |-> g.h]
      BY <1>2, <1>5 DEF Win!Moved, Win!Rect
    <2>3. QED
      BY <1>4, <2>1, <2>2
  <1>7. /\ ChildRect(s, w, child) \in Rects
        /\ \A p \in Points :
             /\ Win!Minus(p, Place(s, w, child)) \in Points
             /\ Win!Covers(ChildRect(s, w, child), p)
                  <=> Win!Covers(g, Win!Minus(p, Place(s, w, child)))
    <2>1. /\ Win!Moved(g, Place(s, w, child)) \in Rects
          /\ \A p \in Points :
               /\ Win!Minus(p, Place(s, w, child)) \in Points
               /\ Win!Covers(Win!Moved(g, Place(s, w, child)), p)
                    <=> Win!Covers(g, Win!Minus(p, Place(s, w, child)))
      BY <1>1, <1>5, MovedCovers
    <2>2. QED
      BY <1>6, <2>1
  <1>8. \A p \in Points : Win!Covers(g, p) <=> p \in Win!CellsOf(child)
    BY CellsCovered DEF g
  <1>9. Win!Plus(o, c) = <<o[1] + c[1], o[2] + c[2]>>
    BY DEF Win!Plus
  <1>10. QED
    BY <1>5, <1>6, <1>7, <1>8, <1>9 DEF o, c, g

(* CopyChild copies the cells of the child that lie in the region. *)
LEMMA CopyChildCopies ==
  ASSUME WindowsGiven, NEW s, Typed(s), NEW w \in Win!Windows, NEW child \in Win!Windows,
         NEW cells \in [Win!CellsOf(w) -> Attrs], NEW region \in Rects
  PROVE  /\ Win!CopyChild(s, cells, w, child, region) \in [Win!CellsOf(w) -> Attrs]
         /\ \A p \in Win!CellsOf(w) :
              LET q == Win!Minus(p, Place(s, w, child))
              IN  Win!CopyChild(s, cells, w, child, region)[p] =
                    IF q \in Win!CellsOf(child) /\ Win!Covers(region, p)
                    THEN s.canvas[child][q] ELSE cells[p]
  <1> DEFINE b == ChildRect(s, w, child)
             d == Place(s, w, child)
             back == <<-b.l, -b.t>>
             i == Win!Intersect(b, region)
             bc == Win!Moved(i, back)
             src == s.canvas[child]
             new == Win!Copy(cells, w, src, child, bc, Win!Plus(Win!TopLeft(bc), d))
  <1>1. /\ b \in Rects /\ d \in Points /\ d = <<b.l, b.t>>
        /\ \A p \in Points :
             /\ Win!Minus(p, d) \in Points
             /\ Win!Covers(b, p) <=> Win!Minus(p, d) \in Win!CellsOf(child)
    BY ChildRectIs DEF Place, Win!TopLeft
  <1>2. Win!CopyChild(s, cells, w, child, region) =
          IF Win!Intersects(b, region) THEN new ELSE cells
    BY <1>1 DEF Win!CopyChild, ChildRect, Place
  <1>3. src \in [Win!CellsOf(child) -> Attrs]
    BY DEF Typed
  <1> HIDE DEF b, d
  <1>4. /\ b.l \in Int /\ b.t \in Int /\ back \in Points
        /\ back[1] = -b.l /\ back[2] = -b.t
    BY <1>1 DEF Rects, Points
  <1> HIDE DEF back
  <1>5. /\ i \in Rects
        /\ \A p \in Points : Win!Covers(i, p) <=> Win!Covers(b, p) /\ Win!Covers(region, p)
        /\ ~Win!Intersects(b, region) =>
              \A p \in Points : ~(Win!Covers(b, p) /\ Win!Covers(region, p))
    BY <1>1, IntersectCovers
  <1> HIDE DEF i
  <1>6. bc \in Rects /\ \A p \in Points : Win!Covers(bc, p) <=> Win!Covers(i, Win!Minus(p, back))
    BY <1>4, <1>5, MovedCovers
  <1> HIDE DEF bc, src
  <1>7. \A p \in Win!CellsOf(w) : p \in Points
    BY CellsCovered
  <1>8. ASSUME NEW p \in Points
        PROVE  Win!Covers(bc, Win!Minus(p, d)) <=> Win!Covers(b, p) /\ Win!Covers(region, p)
    <2>1. Win!Minus(Win!Minus(p, d), back) = p
      <3>1. p[1] \in Int /\ p[2] \in Int /\ p = <<p[1], p[2]>>
        BY DEF Points
      <3>2. Win!Minus(p, d) = <<p[1] - b.l, p[2] - b.t>>
        BY <1>1 DEF Win!Minus
      <3>3. Win!Minus(Win!Minus(p, d), back) = <<(p[1] - b.l) - (-b.l), (p[2] - b.t) - (-b.t)>>
        BY <1>4, <3>2 DEF Win!Minus
      <3>4. (p[1] - b.l) - (-b.l) = p[1] /\ (p[2] - b.t) - (-b.t) = p[2]
        BY <1>4, <3>1
      <3>5. QED
        BY <3>1, <3>3, <3>4
    <2>2. QED
      BY <1>1, <1>5, <1>6, <2>1
  <1>9. /\ new \in [Win!CellsOf(w) -> Attrs]
        /\ \A p \in Win!CellsOf(w) :
             LET q == Win!Minus(p, d)
             IN  new[p] = IF q \in Win!CellsOf(child) /\ Win!Covers(bc, q) THEN src[q] ELSE cells[p]
    <2>1. Copied(new, w, cells, child, src, bc, d)
      BY <1>1, <1>3, <1>6, CopyCopies
    <2>2. QED
      BY <2>1 DEF Copied
  <1> HIDE DEF new
  <1>10. ASSUME NEW p \in Win!CellsOf(w)
         PROVE  LET q == Win!Minus(p, d)
                IN  Win!CopyChild(s, cells, w, child, region)[p] =
                      IF q \in Win!CellsOf(child) /\ Win!Covers(region, p) THEN src[q] ELSE cells[p]
    <2>1. /\ Win!Covers(b, p) <=> Win!Minus(p, d) \in Win!CellsOf(child)
          /\ Win!Covers(bc, Win!Minus(p, d)) <=> Win!Covers(b, p) /\ Win!Covers(region, p)
          /\ p \in Points
      BY <1>1, <1>7, <1>8
    <2>2. CASE Win!Intersects(b, region)
      BY <1>2, <1>9, <2>1, <2>2
    <2>3. CASE ~Win!Intersects(b, region)
      BY <1>2, <1>5, <2>1, <2>3
    <2>4. QED
      BY <2>2, <2>3
  <1>11. QED
    BY <1>2, <1>9, <1>10 DEF d, src

(* A canvas replaced by another one. *)
Repainted(s, t, w, cells) ==
  /\ Typed(t)
  /\ t.offset = s.offset /\ t.children = s.children
  /\ t.canvas[w] = cells
  /\ \A v \in Win!Windows \ {w} : t.canvas[v] = s.canvas[v]

LEMMA CanvasReplaced ==
  ASSUME NEW s, Typed(s), NEW w \in Win!Windows, NEW cells \in [Win!CellsOf(w) -> Attrs]
  PROVE  Repainted(s, [s EXCEPT !.canvas[w] = cells], w, cells)
  <1> DEFINE t == [s EXCEPT !.canvas[w] = cells]
             c == [s.canvas EXCEPT ![w] = cells]
  <1>1. /\ s = [canvas |-> s.canvas, offset |-> s.offset, children |-> s.children]
        /\ s.canvas = [v \in Win!Windows |-> s.canvas[v]]
        /\ \A v \in Win!Windows : s.canvas[v] \in [Win!CellsOf(v) -> Attrs]
    BY DEF Typed
  <1>2. /\ c = [v \in Win!Windows |-> c[v]]
        /\ c[w] = cells
        /\ \A v \in Win!Windows \ {w} : c[v] = s.canvas[v]
    BY <1>1
  <1>3. t = [s EXCEPT !.canvas = c]
    OBVIOUS
  <1> HIDE DEF c
  <1>4. t = [canvas |-> c, offset |-> s.offset, children |-> s.children]
    BY <1>1, <1>3
  <1>5. t.canvas = c /\ t.offset = s.offset /\ t.children = s.children
    BY <1>4
  <1>6. \A v \in Win!Windows : c[v] \in [Win!CellsOf(v) -> Attrs]
    BY <1>1, <1>2
  <1>7. Typed(t)
    BY <1>2, <1>4, <1>5, <1>6 DEF Typed
  <1>8. QED
    BY <1>2, <1>5, <1>7 DEF Repainted

-----------------------------------------------------------------------------
(* A caption that fits stays within the border, as do the buttons. *)
LEMMA CaptionInBorder ==
  ASSUME WindowsGiven, Win!CaptionFits, NEW p \in Win!CellsOf("frame")
  PROVE  Win!Decorated(p) <=> Win!Border(p)
  <1> DEFINE wide == Sizes["frame"][1]
  <1>1. wide \in Nat /\ CaptionLen \in Nat /\ CaptionLen + 4 <= wide
    BY DEF WindowsGiven, Win!CaptionFits, Win!Windows, Win!Movable
  <1>2. p[1] \in Nat /\ p[2] \in Nat
    BY DEF WindowsGiven, Win!CellsOf, Win!Windows, Win!Movable
  <1>3. ASSUME Win!Caption(p) PROVE p[2] = 0
    <2>1. p[1] + wide * p[2] <= 3 + CaptionLen
      BY <1>1, <1>2, <1>3 DEF Win!Caption
    <2>2. wide * p[2] < wide
      <3>1. wide * p[2] \in Nat
        BY <1>1, <1>2
      <3>2. QED
        BY <1>1, <1>2, <2>1, <3>1
    <2>3. p[2] >= 1 => wide * p[2] >= wide
      BY <1>1, <1>2
    <2>4. QED
      BY <1>1, <1>2, <2>2, <2>3
  <1>4. QED
    BY <1>3 DEF Win!Decorated, Win!Button, Win!Border

(* The frame: its border, its client, and the background if that is
   smaller. *)
FrameShows(s, p) ==
  IF Win!Decorated(p) THEN Win!Decoration(p)
  ELSE IF Win!Minus(p, <<1, 1>>) \in Win!CellsOf("client")
       THEN s.canvas["client"][Win!Minus(p, <<1, 1>>)] ELSE <<"frame", 0>>

FrameRight(s) == \A p \in Win!CellsOf("frame") : s.canvas["frame"][p] = FrameShows(s, p)

LEMMA RedrawFrameDraws ==
  ASSUME WindowsGiven, NEW s, Typed(s), NEW region \in Rects,
         NEW t, t = Win!RedrawFrame(s, region)
  PROVE  /\ Typed(t)
         /\ t.offset = s.offset /\ t.children = s.children
         /\ \A v \in Win!Windows \ {"frame"} : t.canvas[v] = s.canvas[v]
         /\ \A p \in Win!CellsOf("frame") :
              t.canvas["frame"][p] = IF Win!Decorated(p) \/ Win!Covers(region, p)
                                     THEN FrameShows(s, p) ELSE s.canvas["frame"][p]
  <1> DEFINE old == s.canvas["frame"]
             filled == Win!Fill(old, "frame", region, <<"frame", 0>>)
             cells == Win!CopyChild(s, filled, "frame", "client", region)
             new == [p \in DOMAIN cells |-> IF Win!Decorated(p) THEN Win!Decoration(p) ELSE cells[p]]
  <1>1. /\ "frame" \in Win!Windows /\ "client" \in Win!Windows
        /\ <<"frame", 0>> \in Attrs /\ <<"frame", 1>> \in Attrs
    BY DEF Attrs, Win!Windows, Win!Movable
  <1>2. /\ old \in [Win!CellsOf("frame") -> Attrs]
        /\ \A p : Win!Decoration(p) \in Attrs
    BY <1>1 DEF Typed, Attrs, Win!Decoration, Win!GetAttr
  <1>3. t = [s EXCEPT !.canvas["frame"] = new]
    BY DEF Win!RedrawFrame, Win!GetAttr
  <1>4. Place(s, "frame", "client") = <<1, 1>>
    <2>1. s.offset["client"] = <<0, 0>> /\ Win!ClientOffset("frame") = <<1, 1>>
      BY DEF Typed, Win!ClientOffset
    <2>2. Place(s, "frame", "client") = Win!Plus(<<0, 0>>, <<1, 1>>)
      BY <1>1, <2>1, ChildRectIs
    <2>3. QED
      BY <2>2 DEF Win!Plus
  <1> HIDE DEF old
  <1>5. /\ filled \in [Win!CellsOf("frame") -> Attrs]
        /\ \A p \in Win!CellsOf("frame") :
             filled[p] = IF Win!Covers(region, p) THEN <<"frame", 0>> ELSE old[p]
    BY <1>1, <1>2, FillColours
  <1> HIDE DEF filled
  <1>6. /\ cells \in [Win!CellsOf("frame") -> Attrs]
        /\ \A p \in Win!CellsOf("frame") :
             cells[p] = IF Win!Minus(p, <<1, 1>>) \in Win!CellsOf("client") /\ Win!Covers(region, p)
                        THEN s.canvas["client"][Win!Minus(p, <<1, 1>>)] ELSE filled[p]
    BY <1>1, <1>4, <1>5, CopyChildCopies
  <1> HIDE DEF cells
  <1>7. /\ new \in [Win!CellsOf("frame") -> Attrs]
        /\ \A p \in Win!CellsOf("frame") :
             new[p] = IF Win!Decorated(p) THEN Win!Decoration(p) ELSE cells[p]
    BY <1>1, <1>2, <1>6
  <1> HIDE DEF new
  <1>8. /\ Typed(t)
        /\ t.offset = s.offset /\ t.children = s.children
        /\ t.canvas["frame"] = new
        /\ \A v \in Win!Windows \ {"frame"} : t.canvas[v] = s.canvas[v]
    <2>1. Repainted(s, [s EXCEPT !.canvas["frame"] = new], "frame", new)
      BY <1>1, <1>7, CanvasReplaced
    <2>2. Repainted(s, t, "frame", new)
      BY <1>3, <2>1
    <2>3. QED
      BY <2>2 DEF Repainted
  <1>9. ASSUME NEW p \in Win!CellsOf("frame")
        PROVE  new[p] = IF Win!Decorated(p) \/ Win!Covers(region, p)
                        THEN FrameShows(s, p) ELSE old[p]
    BY <1>5, <1>6, <1>7 DEF FrameShows
  <1>10. QED
    BY <1>8, <1>9 DEF old

-----------------------------------------------------------------------------
(* The desktop                                                             *)

(* The children that cover a cell, of the lowest k, and what the topmost of
   them shows there. *)
Covering(s, k, p) ==
  {i \in 1 .. k : Win!Minus(p, s.offset[s.children[i]]) \in Win!CellsOf(s.children[i])}

Under(s, i, p) == s.canvas[s.children[i]][Win!Minus(p, s.offset[s.children[i]])]

Layer(s, k, p) ==
  IF Covering(s, k, p) = {} THEN <<"desktop", 0>> ELSE Under(s, Win!Max(Covering(s, k, p)), p)

DesktopShows(s, p) == Layer(s, Len(s.children), p)

LEMMA MaxIs ==
  ASSUME NEW S \in SUBSET Nat, NEW m \in S, \A y \in S : y <= m
  PROVE  Win!Max(S) = m
  <1>1. \A x \in S : (\A y \in S : x >= y) <=> x = m
    OBVIOUS
  <1>2. QED
    BY <1>1 DEF Win!Max

(* One child more is on top of those below it, where it is at all. *)
LEMMA NextLayer ==
  ASSUME NEW s, NEW k \in Nat \ {0}, NEW p
  PROVE  /\ Layer(s, 0, p) = <<"desktop", 0>>
         /\ Layer(s, k, p) = IF Win!Minus(p, s.offset[s.children[k]]) \in Win!CellsOf(s.children[k])
                             THEN Under(s, k, p) ELSE Layer(s, k - 1, p)
  <1>1. Covering(s, 0, p) = {}
    BY DEF Covering
  <1>2. CASE Win!Minus(p, s.offset[s.children[k]]) \in Win!CellsOf(s.children[k])
    <2>1. /\ Covering(s, k, p) \in SUBSET Nat /\ k \in Covering(s, k, p)
          /\ \A y \in Covering(s, k, p) : y <= k
      BY <1>2 DEF Covering
    <2>2. Win!Max(Covering(s, k, p)) = k
      BY <2>1, MaxIs
    <2>3. QED
      BY <1>1, <1>2, <2>1, <2>2 DEF Layer
  <1>3. CASE Win!Minus(p, s.offset[s.children[k]]) \notin Win!CellsOf(s.children[k])
    <2>1. Covering(s, k, p) = Covering(s, k - 1, p)
      BY <1>3 DEF Covering
    <2>2. QED
      BY <1>1, <1>3, <2>1 DEF Layer
  <1>4. QED
    BY <1>2, <1>3

(* The canvas of the desktop once the region of the lowest k children has been
   drawn. *)
DrawnTo(s, region, k) ==
  [p \in Win!CellsOf("desktop") |->
     IF Win!Covers(region, p) THEN Layer(s, k, p) ELSE s.canvas["desktop"][p]]

LEMMA DrawsLayer ==
  ASSUME WindowsGiven, NEW s, Typed(s), NEW region \in Rects
  PROVE  /\ Win!Fill(s.canvas["desktop"], "desktop", region, <<"desktop", 0>>)
              = DrawnTo(s, region, 0)
         /\ \A k \in 0 .. Len(s.children) :
              /\ DrawnTo(s, region, k) \in [Win!CellsOf("desktop") -> Attrs]
              /\ k > 0 => Win!CopyChild(s, DrawnTo(s, region, k - 1), "desktop", s.children[k],
                                        region) = DrawnTo(s, region, k)
  <1> DEFINE old == s.canvas["desktop"]
             C == Win!CellsOf("desktop")
  <1>1. "desktop" \in Win!Windows /\ <<"desktop", 0>> \in Attrs /\ old \in [C -> Attrs]
    BY DEF Win!Windows, Attrs, Typed
  <1>2. Win!Fill(old, "desktop", region, <<"desktop", 0>>) = DrawnTo(s, region, 0)
    <2> DEFINE filled == Win!Fill(old, "desktop", region, <<"desktop", 0>>)
    <2>1. /\ filled \in [C -> Attrs]
          /\ \A p \in C : filled[p] = IF Win!Covers(region, p) THEN <<"desktop", 0>> ELSE old[p]
      BY <1>1, FillColours
    <2> HIDE DEF filled
    <2>2. \A p \in C : Layer(s, 0, p) = <<"desktop", 0>>
      BY NextLayer
    <2>3. \A p \in C : filled[p] = DrawnTo(s, region, 0)[p]
      BY <2>1, <2>2 DEF DrawnTo
    <2>4. filled = [p \in C |-> filled[p]]
      BY <2>1
    <2>5. DrawnTo(s, region, 0) = [p \in C |-> DrawnTo(s, region, 0)[p]]
      BY DEF DrawnTo
    <2>6. QED
      BY <2>3, <2>4, <2>5 DEF filled
  <1>3. /\ Len(s.children) \in Nat
        /\ \A k \in 1 .. Len(s.children) : s.children[k] \in Win!Movable
        /\ \A w \in Win!Movable : w \in Win!Windows
    BY DEF Typed, Win!Windows
  <1>4. ASSUME NEW k \in 1 .. Len(s.children),
               DrawnTo(s, region, k - 1) \in [C -> Attrs]
        PROVE  /\ Win!CopyChild(s, DrawnTo(s, region, k - 1), "desktop", s.children[k], region)
                    = DrawnTo(s, region, k)
               /\ DrawnTo(s, region, k) \in [C -> Attrs]
    <2> DEFINE w == s.children[k]
               below == DrawnTo(s, region, k - 1)
               new == Win!CopyChild(s, below, "desktop", w, region)
    <2>1. w \in Win!Windows
      BY <1>3
    <2>2. Place(s, "desktop", w) = s.offset[w]
      <3>1. Win!ClientOffset("desktop") = <<0, 0>> /\ s.offset[w] \in Points
        BY <2>1 DEF Win!ClientOffset, Typed
      <3>2. Place(s, "desktop", w) = Win!Plus(s.offset[w], <<0, 0>>)
        BY <1>1, <2>1, <3>1, ChildRectIs
      <3> DEFINE o == s.offset[w]
      <3>3. o[1] \in Int /\ o[2] \in Int /\ o = <<o[1], o[2]>>
        BY <3>1 DEF Points
      <3> HIDE DEF o
      <3>4. Win!Plus(o, <<0, 0>>) = o
        <4>1. o[1] + 0 = o[1] /\ o[2] + 0 = o[2]
          BY <3>3
        <4>2. QED
          BY <3>3, <4>1 DEF Win!Plus
      <3>5. QED
        BY <3>2, <3>4 DEF o
    <2>3. /\ new \in [C -> Attrs]
          /\ \A p \in C :
               new[p] = IF Win!Minus(p, s.offset[w]) \in Win!CellsOf(w) /\ Win!Covers(region, p)
                        THEN s.canvas[w][Win!Minus(p, s.offset[w])] ELSE below[p]
      BY <1>1, <1>4, <2>1, <2>2, CopyChildCopies
    <2> HIDE DEF new
    <2>4. ASSUME NEW p \in C PROVE new[p] = DrawnTo(s, region, k)[p]
      <3>1. below[p] = IF Win!Covers(region, p) THEN Layer(s, k - 1, p) ELSE old[p]
        BY DEF DrawnTo
      <3>2. Layer(s, k, p) = IF Win!Minus(p, s.offset[w]) \in Win!CellsOf(w)
                             THEN s.canvas[w][Win!Minus(p, s.offset[w])] ELSE Layer(s, k - 1, p)
        BY NextLayer DEF Under
      <3>3. DrawnTo(s, region, k)[p] = IF Win!Covers(region, p) THEN Layer(s, k, p) ELSE old[p]
        BY DEF DrawnTo
      <3> HIDE DEF below, w
      <3>4. QED
        BY <2>3, <3>1, <3>2, <3>3
    <2>5. new = [p \in C |-> new[p]]
      BY <2>3
    <2>6. DrawnTo(s, region, k) = [p \in C |-> DrawnTo(s, region, k)[p]]
      BY DEF DrawnTo
    <2>7. new = DrawnTo(s, region, k)
      BY <2>4, <2>5, <2>6
    <2>8. QED
      BY <2>3, <2>7 DEF new
  <1>5. DrawnTo(s, region, 0) \in [C -> Attrs]
    <2>1. Win!Fill(old, "desktop", region, <<"desktop", 0>>) \in [C -> Attrs]
      BY <1>1, FillColours
    <2>2. QED
      BY <1>2, <2>1
  <1>6. \A k \in 0 .. Len(s.children) : DrawnTo(s, region, k) \in [C -> Attrs]
    <2> DEFINE Bad == {k \in 0 .. Len(s.children) : DrawnTo(s, region, k) \notin [C -> Attrs]}
    <2>1. SUFFICES ASSUME Bad # {} PROVE FALSE
      OBVIOUS
    <2>2. PICK k \in Bad : \A y \in Bad : k <= y
      BY <1>3, <2>1, LeastNatural
    <2>3. k \in 1 .. Len(s.children) /\ k - 1 \in 0 .. Len(s.children) /\ k - 1 \notin Bad
      BY <1>3, <1>5, <2>2
    <2>4. QED
      BY <1>4, <2>2, <2>3
  <1>7. QED
    BY <1>2, <1>3, <1>4, <1>6

(* One drawing after the other, from the bottom to the top. *)
Drawings(f, s, region) ==
  [k \in 0 .. Len(s.children) |->
     IF k = 0 THEN Win!Fill(s.canvas["desktop"], "desktop", region, Win!GetAttr("desktop", 0))
     ELSE Win!CopyChild(s, f[k - 1], "desktop", s.children[k], region)]

LEMMA RedrawUnfolds ==
  ASSUME NEW s, NEW region, NEW g, g = Drawings(g, s, region)
  PROVE  \E f : /\ f = Drawings(f, s, region)
                /\ Win!RedrawDesktop(s, region) = [s EXCEPT !.canvas["desktop"] = f[Len(s.children)]]
  <1> DEFINE f == CHOOSE f : f = Drawings(f, s, region)
  <1>1. f = Drawings(f, s, region)
    OBVIOUS
  <1>2. Win!RedrawDesktop(s, region) = [s EXCEPT !.canvas["desktop"] = f[Len(s.children)]]
    BY DEF Win!RedrawDesktop, Drawings
  <1>3. QED
    BY <1>1, <1>2

(* What a redraw of the desktop draws. *)
LEMMA RedrawDesktopDraws ==
  ASSUME WindowsGiven, NEW s, Typed(s), NEW region \in Rects
  PROVE  Repainted(s, Win!RedrawDesktop(s, region), "desktop",
                   DrawnTo(s, region, Len(s.children)))
  <1> DEFINE n == Len(s.children)
             g == [k \in 0 .. n |-> DrawnTo(s, region, k)]
             bottom == Win!Fill(s.canvas["desktop"], "desktop", region, Win!GetAttr("desktop", 0))
             next(c, k) == Win!CopyChild(s, c, "desktop", s.children[k], region)
  <1>1. n \in Nat
    BY DEF Typed
  <1>2. /\ bottom = DrawnTo(s, region, 0)
        /\ \A k \in 1 .. n : next(DrawnTo(s, region, k - 1), k) = DrawnTo(s, region, k)
        /\ DrawnTo(s, region, n) \in [Win!CellsOf("desktop") -> Attrs]
    BY <1>1, DrawsLayer DEF Win!GetAttr
  <1> HIDE DEF n, bottom, next
  <1>3. g = [k \in 0 .. n |-> IF k = 0 THEN bottom ELSE next(g[k - 1], k)]
    <2>1. ASSUME NEW k \in 0 .. n
          PROVE  g[k] = IF k = 0 THEN bottom ELSE next(g[k - 1], k)
      <3>1. CASE k = 0
        BY <1>2, <3>1
      <3>2. CASE k # 0
        <4>1. k \in 1 .. n /\ k - 1 \in 0 .. n
          BY <1>1, <3>2
        <4>2. g[k - 1] = DrawnTo(s, region, k - 1) /\ g[k] = DrawnTo(s, region, k)
          BY <4>1
        <4> HIDE DEF g
        <4>3. QED
          BY <1>2, <3>2, <4>1, <4>2
      <3>3. QED
        BY <3>1, <3>2
    <2>2. g = [k \in 0 .. n |-> g[k]]
      OBVIOUS
    <2> HIDE DEF g
    <2>3. QED
      BY <2>1, <2>2
  <1> HIDE DEF g
  <1>4. g = Drawings(g, s, region)
    BY <1>3 DEF Drawings, n, bottom, next
  <1>5. PICK f : /\ f = Drawings(f, s, region)
                 /\ Win!RedrawDesktop(s, region) = [s EXCEPT !.canvas["desktop"] = f[n]]
    BY <1>4, RedrawUnfolds DEF n
  <1>6. \A k \in 0 .. n : f[k] = IF k = 0 THEN bottom ELSE next(f[k - 1], k)
    BY <1>5 DEF Drawings, n, bottom, next
  <1>7. f[n] = DrawnTo(s, region, n)
    <2> DEFINE Bad == {k \in 0 .. n : f[k] # DrawnTo(s, region, k)}
    <2>1. SUFFICES ASSUME Bad # {} PROVE FALSE
      BY <1>1
    <2>2. PICK k \in Bad : \A y \in Bad : k <= y
      <3>1. Bad \in SUBSET (0 .. n)
        OBVIOUS
      <3> HIDE DEF Bad
      <3>2. QED
        BY <1>1, <2>1, <3>1, LeastNatural
    <2>3. k \in 0 .. n /\ f[k] # DrawnTo(s, region, k)
      BY <2>2
    <2>4. k # 0
      BY <1>2, <1>6, <2>3
    <2>5. k \in 1 .. n /\ k - 1 \in 0 .. n /\ k - 1 \notin Bad
      BY <1>1, <2>2, <2>3, <2>4
    <2>6. f[k - 1] = DrawnTo(s, region, k - 1)
      BY <2>5
    <2>7. f[k] = DrawnTo(s, region, k)
      BY <1>2, <1>6, <2>3, <2>4, <2>5, <2>6
    <2>8. QED
      BY <2>3, <2>7
  <1>8. "desktop" \in Win!Windows
    BY DEF Win!Windows
  <1>9. QED
    BY <1>2, <1>5, <1>7, <1>8, CanvasReplaced DEF n

(* A redraw of the desktop changes its canvas in the region only, which then
   shows the children there. *)
DesktopDrawn(s, t, region) ==
  /\ Typed(t)
  /\ t.offset = s.offset /\ t.children = s.children
  /\ \A v \in Win!Windows \ {"desktop"} : t.canvas[v] = s.canvas[v]
  /\ \A p \in Win!CellsOf("desktop") :
       t.canvas["desktop"][p] = IF Win!Covers(region, p) THEN DesktopShows(s, p)
                                ELSE s.canvas["desktop"][p]

LEMMA InvalidateDesktopDraws ==
  ASSUME WindowsGiven, NEW s, Typed(s), NEW region \in Rects
  PROVE  DesktopDrawn(s, Win!InvalidateDesktop(s, region), region)
  <1> DEFINE g == Win!GetDrawBounds("desktop")
             i == Win!Intersect(g, region)
             t == Win!RedrawDesktop(s, i)
  <1>1. "desktop" \in Win!Windows
    BY DEF Win!Windows
  <1>2. g \in Rects /\ \A p \in Win!CellsOf("desktop") : p \in Points /\ Win!Covers(g, p)
    BY <1>1, CellsCovered
  <1>3. Win!InvalidateDesktop(s, region) = IF Win!Intersects(g, region) THEN t ELSE s
    BY DEF Win!InvalidateDesktop
  <1> HIDE DEF g
  <1>4. CASE Win!Intersects(g, region)
    <2>1. i \in Rects /\ \A p \in Win!CellsOf("desktop") : Win!Covers(i, p) <=> Win!Covers(region, p)
      BY <1>2, IntersectCovers
    <2> HIDE DEF i
    <2>2. Repainted(s, t, "desktop", DrawnTo(s, i, Len(s.children)))
      BY <2>1, RedrawDesktopDraws
    <2> HIDE DEF t
    <2>3. \A p \in Win!CellsOf("desktop") :
            t.canvas["desktop"][p] = IF Win!Covers(region, p) THEN DesktopShows(s, p)
                                     ELSE s.canvas["desktop"][p]
      BY <2>1, <2>2 DEF Repainted, DrawnTo, DesktopShows
    <2>4. DesktopDrawn(s, t, region)
      BY <2>2, <2>3 DEF DesktopDrawn, Repainted
    <2>5. QED
      BY <1>3, <1>4, <2>4
  <1>5. CASE ~Win!Intersects(g, region)
    <2>1. \A p \in Win!CellsOf("desktop") : ~Win!Covers(region, p)
      BY <1>2, <1>5, IntersectCovers
    <2>2. DesktopDrawn(s, s, region)
      BY <2>1 DEF DesktopDrawn
    <2>3. QED
      BY <1>3, <1>5, <2>2
  <1>6. QED
    BY <1>4, <1>5

(* The topmost child is one of them. *)
LEMMA TopIsAmong ==
  ASSUME NEW s, NEW n \in Nat, NEW p, Covering(s, n, p) # {}
  PROVE  Win!Max(Covering(s, n, p)) \in Covering(s, n, p)
  <1> DEFINE on == Covering(s, n, p)
  <1>1. on \in SUBSET (0 .. n) /\ on \in SUBSET Nat
    BY DEF Covering
  <1> HIDE DEF on
  <1>2. PICK m \in on : \A y \in on : y <= m
    BY <1>1, GreatestNatural DEF on
  <1>3. Win!Max(on) = m
    BY <1>1, <1>2, MaxIs
  <1>4. QED
    BY <1>3 DEF on

(* The desktop shows the same where the same children are, and they show the
   same. *)
LEMMA SameShown ==
  ASSUME NEW s, NEW t, NEW p, Len(s.children) \in Nat, Len(t.children) = Len(s.children),
         \A i \in 1 .. Len(s.children) :
            /\ t.children[i] = s.children[i]
            /\ Win!Minus(p, t.offset[t.children[i]]) \in Win!CellsOf(t.children[i])
                 <=> Win!Minus(p, s.offset[s.children[i]]) \in Win!CellsOf(s.children[i])
            /\ Win!Minus(p, s.offset[s.children[i]]) \in Win!CellsOf(s.children[i]) =>
                 Under(t, i, p) = Under(s, i, p)
  PROVE  DesktopShows(t, p) = DesktopShows(s, p)
  <1> DEFINE n == Len(s.children)
             on == Covering(s, n, p)
  <1>1. Covering(t, n, p) = on
    BY DEF Covering
  <1>2. CASE on = {}
    BY <1>1, <1>2 DEF DesktopShows, Layer
  <1>3. CASE on # {}
    <2>1. Win!Max(on) \in on
      BY <1>3, TopIsAmong
    <2>2. Under(t, Win!Max(on), p) = Under(s, Win!Max(on), p)
      BY <2>1 DEF Covering
    <2>3. QED
      BY <1>1, <1>3, <2>2 DEF DesktopShows, Layer
  <1>4. QED
    BY <1>2, <1>3

-----------------------------------------------------------------------------
(* Invalidating a window                                                   *)

ScreenRight(s) ==
  \A p \in Win!CellsOf("desktop") : s.canvas["desktop"][p] = DesktopShows(s, p)

Has(s, w) == \E i \in 1 .. Len(s.children) : s.children[i] = w

(* The inductive invariant, of a state. *)
Right(s) == Typed(s) /\ ScreenRight(s) /\ (Has(s, "frame") => FrameRight(s))

(* Everything is right, but where the window w shows a region of itself. *)
RightBut(s, w, region) ==
  /\ \A p \in Win!CellsOf("desktop") :
       LET q == Win!Minus(p, s.offset[w])
       IN  ~(q \in Win!CellsOf(w) /\ Win!Covers(region, q)) =>
             s.canvas["desktop"][p] = DesktopShows(s, p)
  /\ Has(s, "frame") =>
       \A q \in Win!CellsOf("frame") :
         ~(w = "frame" /\ Win!Covers(region, q)) => s.canvas["frame"][q] = FrameShows(s, q)

(* Only the canvases of windows that are not on the desktop differ. *)
LEMMA ShownWithout ==
  ASSUME NEW s, Typed(s), NEW t, Typed(t), t.offset = s.offset, t.children = s.children,
         \A i \in 1 .. Len(s.children) : t.canvas[s.children[i]] = s.canvas[s.children[i]]
  PROVE  \A p : DesktopShows(t, p) = DesktopShows(s, p)
  <1>1. Len(s.children) \in Nat
    BY DEF Typed
  <1>2. TAKE p
  <1>3. \A i \in 1 .. Len(s.children) : Under(t, i, p) = Under(s, i, p)
    BY DEF Under
  <1>4. QED
    BY <1>1, <1>3, SameShown

LEMMA NoDesktopAmong ==
  ASSUME NEW s, Typed(s), NEW i \in 1 .. Len(s.children)
  PROVE  s.children[i] \in Win!Movable /\ s.children[i] # "desktop" /\ s.children[i] # "client"
  <1>1. s.children[i] \in Win!Movable
    BY DEF Typed
  <1>2. QED
    BY <1>1 DEF Win!Movable

(* Redrawing the region of a window makes the screen right. *)
LEMMA DesktopMadeRight ==
  ASSUME WindowsGiven, NEW s, Typed(s), NEW region \in Rects,
         \A p \in Win!CellsOf("desktop") :
            ~Win!Covers(region, p) => s.canvas["desktop"][p] = DesktopShows(s, p)
  PROVE  ScreenRight(Win!InvalidateDesktop(s, region))
  <1> DEFINE t == Win!InvalidateDesktop(s, region)
  <1>1. DesktopDrawn(s, t, region)
    BY InvalidateDesktopDraws
  <1> HIDE DEF t
  <1>2. \A p : DesktopShows(t, p) = DesktopShows(s, p)
    <2>1. \A i \in 1 .. Len(s.children) : t.canvas[s.children[i]] = s.canvas[s.children[i]]
      <3>1. \A w \in Win!Movable : w \in Win!Windows
        BY DEF Win!Windows
      <3>2. QED
        BY <1>1, <3>1, NoDesktopAmong DEF DesktopDrawn
    <2>2. QED
      BY <1>1, <2>1, ShownWithout DEF DesktopDrawn
  <1>3. ScreenRight(t)
    BY <1>1, <1>2 DEF ScreenRight, DesktopDrawn
  <1>4. QED
    BY <1>3 DEF t

(* The rectangle of a window's region on a parent where the window is at o. *)
RegionThere(w, region, o) == Win!Moved(Win!Intersect(Win!GetDrawBounds(w), region), o)

LEMMA RegionMoved ==
  ASSUME WindowsGiven, NEW w \in Win!Windows, NEW region \in Rects, NEW o \in Points
  PROVE  /\ Win!Intersect(Win!GetDrawBounds(w), region) \in Rects
         /\ RegionThere(w, region, o) \in Rects
         /\ \A p \in Points :
              Win!Covers(RegionThere(w, region, o), p)
                <=> /\ Win!Minus(p, o) \in Win!CellsOf(w)
                    /\ Win!Covers(region, Win!Minus(p, o))
         /\ \A q \in Win!CellsOf(w) :
              Win!Covers(Win!Intersect(Win!GetDrawBounds(w), region), q) <=> Win!Covers(region, q)
         /\ ~Win!Intersects(Win!GetDrawBounds(w), region) =>
              \A q \in Win!CellsOf(w) : ~Win!Covers(region, q)
  <1> DEFINE g == Win!GetDrawBounds(w)
             c == Win!Intersect(g, region)
  <1>1. /\ g \in Rects
        /\ \A p : p \in Win!CellsOf(w) <=> p \in Points /\ Win!Covers(g, p)
    BY CellsCovered
  <1> HIDE DEF g
  <1>2. /\ c \in Rects
        /\ \A p \in Points : Win!Covers(c, p) <=> Win!Covers(g, p) /\ Win!Covers(region, p)
        /\ ~Win!Intersects(g, region) =>
              \A p \in Points : ~(Win!Covers(g, p) /\ Win!Covers(region, p))
    BY <1>1, IntersectCovers
  <1> HIDE DEF c
  <1>3. /\ Win!Moved(c, o) \in Rects
        /\ \A p \in Points : /\ Win!Minus(p, o) \in Points
                             /\ Win!Covers(Win!Moved(c, o), p) <=> Win!Covers(c, Win!Minus(p, o))
    BY <1>2, MovedCovers
  <1>4. \A p \in Points :
          Win!Covers(Win!Moved(c, o), p)
            <=> Win!Minus(p, o) \in Win!CellsOf(w) /\ Win!Covers(region, Win!Minus(p, o))
    BY <1>1, <1>2, <1>3
  <1>5. \A q \in Win!CellsOf(w) : Win!Covers(c, q) <=> Win!Covers(region, q)
    BY <1>1, <1>2
  <1>6. ~Win!Intersects(g, region) => \A q \in Win!CellsOf(w) : ~Win!Covers(region, q)
    BY <1>1, <1>2
  <1>7. QED
    BY <1>2, <1>3, <1>4, <1>5, <1>6 DEF c, g, RegionThere

LEMMA CellsArePoints ==
  ASSUME WindowsGiven, NEW w \in Win!Windows
  PROVE  Win!CellsOf(w) \subseteq Points
  BY CellsCovered

(* A redraw of the desktop leaves the frame as it is. *)
LEMMA FrameLeft ==
  ASSUME NEW s, NEW t, NEW region, DesktopDrawn(s, t, region), FrameRight(s)
  PROVE  FrameRight(t)
  <1>1. t.canvas["frame"] = s.canvas["frame"] /\ t.canvas["client"] = s.canvas["client"]
    BY DEF DesktopDrawn, Win!Windows, Win!Movable
  <1>2. QED
    BY <1>1 DEF FrameRight, FrameShows

(* A redraw of a region of the frame makes the frame right. *)
LEMMA FrameMadeRight ==
  ASSUME WindowsGiven, NEW s, Typed(s), NEW region \in Rects, NEW c \in Rects,
         RightBut(s, "frame", region), Has(s, "frame"),
         \A q \in Win!CellsOf("frame") : Win!Covers(c, q) <=> Win!Covers(region, q)
  PROVE  LET t == Win!RedrawFrame(s, c)
         IN  /\ Typed(t) /\ FrameRight(t)
             /\ t.offset = s.offset /\ t.children = s.children
             /\ \A v \in Win!Windows \ {"frame"} : t.canvas[v] = s.canvas[v]
             /\ \A q \in Win!CellsOf("frame") :
                  ~Win!Covers(region, q) => t.canvas["frame"][q] = s.canvas["frame"][q]
  <1> DEFINE t == Win!RedrawFrame(s, c)
  <1>1. /\ Typed(t)
        /\ t.offset = s.offset /\ t.children = s.children
        /\ \A v \in Win!Windows \ {"frame"} : t.canvas[v] = s.canvas[v]
        /\ \A p \in Win!CellsOf("frame") :
             t.canvas["frame"][p] = IF Win!Decorated(p) \/ Win!Covers(c, p)
                                    THEN FrameShows(s, p) ELSE s.canvas["frame"][p]
    BY RedrawFrameDraws
  <1> HIDE DEF t
  <1>2. \A q \in Win!CellsOf("frame") :
          ~Win!Covers(region, q) => s.canvas["frame"][q] = FrameShows(s, q)
    BY DEF RightBut
  <1>3. t.canvas["client"] = s.canvas["client"]
    BY <1>1 DEF Win!Windows
  <1>4. \A q : FrameShows(t, q) = FrameShows(s, q)
    BY <1>3 DEF FrameShows
  <1>5. FrameRight(t)
    BY <1>1, <1>2, <1>4 DEF FrameRight
  <1>6. \A q \in Win!CellsOf("frame") :
          ~Win!Covers(region, q) => t.canvas["frame"][q] = s.canvas["frame"][q]
    BY <1>1, <1>2
  <1>7. QED
    BY <1>1, <1>5, <1>6 DEF t

(* Invalidating the region of a child where something is not right makes all
   of it right. *)
LEMMA InvalidateMakesRight ==
  ASSUME WindowsGiven, NEW s, Typed(s), NEW w \in Win!Movable, NEW region \in Rects,
         Has(s, w), RightBut(s, w, region)
  PROVE  Right(Win!Invalidate(s, w, region))
  <1> DEFINE g == Win!GetDrawBounds(w)
             c == Win!Intersect(g, region)
             drawn == IF w = "frame" THEN Win!RedrawFrame(s, c) ELSE s
             there == RegionThere(w, region, s.offset[w])
             t == Win!InvalidateDesktop(drawn, there)
  <1>1. /\ c \in Rects /\ there \in Rects
        /\ \A p \in Win!CellsOf("desktop") :
             Win!Covers(there, p)
               <=> LET q == Win!Minus(p, s.offset[w])
                   IN  q \in Win!CellsOf(w) /\ Win!Covers(region, q)
        /\ \A q \in Win!CellsOf(w) : Win!Covers(c, q) <=> Win!Covers(region, q)
        /\ ~Win!Intersects(g, region) => \A q \in Win!CellsOf(w) : ~Win!Covers(region, q)
    <2>1. s.offset[w] \in Points /\ w \in Win!Windows /\ "desktop" \in Win!Windows
      BY DEF Typed, Win!Windows
    <2>2. \A p \in Win!CellsOf("desktop") : p \in Points
      BY <2>1, CellsArePoints
    <2>3. QED
      BY <2>1, <2>2, RegionMoved
  <1>2. w \in Win!ToSet(s.children) /\ Len(s.children) \in Nat
    BY DEF Has, Typed, Win!ToSet
  <1>3. Win!Invalidate(s, w, region) = IF ~Win!Intersects(g, region) THEN s ELSE t
    BY <1>2 DEF Win!Invalidate, RegionThere
  <1> HIDE DEF g, c
  <1>4. CASE ~Win!Intersects(g, region)
    <2>1. ScreenRight(s)
      BY <1>1, <1>4 DEF RightBut, ScreenRight
    <2>2. Has(s, "frame") => FrameRight(s)
      BY <1>1, <1>4 DEF RightBut, FrameRight
    <2>3. QED
      BY <1>3, <1>4, <2>1, <2>2 DEF Right
  <1>5. CASE Win!Intersects(g, region)
    <2>1. /\ Typed(drawn) /\ drawn.offset = s.offset /\ drawn.children = s.children
          /\ \A v \in Win!Windows \ {w} : drawn.canvas[v] = s.canvas[v]
          /\ \A q \in Win!CellsOf(w) :
               ~Win!Covers(region, q) => drawn.canvas[w][q] = s.canvas[w][q]
          /\ Has(s, "frame") => FrameRight(drawn)
      <3>1. CASE w = "frame"
        <4>1. drawn = Win!RedrawFrame(s, c)
          BY <3>1
        <4>2. \A q \in Win!CellsOf("frame") : Win!Covers(c, q) <=> Win!Covers(region, q)
          BY <1>1, <3>1
        <4> HIDE DEF drawn
        <4>3. QED
          BY <1>1, <3>1, <4>1, <4>2, FrameMadeRight
      <3>2. CASE w # "frame"
        BY <3>2 DEF RightBut, FrameRight
      <3>3. QED
        BY <3>1, <3>2
    <2> HIDE DEF drawn
    <2>2. ASSUME NEW p \in Win!CellsOf("desktop"), ~Win!Covers(there, p)
          PROVE  drawn.canvas["desktop"][p] = DesktopShows(drawn, p)
      <3>1. ~(/\ Win!Minus(p, s.offset[w]) \in Win!CellsOf(w)
              /\ Win!Covers(region, Win!Minus(p, s.offset[w])))
        BY <1>1, <2>2
      <3>2. s.canvas["desktop"][p] = DesktopShows(s, p)
        BY <3>1 DEF RightBut
      <3>3. drawn.canvas["desktop"] = s.canvas["desktop"]
        BY <2>1 DEF Win!Movable, Win!Windows
      <3>4. ASSUME NEW i \in 1 .. Len(s.children),
                   Win!Minus(p, s.offset[s.children[i]]) \in Win!CellsOf(s.children[i])
            PROVE  Under(drawn, i, p) = Under(s, i, p)
        <4>1. CASE s.children[i] = w
          <5>1. drawn.canvas[w][Win!Minus(p, s.offset[w])] = s.canvas[w][Win!Minus(p, s.offset[w])]
            BY <2>1, <3>1, <3>4, <4>1
          <5>2. QED
            BY <2>1, <4>1, <5>1 DEF Under
        <4>2. CASE s.children[i] # w
          <5>1. s.children[i] \in Win!Windows \ {w}
            BY <4>2, NoDesktopAmong DEF Win!Windows
          <5>2. QED
            BY <2>1, <5>1 DEF Under
        <4>3. QED
          BY <4>1, <4>2
      <3>5. DesktopShows(drawn, p) = DesktopShows(s, p)
        BY <1>2, <2>1, <3>4, SameShown
      <3>6. QED
        BY <3>2, <3>3, <3>5
    <2> HIDE DEF there
    <2>3. ScreenRight(t)
      BY <1>1, <2>1, <2>2, DesktopMadeRight
    <2>4. DesktopDrawn(drawn, t, there)
      BY <1>1, <2>1, InvalidateDesktopDraws
    <2> HIDE DEF t
    <2>5. Has(t, "frame") => FrameRight(t)
      <3>1. t.children = s.children
        BY <2>1, <2>4 DEF DesktopDrawn
      <3>2. QED
        BY <2>1, <2>4, <3>1, FrameLeft DEF Has
    <2>6. QED
      BY <1>3, <1>5, <2>3, <2>4, <2>5 DEF Right, DesktopDrawn
  <1>6. QED
    BY <1>4, <1>5

(* Invalidating a window the desktop does not have changes nothing of it. *)
LEMMA InvalidateElsewhere ==
  ASSUME WindowsGiven, NEW s, NEW w \in Win!Movable, NEW region \in Rects,
         Right(s), ~Has(s, w)
  PROVE  Right(Win!Invalidate(s, w, region))
  <1> DEFINE g == Win!GetDrawBounds(w)
             c == Win!Intersect(g, region)
             t == Win!RedrawFrame(s, c)
  <1>1. /\ Typed(s) /\ Len(s.children) \in Nat /\ w \notin Win!ToSet(s.children)
        /\ w \in Win!Windows
    <2>1. Typed(s) /\ s.children \in Seq(Win!Movable) /\ Len(s.children) \in Nat
      BY DEF Right, Typed
    <2>2. w \notin Win!ToSet(s.children)
      BY <2>1 DEF Has, Win!ToSet
    <2>3. QED
      BY <2>1, <2>2 DEF Win!Windows
  <1>2. Win!Invalidate(s, w, region) =
          IF ~Win!Intersects(g, region) THEN s ELSE IF w = "frame" THEN t ELSE s
    BY <1>1 DEF Win!Invalidate
  <1>3. c \in Rects
    <2>1. g \in Rects
      BY <1>1, CellsCovered
    <2>2. QED
      BY <2>1, IntersectCovers
  <1> HIDE DEF g, c
  <1>4. CASE w = "frame"
    <2>1. /\ Typed(t)
          /\ t.offset = s.offset /\ t.children = s.children
          /\ \A v \in Win!Windows \ {"frame"} : t.canvas[v] = s.canvas[v]
      BY <1>1, <1>3, RedrawFrameDraws
    <2> HIDE DEF t
    <2>2. \A i \in 1 .. Len(s.children) : t.canvas[s.children[i]] = s.canvas[s.children[i]]
      <3>1. TAKE i \in 1 .. Len(s.children)
      <3>2. s.children[i] \in Win!Windows \ {"frame"}
        BY <1>1, <1>4, NoDesktopAmong DEF Has, Win!Windows
      <3>3. QED
        BY <2>1, <3>2
    <2>3. \A p : DesktopShows(t, p) = DesktopShows(s, p)
      BY <1>1, <2>1, <2>2, ShownWithout
    <2>4. t.canvas["desktop"] = s.canvas["desktop"]
      BY <2>1 DEF Win!Windows
    <2>5. ScreenRight(t)
      BY <2>3, <2>4 DEF Right, ScreenRight
    <2>6. ~Has(t, "frame")
      BY <1>4, <2>1 DEF Has
    <2>7. QED
      BY <1>2, <2>1, <2>5, <2>6 DEF Right
  <1>5. CASE w # "frame"
    BY <1>2, <1>5
  <1>6. QED
    BY <1>4, <1>5

-----------------------------------------------------------------------------
(* The actions                                                             *)

(* A child among the windows is one of the sequence. *)
LEMMA HasIsIn ==
  ASSUME NEW s, Typed(s), NEW w
  PROVE  Has(s, w) <=> w \in Win!ToSet(s.children)
  <1>1. s.children \in Seq(Win!Movable) /\ Len(s.children) \in Nat
    BY DEF Typed
  <1>2. QED
    BY <1>1 DEF Has, Win!ToSet

(* Drawing on a window changes what it shows in the region only. *)
DrawOn(s, w, r, c) ==
  [s EXCEPT !.canvas[w] = Win!Fill(s.canvas[w], w, r, Win!GetAttr(w, c))]

DrawnIn(s, t, w, r) ==
  /\ Typed(t) /\ t.offset = s.offset /\ t.children = s.children
  /\ \A v \in Win!Windows \ {w} : t.canvas[v] = s.canvas[v]
  /\ \A q \in Win!CellsOf(w) : ~Win!Covers(r, q) => t.canvas[w][q] = s.canvas[w][q]

LEMMA DrawnOn ==
  ASSUME WindowsGiven, NEW s, Right(s), NEW w \in Win!Consoles, NEW r \in Rects,
         NEW c \in {0, 1}
  PROVE  DrawnIn(s, DrawOn(s, w, r, c), w, r)
  <1> DEFINE old == s.canvas[w]
             new == Win!Fill(old, w, r, <<w, c>>)
             t == DrawOn(s, w, r, c)
  <1>1. Typed(s) /\ w \in Win!Windows /\ <<w, c>> \in Attrs /\ old \in [Win!CellsOf(w) -> Attrs]
    BY DEF Right, Typed, Attrs, Win!Consoles, Win!Windows, Win!Movable
  <1>2. t = [s EXCEPT !.canvas[w] = new]
    BY DEF Win!GetAttr, DrawOn
  <1> HIDE DEF old
  <1>3. /\ new \in [Win!CellsOf(w) -> Attrs]
        /\ \A q \in Win!CellsOf(w) : new[q] = IF Win!Covers(r, q) THEN <<w, c>> ELSE old[q]
    BY <1>1, FillColours
  <1> HIDE DEF new, t
  <1>4. Repainted(s, t, w, new)
    <2>1. Repainted(s, [s EXCEPT !.canvas[w] = new], w, new)
      BY <1>1, <1>3, CanvasReplaced
    <2>2. QED
      BY <1>2, <2>1
  <1>5. QED
    BY <1>3, <1>4 DEF Repainted, DrawnIn, old, t

LEMMA DrawConsole ==
  ASSUME WindowsGiven, NEW s, Right(s), NEW r \in Rects, NEW c \in {0, 1}
  PROVE  Right(Win!Invalidate(DrawOn(s, "console", r, c), "console", r))
  <1> DEFINE t == DrawOn(s, "console", r, c)
  <1>1. /\ "console" \in Win!Consoles /\ "console" \in Win!Movable /\ "console" \in Win!Windows
        /\ "desktop" \in Win!Windows \ {"console"} /\ "frame" \in Win!Windows \ {"console"}
        /\ "client" \in Win!Windows \ {"console"}
    BY DEF Win!Consoles, Win!Movable, Win!Windows
  <1>2. /\ Typed(t) /\ t.offset = s.offset /\ t.children = s.children
        /\ \A v \in Win!Windows \ {"console"} : t.canvas[v] = s.canvas[v]
        /\ \A q \in Win!CellsOf("console") :
             ~Win!Covers(r, q) => t.canvas["console"][q] = s.canvas["console"][q]
    <2>1. DrawnIn(s, t, "console", r)
      BY <1>1, DrawnOn
    <2>2. QED
      BY <2>1 DEF DrawnIn
  <1>3. Typed(s) /\ Len(s.children) \in Nat
    BY DEF Right, Typed
  <1> HIDE DEF t
  <1>4. \A q : FrameShows(t, q) = FrameShows(s, q)
    BY <1>1, <1>2 DEF FrameShows
  <1>5. Has(t, "frame") => FrameRight(t)
    BY <1>1, <1>2, <1>4 DEF Has, Right, FrameRight
  <1>6. ASSUME NEW p \in Win!CellsOf("desktop"),
               ~(/\ Win!Minus(p, s.offset["console"]) \in Win!CellsOf("console")
                 /\ Win!Covers(r, Win!Minus(p, s.offset["console"])))
        PROVE  t.canvas["desktop"][p] = DesktopShows(t, p)
    <2>1. ASSUME NEW i \in 1 .. Len(s.children),
                 Win!Minus(p, s.offset[s.children[i]]) \in Win!CellsOf(s.children[i])
          PROVE  Under(t, i, p) = Under(s, i, p)
      <3>1. CASE s.children[i] = "console"
        BY <1>2, <1>6, <2>1, <3>1 DEF Under
      <3>2. CASE s.children[i] # "console"
        <4>1. s.children[i] \in Win!Windows \ {"console"}
          BY <1>3, <3>2, NoDesktopAmong DEF Win!Windows
        <4>2. QED
          BY <1>2, <4>1 DEF Under
      <3>3. QED
        BY <3>1, <3>2
    <2>2. DesktopShows(t, p) = DesktopShows(s, p)
      BY <1>2, <1>3, <2>1, SameShown
    <2>3. QED
      BY <1>1, <1>2, <2>2 DEF Right, ScreenRight
  <1>7. CASE Has(t, "console")
    <2>1. RightBut(t, "console", r)
      BY <1>2, <1>5, <1>6 DEF RightBut, FrameRight
    <2>2. Right(Win!Invalidate(t, "console", r))
      BY <1>1, <1>2, <1>7, <2>1, InvalidateMakesRight
    <2>3. QED
      BY <2>2 DEF t
  <1>8. CASE ~Has(t, "console")
    <2>1. \A i \in 1 .. Len(s.children) : t.canvas[s.children[i]] = s.canvas[s.children[i]]
      <3>1. TAKE i \in 1 .. Len(s.children)
      <3>2. s.children[i] \in Win!Windows \ {"console"}
        BY <1>2, <1>3, <1>8, NoDesktopAmong DEF Has, Win!Windows
      <3>3. QED
        BY <1>2, <3>2
    <2>2. \A p : DesktopShows(t, p) = DesktopShows(s, p)
      BY <1>2, <1>3, <2>1, ShownWithout
    <2>3. ScreenRight(t)
      BY <1>1, <1>2, <2>2 DEF Right, ScreenRight
    <2>4. Right(t)
      BY <1>2, <1>5, <2>3 DEF Right
    <2>5. Right(Win!Invalidate(t, "console", r))
      BY <1>1, <1>8, <2>4, InvalidateElsewhere
    <2>6. QED
      BY <2>5 DEF t
  <1>9. QED
    BY <1>7, <1>8

LEMMA DrawClient ==
  ASSUME WindowsGiven, NEW s, Right(s), NEW r \in Rects, NEW c \in {0, 1}
  PROVE  Right(Win!InvalidateClient(DrawOn(s, "client", r, c), r))
  <1> DEFINE t == DrawOn(s, "client", r, c)
             g == Win!GetDrawBounds("client")
             R == RegionThere("client", r, <<1, 1>>)
  <1>1. /\ "client" \in Win!Consoles /\ "client" \in Win!Windows /\ <<1, 1>> \in Points
        /\ "frame" \in Win!Movable /\ "frame" \in Win!Windows
        /\ "desktop" \in Win!Windows \ {"client"} /\ "frame" \in Win!Windows \ {"client"}
    BY DEF Win!Consoles, Win!Movable, Win!Windows, Points
  <1>2. /\ Typed(t) /\ t.offset = s.offset /\ t.children = s.children
        /\ \A v \in Win!Windows \ {"client"} : t.canvas[v] = s.canvas[v]
        /\ \A q \in Win!CellsOf("client") :
             ~Win!Covers(r, q) => t.canvas["client"][q] = s.canvas["client"][q]
    <2>1. DrawnIn(s, t, "client", r)
      BY <1>1, DrawnOn
    <2>2. QED
      BY <2>1 DEF DrawnIn
  <1>3. Typed(s) /\ Len(s.children) \in Nat
    BY DEF Right, Typed
  <1>4. Win!InvalidateClient(t, r) = IF Win!Intersects(g, r) THEN Win!Invalidate(t, "frame", R) ELSE t
    <2>1. Win!Plus(t.offset["client"], Win!ClientOffset("frame")) = <<1, 1>>
      <3>1. t.offset["client"] = <<0, 0>> /\ Win!ClientOffset("frame") = <<1, 1>>
        BY <1>2 DEF Typed, Win!ClientOffset
      <3>2. QED
        BY <3>1 DEF Win!Plus
    <2>2. QED
      BY <2>1 DEF Win!InvalidateClient, RegionThere
  <1>5. /\ R \in Rects
        /\ \A p \in Points : Win!Covers(R, p) <=> /\ Win!Minus(p, <<1, 1>>) \in Win!CellsOf("client")
                                                  /\ Win!Covers(r, Win!Minus(p, <<1, 1>>))
        /\ ~Win!Intersects(g, r) => \A q \in Win!CellsOf("client") : ~Win!Covers(r, q)
    BY <1>1, RegionMoved
  <1> HIDE DEF t, g, R
  <1>6. ASSUME NEW q \in Win!CellsOf("frame"), ~Win!Covers(R, q)
        PROVE  FrameShows(t, q) = FrameShows(s, q)
    <2>1. q \in Points
      BY <1>1, CellsArePoints
    <2>2. Win!Minus(q, <<1, 1>>) \in Win!CellsOf("client") => ~Win!Covers(r, Win!Minus(q, <<1, 1>>))
      BY <1>5, <1>6, <2>1
    <2>3. QED
      BY <1>2, <2>2 DEF FrameShows
  <1>7. \A i \in 1 .. Len(s.children) : t.canvas[s.children[i]] = s.canvas[s.children[i]]
    <2>1. TAKE i \in 1 .. Len(s.children)
    <2>2. s.children[i] \in Win!Windows \ {"client"}
      BY <1>3, NoDesktopAmong DEF Win!Windows
    <2>3. QED
      BY <1>2, <2>2
  <1>8. \A p : DesktopShows(t, p) = DesktopShows(s, p)
    BY <1>2, <1>3, <1>7, ShownWithout
  <1>9. ScreenRight(t)
    BY <1>1, <1>2, <1>8 DEF Right, ScreenRight
  <1>10. Has(s, "frame") => \A q \in Win!CellsOf("frame") :
                              ~Win!Covers(R, q) => t.canvas["frame"][q] = FrameShows(t, q)
    BY <1>1, <1>2, <1>6 DEF Right, FrameRight
  <1>11. Has(t, "frame") <=> Has(s, "frame")
    BY <1>2 DEF Has
  <1>12. Right(Win!InvalidateClient(t, r))
    <2>1. CASE ~Win!Intersects(g, r)
      <3>1. \A q \in Win!CellsOf("frame") : ~Win!Covers(R, q)
        <4>1. Win!CellsOf("frame") \subseteq Points
          BY <1>1, CellsArePoints
        <4>2. QED
          BY <1>5, <2>1, <4>1
      <3>2. QED
        BY <1>2, <1>4, <1>9, <1>10, <1>11, <2>1, <3>1 DEF Right, FrameRight
    <2>2. CASE Win!Intersects(g, r) /\ Has(s, "frame")
      <3>1. RightBut(t, "frame", R)
        BY <1>9, <1>10, <2>2 DEF RightBut, ScreenRight
      <3>2. Right(Win!Invalidate(t, "frame", R))
        BY <1>1, <1>2, <1>5, <1>11, <2>2, <3>1, InvalidateMakesRight
      <3>3. QED
        BY <1>4, <2>2, <3>2
    <2>3. CASE Win!Intersects(g, r) /\ ~Has(s, "frame")
      <3>1. Right(t)
        BY <1>2, <1>9, <1>11, <2>3 DEF Right
      <3>2. Right(Win!Invalidate(t, "frame", R))
        BY <1>1, <1>5, <1>11, <2>3, <3>1, InvalidateElsewhere
      <3>3. QED
        BY <1>4, <2>3, <3>2
    <2>4. QED
      BY <2>1, <2>2, <2>3
  <1>13. QED
    BY <1>12 DEF t

(* A window is added on top. *)
LEMMA AddedChild ==
  ASSUME WindowsGiven, NEW s, Right(s), NEW w \in Win!Movable, ~Has(s, w)
  PROVE  Right(Win!Invalidate([s EXCEPT !.children = Append(@, w)], w, Win!GetDrawBounds(w)))
  <1> DEFINE n == Len(s.children)
             more == Append(s.children, w)
             t == [s EXCEPT !.children = Append(@, w)]
             g == Win!GetDrawBounds(w)
  <1>1. /\ Typed(s) /\ s.children \in Seq(Win!Movable) /\ n \in Nat
        /\ s = [canvas |-> s.canvas, offset |-> s.offset, children |-> s.children]
        /\ w \in Win!Windows
    <2>1. Typed(s)
      BY DEF Right
    <2>2. /\ s.children \in Seq(Win!Movable) /\ n \in Nat
          /\ s = [canvas |-> s.canvas, offset |-> s.offset, children |-> s.children]
      BY <2>1 DEF Typed
    <2>3. QED
      BY <2>1, <2>2 DEF Win!Windows
  <1>2. /\ more \in Seq(Win!Movable) /\ Len(more) = n + 1 /\ more[n + 1] = w
        /\ \A i \in 1 .. n : more[i] = s.children[i]
    BY <1>1
  <1> HIDE DEF more
  <1>3. t = [canvas |-> s.canvas, offset |-> s.offset, children |-> more]
    BY <1>1 DEF more
  <1>4. /\ t.canvas = s.canvas /\ t.offset = s.offset /\ t.children = more
        /\ t = [canvas |-> t.canvas, offset |-> t.offset, children |-> t.children]
    BY <1>3
  <1> HIDE DEF t, n
  <1>5. \A i, j \in 1 .. n + 1 : more[i] = more[j] => i = j
    <2>1. \A i, j \in 1 .. n : s.children[i] = s.children[j] => i = j
      BY <1>1 DEF Typed, n
    <2>2. \A i \in 1 .. n : s.children[i] # w
      BY DEF Has, n
    <2>3. QED
      BY <1>1, <1>2, <2>1, <2>2, SMTT(30)
  <1>6. Typed(t)
    <2>1. /\ t = [canvas |-> t.canvas, offset |-> t.offset, children |-> t.children]
          /\ t.canvas = [v \in Win!Windows |-> t.canvas[v]]
          /\ \A v \in Win!Windows : t.canvas[v] \in [Win!CellsOf(v) -> Attrs]
          /\ t.offset \in [Win!Windows -> Points]
          /\ t.offset["client"] = <<0, 0>>
      <3>1. /\ s.canvas = [v \in Win!Windows |-> s.canvas[v]]
            /\ \A v \in Win!Windows : s.canvas[v] \in [Win!CellsOf(v) -> Attrs]
            /\ s.offset \in [Win!Windows -> Points]
            /\ s.offset["client"] = <<0, 0>>
        BY <1>1 DEF Typed
      <3>2. t = [canvas |-> t.canvas, offset |-> t.offset, children |-> t.children]
        BY <1>4
      <3>3. QED
        BY <1>4, <3>1, <3>2
    <2>2. QED
      BY <1>2, <1>4, <1>5, <2>1 DEF Typed
  <1>7. /\ g \in Rects
        /\ \A q \in Win!CellsOf(w) : Win!Covers(g, q)
    BY <1>1, CellsCovered
  <1>8. ASSUME NEW p \in Win!CellsOf("desktop"),
               Win!Minus(p, s.offset[w]) \notin Win!CellsOf(w)
        PROVE  t.canvas["desktop"][p] = DesktopShows(t, p)
    <2>1. DesktopShows(t, p) = Layer(t, n, p)
      <3>1. Layer(t, n + 1, p) = Layer(t, (n + 1) - 1, p)
        BY <1>1, <1>2, <1>4, <1>8, NextLayer, SMTT(30)
      <3>2. (n + 1) - 1 = n
        BY <1>1
      <3>3. QED
        BY <1>2, <1>4, <3>1, <3>2 DEF DesktopShows
    <2>2. Covering(t, n, p) = Covering(s, n, p)
      BY <1>2, <1>4 DEF Covering
    <2>3. \A i \in 1 .. n : Under(t, i, p) = Under(s, i, p)
      BY <1>2, <1>4 DEF Under
    <2>4. Layer(t, n, p) = Layer(s, n, p)
      <3>1. CASE Covering(s, n, p) = {}
        BY <2>2, <3>1 DEF Layer
      <3>2. CASE Covering(s, n, p) # {}
        <4>1. Win!Max(Covering(s, n, p)) \in 1 .. n
          BY <1>1, <3>2, TopIsAmong DEF Covering
        <4>2. QED
          BY <2>2, <2>3, <4>1 DEF Layer
      <3>3. QED
        BY <3>1, <3>2
    <2>5. s.canvas["desktop"][p] = Layer(s, n, p)
      BY DEF Right, ScreenRight, DesktopShows, n
    <2>6. QED
      BY <1>4, <2>1, <2>4, <2>5
  <1>9. w # "frame" => (Has(t, "frame") => FrameRight(t))
    <2>1. Has(t, "frame") /\ w # "frame" => Has(s, "frame")
      BY <1>1, <1>2, <1>4 DEF Has, n
    <2>2. FrameRight(s) => FrameRight(t)
      BY <1>4 DEF FrameRight, FrameShows
    <2>3. QED
      BY <2>1, <2>2 DEF Right
  <1>10. RightBut(t, w, g)
    <2>1. \A p \in Win!CellsOf("desktop") :
            LET q == Win!Minus(p, t.offset[w])
            IN  ~(q \in Win!CellsOf(w) /\ Win!Covers(g, q)) =>
                  t.canvas["desktop"][p] = DesktopShows(t, p)
      BY <1>4, <1>7, <1>8
    <2>2. Has(t, "frame") =>
            \A q \in Win!CellsOf("frame") :
              ~(w = "frame" /\ Win!Covers(g, q)) => t.canvas["frame"][q] = FrameShows(t, q)
      BY <1>7, <1>9 DEF FrameRight
    <2>3. QED
      BY <2>1, <2>2 DEF RightBut
  <1>11. Has(t, w)
    BY <1>1, <1>2, <1>4 DEF Has
  <1>12. Right(Win!Invalidate(t, w, g))
    BY <1>6, <1>7, <1>10, <1>11, InvalidateMakesRight
  <1>13. QED
    BY <1>12 DEF t

(* The bounds of a window cover the cells where it is. *)
LEMMA BoundsCover ==
  ASSUME WindowsGiven, NEW s, Typed(s), NEW w \in Win!Windows
  PROVE  /\ Win!Bounds(s, w) \in Rects
         /\ \A p \in Points : Win!Covers(Win!Bounds(s, w), p)
                                <=> Win!Minus(p, s.offset[w]) \in Win!CellsOf(w)
  <1> DEFINE o == s.offset[w]
             g == Win!GetDrawBounds(w)
  <1>1. o \in Points /\ o[1] \in Int /\ o[2] \in Int
    BY DEF Typed, Points
  <1>2. g \in Rects /\ \A p : p \in Win!CellsOf(w) <=> p \in Points /\ Win!Covers(g, p)
    BY CellsCovered
  <1>3. Win!Bounds(s, w) = Win!Moved(g, o)
    <2>1. 0 + o[1] = o[1] /\ 0 + o[2] = o[2]
      BY <1>1
    <2>2. /\ Win!Bounds(s, w) = [l |-> o[1], t |-> o[2], w |-> g.w, h |-> g.h]
          /\ Win!Moved(g, o) = [l |-> 0 + o[1], t |-> 0 + o[2], w |-> g.w, h |-> g.h]
      BY DEF Win!Bounds, Win!Moved, Win!GetDrawBounds, Win!Rect
    <2>3. QED
      BY <2>1, <2>2
  <1> HIDE DEF o, g
  <1>4. /\ Win!Moved(g, o) \in Rects
        /\ \A p \in Points : /\ Win!Minus(p, o) \in Points
                             /\ Win!Covers(Win!Moved(g, o), p) <=> Win!Covers(g, Win!Minus(p, o))
    BY <1>1, <1>2, MovedCovers
  <1>5. QED
    BY <1>2, <1>3, <1>4 DEF o

(* A sequence without its i-th element. *)
LEMMA OneRemoved ==
  ASSUME NEW S, NEW c \in Seq(S), NEW i \in 1 .. Len(c)
  PROVE  /\ Win!RemoveAt(c, i) \in Seq(S)
         /\ Len(Win!RemoveAt(c, i)) = Len(c) - 1
         /\ \A k \in 1 .. Len(c) - 1 :
              Win!RemoveAt(c, i)[k] = c[IF k < i THEN k ELSE k + 1]
  <1> DEFINE n == Len(c)
             a == SubSeq(c, 1, i - 1)
             b == SubSeq(c, i + 1, n)
  <1>1. n \in Nat /\ i \in 1 .. n /\ \A k \in 1 .. n : c[k] \in S
    OBVIOUS
  <1>2. Win!RemoveAt(c, i) = a \o b
    BY DEF Win!RemoveAt
  <1>3. /\ a \in Seq(S) /\ Len(a) = i - 1 /\ \A k \in 1 .. i - 1 : a[k] = c[k]
    <2>1. 1 \in 1 .. n + 1 /\ i - 1 \in 0 .. n
      BY <1>1
    <2>2. QED
      BY <1>1, <2>1, SubSeqProperties
  <1>4. /\ b \in Seq(S) /\ Len(b) = n - i /\ \A k \in 1 .. n - i : b[k] = c[i + k]
    <2>1. /\ i + 1 \in Int /\ n \in Int
          /\ \A k \in i + 1 .. n : c[k] \in S
      BY <1>1
    <2> HIDE DEF n
    <2>2. /\ b \in Seq(S)
          /\ Len(b) = IF i + 1 <= n THEN n - (i + 1) + 1 ELSE 0
          /\ \A k \in 1 .. n - (i + 1) + 1 : b[k] = c[(i + 1) + k - 1]
      BY <2>1, SubSeqProperties
    <2>3. Len(b) = n - i
      BY <1>1, <2>2
    <2>4. ASSUME NEW k \in 1 .. n - i PROVE b[k] = c[i + k]
      <3>1. k \in 1 .. n - (i + 1) + 1 /\ (i + 1) + k - 1 = i + k
        BY <1>1
      <3>2. QED
        BY <2>2, <3>1
    <2>5. QED
      BY <2>2, <2>3, <2>4
  <1> HIDE DEF a, b, n
  <1>5. a \o b \in Seq(S) /\ Len(a \o b) = n - 1
    <2>1. a \o b \in Seq(S) /\ Len(a \o b) = Len(a) + Len(b)
      <3>1. ASSUME NEW x \in Seq(S), NEW y \in Seq(S)
            PROVE  x \o y \in Seq(S) /\ Len(x \o y) = Len(x) + Len(y)
        OBVIOUS
      <3>2. QED
        BY <1>3, <1>4, <3>1
    <2>2. (i - 1) + (n - i) = n - 1
      BY <1>1
    <2>3. QED
      BY <1>3, <1>4, <2>1, <2>2
  <1>6. ASSUME NEW k \in 1 .. n - 1
        PROVE  (a \o b)[k] = c[IF k < i THEN k ELSE k + 1]
    <2>1. CASE k < i
      BY <1>1, <1>3, <1>4, <2>1
    <2>2. CASE ~(k < i)
      <3>1. /\ k - (i - 1) \in 1 .. n - i /\ i + (k - (i - 1)) = k + 1
            /\ k > i - 1 /\ k <= (i - 1) + (n - i)
        BY <1>1, <2>2
      <3>2. (a \o b)[k] = b[k - (i - 1)]
        BY <1>1, <1>3, <1>4, <3>1
      <3>3. QED
        BY <1>4, <2>2, <3>1, <3>2
    <2>3. QED
      BY <2>1, <2>2
  <1>7. QED
    BY <1>2, <1>5, <1>6 DEF n

(* A window is removed. *)
LEMMA RemovedChild ==
  ASSUME WindowsGiven, NEW s, Right(s), NEW w \in Win!Movable, NEW i \in DOMAIN s.children,
         s.children[i] = w
  PROVE  Right(Win!InvalidateDesktop([s EXCEPT !.children = Win!RemoveAt(@, i)],
                                     Win!Bounds(s, w)))
  <1> DEFINE n == Len(s.children)
             less == Win!RemoveAt(s.children, i)
             t == [s EXCEPT !.children = Win!RemoveAt(@, i)]
             b == Win!Bounds(s, w)
             was(k) == IF k < i THEN k ELSE k + 1
  <1>1. Typed(s) /\ w \in Win!Windows /\ "desktop" \in Win!Windows
    BY DEF Right, Win!Windows
  <1>2. /\ s.children \in Seq(Win!Movable) /\ n \in Nat /\ i \in 1 .. n
        /\ s = [canvas |-> s.canvas, offset |-> s.offset, children |-> s.children]
    BY <1>1 DEF Typed
  <1>3. /\ less \in Seq(Win!Movable) /\ Len(less) = n - 1
        /\ \A k \in 1 .. n - 1 : less[k] = s.children[was(k)]
    BY <1>2, OneRemoved
  <1> HIDE DEF less
  <1>4. t = [canvas |-> s.canvas, offset |-> s.offset, children |-> less]
    BY <1>2 DEF less
  <1>5. /\ t.canvas = s.canvas /\ t.offset = s.offset /\ t.children = less
        /\ t = [canvas |-> t.canvas, offset |-> t.offset, children |-> t.children]
    BY <1>4
  <1>6. /\ b \in Rects
        /\ \A p \in Win!CellsOf("desktop") :
             Win!Covers(b, p) <=> Win!Minus(p, s.offset[w]) \in Win!CellsOf(w)
    <2>1. Win!CellsOf("desktop") \subseteq Points
      BY <1>1, CellsArePoints
    <2>2. QED
      BY <1>1, <2>1, BoundsCover
  <1> HIDE DEF t, b, n
  <1>7. \A j, k \in 1 .. n - 1 : less[j] = less[k] => j = k
    <2>1. \A j, k \in 1 .. n : s.children[j] = s.children[k] => j = k
      BY <1>1 DEF Typed, n
    <2>2. ASSUME NEW j \in 1 .. n - 1, NEW k \in 1 .. n - 1, less[j] = less[k]
          PROVE  j = k
      <3>1. was(j) \in 1 .. n /\ was(k) \in 1 .. n
        BY <1>2
      <3>2. s.children[was(j)] = s.children[was(k)]
        BY <1>3, <2>2
      <3>3. was(j) = was(k)
        <4> HIDE DEF was
        <4>1. QED
          BY <2>1, <3>1, <3>2
      <3>4. QED
        BY <1>2, <3>3
    <2>3. QED
      BY <2>2
  <1>8. Typed(t)
    <2>1. /\ s.canvas = [v \in Win!Windows |-> s.canvas[v]]
          /\ \A v \in Win!Windows : s.canvas[v] \in [Win!CellsOf(v) -> Attrs]
          /\ s.offset \in [Win!Windows -> Points]
          /\ s.offset["client"] = <<0, 0>>
      BY <1>1 DEF Typed
    <2>2. QED
      BY <1>3, <1>5, <1>7, <2>1 DEF Typed
  <1>9. ASSUME NEW p \in Win!CellsOf("desktop"), ~Win!Covers(b, p)
        PROVE  t.canvas["desktop"][p] = DesktopShows(t, p)
    <2> DEFINE before == Covering(s, n, p)
               after == Covering(t, n - 1, p)
    <2>1. /\ before \in SUBSET (1 .. n) /\ after \in SUBSET (1 .. n - 1) /\ i \notin before
      BY <1>6, <1>9 DEF Covering
    <2>2. \A k \in 1 .. n - 1 : was(k) \in 1 .. n /\ (k \in after <=> was(k) \in before)
      <3>1. TAKE k \in 1 .. n - 1
      <3>2. was(k) \in 1 .. n
        BY <1>2
      <3>3. less[k] = s.children[was(k)]
        BY <1>3
      <3> HIDE DEF was
      <3>4. QED
        BY <1>5, <3>2, <3>3 DEF Covering
    <2>3. \A k \in 1 .. n - 1 : Under(t, k, p) = Under(s, was(k), p)
      BY <1>3, <1>5 DEF Under
    <2>4. DesktopShows(t, p) = Layer(t, n - 1, p) /\ DesktopShows(s, p) = Layer(s, n, p)
      BY <1>3, <1>5 DEF DesktopShows, n
    <2>5. Layer(t, n - 1, p) = Layer(s, n, p)
      <3>1. CASE before = {}
        <4>1. after = {}
          <5> HIDE DEF was, before, after
          <5>1. QED
            BY <2>1, <2>2, <3>1
        <4>2. QED
          BY <3>1, <4>1 DEF Layer
      <3>2. CASE before # {}
        <4> DEFINE m == Win!Max(before)
                   k == IF m < i THEN m ELSE m - 1
        <4>1. m \in before /\ \A y \in before : y <= m
          <5>1. before \in SUBSET (0 .. n) /\ before \in SUBSET Nat
            BY <2>1
          <5> HIDE DEF before
          <5>2. PICK z \in before : \A y \in before : y <= z
            BY <1>2, <3>2, <5>1, GreatestNatural
          <5>3. Win!Max(before) = z
            BY <5>1, <5>2, MaxIs
          <5>4. QED
            BY <5>2, <5>3
        <4> HIDE DEF m, before, after
        <4>2. m \in 1 .. n /\ m # i
          BY <2>1, <4>1
        <4>3. k \in 1 .. n - 1 /\ was(k) = m
          BY <1>2, <4>2
        <4>4. k \in after
          BY <2>2, <4>1, <4>3
        <4>5. ASSUME NEW y \in after PROVE y <= k
          <5>1. y \in 1 .. n - 1 /\ was(y) \in before
            BY <2>1, <2>2
          <5>2. was(y) <= m
            BY <4>1, <5>1
          <5>3. QED
            BY <1>2, <4>2, <5>1, <5>2
        <4>6. Win!Max(after) = k
          <5>1. after \in SUBSET Nat
            BY <2>1
          <5> HIDE DEF k
          <5>2. QED
            BY <4>4, <4>5, <5>1, MaxIs
        <4>7. Under(t, k, p) = Under(s, m, p)
          BY <2>3, <4>3
        <4>8. after # {}
          BY <4>4
        <4> HIDE DEF k
        <4>9. QED
          BY <3>2, <4>6, <4>7, <4>8 DEF Layer, m, before, after
      <3>3. QED
        BY <3>1, <3>2
    <2>6. QED
      BY <1>5, <1>9, <2>4, <2>5 DEF Right, ScreenRight
  <1>10. ScreenRight(Win!InvalidateDesktop(t, b)) /\ DesktopDrawn(t, Win!InvalidateDesktop(t, b), b)
    BY <1>6, <1>8, <1>9, DesktopMadeRight, InvalidateDesktopDraws
  <1>11. Has(t, "frame") => FrameRight(t)
    <2>1. Has(t, "frame") => Has(s, "frame")
      <3>1. \A k \in 1 .. n - 1 : was(k) \in 1 .. n
        BY <1>2
      <3> HIDE DEF was
      <3>2. QED
        BY <1>3, <1>5, <3>1 DEF Has, n
    <2>2. QED
      BY <1>5, <2>1 DEF Right, FrameRight, FrameShows
  <1>12. Right(Win!InvalidateDesktop(t, b))
    <2> DEFINE u == Win!InvalidateDesktop(t, b)
    <2>1. DesktopDrawn(t, u, b) /\ ScreenRight(u)
      BY <1>10
    <2> HIDE DEF u
    <2>2. Has(u, "frame") => FrameRight(u)
      BY <1>11, <2>1, FrameLeft DEF Has, DesktopDrawn
    <2>3. Right(u)
      BY <2>1, <2>2 DEF Right, DesktopDrawn
    <2>4. QED
      BY <2>3 DEF u
  <1>13. QED
    BY <1>12 DEF t, b

(* A window at another place. *)
MovedTo(s, w, o) == [s EXCEPT !.offset[w] = o]

LEMMA MovedIs ==
  ASSUME NEW s, Typed(s), NEW w \in Win!Movable, NEW o \in Points
  PROVE  LET t == MovedTo(s, w, o)
         IN  /\ Typed(t) /\ t.canvas = s.canvas /\ t.children = s.children
             /\ \A v \in Win!Windows \ {w} : t.offset[v] = s.offset[v]
  <1> DEFINE t == MovedTo(s, w, o)
             f == [s.offset EXCEPT ![w] = o]
  <1>1. /\ s = [canvas |-> s.canvas, offset |-> s.offset, children |-> s.children]
        /\ s.offset \in [Win!Windows -> Points] /\ s.offset["client"] = <<0, 0>>
    BY DEF Typed
  <1>2. w \in Win!Windows /\ w # "client"
    BY DEF Win!Windows, Win!Movable
  <1>3. /\ f \in [Win!Windows -> Points] /\ f["client"] = <<0, 0>>
        /\ \A v \in Win!Windows \ {w} : f[v] = s.offset[v]
    <2>1. "client" \in Win!Windows
      BY DEF Win!Windows
    <2>2. QED
      BY <1>1, <1>2, <2>1
  <1>4. t = [s EXCEPT !.offset = f]
    BY DEF MovedTo
  <1> HIDE DEF f
  <1>5. t = [canvas |-> s.canvas, offset |-> f, children |-> s.children]
    BY <1>1, <1>4
  <1>6. /\ t.canvas = s.canvas /\ t.offset = f /\ t.children = s.children
        /\ t = [canvas |-> t.canvas, offset |-> t.offset, children |-> t.children]
    BY <1>5
  <1> HIDE DEF t
  <1>7. Typed(t)
    <2>1. /\ s.canvas = [v \in Win!Windows |-> s.canvas[v]]
          /\ \A v \in Win!Windows : s.canvas[v] \in [Win!CellsOf(v) -> Attrs]
          /\ s.children \in Seq(Win!Movable)
          /\ \A i, j \in 1 .. Len(s.children) : s.children[i] = s.children[j] => i = j
      BY DEF Typed
    <2>2. QED
      BY <1>3, <1>6, <2>1 DEF Typed
  <1>8. QED
    BY <1>3, <1>6, <1>7 DEF t

(* What a move leaves alone: all that is neither at the old nor at the new
   place, the frame, and all if the desktop does not have the window. *)
LEMMA MoveLeaves ==
  ASSUME NEW s, Right(s), NEW w \in Win!Movable, NEW t, Typed(t),
         t.canvas = s.canvas, t.children = s.children,
         \A v \in Win!Windows \ {w} : t.offset[v] = s.offset[v]
  PROVE  /\ Has(t, "frame") => FrameRight(t)
         /\ \A p \in Win!CellsOf("desktop") :
              (Has(s, w) => /\ Win!Minus(p, s.offset[w]) \notin Win!CellsOf(w)
                            /\ Win!Minus(p, t.offset[w]) \notin Win!CellsOf(w)) =>
                t.canvas["desktop"][p] = DesktopShows(t, p)
  <1>1. Typed(s)
    BY DEF Right
  <1>2. Len(s.children) \in Nat
    BY <1>1 DEF Typed
  <1>3. Has(t, "frame") => FrameRight(t)
    BY DEF Right, FrameRight, FrameShows, Has
  <1>4. ASSUME NEW p \in Win!CellsOf("desktop"),
               Has(s, w) => /\ Win!Minus(p, s.offset[w]) \notin Win!CellsOf(w)
                            /\ Win!Minus(p, t.offset[w]) \notin Win!CellsOf(w)
        PROVE  t.canvas["desktop"][p] = DesktopShows(t, p)
    <2>1. ASSUME NEW i \in 1 .. Len(s.children)
          PROVE  /\ Win!Minus(p, t.offset[s.children[i]]) \in Win!CellsOf(s.children[i])
                      <=> Win!Minus(p, s.offset[s.children[i]]) \in Win!CellsOf(s.children[i])
                 /\ Win!Minus(p, s.offset[s.children[i]]) \in Win!CellsOf(s.children[i]) =>
                      Under(t, i, p) = Under(s, i, p)
      <3>1. CASE s.children[i] = w
        <4>1. Has(s, w)
          BY <3>1 DEF Has
        <4>2. QED
          BY <1>4, <3>1, <4>1
      <3>2. CASE s.children[i] # w
        <4>1. s.children[i] \in Win!Windows \ {w}
          BY <1>1, <3>2, NoDesktopAmong DEF Win!Windows
        <4>2. t.offset[s.children[i]] = s.offset[s.children[i]]
          BY <4>1
        <4>3. QED
          BY <4>2 DEF Under
      <3>3. QED
        BY <3>1, <3>2
    <2>2. DesktopShows(t, p) = DesktopShows(s, p)
      BY <1>2, <2>1, SameShown
    <2>3. QED
      BY <2>2 DEF Right, ScreenRight
  <1>5. QED
    BY <1>3, <1>4

LEMMA MovedWindow ==
  ASSUME WindowsGiven, NEW s, Right(s), NEW w \in Win!Movable, NEW o \in Points
  PROVE  LET t == MovedTo(s, w, o)
         IN  Right(IF w \in Win!ToSet(s.children)
                   THEN Win!InvalidateDesktop(Win!InvalidateDesktop(t, Win!Bounds(s, w)),
                                              Win!Bounds(t, w))
                   ELSE t)
  <1> DEFINE t == MovedTo(s, w, o)
             old == Win!Bounds(s, w)
             new == Win!Bounds(t, w)
             u == Win!InvalidateDesktop(t, old)
             v == Win!InvalidateDesktop(u, new)
  <1>1. Typed(s) /\ w \in Win!Windows /\ "desktop" \in Win!Windows
    BY DEF Right, Win!Windows
  <1>2. Win!CellsOf("desktop") \subseteq Points
    BY <1>1, CellsArePoints
  <1>3. /\ Typed(t) /\ t.canvas = s.canvas /\ t.children = s.children
        /\ \A x \in Win!Windows \ {w} : t.offset[x] = s.offset[x]
    BY <1>1, MovedIs
  <1> HIDE DEF t
  <1>4. /\ Has(t, "frame") => FrameRight(t)
        /\ \A p \in Win!CellsOf("desktop") :
              (Has(s, w) => /\ Win!Minus(p, s.offset[w]) \notin Win!CellsOf(w)
                            /\ Win!Minus(p, t.offset[w]) \notin Win!CellsOf(w)) =>
                t.canvas["desktop"][p] = DesktopShows(t, p)
    BY <1>3, MoveLeaves
  <1>5. Has(s, w) <=> w \in Win!ToSet(s.children)
    BY <1>1, HasIsIn
  <1>6. CASE ~Has(s, w)
    <2>1. ScreenRight(t)
      BY <1>4, <1>6 DEF ScreenRight
    <2>2. QED
      BY <1>3, <1>4, <1>5, <1>6, <2>1 DEF Right, t
  <1>7. CASE Has(s, w)
    <2>1. /\ old \in Rects /\ new \in Rects
          /\ \A p \in Win!CellsOf("desktop") :
               /\ Win!Covers(old, p) <=> Win!Minus(p, s.offset[w]) \in Win!CellsOf(w)
               /\ Win!Covers(new, p) <=> Win!Minus(p, t.offset[w]) \in Win!CellsOf(w)
      BY <1>1, <1>2, <1>3, BoundsCover
    <2> HIDE DEF old, new
    <2>2. DesktopDrawn(t, u, old)
      BY <1>3, <2>1, InvalidateDesktopDraws
    <2> HIDE DEF u
    <2>3. \A p : DesktopShows(u, p) = DesktopShows(t, p)
      <3>1. \A i \in 1 .. Len(t.children) : u.canvas[t.children[i]] = t.canvas[t.children[i]]
        <4>1. TAKE i \in 1 .. Len(t.children)
        <4>2. t.children[i] \in Win!Windows \ {"desktop"}
          BY <1>3, NoDesktopAmong DEF Win!Windows
        <4>3. QED
          BY <2>2, <4>2 DEF DesktopDrawn
      <3>2. QED
        BY <1>3, <2>2, <3>1, ShownWithout DEF DesktopDrawn
    <2>4. \A p \in Win!CellsOf("desktop") :
            ~Win!Covers(new, p) => u.canvas["desktop"][p] = DesktopShows(u, p)
      BY <1>4, <2>1, <2>2, <2>3 DEF DesktopDrawn
    <2>5. Typed(u)
      BY <2>2 DEF DesktopDrawn
    <2>6. ScreenRight(v) /\ DesktopDrawn(u, v, new)
      BY <2>1, <2>4, <2>5, DesktopMadeRight, InvalidateDesktopDraws
    <2> HIDE DEF v
    <2>7. Has(v, "frame") => FrameRight(v)
      <3>1. Has(u, "frame") => FrameRight(u)
        BY <1>4, <2>2, FrameLeft DEF DesktopDrawn, Has
      <3>2. QED
        BY <2>6, <3>1, FrameLeft DEF DesktopDrawn, Has
    <2>8. Right(v)
      BY <2>6, <2>7 DEF Right, DesktopDrawn
    <2>9. QED
      BY <1>5, <1>7, <2>8 DEF t, u, v, old, new
  <1>8. QED
    BY <1>6, <1>7

-----------------------------------------------------------------------------
(* The specification                                                       *)

LEMMA WindowsInit == ASSUME WindowsGiven, Win!Init PROVE Right(Win!State)
  <1> DEFINE s == Win!State
  <1>1. /\ s = [canvas |-> canvas, offset |-> offset, children |-> children]
        /\ s.canvas = canvas /\ s.offset = offset /\ s.children = children
    BY DEF Win!State
  <1>2. /\ canvas = [w \in Win!Windows |-> [p \in Win!CellsOf(w) |-> <<w, 0>>]]
        /\ offset = [w \in Win!Windows |-> <<0, 0>>]
        /\ children = <<>>
    BY DEF Win!Init, Win!GetAttr
  <1> HIDE DEF s
  <1>3. \A w \in Win!Windows : canvas[w] = [p \in Win!CellsOf(w) |-> <<w, 0>>]
    BY <1>2
  <1>4. Typed(s)
    <2>1. \A w \in Win!Windows : s.canvas[w] \in [Win!CellsOf(w) -> Attrs]
      <3>1. \A w \in Win!Windows : <<w, 0>> \in Attrs
        BY DEF Attrs
      <3>2. QED
        BY <1>1, <1>3, <3>1
    <2>2. s.offset \in [Win!Windows -> Points] /\ s.offset["client"] = <<0, 0>>
      BY <1>1, <1>2 DEF Points, Win!Windows
    <2>3. s.canvas = [w \in Win!Windows |-> s.canvas[w]]
      <3>1. canvas = [w \in Win!Windows |-> canvas[w]]
        BY <1>2, <1>3
      <3>2. QED
        BY <1>1, <3>1
    <2>4. /\ s = [canvas |-> s.canvas, offset |-> s.offset, children |-> s.children]
          /\ s.children \in Seq(Win!Movable)
          /\ \A i, j \in 1 .. Len(s.children) : s.children[i] = s.children[j] => i = j
      BY <1>1, <1>2
    <2>5. QED
      BY <2>1, <2>2, <2>3, <2>4 DEF Typed
  <1>5. ScreenRight(s)
    <2>1. Len(s.children) = 0
      BY <1>1, <1>2
    <2>2. \A p : DesktopShows(s, p) = <<"desktop", 0>>
      BY <2>1, NextLayer DEF DesktopShows
    <2>3. \A p \in Win!CellsOf("desktop") : s.canvas["desktop"][p] = <<"desktop", 0>>
      BY <1>1, <1>3 DEF Win!Windows
    <2>4. QED
      BY <2>2, <2>3 DEF ScreenRight
  <1>6. ~Has(s, "frame")
    BY <1>1, <1>2 DEF Has
  <1>7. QED
    BY <1>4, <1>5, <1>6 DEF Right, s

(* What the windows become. *)
LEMMA BecomesIs ==
  ASSUME NEW t, Right(t), Win!Becomes(t)
  PROVE  Right(Win!State')
  <1>1. t = [canvas |-> t.canvas, offset |-> t.offset, children |-> t.children]
    BY DEF Right, Typed
  <1>2. Win!State' = t
    BY <1>1 DEF Win!State, Win!Becomes
  <1>3. QED
    BY <1>2

LEMMA WindowsStep ==
  ASSUME WindowsGiven, Right(Win!State), [Win!Next]_(Win!vars)
  PROVE  Right(Win!State')
  <1> DEFINE s == Win!State
  <1>1. /\ Regions \subseteq Rects /\ Offsets \subseteq Points
        /\ Typed(s) /\ s.children = children /\ Win!Movable \subseteq Win!Windows
    BY DEF WindowsGiven, Rects, Points, Right, Win!State, Win!Windows
  <1>2. ASSUME NEW w \in Win!Consoles, NEW r \in Regions, NEW c \in {0, 1}, Win!Draw(w, r, c)
        PROVE  Right(Win!State')
    <2>1. Win!Becomes(IF w = "client" THEN Win!InvalidateClient(DrawOn(s, w, r, c), r)
                      ELSE Win!Invalidate(DrawOn(s, w, r, c), w, r))
      BY <1>2 DEF Win!Draw, DrawOn
    <2> HIDE DEF s
    <2>2. r \in Rects /\ Right(s)
      BY <1>1 DEF s
    <2>3. CASE w = "client"
      <3>1. Right(Win!InvalidateClient(DrawOn(s, "client", r, c), r))
        BY <2>2, DrawClient
      <3>2. QED
        BY <2>1, <2>3, <3>1, BecomesIs
    <2>4. CASE w = "console"
      <3>1. Right(Win!Invalidate(DrawOn(s, "console", r, c), "console", r))
        BY <2>2, DrawConsole
      <3>2. QED
        BY <2>1, <2>4, <3>1, BecomesIs
    <2>5. QED
      BY <2>3, <2>4 DEF Win!Consoles
  <1>3. ASSUME NEW w \in Win!Movable, Win!AddChild(w)
        PROVE  Right(Win!State')
    <2>1. Win!Becomes(Win!Invalidate([s EXCEPT !.children = Append(@, w)], w,
                                     Win!GetDrawBounds(w)))
      BY <1>3 DEF Win!AddChild
    <2>2. ~Has(s, w)
      <3>1. w \notin Win!ToSet(s.children)
        BY <1>1, <1>3 DEF Win!AddChild
      <3>2. QED
        BY <1>1, <3>1, HasIsIn
    <2> HIDE DEF s
    <2>3. Right(s)
      BY DEF s
    <2>4. Right(Win!Invalidate([s EXCEPT !.children = Append(@, w)], w, Win!GetDrawBounds(w)))
      BY <2>2, <2>3, AddedChild
    <2>5. QED
      BY <2>1, <2>4, BecomesIs
  <1>4. ASSUME NEW w \in Win!Movable, Win!RemoveChild(w)
        PROVE  Right(Win!State')
    <2>1. PICK i \in DOMAIN s.children :
            /\ s.children[i] = w
            /\ Win!Becomes(Win!InvalidateDesktop([s EXCEPT !.children = Win!RemoveAt(@, i)],
                                                 Win!Bounds(s, w)))
      BY <1>1, <1>4 DEF Win!RemoveChild
    <2> HIDE DEF s
    <2>2. Right(s)
      BY DEF s
    <2>3. Right(Win!InvalidateDesktop([s EXCEPT !.children = Win!RemoveAt(@, i)],
                                      Win!Bounds(s, w)))
      BY <2>1, <2>2, RemovedChild
    <2>4. QED
      BY <2>1, <2>3, BecomesIs
  <1>5. ASSUME NEW w \in Win!Movable, NEW o \in Offsets, Win!Move(w, o)
        PROVE  Right(Win!State')
    <2> DEFINE t == MovedTo(s, w, o)
               u == IF w \in Win!ToSet(s.children)
                    THEN Win!InvalidateDesktop(Win!InvalidateDesktop(t, Win!Bounds(s, w)),
                                               Win!Bounds(t, w))
                    ELSE t
    <2>1. Win!Becomes(u)
      BY <1>1, <1>5 DEF Win!Move, MovedTo
    <2> HIDE DEF s
    <2>2. o \in Points /\ Right(s)
      BY <1>1 DEF s
    <2>3. Right(u)
      BY <2>2, MovedWindow
    <2> HIDE DEF u
    <2>4. QED
      BY <2>1, <2>3, BecomesIs
  <1>6. ASSUME UNCHANGED Win!vars
        PROVE  Right(Win!State')
    <2>1. Win!State' = Win!State
      BY <1>6 DEF Win!State, Win!vars
    <2>2. QED
      BY <2>1
  <1>7. QED
    BY <1>2, <1>3, <1>4, <1>5, <1>6 DEF Win!Next


(* The invariant says that the screen shows the windows. *)
LEMMA RightMeans ==
  ASSUME WindowsGiven, Right(Win!State)
  PROVE  Win!ScreenShowsWindows
  <1> DEFINE s == Win!State
             n == Len(children)
  <1>1. /\ s.canvas = canvas /\ s.offset = offset /\ s.children = children
        /\ Typed(s) /\ Win!Movable \subseteq Win!Windows /\ "desktop" \in Win!Windows
    BY DEF Win!State, Right, Win!Windows
  <1>2. DOMAIN children = 1 .. n /\ n \in Nat /\ Win!CellsOf("desktop") \subseteq Points
    <2>1. children \in Seq(Win!Movable)
      BY <1>1 DEF Typed
    <2>2. QED
      BY <1>1, <2>1, CellsArePoints
  <1>3. ASSUME NEW p \in Win!CellsOf("desktop")
        PROVE  canvas["desktop"][p] = Win!Shown(p)
    <2> DEFINE on == {i \in DOMAIN children : Win!Covers(Win!Bounds(s, children[i]), p)}
    <2>1. \A i \in 1 .. n : Win!Covers(Win!Bounds(s, children[i]), p)
                              <=> Win!Minus(p, offset[children[i]]) \in Win!CellsOf(children[i])
      <3>1. TAKE i \in 1 .. n
      <3>2. children[i] \in Win!Windows /\ p \in Points
        BY <1>1, <1>2, NoDesktopAmong
      <3>3. Win!Covers(Win!Bounds(s, children[i]), p)
              <=> Win!Minus(p, s.offset[children[i]]) \in Win!CellsOf(children[i])
        <4> HIDE DEF s
        <4>1. QED
          BY <1>1, <3>2, BoundsCover
      <3>4. QED
        BY <1>1, <3>3
    <2>2. on = Covering(s, n, p)
      BY <1>1, <1>2, <2>1 DEF Covering
    <2>3. Win!Shown(p) = IF on = {} THEN <<"desktop", 0>>
                         ELSE canvas[children[Win!Max(on)]]
                                    [Win!Minus(p, offset[children[Win!Max(on)]])]
      BY DEF Win!Shown, Win!GetAttr
    <2> HIDE DEF on
    <2>4. Win!Shown(p) = DesktopShows(s, p)
      <3> HIDE DEF s
      <3>1. QED
        BY <1>1, <2>2, <2>3 DEF DesktopShows, Layer, Under
    <2>5. QED
      BY <1>1, <2>4 DEF Right, ScreenRight
  <1>4. ASSUME Win!CaptionFits, "frame" \in Win!ToSet(children), NEW p \in Win!CellsOf("frame")
        PROVE  canvas["frame"][p] =
                 IF Win!Border(p) THEN Win!Decoration(p)
                 ELSE IF Win!Minus(p, <<1, 1>>) \in Win!CellsOf("client")
                      THEN canvas["client"][Win!Minus(p, <<1, 1>>)] ELSE Win!GetAttr("frame", 0)
    <2>1. Has(s, "frame")
      <3> HIDE DEF s
      <3>1. QED
        BY <1>1, <1>4, HasIsIn
    <2>2. canvas["frame"][p] = FrameShows(s, p)
      BY <1>1, <1>4, <2>1 DEF Right, FrameRight
    <2>3. Win!Decorated(p) <=> Win!Border(p)
      BY <1>4, CaptionInBorder
    <2>4. QED
      BY <1>1, <2>2, <2>3 DEF FrameShows, Win!GetAttr
  <1>5. QED
    BY <1>3, <1>4 DEF Win!ScreenShowsWindows

(* Windows drawn, moved, added and removed in any order, whatever their sizes
   and wherever they stand, keep to their canvases, each child is there once,
   the desktop's canvas shows the topmost child at every cell and an added
   frame its border and its client: the inductive invariant of the drawing in
   Canvas.h and CliWindow.cpp. *)
THEOREM WindowsInvariant == WindowsGiven => (Win!Spec => []Right(Win!State))
  <1>1. WindowsGiven /\ Win!Init => Right(Win!State)
    BY WindowsInit
  <1>2. WindowsGiven /\ Right(Win!State) /\ [Win!Next]_(Win!vars) => Right(Win!State)'
    BY WindowsStep
  <1>3. SUFFICES ASSUME WindowsGiven PROVE Win!Spec => []Right(Win!State)
    OBVIOUS
  <1>4. QED
    BY <1>1, <1>2, <1>3, PTL DEF Win!Spec

(* The screen always shows the windows: no cell is stale after any drawing,
   move, addition or removal (CliWindow::Invalidate, CliPanel::Redraw). *)
THEOREM ScreenAlwaysShowsWindows == WindowsGiven => (Win!Spec => []Win!ScreenShowsWindows)
  <1>1. WindowsGiven /\ Right(Win!State) => Win!ScreenShowsWindows
    BY RightMeans
  <1>2. SUFFICES ASSUME WindowsGiven PROVE Win!Spec => []Win!ScreenShowsWindows
    OBVIOUS
  <1>3. QED
    BY <1>1, <1>2, WindowsInvariant, PTL

=============================================================================
