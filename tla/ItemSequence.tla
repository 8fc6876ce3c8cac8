---------------------------- MODULE ItemSequence ----------------------------
(***************************************************************************)
(* What the users of List (include/std/List.h) rely on: a sequence of      *)
(* items and a position in it, 0 standing for the end, which lies before   *)
(* the first item as well as behind the last.                              *)
(***************************************************************************)
EXTENDS Integers, Sequences, SequencesExt, FiniteSetsExt

CONSTANT Items

VARIABLES items, at

Init == items = <<>> /\ at = 0

Insert(x, i, pos) == items' = InsertAt(items, i, x) /\ at' = pos

Behind(x) == Insert(x, at + 1, at + 1)
Before(x) == LET i == IF at = 0 THEN Len(items) + 1 ELSE at IN Insert(x, i, i)

AtBack(x)  == Insert(x, Len(items) + 1, at)
AtFront(x) == Insert(x, 1, IF at = 0 THEN 0 ELSE at + 1)

RemoveItem(i, pos) == i \in DOMAIN items /\ items' = RemoveAt(items, i) /\ at' = pos

Move == items' = items /\ at' \in {(at + 1) % (Len(items) + 1), (at - 1) % (Len(items) + 1)}

Search(x) ==
  LET found == {i \in DOMAIN items : items[i] = x}
  IN  items' = items /\ at' \in IF found = {} THEN {0} ELSE {Min(found), Max(found)}

Exchange(i, pos) ==
  /\ at # 0 /\ i \in DOMAIN items
  /\ items' = [items EXCEPT ![at] = items[i], ![i] = items[at]]
  /\ at' = pos

Turn == items' = Reverse(items) /\ at' = IF at = 0 THEN 0 ELSE Len(items) + 1 - at

Clear == items' = <<>> /\ at' = 0

Next ==
  \/ \E x \in Items : Behind(x) \/ Before(x) \/ AtBack(x) \/ AtFront(x) \/ Search(x)
  \/ RemoveItem(at, at - 1)
  \/ at # 1 /\ RemoveItem(1, IF at = 0 THEN 0 ELSE at - 1)
  \/ at # Len(items) /\ RemoveItem(Len(items), at)
  \/ \E i \in DOMAIN items : \E pos \in {at, i} : Exchange(i, pos)
  \/ Move \/ Turn \/ Clear

Spec == Init /\ [][Next]_<<items, at>>

=============================================================================
