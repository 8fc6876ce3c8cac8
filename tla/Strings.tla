------------------------------ MODULE Strings -------------------------------
(***************************************************************************)
(* Class String (include/std/String.h, lib/std/String.cpp): objects that   *)
(* share reference-counted data until one of them is changed.  Data lives  *)
(* at addresses malloc hands out; the empty text is one static datum that  *)
(* counts one reference too many and so is never freed.                    *)
(***************************************************************************)
EXTENDS Integers, Sequences, FiniteSets

CONSTANTS Vars,    \* String objects
          Addrs,   \* addresses of RefCountedData
          EMPTY,   \* the address of the static datum
          Texts,   \* C strings that String objects are constructed from
          None,    \* no object, no datum, nothing known
          Word,    \* sizeof(size_t), the unit memcpy copies in
          MaxLen   \* longest text looked at; memory does not run out

VARIABLES mRefData,   \* address of the datum of each object, or None
          heap,       \* the datum at each address: [refcount, text, closed]
          selfAppended \* history: an object that owned its datum was appended to itself

vars == <<mRefData, heap, selfAppended>>

(* `closed' says that the terminator stands behind the text. *)
Datum(n, text) == [refcount |-> n, text |-> text, closed |-> TRUE]

Init ==
  /\ mRefData = [v \in Vars |-> None]
  /\ heap = [a \in Addrs \cup {EMPTY} |-> IF a = EMPTY THEN Datum(1, <<>>) ELSE Datum(0, <<>>)]
  /\ selfAppended = FALSE

Live(v)   == mRefData[v] # None
Ref(v)    == heap[mRefData[v]]
Text(v)   == Ref(v).text
Unused(a) == a # EMPTY /\ heap[a].refcount = 0

(* A reference more or less; what nobody refers to is freed. *)
Up(h, a)   == [h EXCEPT ![a].refcount = @ + 1]
Down(h, a) == [h EXCEPT ![a] = IF h[a].refcount = 1 THEN Datum(0, <<>>)
                               ELSE [h[a] EXCEPT !.refcount = h[a].refcount - 1]]

-----------------------------------------------------------------------------
Construct(v, s) ==
  /\ ~Live(v)
  /\ IF s = <<>>
     THEN /\ mRefData' = [mRefData EXCEPT ![v] = EMPTY]
          /\ heap' = Up(heap, EMPTY)
     ELSE \E a \in Addrs :
            /\ Unused(a)
            /\ mRefData' = [mRefData EXCEPT ![v] = a]
            /\ heap' = [heap EXCEPT ![a] = Datum(1, s)]
  /\ UNCHANGED selfAppended

CopyConstruct(v, w) ==
  /\ ~Live(v) /\ Live(w)
  /\ mRefData' = [mRefData EXCEPT ![v] = mRefData[w]]
  /\ heap' = Up(heap, mRefData[w])
  /\ UNCHANGED selfAppended

Destroy(v) ==
  /\ Live(v)
  /\ mRefData' = [mRefData EXCEPT ![v] = None]
  /\ heap' = Down(heap, mRefData[v])
  /\ UNCHANGED selfAppended

(* Mutant: the datum assigned is not counted. *)
AssignUncounted(v, w) ==
  /\ Live(v) /\ Live(w) /\ v # w
  /\ mRefData' = [mRefData EXCEPT ![v] = mRefData[w]]
  /\ heap' = Down(heap, mRefData[v])
  /\ UNCHANGED selfAppended

Assign(v, w) ==
  /\ Live(v) /\ Live(w) /\ v # w
  /\ mRefData' = [mRefData EXCEPT ![v] = mRefData[w]]
  /\ heap' = Up(Down(heap, mRefData[v]), mRefData[w])
  /\ UNCHANGED selfAppended

(* Mutant: the datum is changed in place although others share it. *)
AppendToShared(v, w) ==
  /\ Live(v) /\ Live(w) /\ v # w
  /\ Text(w) # <<>> /\ Len(Text(v)) + Len(Text(w)) <= MaxLen
  /\ heap' = [heap EXCEPT ![mRefData[v]].text = Text(v) \o Text(w)]
  /\ UNCHANGED <<mRefData, selfAppended>>

(* operator+=: a shared datum is left to the others and the text copied; an own
   one is reallocated, where it is or elsewhere. *)
AppendTo(v, w) ==
  /\ Live(v) /\ Live(w)
  /\ v = w => Ref(v).refcount > 1
  /\ Text(w) # <<>> /\ Len(Text(v)) + Len(Text(w)) <= MaxLen
  /\ \E a \in Addrs :
       /\ Unused(a) \/ (Ref(v).refcount = 1 /\ a = mRefData[v])
       /\ mRefData' = [mRefData EXCEPT ![v] = a]
       /\ heap' = [Down(heap, mRefData[v]) EXCEPT
                     ![a] = [refcount |-> 1, text |-> Text(v) \o Text(w), closed |-> Ref(w).closed]]
  /\ UNCHANGED selfAppended

(* The same of an object to itself that owns its datum: the copy starts at the
   front of the text it lengthens and overwrites the terminator before it gets
   there, unless text and terminator are copied as one word. *)
AppendSelf(v) ==
  /\ Live(v)
  /\ Ref(v).refcount = 1
  /\ Text(v) # <<>> /\ 2 * Len(Text(v)) <= MaxLen
  /\ \E a \in Addrs :
       /\ Unused(a) \/ a = mRefData[v]
       /\ mRefData' = [mRefData EXCEPT ![v] = a]
       /\ heap' = [Down(heap, mRefData[v]) EXCEPT
                     ![a] = [refcount |-> 1, text |-> Text(v) \o Text(v),
                             closed |-> Len(Text(v)) + 1 = Word]]
  /\ selfAppended' = (selfAppended \/ Len(Text(v)) + 1 # Word)

Next ==
  \E v, w \in Vars :
    \/ \E s \in Texts : Construct(v, s)
    \/ CopyConstruct(v, w)
    \/ Destroy(v)
    \/ Assign(v, w)
    \/ AppendTo(v, w)
    \/ AppendSelf(v)

Spec == Init /\ [][Next]_vars

-----------------------------------------------------------------------------
(* Functions of the values.                                                *)

(* Find: the first place at or behind offset, from 0; negative offsets count
   from the end. *)
Index(s, offset) == IF offset < 0 THEN offset + Len(s) ELSE offset

Substring(s, offset, length) ==
  LET from == Index(s, offset)
      to == IF from + length > Len(s) THEN Len(s) ELSE from + length
  IN  IF length = 0 \/ from < 0 \/ from >= Len(s) THEN <<>> ELSE SubSeq(s, from + 1, to)

Find(s, t, offset) ==
  LET from == Index(s, offset)
      places == {i \in from .. Len(s) - Len(t) : SubSeq(s, i + 1, i + Len(t)) = t}
  IN  IF t = <<>> THEN 0
      ELSE IF from < 0 \/ from >= Len(s) \/ places = {} THEN -1
      ELSE CHOOSE i \in places : \A j \in places : i <= j

StartsWith(s, t) == Len(t) <= Len(s) /\ SubSeq(s, 1, Len(t)) = t
EndsWith(s, t)   == Len(t) <= Len(s) /\ SubSeq(s, Len(s) - Len(t) + 1, Len(s)) = t

(* Shorter texts first, then by the first character that differs. *)
Compare(s, t) ==
  LET differ == {i \in DOMAIN s : s[i] # t[i]}
  IN  IF Len(s) # Len(t) THEN (IF Len(s) < Len(t) THEN -1 ELSE 1)
      ELSE IF differ = {} THEN 0
      ELSE LET i == CHOOSE i \in differ : \A j \in differ : i <= j IN s[i] - t[i]

-----------------------------------------------------------------------------
Owners(a) == {v \in Vars : mRefData[v] = a}

(* The count of every datum is the number of objects that refer to it, one more
   for the static datum, so that none is freed under an owner and none is kept
   when the last owner goes; the static datum stays empty; and the terminator
   that C functions look for is there, as long as nobody has appended an object
   to itself. *)
CountsOwners ==
  /\ \A a \in Addrs : heap[a].refcount = Cardinality(Owners(a))
  /\ heap[EMPTY] = Datum(Cardinality(Owners(EMPTY)) + 1, <<>>)
  /\ ~selfAppended => \A v \in Vars : Live(v) => Ref(v).closed

(* Objects that share data behave as values: the other one never changes. *)
Values == INSTANCE StringValues WITH
            value <- [v \in Vars |-> IF Live(v) THEN Text(v) ELSE None]
ValuesSpec == Values!Spec

(* The functions of values agree with one another: comparing is an order that
   is 0 for equal texts only; a text starts with, ends with and contains just
   what Substring takes out of it there, counted from either end. *)
OperationsAgree ==
  \A v, w \in {v \in Vars : Live(v)} :
    LET s == Text(v)
        t == Text(w)
    IN  /\ Compare(s, t) = 0 <=> s = t
        /\ Compare(s, t) < 0 <=> Compare(t, s) > 0
        /\ \A u \in Vars : Live(u) /\ Compare(s, t) <= 0 /\ Compare(t, Text(u)) <= 0 =>
                              Compare(s, Text(u)) <= 0
        /\ t # <<>> =>
             /\ StartsWith(s, t) <=> Substring(s, 0, Len(t)) = t
             /\ EndsWith(s, t) <=> Substring(s, -Len(t), Len(t)) = t
             /\ \A offset \in -Len(s) .. Len(s) - 1 :
                  LET at == Find(s, t, offset)
                  IN  /\ at >= 0 => /\ at >= Index(s, offset)
                                    /\ StartsWith(Substring(s, at, Len(s)), t)
                      /\ at < 0 => ~EndsWith(s, t) \/ Len(s) - Len(t) < Index(s, offset)

=============================================================================
