------------------------------- MODULE Lists --------------------------------
(***************************************************************************)
(* The doubly linked list (include/std/List.h) and one iterator that its   *)
(* user holds.  The head is a node without data in the ring: its mFirst    *)
(* and mLast lie where a node has mNext and mPrev.                         *)
(***************************************************************************)
EXTENDS Integers, Sequences, SequencesExt, FiniteSets

CONSTANTS Nodes,   \* addresses of nodes; new finds one as long as there is one
          mHead,    \* the address of mHead
          Items,   \* data
          NoItem   \* the data the head has not got

VARIABLES next, prev, data,  \* mNext, mPrev and mData of every address
          mCount,
          it                 \* the node the user's iterator points to

vars == <<next, prev, data, mCount, it>>

Addresses == Nodes \cup {mHead}
Linked == {n \in Nodes : data[n] # NoItem}
Unused == Nodes \ Linked

Init ==
  /\ next = [n \in Addresses |-> mHead] /\ prev = [n \in Addresses |-> mHead]
  /\ data = [n \in Addresses |-> NoItem]
  /\ mCount = 0 /\ it = mHead

(* A new node between two that are neighbours. *)
Link(node, item, before, behind) ==
  /\ data' = [data EXCEPT ![node] = item]
  /\ next' = [next EXCEPT ![before] = node, ![node] = behind]
  /\ prev' = [prev EXCEPT ![behind] = node, ![node] = before]
  /\ mCount' = mCount + 1

(* Mutant: the node behind the removed one keeps its way back. *)
UnlinkOneWay(node) ==
  /\ data' = [data EXCEPT ![node] = NoItem]
  /\ next' = [next EXCEPT ![prev[node]] = next[node], ![node] = mHead]
  /\ prev' = [prev EXCEPT ![node] = mHead]
  /\ mCount' = mCount - 1

Unlink(node) ==
  /\ data' = [data EXCEPT ![node] = NoItem]
  /\ next' = [next EXCEPT ![prev[node]] = next[node], ![node] = mHead]
  /\ prev' = [prev EXCEPT ![next[node]] = prev[node], ![node] = mHead]
  /\ mCount' = mCount - 1

-----------------------------------------------------------------------------
AppendItem(item) ==
  \E node \in Unused : Link(node, item, prev[mHead], mHead) /\ UNCHANGED it

Prepend(item) ==
  \E node \in Unused : Link(node, item, mHead, next[mHead]) /\ UNCHANGED it

(* At the end, InsertAfter puts an item in front and InsertBefore behind all. *)
InsertAfter(item) ==
  \E node \in Unused : Link(node, item, it, next[it]) /\ it' = node

InsertBefore(item) ==
  \E node \in Unused : Link(node, item, prev[it], it) /\ it' = node

(* The iterator goes back one, to the end if the first item is removed. *)
RemoveItem == it # mHead /\ Unlink(it) /\ it' = prev[it]

(* Users take care not to hold an iterator to what they pop. *)
PopFront == mCount > 0 /\ it # next[mHead] /\ Unlink(next[mHead]) /\ UNCHANGED it

PopBack == mCount > 0 /\ it # prev[mHead] /\ Unlink(prev[mHead]) /\ UNCHANGED it

Forward  == it' = next[it] /\ UNCHANGED <<next, prev, data, mCount>>
Backward == it' = prev[it] /\ UNCHANGED <<next, prev, data, mCount>>

(* Walks from a node along a link until the item or the end is found. *)
Walk(from, link, Stop(_)) ==
  LET node[i \in 0 .. Cardinality(Nodes)] ==
        IF i = 0 THEN from
        ELSE IF node[i - 1] = mHead \/ Stop(node[i - 1]) THEN node[i - 1] ELSE link[node[i - 1]]
  IN  node[Cardinality(Nodes)]

FindAfter(from, item)  == Walk(from, next, LAMBDA n : data[n] = item)
FindBefore(from, item) == Walk(from, prev, LAMBDA n : data[n] = item)

(* From the first item on, or from the last one back. *)
Find(item) ==
  /\ it' \in {FindAfter(next[mHead], item), FindBefore(prev[mHead], item)}
  /\ UNCHANGED <<next, prev, data, mCount>>

(* SwapLinks writes through the neighbours before it exchanges the links, one
   after the other: nodes side by side end up linked to themselves, so only
   others can be swapped. *)
SwapLinks(b) ==
  /\ it # mHead /\ b \in Linked /\ b \notin {next[it], prev[it]}
  /\ LET a == it
         n == [next EXCEPT ![prev[a]] = b, ![prev[b]] = a]
         p == [prev EXCEPT ![next[a]] = b, ![next[b]] = a]
     IN  /\ next' = [n EXCEPT ![a] = n[b], ![b] = n[a]]
         /\ prev' = [p EXCEPT ![a] = p[b], ![b] = p[a]]
  /\ UNCHANGED <<data, mCount, it>>

SwapValues(b) ==
  /\ it # mHead /\ b \in Linked
  /\ data' = [data EXCEPT ![it] = data[b], ![b] = data[it]]
  /\ UNCHANGED <<next, prev, mCount, it>>

(* Both links of every node, and of the head, are exchanged. *)
ReverseAll == next' = prev /\ prev' = next /\ UNCHANGED <<data, mCount, it>>

(* Also what assigning a list to itself does: it is cleared before it is
   copied.  No iterator survives. *)
Clear ==
  /\ next' = [n \in Addresses |-> mHead] /\ prev' = [n \in Addresses |-> mHead]
  /\ data' = [n \in Addresses |-> NoItem]
  /\ mCount' = 0 /\ it' = mHead

Next ==
  \/ \E item \in Items : AppendItem(item) \/ Prepend(item) \/ InsertAfter(item)
                         \/ InsertBefore(item) \/ Find(item)
  \/ \E b \in Nodes : SwapLinks(b) \/ SwapValues(b)
  \/ RemoveItem \/ PopFront \/ PopBack \/ Forward \/ Backward \/ ReverseAll \/ Clear

Spec == Init /\ [][Next]_vars

-----------------------------------------------------------------------------
(* The nodes met on the way from the head along a link. *)
Way(link) ==
  LET way[i \in 0 .. Cardinality(Nodes)] ==
        IF i = 0 THEN <<link[mHead]>>
        ELSE IF Last(way[i - 1]) = mHead THEN way[i - 1]
        ELSE Append(way[i - 1], link[Last(way[i - 1])])
  IN  Front(way[Cardinality(Nodes)])

(* Every operation does to the items, read along mNext, what it does to a
   sequence, and the way back along mPrev is the way forth reversed; mCount
   counts the items. *)
Abstract == INSTANCE ItemSequence WITH
              items <- [i \in DOMAIN Way(next) |-> data[Way(next)[i]]],
              at <- IF it = mHead THEN 0 ELSE SelectInSeq(Way(next), LAMBDA n : n = it)
IsSequence == Abstract!Spec /\ [](Way(prev) = Reverse(Way(next)) /\ mCount = Len(Way(next)))

=============================================================================
