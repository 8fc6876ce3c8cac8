---------------------------- MODULE ListsProofs -----------------------------
(***************************************************************************)
(* The doubly linked list, for any set of nodes and items: the nodes form  *)
(* one ring whose two directions agree, and every operation does to the    *)
(* items what it does to a sequence (module ItemSequence).  And the        *)
(* containers of a fixed size, for any size and items.                     *)
(***************************************************************************)
EXTENDS Lists, FiniteSetTheorems, SequenceTheorems, WellFoundedInduction, TLAPS

CONSTANTS SIZE, QTY, BITS_PER_ITEM, INT_BITS, Bits, MaxCalls  \* Containers
VARIABLES cells, count, list,                               \* Array
          words, set, stack, top, used,                     \* BitArray, Pool
          buffer, filled, processed, handed                 \* ActBuffer

(* Both modules have data: the array's is called cells. *)
Box == INSTANCE Containers WITH data <- cells

(* The head is no node, and no item is taken for the lack of one. *)
ListPremise == IsFiniteSet(Nodes) /\ mHead \notin Nodes /\ NoItem \notin Items

(* The i-th node of w, counting the head in front of the first and behind the
   last one. *)
Place(w, i) == IF i \in 1 .. Len(w) THEN w[i] ELSE mHead

(* Two elements of w exchanged. *)
Swap(w, a, b) == [w EXCEPT ![a] = w[b], ![b] = w[a]]

(* The links nx lead from the head through the nodes of w and back. *)
Leads(w, nx) == \A i \in 0 .. Len(w) : nx[Place(w, i)] = Place(w, i + 1)

(* A sequence of different nodes. *)
Order(w) == w \in Seq(Nodes) /\ \A i, j \in 1 .. Len(w) : w[i] = w[j] => i = j

Ring(w, nx, pv) ==
  /\ Order(w)
  /\ nx \in [Addresses -> Addresses] /\ pv \in [Addresses -> Addresses]
  /\ Leads(w, nx)
  /\ \A i \in 0 .. Len(w) : pv[Place(w, i + 1)] = Place(w, i)

(* The nodes of w, and no others, have data. *)
Holds(w, da) ==
  /\ da \in [Addresses -> Items \cup {NoItem}]
  /\ da[mHead] = NoItem
  /\ \A n \in Nodes : da[n] # NoItem <=> \E i \in 1 .. Len(w) : w[i] = n

(* The list is in the order w, and its user's iterator at the k-th place. *)
Listed(w, k) ==
  /\ Ring(w, next, prev) /\ Holds(w, data)
  /\ mCount = Len(w)
  /\ k \in 0 .. Len(w) /\ it = Place(w, k)

(* What the map makes of the list (IsSequence): its items and the place. *)
ItemsAlong(link, da) == [i \in DOMAIN Way(link) |-> da[Way(link)[i]]]
AtAlong(link, p) == IF p = mHead THEN 0 ELSE SelectInSeq(Way(link), LAMBDA n : n = p)

(* The inductive invariant. *)
IInv == Listed(Way(next), AtAlong(next, it))

-----------------------------------------------------------------------------
(* Sequences                                                               *)

(* What inserting does to the elements of a sequence. *)
LEMMA Inserted ==
  ASSUME NEW S, NEW s \in Seq(S), NEW k \in 1 .. Len(s) + 1, NEW e \in S
  PROVE  /\ InsertAt(s, k, e) \in Seq(S)
         /\ Len(InsertAt(s, k, e)) = Len(s) + 1
         /\ \A j \in 1 .. Len(s) + 1 :
              InsertAt(s, k, e)[j] = IF j < k THEN s[j] ELSE IF j = k THEN e ELSE s[j - 1]
  <1> DEFINE n == Len(s)
             a == SubSeq(s, 1, k - 1)
             b == SubSeq(s, k, n)
  <1>1. n \in Nat /\ k \in Int /\ k >= 1 /\ k <= n + 1
    OBVIOUS
  <1>2. /\ a \in Seq(S) /\ Len(a) = k - 1
        /\ \A i \in 1 .. k - 1 : a[i] = s[i]
    <2>1. \A i \in 1 .. k - 1 : s[i] \in S
      BY <1>1
    <2>2. /\ a \in Seq(S) /\ Len(a) = IF 1 <= k - 1 THEN (k - 1) - 1 + 1 ELSE 0
          /\ \A i \in 1 .. (k - 1) - 1 + 1 : a[i] = s[1 + i - 1]
      BY <1>1, <2>1, SubSeqProperties
    <2>3. QED
      BY <1>1, <2>2
  <1>3. /\ b \in Seq(S) /\ Len(b) = n - k + 1
        /\ \A i \in 1 .. n - k + 1 : b[i] = s[k + i - 1]
    <2>1. \A i \in k .. n : s[i] \in S
      BY <1>1
    <2>2. /\ b \in Seq(S) /\ Len(b) = IF k <= n THEN n - k + 1 ELSE 0
          /\ \A i \in 1 .. n - k + 1 : b[i] = s[k + i - 1]
      BY <1>1, <2>1, SubSeqProperties
    <2>3. QED
      BY <1>1, <2>2
  <1>4. <<e>> \in Seq(S) /\ Len(<<e>>) = 1 /\ <<e>>[1] = e
    OBVIOUS
  <1> HIDE DEF a, b, n
  <1>5. /\ a \o <<e>> \in Seq(S) /\ Len(a \o <<e>>) = k
        /\ \A i \in 1 .. k : (a \o <<e>>)[i] = IF i < k THEN s[i] ELSE e
    <2>1. /\ a \o <<e>> \in Seq(S) /\ Len(a \o <<e>>) = Len(a) + Len(<<e>>)
          /\ \A i \in 1 .. Len(a) + Len(<<e>>) : (a \o <<e>>)[i] =
                IF i <= Len(a) THEN a[i] ELSE <<e>>[i - Len(a)]
      BY <1>2, <1>4, ConcatProperties
    <2>2. Len(a) + Len(<<e>>) = k
      BY <1>1, <1>2, <1>4
    <2>3. \A i \in 1 .. k : IF i <= Len(a) THEN i < k ELSE i = k /\ i - Len(a) = 1
      BY <1>1, <1>2
    <2>4. QED
      BY <1>1, <1>2, <1>4, <2>1, <2>2, <2>3
  <1> DEFINE d == a \o <<e>>
  <1>6. d \in Seq(S) /\ Len(d) = k /\ \A i \in 1 .. k : d[i] = IF i < k THEN s[i] ELSE e
    BY <1>5
  <1> HIDE DEF d
  <1> DEFINE c == d \o b
  <1>7. /\ c \in Seq(S) /\ Len(c) = n + 1
        /\ \A j \in 1 .. n + 1 : c[j] = IF j <= k THEN d[j] ELSE b[j - k]
    <2>1. /\ c \in Seq(S) /\ Len(c) = Len(d) + Len(b)
          /\ \A j \in 1 .. Len(d) + Len(b) : c[j] = IF j <= Len(d) THEN d[j] ELSE b[j - Len(d)]
      BY <1>3, <1>6, ConcatProperties
    <2> HIDE DEF c
    <2>2. Len(d) + Len(b) = n + 1
      BY <1>1, <1>3, <1>6
    <2>3. QED
      BY <1>6, <2>1, <2>2
  <1> HIDE DEF c
  <1>8. ASSUME NEW j \in 1 .. n + 1
        PROVE  c[j] = IF j < k THEN s[j] ELSE IF j = k THEN e ELSE s[j - 1]
    <2>1. CASE j <= k
      BY <1>1, <1>6, <1>7, <2>1
    <2>2. CASE j > k
      <3>1. j - k \in 1 .. n - k + 1 /\ k + (j - k) - 1 = j - 1
        BY <1>1, <2>2
      <3>2. c[j] = b[j - k]
        BY <1>1, <1>7, <2>2
      <3>3. b[j - k] = s[j - 1]
        BY <1>3, <3>1
      <3>4. QED
        BY <1>1, <2>2, <3>2, <3>3
    <2>3. QED
      BY <1>1, <2>1, <2>2
  <1>9. QED
    BY <1>7, <1>8 DEF InsertAt, a, b, c, d, n

(* What removing does. *)
LEMMA Removed ==
  ASSUME NEW S, NEW s \in Seq(S), NEW k \in 1 .. Len(s)
  PROVE  /\ RemoveAt(s, k) \in Seq(S)
         /\ Len(RemoveAt(s, k)) = Len(s) - 1
         /\ \A j \in 1 .. Len(s) - 1 : RemoveAt(s, k)[j] = IF j < k THEN s[j] ELSE s[j + 1]
  <1> DEFINE n == Len(s)
             a == SubSeq(s, 1, k - 1)
             b == SubSeq(s, k + 1, n)
  <1>1. n \in Nat /\ k \in Int /\ k >= 1 /\ k <= n
    OBVIOUS
  <1>2. /\ a \in Seq(S) /\ Len(a) = k - 1
        /\ \A i \in 1 .. k - 1 : a[i] = s[i]
    <2>1. \A i \in 1 .. k - 1 : s[i] \in S
      BY <1>1
    <2>2. /\ a \in Seq(S) /\ Len(a) = IF 1 <= k - 1 THEN (k - 1) - 1 + 1 ELSE 0
          /\ \A i \in 1 .. (k - 1) - 1 + 1 : a[i] = s[1 + i - 1]
      BY <1>1, <2>1, SubSeqProperties
    <2>3. QED
      BY <1>1, <2>2
  <1>3. /\ b \in Seq(S) /\ Len(b) = n - k
        /\ \A i \in 1 .. n - k : b[i] = s[k + i]
    <2>1. \A i \in k + 1 .. n : s[i] \in S
      BY <1>1
    <2>2. /\ b \in Seq(S) /\ Len(b) = IF k + 1 <= n THEN n - (k + 1) + 1 ELSE 0
          /\ \A i \in 1 .. n - (k + 1) + 1 : b[i] = s[(k + 1) + i - 1]
      BY <1>1, <2>1, SubSeqProperties
    <2>3. QED
      BY <1>1, <2>2
  <1> HIDE DEF a, b, n
  <1>4. /\ a \o b \in Seq(S) /\ Len(a \o b) = n - 1
        /\ \A j \in 1 .. n - 1 : (a \o b)[j] = IF j <= k - 1 THEN a[j] ELSE b[j - (k - 1)]
    <2>1. /\ a \o b \in Seq(S) /\ Len(a \o b) = Len(a) + Len(b)
          /\ \A j \in 1 .. Len(a) + Len(b) : (a \o b)[j] =
                IF j <= Len(a) THEN a[j] ELSE b[j - Len(a)]
      BY <1>2, <1>3, ConcatProperties
    <2>2. Len(a) + Len(b) = n - 1
      BY <1>1, <1>2, <1>3
    <2>3. QED
      BY <1>2, <2>1, <2>2
  <1> DEFINE c == a \o b
  <1>5. ASSUME NEW j \in 1 .. n - 1
        PROVE  c[j] = IF j < k THEN s[j] ELSE s[j + 1]
    <2>0. c[j] = IF j <= k - 1 THEN a[j] ELSE b[j - (k - 1)]
      BY <1>4
    <2> HIDE DEF c
    <2>1. CASE j < k
      BY <1>1, <1>2, <2>0, <2>1
    <2>2. CASE j >= k
      <3>1. j - (k - 1) \in 1 .. n - k /\ k + (j - (k - 1)) = j + 1 /\ ~(j <= k - 1)
        BY <1>1, <2>2
      <3>2. QED
        BY <1>1, <1>3, <2>0, <2>2, <3>1
    <2>3. QED
      BY <1>1, <2>1, <2>2
  <1>6. QED
    BY <1>4, <1>5 DEF RemoveAt, a, b, n

(* What turning round does. *)
LEMMA Reversed ==
  ASSUME NEW S, NEW s \in Seq(S)
  PROVE  /\ Reverse(s) \in Seq(S) /\ Len(Reverse(s)) = Len(s)
         /\ \A j \in 1 .. Len(s) : Reverse(s)[j] = s[Len(s) + 1 - j]
  <1>1. \A j \in 1 .. Len(s) : (Len(s) - j) + 1 \in 1 .. Len(s) /\ (Len(s) - j) + 1 = Len(s) + 1 - j
    OBVIOUS
  <1>2. QED
    BY <1>1 DEF Reverse

(* What exchanging two elements does. *)
LEMMA Exchanged ==
  ASSUME NEW S, NEW s \in Seq(S), NEW a \in 1 .. Len(s), NEW b \in 1 .. Len(s)
  PROVE  /\ Swap(s, a, b) \in Seq(S) /\ Len(Swap(s, a, b)) = Len(s)
         /\ \A j \in 1 .. Len(s) :
              Swap(s, a, b)[j] = IF j = a THEN s[b] ELSE IF j = b THEN s[a] ELSE s[j]
  <1> DEFINE u == [s EXCEPT ![a] = s[b]]
             t == [u EXCEPT ![b] = s[a]]
  <1>1. /\ u \in Seq(S) /\ Len(u) = Len(s)
        /\ \A j \in 1 .. Len(s) : u[j] = IF j = a THEN s[b] ELSE s[j]
    BY ExceptSeq
  <1>2. /\ t \in Seq(S) /\ Len(t) = Len(s)
        /\ \A j \in 1 .. Len(s) : t[j] = IF j = b THEN s[a] ELSE u[j]
    <2> HIDE DEF u
    <2>1. QED
      BY <1>1, ExceptSeq
  <1>3. t = Swap(s, a, b)
    BY DEF Swap
  <1> HIDE DEF t, u
  <1>4. ASSUME NEW j \in 1 .. Len(s)
        PROVE  t[j] = IF j = a THEN s[b] ELSE IF j = b THEN s[a] ELSE s[j]
    BY <1>1, <1>2
  <1>5. QED
    BY <1>2, <1>3, <1>4

-----------------------------------------------------------------------------
(* Places                                                                  *)

(* The head and the nodes of an order are different places. *)
LEMMA PlacesDiffer ==
  ASSUME ListPremise, NEW w, Order(w)
  PROVE  /\ Len(w) \in Nat
         /\ Place(w, 0) = mHead /\ Place(w, Len(w) + 1) = mHead
         /\ \A i \in Int : Place(w, i) \in Addresses
         /\ \A i \in 1 .. Len(w) : Place(w, i) = w[i] /\ w[i] \in Nodes /\ w[i] # mHead
         /\ \A i, j \in 0 .. Len(w) : Place(w, i) = Place(w, j) => i = j
         /\ \A i, j \in 1 .. Len(w) + 1 : Place(w, i) = Place(w, j) => i = j
  <1>1. /\ Len(w) \in Nat
        /\ \A i \in 1 .. Len(w) : Place(w, i) = w[i] /\ w[i] \in Nodes /\ w[i] # mHead
    BY DEF ListPremise, Order, Place
  <1>2. \A i \in Int : i \notin 1 .. Len(w) => Place(w, i) = mHead
    BY DEF Place
  <1>3. \A i, j \in 1 .. Len(w) : w[i] = w[j] => i = j
    BY DEF Order
  <1>4. Place(w, 0) = mHead /\ Place(w, Len(w) + 1) = mHead
    BY <1>1, <1>2
  <1>5. \A i \in Int : Place(w, i) \in Addresses
    BY <1>1, <1>2 DEF Addresses
  <1>6. ASSUME NEW i \in 0 .. Len(w), NEW j \in 0 .. Len(w), Place(w, i) = Place(w, j) PROVE i = j
    BY <1>1, <1>3, <1>4, <1>6
  <1>7. ASSUME NEW i \in 1 .. Len(w) + 1, NEW j \in 1 .. Len(w) + 1, Place(w, i) = Place(w, j)
        PROVE  i = j
    BY <1>1, <1>3, <1>4, <1>7
  <1>8. QED
    BY <1>1, <1>4, <1>5, <1>6, <1>7

(* The places after a node was inserted. *)
LEMMA PlacesInserted ==
  ASSUME ListPremise, NEW w, Order(w), NEW k \in 1 .. Len(w) + 1,
         NEW node \in Nodes, \A i \in 1 .. Len(w) : w[i] # node
  PROVE  /\ Order(InsertAt(w, k, node)) /\ Len(InsertAt(w, k, node)) = Len(w) + 1
         /\ \A j \in 0 .. Len(w) + 2 : Place(InsertAt(w, k, node), j) =
              IF j < k THEN Place(w, j) ELSE IF j = k THEN node ELSE Place(w, j - 1)
         /\ \A j \in Int : Place(w, j) # node
  <1> DEFINE v == InsertAt(w, k, node)
             n == Len(w)
  <1>1. /\ v \in Seq(Nodes) /\ Len(v) = n + 1
        /\ \A j \in 1 .. n + 1 : v[j] = IF j < k THEN w[j] ELSE IF j = k THEN node ELSE w[j - 1]
    <2>1. w \in Seq(Nodes)
      BY DEF Order
    <2>2. /\ InsertAt(w, k, node) \in Seq(Nodes)
          /\ Len(InsertAt(w, k, node)) = Len(w) + 1
          /\ \A j \in 1 .. Len(w) + 1 : InsertAt(w, k, node)[j] =
               IF j < k THEN w[j] ELSE IF j = k THEN node ELSE w[j - 1]
      BY <2>1, Inserted, SMTT(60)
    <2>3. QED
      BY <2>2
  <1> HIDE DEF v
  <1>2. n \in Nat /\ \A i, j \in 1 .. n : w[i] = w[j] => i = j
    BY DEF Order
  <1>3. ASSUME NEW i \in 1 .. n + 1, NEW j \in 1 .. n + 1, v[i] = v[j] PROVE i = j
    <2>1. \A x \in 1 .. n + 1 : x < k => x \in 1 .. n /\ v[x] = w[x] /\ v[x] # node
      BY <1>1, <1>2
    <2>2. v[k] = node
      BY <1>1
    <2>3. ASSUME NEW x \in 1 .. n + 1, x > k
          PROVE  x - 1 \in 1 .. n /\ v[x] = w[x - 1] /\ v[x] # node
      <3>1. x - 1 \in 1 .. n
        BY <1>2, <2>3
      <3>2. v[x] = w[x - 1]
        BY <1>1, <2>3
      <3>3. QED
        BY <3>1, <3>2
    <2>4. \A x, y \in 1 .. n + 1 : x < k /\ y > k => v[x] # v[y]
      BY <1>2, <2>1, <2>3
    <2>5. CASE i < k /\ j < k
      BY <1>2, <1>3, <2>1, <2>5
    <2>6. CASE i > k /\ j > k
      <3>1. i - 1 = j - 1
        BY <1>2, <1>3, <2>3, <2>6
      <3>2. QED
        BY <3>1
    <2>7. CASE i = k \/ j = k
      BY <1>3, <2>1, <2>2, <2>3, <2>7
    <2>8. QED
      BY <1>3, <2>4, <2>5, <2>6, <2>7
  <1>4. ASSUME NEW j \in 0 .. n + 2
        PROVE  Place(v, j) = IF j < k THEN Place(w, j) ELSE IF j = k THEN node ELSE Place(w, j - 1)
    <2>1. CASE j \in 1 .. n + 1
      <3>1. Place(v, j) = v[j]
        BY <1>1, <2>1 DEF Place
      <3>2. j < k => j \in 1 .. n /\ Place(w, j) = w[j]
        BY <1>2, <2>1 DEF Place
      <3>3. j > k => j - 1 \in 1 .. n /\ Place(w, j - 1) = w[j - 1]
        BY <1>2, <2>1 DEF Place
      <3>4. QED
        BY <1>1, <1>2, <2>1, <3>1, <3>2, <3>3
    <2>2. CASE j = 0
      BY <1>1, <1>2, <2>2 DEF Place
    <2>3. CASE j = n + 2
      <3>1. ~(j < k) /\ j # k /\ j \notin 1 .. n + 1 /\ j - 1 \notin 1 .. n
        BY <1>2, <2>3
      <3>2. QED
        BY <1>1, <3>1 DEF Place
    <2>4. QED
      BY <1>2, <2>1, <2>2, <2>3
  <1>5. \A j \in Int : Place(w, j) # node
    BY DEF Place, ListPremise
  <1>6. QED
    BY <1>1, <1>3, <1>4, <1>5 DEF v, Order

(* The places after a node was removed. *)
LEMMA PlacesRemoved ==
  ASSUME ListPremise, NEW w, Order(w), NEW k \in 1 .. Len(w)
  PROVE  /\ Order(RemoveAt(w, k)) /\ Len(RemoveAt(w, k)) = Len(w) - 1
         /\ \A j \in 0 .. Len(w) : Place(RemoveAt(w, k), j) =
              IF j < k THEN Place(w, j) ELSE Place(w, j + 1)
         /\ \A i \in 1 .. Len(w) - 1 : RemoveAt(w, k)[i] # w[k]
         /\ \A i \in 1 .. Len(w) : w[i] # w[k] =>
              \E j \in 1 .. Len(w) - 1 : RemoveAt(w, k)[j] = w[i]
  <1> DEFINE v == RemoveAt(w, k)
             n == Len(w)
  <1>1. /\ v \in Seq(Nodes) /\ Len(v) = n - 1
        /\ \A j \in 1 .. n - 1 : v[j] = IF j < k THEN w[j] ELSE w[j + 1]
    BY Removed DEF Order
  <1> HIDE DEF v
  <1>2. n \in Nat /\ \A i, j \in 1 .. n : w[i] = w[j] => i = j
    BY DEF Order
  <1>3. ASSUME NEW i \in 1 .. n - 1, NEW j \in 1 .. n - 1, v[i] = v[j] PROVE i = j
    BY <1>1, <1>2, <1>3
  <1>4. ASSUME NEW j \in 0 .. n PROVE Place(v, j) = IF j < k THEN Place(w, j) ELSE Place(w, j + 1)
    <2>1. CASE j \in 1 .. n - 1
      <3>1. Place(v, j) = v[j] /\ Place(w, j) = w[j] /\ Place(w, j + 1) = w[j + 1]
        BY <1>1, <1>2, <2>1 DEF Place
      <3>2. QED
        BY <1>1, <2>1, <3>1
    <2>2. CASE j = 0
      BY <1>1, <1>2, <2>2 DEF Place
    <2>3. CASE j = n /\ j # 0
      <3>1. ~(j < k) /\ j \notin 1 .. n - 1 /\ j + 1 \notin 1 .. n
        BY <1>2, <2>3
      <3>2. QED
        BY <1>1, <3>1 DEF Place
    <2>4. QED
      BY <1>2, <2>1, <2>2, <2>3
  <1>5. \A i \in 1 .. n - 1 : v[i] # w[k]
    BY <1>1, <1>2
  <1>6. ASSUME NEW i \in 1 .. n, w[i] # w[k] PROVE \E j \in 1 .. n - 1 : v[j] = w[i]
    <2>1. CASE i < k
      <3>1. i \in 1 .. n - 1 /\ v[i] = w[i]
        BY <1>1, <1>2, <2>1
      <3>2. QED
        BY <3>1
    <2>2. CASE i > k
      <3>1. i - 1 \in 1 .. n - 1 /\ v[i - 1] = w[(i - 1) + 1] /\ (i - 1) + 1 = i
        BY <1>1, <1>2, <2>2
      <3>2. QED
        BY <3>1
    <2>3. QED
      BY <1>2, <1>6, <2>1, <2>2
  <1>7. QED
    BY <1>1, <1>3, <1>4, <1>5, <1>6 DEF v, Order

(* The places when everything is turned round. *)
LEMMA PlacesReversed ==
  ASSUME ListPremise, NEW w, Order(w)
  PROVE  /\ Order(Reverse(w)) /\ Len(Reverse(w)) = Len(w)
         /\ \A j \in 0 .. Len(w) + 1 : Place(Reverse(w), j) = Place(w, Len(w) + 1 - j)
  <1> DEFINE v == Reverse(w)
             n == Len(w)
  <1>1. v \in Seq(Nodes) /\ Len(v) = n /\ \A j \in 1 .. n : v[j] = w[n + 1 - j]
    BY Reversed DEF Order
  <1> HIDE DEF v
  <1>2. n \in Nat /\ \A i, j \in 1 .. n : w[i] = w[j] => i = j
    BY DEF Order
  <1>3. \A j \in 1 .. n : n + 1 - j \in 1 .. n
    BY <1>2
  <1>4. ASSUME NEW i \in 1 .. n, NEW j \in 1 .. n, v[i] = v[j] PROVE i = j
    <2>1. n + 1 - i = n + 1 - j
      BY <1>1, <1>2, <1>3, <1>4
    <2>2. QED
      BY <1>2, <2>1
  <1>5. ASSUME NEW j \in 0 .. n + 1 PROVE Place(v, j) = Place(w, n + 1 - j)
    <2>1. CASE j \in 1 .. n
      BY <1>1, <1>3, <2>1 DEF Place
    <2>2. CASE j \notin 1 .. n
      <3>1. n + 1 - j \notin 1 .. n
        BY <1>2, <2>2
      <3>2. QED
        BY <1>1, <2>2, <3>1 DEF Place
    <2>3. QED
      BY <2>1, <2>2
  <1>6. QED
    BY <1>1, <1>4, <1>5 DEF v, Order

(* The places after two nodes were exchanged. *)
LEMMA PlacesExchanged ==
  ASSUME ListPremise, NEW w, Order(w), NEW a \in 1 .. Len(w), NEW b \in 1 .. Len(w)
  PROVE  /\ Order(Swap(w, a, b)) /\ Len(Swap(w, a, b)) = Len(w)
         /\ \A j \in 0 .. Len(w) + 1 : Place(Swap(w, a, b), j) =
              IF j = a THEN w[b] ELSE IF j = b THEN w[a] ELSE Place(w, j)
         /\ \A i \in 1 .. Len(w) : \E j \in 1 .. Len(w) : Swap(w, a, b)[j] = w[i]
         /\ \A i \in 1 .. Len(w) : \E j \in 1 .. Len(w) : w[j] = Swap(w, a, b)[i]
  <1> DEFINE v == Swap(w, a, b)
             n == Len(w)
  <1>1. /\ v \in Seq(Nodes) /\ Len(v) = n
        /\ \A j \in 1 .. n : v[j] = IF j = a THEN w[b] ELSE IF j = b THEN w[a] ELSE w[j]
    <2>1. w \in Seq(Nodes)
      BY DEF Order
    <2>2. /\ Swap(w, a, b) \in Seq(Nodes) /\ Len(Swap(w, a, b)) = Len(w)
          /\ \A j \in 1 .. Len(w) :
               Swap(w, a, b)[j] = IF j = a THEN w[b] ELSE IF j = b THEN w[a] ELSE w[j]
      BY <2>1, Exchanged
    <2>3. QED
      BY <2>2
  <1> HIDE DEF v
  <1>2. n \in Nat /\ \A i, j \in 1 .. n : w[i] = w[j] => i = j
    BY DEF Order
  <1>3. ASSUME NEW i \in 1 .. n, NEW j \in 1 .. n, v[i] = v[j] PROVE i = j
    BY <1>1, <1>2, <1>3
  <1>4. ASSUME NEW j \in 0 .. n + 1
        PROVE  Place(v, j) = IF j = a THEN w[b] ELSE IF j = b THEN w[a] ELSE Place(w, j)
    BY <1>1, <1>2 DEF Place
  <1>5. ASSUME NEW i \in 1 .. n PROVE \E j \in 1 .. n : v[j] = w[i]
    <2> DEFINE j == IF i = a THEN b ELSE IF i = b THEN a ELSE i
    <2>1. j \in 1 .. n /\ v[j] = w[i]
      BY <1>1
    <2>2. QED
      BY <2>1
  <1>6. ASSUME NEW i \in 1 .. n PROVE \E j \in 1 .. n : w[j] = v[i]
    BY <1>1
  <1>7. QED
    BY <1>1, <1>3, <1>4, <1>5, <1>6 DEF v, Order

-----------------------------------------------------------------------------
(* The ring                                                                *)

(* A new node between neighbours stands between them in the ring. *)
LEMMA RingLinked ==
  ASSUME ListPremise, NEW w, NEW nx, NEW pv, Ring(w, nx, pv), NEW k \in 1 .. Len(w) + 1,
         NEW node \in Nodes, \A i \in 1 .. Len(w) : w[i] # node
  PROVE  Ring(InsertAt(w, k, node),
              [nx EXCEPT ![Place(w, k - 1)] = node, ![node] = Place(w, k)],
              [pv EXCEPT ![Place(w, k)] = node, ![node] = Place(w, k - 1)])
  <1> DEFINE v == InsertAt(w, k, node)
             n == Len(w)
             before == Place(w, k - 1)
             behind == Place(w, k)
             nx2 == [nx EXCEPT ![before] = node, ![node] = behind]
             pv2 == [pv EXCEPT ![behind] = node, ![node] = before]
  <1>1. /\ Order(v) /\ Len(v) = n + 1
        /\ \A j \in 0 .. n + 2 :
             Place(v, j) = IF j < k THEN Place(w, j) ELSE IF j = k THEN node ELSE Place(w, j - 1)
        /\ \A j \in Int : Place(w, j) # node
    BY PlacesInserted DEF Ring
  <1>2. /\ n \in Nat /\ k \in 1 .. n + 1
        /\ \A i \in Int : Place(w, i) \in Addresses
        /\ \A i, j \in 0 .. n : Place(w, i) = Place(w, j) => i = j
        /\ \A i, j \in 1 .. n + 1 : Place(w, i) = Place(w, j) => i = j
    BY PlacesDiffer DEF Ring
  <1>3. /\ nx \in [Addresses -> Addresses] /\ pv \in [Addresses -> Addresses]
        /\ \A i \in 0 .. n : nx[Place(w, i)] = Place(w, i + 1) /\ pv[Place(w, i + 1)] = Place(w, i)
    BY DEF Ring, Leads
  <1>4. before \in Addresses /\ behind \in Addresses /\ node \in Addresses
        /\ before # node /\ behind # node
    BY <1>1, <1>2 DEF Addresses
  <1> HIDE DEF v, n
  <1>5. /\ nx2 \in [Addresses -> Addresses] /\ pv2 \in [Addresses -> Addresses]
        /\ \A x \in Addresses :
             /\ nx2[x] = IF x = node THEN behind ELSE IF x = before THEN node ELSE nx[x]
             /\ pv2[x] = IF x = node THEN before ELSE IF x = behind THEN node ELSE pv[x]
    BY <1>3, <1>4
  <1> HIDE DEF nx2, pv2, before, behind
  <1>6. ASSUME NEW i \in 0 .. n + 1
        PROVE  nx2[Place(v, i)] = Place(v, i + 1) /\ pv2[Place(v, i + 1)] = Place(v, i)
    <2>1. CASE i + 1 < k
      <3>1. Place(v, i) = Place(w, i) /\ Place(v, i + 1) = Place(w, i + 1)
        BY <1>1, <1>2, <2>1
      <3>2. /\ Place(w, i) # node /\ Place(w, i + 1) # node
            /\ Place(w, i) \in Addresses /\ Place(w, i + 1) \in Addresses
        BY <1>1, <1>2
      <3>3. Place(w, i) # before /\ Place(w, i + 1) # behind
        BY <1>2, <2>1 DEF before, behind
      <3>4. nx[Place(w, i)] = Place(w, i + 1) /\ pv[Place(w, i + 1)] = Place(w, i)
        BY <1>2, <1>3, <2>1
      <3>5. QED
        BY <1>5, <3>1, <3>2, <3>3, <3>4
    <2>2. CASE i + 1 = k
      <3>1. Place(v, i) = before /\ Place(v, i + 1) = node
        BY <1>1, <1>2, <2>2 DEF before
      <3>2. QED
        BY <1>4, <1>5, <3>1
    <2>3. CASE i = k
      <3>1. Place(v, i) = node /\ Place(v, i + 1) = behind
        <4>1. (i + 1) - 1 = k /\ ~(i + 1 < k) /\ i + 1 # k /\ i + 1 \in 0 .. n + 2
          BY <1>2, <2>3
        <4>2. QED
          BY <1>1, <1>2, <2>3, <4>1 DEF behind
      <3>2. QED
        BY <1>4, <1>5, <3>1
    <2>4. CASE i > k
      <3>1. Place(v, i) = Place(w, i - 1) /\ Place(v, i + 1) = Place(w, i)
        <4>1. (i + 1) - 1 = i /\ ~(i + 1 < k) /\ i + 1 # k /\ i + 1 \in 0 .. n + 2
          BY <1>2, <2>4
        <4>2. QED
          BY <1>1, <1>2, <2>4, <4>1
      <3>2. /\ Place(w, i - 1) # node /\ Place(w, i) # node
            /\ Place(w, i - 1) \in Addresses /\ Place(w, i) \in Addresses
        BY <1>1, <1>2
      <3>3. i - 1 \in 0 .. n /\ k - 1 \in 0 .. n /\ i - 1 # k - 1 /\ i # k
            /\ i \in 1 .. n + 1 /\ (i - 1) + 1 = i
        BY <1>2, <2>4
      <3>4. Place(w, i - 1) # before /\ Place(w, i) # behind
        BY <1>2, <3>3 DEF before, behind
      <3>5. nx[Place(w, i - 1)] = Place(w, i) /\ pv[Place(w, i)] = Place(w, i - 1)
        BY <1>3, <3>3
      <3>6. QED
        BY <1>5, <3>1, <3>2, <3>4, <3>5
    <2>5. QED
      BY <1>2, <2>1, <2>2, <2>3, <2>4
  <1>7. Ring(v, nx2, pv2)
    BY <1>1, <1>5, <1>6 DEF Ring, Leads
  <1>8. QED
    BY <1>7 DEF v, nx2, pv2, before, behind

(* Without a node its neighbours are neighbours of each other. *)
LEMMA RingUnlinked ==
  ASSUME ListPremise, NEW w, NEW nx, NEW pv, Ring(w, nx, pv), NEW k \in 1 .. Len(w)
  PROVE  Ring(RemoveAt(w, k),
              [nx EXCEPT ![Place(w, k - 1)] = Place(w, k + 1), ![w[k]] = mHead],
              [pv EXCEPT ![Place(w, k + 1)] = Place(w, k - 1), ![w[k]] = mHead])
  <1> DEFINE v == RemoveAt(w, k)
             n == Len(w)
             node == w[k]
             before == Place(w, k - 1)
             behind == Place(w, k + 1)
             nx2 == [nx EXCEPT ![before] = behind, ![node] = mHead]
             pv2 == [pv EXCEPT ![behind] = before, ![node] = mHead]
  <1>1. /\ Order(v) /\ Len(v) = n - 1
        /\ \A j \in 0 .. n : Place(v, j) = IF j < k THEN Place(w, j) ELSE Place(w, j + 1)
    BY PlacesRemoved DEF Ring
  <1>2. /\ n \in Nat /\ k \in 1 .. n
        /\ \A i \in Int : Place(w, i) \in Addresses
        /\ \A i, j \in 0 .. n : Place(w, i) = Place(w, j) => i = j
        /\ \A i, j \in 1 .. n + 1 : Place(w, i) = Place(w, j) => i = j
        /\ Place(w, k) = node /\ mHead \in Addresses
    BY PlacesDiffer DEF Ring, Addresses
  <1>3. /\ nx \in [Addresses -> Addresses] /\ pv \in [Addresses -> Addresses]
        /\ \A i \in 0 .. n : nx[Place(w, i)] = Place(w, i + 1) /\ pv[Place(w, i + 1)] = Place(w, i)
    BY DEF Ring, Leads
  <1> HIDE DEF v, n, node
  <1>4. /\ before \in Addresses /\ behind \in Addresses /\ node \in Addresses
        /\ before # node /\ behind # node
    <2>1. k - 1 \in 0 .. n /\ k \in 0 .. n /\ k + 1 \in 1 .. n + 1 /\ k \in 1 .. n + 1
          /\ k - 1 # k /\ k + 1 # k
      BY <1>2
    <2>2. QED
      BY <1>2, <2>1
  <1>5. /\ nx2 \in [Addresses -> Addresses] /\ pv2 \in [Addresses -> Addresses]
        /\ \A x \in Addresses :
             /\ nx2[x] = IF x = node THEN mHead ELSE IF x = before THEN behind ELSE nx[x]
             /\ pv2[x] = IF x = node THEN mHead ELSE IF x = behind THEN before ELSE pv[x]
    <2> HIDE DEF before, behind
    <2>1. QED
      BY <1>2, <1>3, <1>4
  <1> HIDE DEF nx2, pv2
  <1>6. ASSUME NEW i \in 0 .. n - 1
        PROVE  nx2[Place(v, i)] = Place(v, i + 1) /\ pv2[Place(v, i + 1)] = Place(v, i)
    <2>1. CASE i + 1 < k
      <3>1. Place(v, i) = Place(w, i) /\ Place(v, i + 1) = Place(w, i + 1)
        BY <1>1, <1>2, <2>1
      <3>2. /\ i \in 0 .. n /\ k - 1 \in 0 .. n /\ i # k - 1 /\ i # k /\ k \in 0 .. n
            /\ i + 1 \in 1 .. n + 1 /\ k + 1 \in 1 .. n + 1 /\ i + 1 # k + 1 /\ i + 1 # k
            /\ k \in 1 .. n + 1 /\ i + 1 \in Int
        BY <1>2, <2>1
      <3>3. Place(w, i) # before /\ Place(w, i) # node
            /\ Place(w, i + 1) # behind /\ Place(w, i + 1) # node
            /\ Place(w, i) \in Addresses /\ Place(w, i + 1) \in Addresses
        BY <1>2, <3>2
      <3>4. nx[Place(w, i)] = Place(w, i + 1) /\ pv[Place(w, i + 1)] = Place(w, i)
        BY <1>3, <3>2
      <3>5. QED
        BY <1>5, <3>1, <3>3, <3>4
    <2>2. CASE i + 1 = k
      <3>1. Place(v, i) = before /\ Place(v, i + 1) = behind
        BY <1>1, <1>2, <2>2
      <3>2. QED
        BY <1>4, <1>5, <3>1
    <2>3. CASE i + 1 > k
      <3>1. i + 1 \in 0 .. n /\ i \in 0 .. n /\ ~(i < k) /\ ~(i + 1 < k)
        BY <1>2, <2>3
      <3>2. Place(v, i) = Place(w, i + 1) /\ Place(v, i + 1) = Place(w, (i + 1) + 1)
        BY <1>1, <3>1
      <3>3. /\ k - 1 \in 0 .. n /\ i + 1 # k - 1 /\ i + 1 # k /\ k \in 0 .. n
            /\ (i + 1) + 1 \in 1 .. n + 1 /\ k + 1 \in 1 .. n + 1 /\ (i + 1) + 1 # k + 1
            /\ (i + 1) + 1 # k /\ k \in 1 .. n + 1 /\ (i + 1) + 1 \in Int
        BY <1>2, <2>3
      <3>4. Place(w, i + 1) # before /\ Place(w, i + 1) # node
            /\ Place(w, (i + 1) + 1) # behind /\ Place(w, (i + 1) + 1) # node
            /\ Place(w, i + 1) \in Addresses /\ Place(w, (i + 1) + 1) \in Addresses
        BY <1>2, <3>1, <3>3
      <3>5. nx[Place(w, i + 1)] = Place(w, (i + 1) + 1) /\ pv[Place(w, (i + 1) + 1)] = Place(w, i + 1)
        BY <1>3, <3>1
      <3>6. QED
        BY <1>5, <3>2, <3>4, <3>5
    <2>4. QED
      BY <1>2, <2>1, <2>2, <2>3
  <1>7. Ring(v, nx2, pv2)
    <2>1. \A i \in 0 .. Len(v) : i \in 0 .. n - 1
      BY <1>1, <1>2
    <2>2. QED
      BY <1>1, <1>5, <1>6, <2>1 DEF Ring, Leads
  <1>8. QED
    BY <1>7 DEF v, nx2, pv2, before, behind, node

(* With both links of every node exchanged the ring is turned round. *)
LEMMA RingTurned ==
  ASSUME ListPremise, NEW w, NEW nx, NEW pv, Ring(w, nx, pv)
  PROVE  Ring(Reverse(w), pv, nx)
  <1> DEFINE v == Reverse(w)
             n == Len(w)
  <1>1. /\ Order(v) /\ Len(v) = n
        /\ \A j \in 0 .. n + 1 : Place(v, j) = Place(w, n + 1 - j)
    BY PlacesReversed DEF Ring
  <1>2. n \in Nat
    BY PlacesDiffer DEF Ring
  <1>3. /\ nx \in [Addresses -> Addresses] /\ pv \in [Addresses -> Addresses]
        /\ \A i \in 0 .. n : nx[Place(w, i)] = Place(w, i + 1) /\ pv[Place(w, i + 1)] = Place(w, i)
    BY DEF Ring, Leads
  <1> HIDE DEF v, n
  <1>4. ASSUME NEW i \in 0 .. n
        PROVE  pv[Place(v, i)] = Place(v, i + 1) /\ nx[Place(v, i + 1)] = Place(v, i)
    <2>1. n - i \in 0 .. n /\ (n - i) + 1 = n + 1 - i /\ n + 1 - (i + 1) = n - i
          /\ i \in 0 .. n + 1 /\ i + 1 \in 0 .. n + 1
      BY <1>2
    <2>2. Place(v, i) = Place(w, (n - i) + 1) /\ Place(v, i + 1) = Place(w, n - i)
      BY <1>1, <2>1
    <2>3. QED
      BY <1>3, <2>1, <2>2
  <1>5. Ring(v, pv, nx)
    BY <1>1, <1>3, <1>4 DEF Ring, Leads
  <1>6. QED
    BY <1>5 DEF v

(* SwapLinks exchanges two nodes that are not side by side. *)
LEMMA RingSwapped ==
  ASSUME ListPremise, NEW w, NEW nx, NEW pv, Ring(w, nx, pv),
         NEW a \in 1 .. Len(w), NEW b \in 1 .. Len(w), b # a + 1, a # b + 1
  PROVE  LET A == w[a]
             B == w[b]
             n1 == [nx EXCEPT ![pv[A]] = B, ![pv[B]] = A]
             p1 == [pv EXCEPT ![nx[A]] = B, ![nx[B]] = A]
         IN  Ring(Swap(w, a, b),
                  [n1 EXCEPT ![A] = n1[B], ![B] = n1[A]],
                  [p1 EXCEPT ![A] = p1[B], ![B] = p1[A]])
  <1> DEFINE A == w[a]
             B == w[b]
             n == Len(w)
             v == Swap(w, a, b)
             n1 == [nx EXCEPT ![pv[A]] = B, ![pv[B]] = A]
             p1 == [pv EXCEPT ![nx[A]] = B, ![nx[B]] = A]
             nx2 == [n1 EXCEPT ![A] = n1[B], ![B] = n1[A]]
             pv2 == [p1 EXCEPT ![A] = p1[B], ![B] = p1[A]]
  <1>1. /\ Order(v) /\ Len(v) = n
        /\ \A j \in 0 .. n + 1 : Place(v, j) = IF j = a THEN B ELSE IF j = b THEN A ELSE Place(w, j)
    <2>1. Order(w)
      BY DEF Ring
    <2>2. QED
      BY <2>1, PlacesExchanged
  <1>2. /\ n \in Nat /\ a \in 1 .. n /\ b \in 1 .. n
        /\ \A i \in Int : Place(w, i) \in Addresses
        /\ \A i, j \in 0 .. n : Place(w, i) = Place(w, j) => i = j
        /\ \A i, j \in 1 .. n + 1 : Place(w, i) = Place(w, j) => i = j
        /\ Place(w, a) = A /\ Place(w, b) = B
    BY PlacesDiffer DEF Ring
  <1>3. /\ nx \in [Addresses -> Addresses] /\ pv \in [Addresses -> Addresses]
        /\ \A i \in 0 .. n : nx[Place(w, i)] = Place(w, i + 1) /\ pv[Place(w, i + 1)] = Place(w, i)
    BY DEF Ring, Leads
  <1> HIDE DEF v, n, A, B
  <1>4. /\ a - 1 \in 0 .. n /\ b - 1 \in 0 .. n /\ a \in 0 .. n /\ b \in 0 .. n
        /\ (a - 1) + 1 = a /\ (b - 1) + 1 = b
        /\ a + 1 \in 1 .. n + 1 /\ b + 1 \in 1 .. n + 1 /\ a \in 1 .. n + 1 /\ b \in 1 .. n + 1
    BY <1>2
  <1>5. /\ pv[A] = Place(w, a - 1) /\ pv[B] = Place(w, b - 1)
        /\ nx[A] = Place(w, a + 1) /\ nx[B] = Place(w, b + 1)
    BY <1>2, <1>3, <1>4
  <1>6. /\ A \in Addresses /\ B \in Addresses
        /\ pv[A] \in Addresses /\ pv[B] \in Addresses
        /\ nx[A] \in Addresses /\ nx[B] \in Addresses
    BY <1>2, <1>3
  <1>7. n1 \in [Addresses -> Addresses] /\ p1 \in [Addresses -> Addresses]
    BY <1>3, <1>6
  <1>8. nx2 \in [Addresses -> Addresses] /\ pv2 \in [Addresses -> Addresses]
    <2> HIDE DEF n1, p1
    <2>1. QED
      BY <1>6, <1>7
  <1>9. CASE a = b
    <2>1. A = B
      BY <1>9 DEF A, B
    <2>2. n1 = nx /\ p1 = pv
      <3>1. nx[pv[A]] = A /\ pv[nx[A]] = A
        BY <1>2, <1>3, <1>4, <1>5
      <3>2. QED
        BY <1>3, <1>6, <2>1, <3>1
    <2>3. nx2 = nx /\ pv2 = pv
      <3> HIDE DEF n1, p1
      <3>1. QED
        BY <1>3, <1>6, <2>1, <2>2
    <2>4. \A i \in 0 .. n : Place(v, i) = Place(w, i) /\ Place(v, i + 1) = Place(w, i + 1)
      BY <1>1, <1>2, <1>9, <2>1
    <2>5. Ring(v, nx2, pv2)
      <3> HIDE DEF nx2, pv2
      <3>1. QED
        BY <1>1, <1>3, <2>3, <2>4 DEF Ring, Leads
    <2>6. QED
      BY <2>5 DEF v, A, B
  <1>10. CASE a # b
    <2>1. a - 1 # b /\ b - 1 # a /\ a - 1 # a /\ b - 1 # b /\ a - 1 # b - 1
          /\ a + 1 # b /\ b + 1 # a /\ a + 1 # a /\ b + 1 # b /\ a + 1 # b + 1
      BY <1>2, <1>10
    <2>2. /\ A # B
          /\ pv[A] # pv[B] /\ pv[A] # A /\ pv[A] # B /\ pv[B] # A /\ pv[B] # B
          /\ nx[A] # nx[B] /\ nx[A] # A /\ nx[A] # B /\ nx[B] # A /\ nx[B] # B
      BY <1>2, <1>4, <1>5, <1>10, <2>1
    <2>3. \A x \in Addresses :
             /\ n1[x] = IF x = pv[B] THEN A ELSE IF x = pv[A] THEN B ELSE nx[x]
             /\ p1[x] = IF x = nx[B] THEN A ELSE IF x = nx[A] THEN B ELSE pv[x]
      BY <1>3, <1>6
    <2>4. \A x \in Addresses :
             /\ nx2[x] = IF x = B THEN n1[A] ELSE IF x = A THEN n1[B] ELSE n1[x]
             /\ pv2[x] = IF x = B THEN p1[A] ELSE IF x = A THEN p1[B] ELSE p1[x]
      <3> HIDE DEF n1, p1
      <3>1. QED
        BY <1>6, <1>7
    <2> HIDE DEF n1, p1, nx2, pv2
    <2>5. \A x \in Addresses :
             /\ nx2[x] = IF x = B THEN nx[A] ELSE IF x = A THEN nx[B]
                         ELSE IF x = pv[B] THEN A ELSE IF x = pv[A] THEN B ELSE nx[x]
             /\ pv2[x] = IF x = B THEN pv[A] ELSE IF x = A THEN pv[B]
                         ELSE IF x = nx[B] THEN A ELSE IF x = nx[A] THEN B ELSE pv[x]
      BY <1>6, <2>2, <2>3, <2>4
    <2>6. ASSUME NEW i \in 0 .. n PROVE nx2[Place(v, i)] = Place(v, i + 1)
      <3>1. i \in 0 .. n + 1 /\ i + 1 \in 0 .. n + 1 /\ i \in Int /\ i + 1 \in Int
        BY <1>2
      <3>2. CASE i = a
        <4>1. Place(v, i) = B /\ Place(v, i + 1) = Place(w, a + 1)
          BY <1>1, <2>1, <3>1, <3>2
        <4>2. QED
          BY <1>5, <1>6, <2>5, <4>1
      <3>3. CASE i = b
        <4>1. Place(v, i) = A /\ Place(v, i + 1) = Place(w, b + 1)
          BY <1>1, <2>1, <3>1, <3>3, <1>10
        <4>2. QED
          BY <1>5, <1>6, <2>2, <2>5, <4>1
      <3>4. CASE i + 1 = a
        <4>1. i = a - 1 /\ i # a /\ i # b
          BY <1>2, <2>1, <3>4
        <4>2. Place(v, i) = pv[A] /\ Place(v, i + 1) = B
          BY <1>1, <1>5, <3>1, <3>4, <4>1
        <4>3. QED
          BY <1>6, <2>2, <2>5, <4>2
      <3>5. CASE i + 1 = b
        <4>1. i = b - 1 /\ i # a /\ i # b /\ i + 1 # a
          BY <1>2, <1>10, <2>1, <3>5
        <4>2. Place(v, i) = pv[B] /\ Place(v, i + 1) = A
          BY <1>1, <1>5, <3>1, <3>5, <4>1
        <4>3. QED
          BY <1>6, <2>2, <2>5, <4>2
      <3>6. CASE i # a /\ i # b /\ i + 1 # a /\ i + 1 # b
        <4>1. Place(v, i) = Place(w, i) /\ Place(v, i + 1) = Place(w, i + 1)
          BY <1>1, <3>1, <3>6
        <4>2. i # a - 1 /\ i # b - 1
          BY <1>2, <3>6
        <4>3. Place(w, i) \in Addresses /\ Place(w, i) # A /\ Place(w, i) # B
              /\ Place(w, i) # pv[A] /\ Place(w, i) # pv[B]
          BY <1>2, <1>4, <1>5, <3>1, <3>6, <4>2
        <4>4. QED
          BY <1>3, <2>5, <4>1, <4>3
      <3>7. QED
        BY <3>2, <3>3, <3>4, <3>5, <3>6
    <2>7. ASSUME NEW i \in 0 .. n PROVE pv2[Place(v, i + 1)] = Place(v, i)
      <3>1. i \in 0 .. n + 1 /\ i + 1 \in 0 .. n + 1 /\ i \in Int /\ i + 1 \in Int
            /\ i + 1 \in 1 .. n + 1
        BY <1>2
      <3>2. CASE i + 1 = a
        <4>1. i = a - 1 /\ i # a /\ i # b
          BY <1>2, <2>1, <3>2
        <4>2. Place(v, i + 1) = B /\ Place(v, i) = Place(w, a - 1)
          BY <1>1, <3>1, <3>2, <4>1
        <4>3. QED
          BY <1>5, <1>6, <2>5, <4>2
      <3>3. CASE i + 1 = b
        <4>1. i = b - 1 /\ i # a /\ i # b /\ i + 1 # a
          BY <1>2, <1>10, <2>1, <3>3
        <4>2. Place(v, i + 1) = A /\ Place(v, i) = Place(w, b - 1)
          BY <1>1, <3>1, <3>3, <4>1
        <4>3. QED
          BY <1>5, <1>6, <2>2, <2>5, <4>2
      <3>4. CASE i = a
        <4>1. Place(v, i) = B /\ Place(v, i + 1) = nx[A]
          BY <1>1, <1>5, <2>1, <3>1, <3>4
        <4>2. QED
          BY <1>6, <2>2, <2>5, <4>1
      <3>5. CASE i = b
        <4>1. Place(v, i) = A /\ Place(v, i + 1) = nx[B]
          BY <1>1, <1>5, <1>10, <2>1, <3>1, <3>5
        <4>2. QED
          BY <1>6, <2>2, <2>5, <4>1
      <3>6. CASE i # a /\ i # b /\ i + 1 # a /\ i + 1 # b
        <4>1. Place(v, i) = Place(w, i) /\ Place(v, i + 1) = Place(w, i + 1)
          BY <1>1, <3>1, <3>6
        <4>2. i + 1 # a + 1 /\ i + 1 # b + 1
          BY <1>2, <3>6
        <4>3. Place(w, i + 1) \in Addresses /\ Place(w, i + 1) # A /\ Place(w, i + 1) # B
              /\ Place(w, i + 1) # nx[A] /\ Place(w, i + 1) # nx[B]
          BY <1>2, <1>4, <1>5, <3>1, <3>6, <4>2
        <4>4. QED
          BY <1>3, <2>5, <4>1, <4>3
      <3>7. QED
        BY <3>2, <3>3, <3>4, <3>5, <3>6
    <2>8. Ring(v, nx2, pv2)
      BY <1>1, <1>8, <2>6, <2>7 DEF Ring, Leads
    <2>9. QED
      BY <2>8 DEF v, nx2, pv2, n1, p1, A, B
  <1>11. QED
    BY <1>9, <1>10

-----------------------------------------------------------------------------
(* The way round                                                           *)

(* Among numbers with a property that has a first one. *)
LEMMA LeastNatural ==
  ASSUME NEW S, S \subseteq Nat, S # {}
  PROVE  \E x \in S : \A y \in S : x <= y
  <1> DEFINE LT == {ij \in Nat \X Nat : ij[1] < ij[2]}
  <1>1. IsWellFoundedOn(LT, Nat)
    BY NatLessThanWellFounded DEF OpToRel
  <1> HIDE DEF LT
  <1>2. PICK x \in S : \A y \in S : ~ (<<y, x>> \in LT)
    BY <1>1, WFMin
  <1>3. ASSUME NEW y \in S PROVE x <= y
    <2>1. x \in Nat /\ y \in Nat /\ (<<y, x>> \in LT <=> y < x)
      BY DEF LT
    <2>2. QED
      BY <1>2, <2>1
  <1>4. QED
    BY <1>3

(* There are no more different nodes than nodes. *)
LEMMA OrderFits == ASSUME ListPremise, NEW w, Order(w)
                   PROVE  Cardinality(Nodes) \in Nat /\ Len(w) <= Cardinality(Nodes)
  <1>1. Len(w) \in Nat /\ IsFiniteSet(Nodes) /\ Cardinality(Nodes) \in Nat
    BY FS_CardinalityType DEF ListPremise, Order
  <1>2. w \in Injection(1 .. Len(w), Nodes)
    BY DEF Order, Injection, IsInjective
  <1>3. Cardinality(1 .. Len(w)) <= Cardinality(Nodes)
    BY <1>1, <1>2, FS_Injection
  <1>4. Cardinality(1 .. Len(w)) = Len(w)
    <2>1. \A n \in Nat : Cardinality(1 .. n) = n
      BY FS_Interval
    <2>2. QED
      BY <1>1, <2>1
  <1>5. QED
    BY <1>1, <1>3, <1>4

(* One step on the way, of all steps at once. *)
Steps(h, link) ==
  [i \in 0 .. Cardinality(Nodes) |->
     IF i = 0 THEN <<link[mHead]>>
     ELSE IF Last(h[i - 1]) = mHead THEN h[i - 1]
     ELSE Append(h[i - 1], link[Last(h[i - 1])])]

(* Way is what these steps come to. *)
LEMMA WayUnfolds ==
  ASSUME NEW link, NEW g, g = Steps(g, link)
  PROVE  \E h : h = Steps(h, link) /\ Way(link) = Front(h[Cardinality(Nodes)])
  <1> DEFINE h == CHOOSE h : h = Steps(h, link)
  <1>1. h = Steps(h, link)
    OBVIOUS
  <1>2. Way(link) = Front(h[Cardinality(Nodes)])
    BY DEF Way, Steps
  <1>3. QED
    BY <1>1, <1>2

(* The places in the order of the way, as far as the m-th. *)
Passed(w, m) == SubSeq(Append(w, mHead), 1, m)

(* With every step it grows by the place the last one leads to. *)
LEMMA PassedGrows ==
  ASSUME ListPremise, NEW w, Order(w)
  PROVE  /\ Passed(w, 1) = <<Place(w, 1)>>
         /\ \A m \in 1 .. Len(w) + 1 : Last(Passed(w, m)) = Place(w, m)
         /\ \A m \in 1 .. Len(w) : Append(Passed(w, m), Place(w, m + 1)) = Passed(w, m + 1)
         /\ Front(Passed(w, Len(w) + 1)) = w
  <1> DEFINE c == Append(w, mHead)
             n == Len(w)
  <1>1. n \in Nat /\ w \in Seq(Addresses) /\ mHead \in Addresses
    BY DEF Order, Addresses
  <1>2. /\ c \in Seq(Addresses) /\ Len(c) = n + 1
        /\ \A i \in 1 .. n : c[i] = w[i]
        /\ c[n + 1] = mHead
    BY <1>1, AppendProperties
  <1> HIDE DEF c, n
  <1>3. ASSUME NEW m \in 1 .. n + 1
        PROVE  SubSeq(c, 1, m) \in Seq(Addresses) /\ Len(SubSeq(c, 1, m)) = m
               /\ \A i \in 1 .. m : SubSeq(c, 1, m)[i] = c[i]
    <2>1. /\ SubSeq(c, 1, m) \in Seq(Addresses)
          /\ Len(SubSeq(c, 1, m)) = IF 1 <= m THEN m - 1 + 1 ELSE 0
          /\ \A i \in 1 .. m - 1 + 1 : SubSeq(c, 1, m)[i] = c[1 + i - 1]
      <3>1. \A i \in 1 .. m : c[i] \in Addresses
        BY <1>1, <1>2
      <3>2. QED
        BY <1>1, <3>1, SubSeqProperties
    <2>2. QED
      BY <1>1, <2>1
  <1>4. \A i \in 1 .. n + 1 : c[i] = Place(w, i)
    BY <1>1, <1>2 DEF Place, n
  <1>5. ASSUME NEW m \in 1 .. n + 1 PROVE Last(SubSeq(c, 1, m)) = Place(w, m)
    BY <1>1, <1>3, <1>4 DEF Last
  <1>6. SubSeq(c, 1, 1) = <<Place(w, 1)>>
    <2> DEFINE t == SubSeq(c, 1, 1)
               x == <<Place(w, 1)>>
    <2>1. x \in Seq(Addresses) /\ Len(x) = 1 /\ x[1] = Place(w, 1)
      BY <1>1, <1>2, <1>4
    <2>2. 1 \in 1 .. n + 1
      BY <1>1
    <2>3. t \in Seq(Addresses) /\ Len(t) = 1 /\ t[1] = Place(w, 1)
      BY <1>3, <1>4, <2>2
    <2> HIDE DEF t, x
    <2>4. \A i \in 1 .. Len(t) : t[i] = x[i]
      BY <2>1, <2>3
    <2>5. t = x
      BY <2>1, <2>3, <2>4, SeqEqual
    <2>6. QED
      BY <2>5 DEF t, x
  <1>7. ASSUME NEW m \in 1 .. n PROVE Append(SubSeq(c, 1, m), Place(w, m + 1)) = SubSeq(c, 1, m + 1)
    <2> DEFINE s == SubSeq(c, 1, m)
               t == SubSeq(c, 1, m + 1)
               x == Place(w, m + 1)
    <2>1. m \in 1 .. n + 1 /\ m + 1 \in 1 .. n + 1
      BY <1>1
    <2>2. s \in Seq(Addresses) /\ Len(s) = m /\ \A i \in 1 .. m : s[i] = c[i]
      BY <1>3, <2>1
    <2>3. t \in Seq(Addresses) /\ Len(t) = m + 1 /\ \A i \in 1 .. m + 1 : t[i] = c[i]
      BY <1>3, <2>1
    <2>4. x \in Addresses /\ x = c[m + 1]
      BY <1>2, <1>4, <2>1
    <2> HIDE DEF s, t, x
    <2>5. /\ Append(s, x) \in Seq(Addresses) /\ Len(Append(s, x)) = m + 1
          /\ \A i \in 1 .. m : Append(s, x)[i] = s[i]
          /\ Append(s, x)[m + 1] = x
      BY <2>2, <2>4, AppendProperties
    <2>6. \A i \in 1 .. m + 1 : Append(s, x)[i] = t[i]
      BY <2>2, <2>3, <2>4, <2>5
    <2>7. Append(s, x) = t
      BY <2>3, <2>5, <2>6, SeqEqual
    <2>8. QED
      BY <2>7 DEF s, t, x
  <1>8. Front(SubSeq(c, 1, n + 1)) = w
    <2> DEFINE t == SubSeq(c, 1, n + 1)
               f == SubSeq(t, 1, n)
    <2>1. t \in Seq(Addresses) /\ Len(t) = n + 1 /\ \A i \in 1 .. n + 1 : t[i] = c[i]
      BY <1>1, <1>3
    <2> HIDE DEF t
    <2>2. f \in Seq(Addresses) /\ Len(f) = n /\ \A i \in 1 .. n : f[i] = w[i]
      <3>1. \A i \in 1 .. n : t[i] \in Addresses
        BY <1>1, <2>1
      <3>2. /\ f \in Seq(Addresses) /\ Len(f) = IF 1 <= n THEN n - 1 + 1 ELSE 0
            /\ \A i \in 1 .. n - 1 + 1 : f[i] = t[1 + i - 1]
        BY <1>1, <3>1, SubSeqProperties
      <3>3. QED
        BY <1>1, <1>2, <2>1, <3>2
    <2> HIDE DEF f
    <2>3. f = w
      BY <1>1, <2>2, SeqEqual DEF n
    <2>4. Len(t) - 1 = n
      BY <1>1, <2>1
    <2>5. Front(t) = f
      BY <2>4 DEF Front, f
    <2>6. QED
      BY <2>3, <2>5 DEF t
  <1>9. QED
    BY <1>5, <1>6, <1>7, <1>8 DEF Passed, c, n

(* The way along the links of a ring is the order of its nodes. *)
LEMMA WayIs ==
  ASSUME ListPremise, NEW w, Order(w), NEW link, Leads(w, link)
  PROVE  Way(link) = w
  <1> DEFINE n == Len(w)
             N == Cardinality(Nodes)
             m(i) == IF i < n THEN i + 1 ELSE n + 1
             g == [i \in 0 .. N |-> Passed(w, m(i))]
  <1>1. n \in Nat /\ N \in Nat /\ n <= N
    BY OrderFits DEF Order
  <1>2. /\ Passed(w, 1) = <<Place(w, 1)>>
        /\ \A j \in 1 .. n + 1 : Last(Passed(w, j)) = Place(w, j)
        /\ \A j \in 1 .. n : Append(Passed(w, j), Place(w, j + 1)) = Passed(w, j + 1)
        /\ Front(Passed(w, n + 1)) = w
    BY PassedGrows
  <1>3. /\ Place(w, 0) = mHead /\ Place(w, n + 1) = mHead
        /\ \A i \in 1 .. n : Place(w, i) # mHead
    BY PlacesDiffer
  <1>4. \A i \in 0 .. n : link[Place(w, i)] = Place(w, i + 1)
    BY DEF Leads
  <1> HIDE DEF n, N
  <1>5. ASSUME NEW x, NEW i \in 1 .. N, x = Passed(w, m(i - 1))
        PROVE  (IF Last(x) = mHead THEN x ELSE Append(x, link[Last(x)])) = Passed(w, m(i))
    <2>1. CASE i - 1 < n
      <3>1. i \in 1 .. n /\ x = Passed(w, i)
        BY <1>1, <1>5, <2>1
      <3>2. Last(x) = Place(w, i) /\ Place(w, i) # mHead
        BY <1>1, <1>2, <1>3, <3>1
      <3>3. link[Last(x)] = Place(w, i + 1)
        BY <1>1, <1>4, <3>1, <3>2
      <3>4. Append(x, Place(w, i + 1)) = Passed(w, i + 1)
        BY <1>2, <3>1
      <3>5. m(i) = i + 1
        BY <1>1, <3>1
      <3>6. QED
        BY <3>2, <3>3, <3>4, <3>5
    <2>2. CASE ~(i - 1 < n)
      <3>1. x = Passed(w, n + 1) /\ m(i) = n + 1
        BY <1>1, <1>5, <2>2
      <3>2. Last(x) = mHead
        BY <1>1, <1>2, <1>3, <3>1
      <3>3. QED
        BY <3>1, <3>2
    <2>3. QED
      BY <2>1, <2>2
  <1>6. <<link[mHead]>> = Passed(w, m(0))
    <2>1. m(0) = 1
      BY <1>1
    <2>2. link[mHead] = Place(w, 1)
      BY <1>1, <1>3, <1>4
    <2>3. QED
      BY <1>2, <2>1, <2>2
  <1>7. g = Steps(g, link)
    <2>1. ASSUME NEW i \in 0 .. N
          PROVE  g[i] = IF i = 0 THEN <<link[mHead]>>
                        ELSE IF Last(g[i - 1]) = mHead THEN g[i - 1]
                        ELSE Append(g[i - 1], link[Last(g[i - 1])])
      <3>1. CASE i = 0
        BY <1>6, <3>1
      <3>2. CASE i # 0
        <4>1. i \in 1 .. N /\ i - 1 \in 0 .. N
          BY <1>1, <3>2
        <4>2. g[i - 1] = Passed(w, m(i - 1)) /\ g[i] = Passed(w, m(i))
          BY <4>1
        <4> HIDE DEF g, m
        <4>3. QED
          BY <1>5, <3>2, <4>1, <4>2
      <3>3. QED
        BY <3>1, <3>2
    <2>2. g = [i \in 0 .. N |-> g[i]]
      OBVIOUS
    <2> HIDE DEF g, m
    <2>3. g = [i \in 0 .. N |-> IF i = 0 THEN <<link[mHead]>>
                                ELSE IF Last(g[i - 1]) = mHead THEN g[i - 1]
                                ELSE Append(g[i - 1], link[Last(g[i - 1])])]
      BY <2>1, <2>2
    <2>4. QED
      BY <2>3 DEF Steps, N
  <1>8. PICK h : h = Steps(h, link) /\ Way(link) = Front(h[N])
    BY <1>7, WayUnfolds DEF N
  <1>9. \A i \in 0 .. N : h[i] = IF i = 0 THEN <<link[mHead]>>
                                 ELSE IF Last(h[i - 1]) = mHead THEN h[i - 1]
                                 ELSE Append(h[i - 1], link[Last(h[i - 1])])
    BY <1>8 DEF Steps, N
  <1> HIDE DEF m
  <1>10. \A i \in 0 .. N : h[i] = Passed(w, m(i))
    <2> DEFINE S == {i \in 0 .. N : h[i] # Passed(w, m(i))}
    <2> SUFFICES ASSUME S # {} PROVE FALSE
      OBVIOUS
    <2>1. PICK i \in S : \A j \in S : i <= j
      <3>1. S \subseteq Nat
        BY <1>1
      <3> HIDE DEF S
      <3>2. QED
        BY <3>1, LeastNatural
    <2>2. i \in 0 .. N /\ h[i] # Passed(w, m(i))
      BY <2>1
    <2>3. i # 0
      BY <1>6, <1>9, <2>2
    <2>4. i \in 1 .. N /\ i - 1 \in 0 .. N /\ i - 1 \notin S
      BY <1>1, <2>1, <2>2, <2>3
    <2>5. h[i - 1] = Passed(w, m(i - 1))
      BY <2>4
    <2>6. h[i] = Passed(w, m(i))
      BY <1>5, <1>9, <2>2, <2>3, <2>4, <2>5
    <2>7. QED
      BY <2>2, <2>6
  <1>11. m(N) = n + 1
    BY <1>1 DEF m
  <1>12. QED
    BY <1>1, <1>2, <1>8, <1>10, <1>11

(* The steps of a search along a link for the item x, all at once. *)
Looks(h, from, link, da, x) ==
  [i \in 0 .. Cardinality(Nodes) |->
     IF i = 0 THEN from
     ELSE IF h[i - 1] = mHead \/ da[h[i - 1]] = x THEN h[i - 1] ELSE link[h[i - 1]]]

(* The search along link ends at p. *)
Ends(from, link, da, x, p) ==
  /\ \E g : g = Looks(g, from, link, da, x)
  /\ \A h : h = Looks(h, from, link, da, x) => h[Cardinality(Nodes)] = p

(* The f-th node of w is the first that holds x; behind the last if none does. *)
First(w, da, x, f) ==
  /\ f \in 1 .. Len(w) + 1
  /\ \A i \in 1 .. Len(w) : i < f => da[w[i]] # x
  /\ f \in 1 .. Len(w) => da[w[f]] = x

(* FindAfter and FindBefore are what these steps come to. *)
LEMMA WalkUnfolds ==
  ASSUME NEW from, NEW x, NEW p
  PROVE  /\ Ends(from, next, data, x, p) => FindAfter(from, x) = p
         /\ Ends(from, prev, data, x, p) => FindBefore(from, x) = p
  <1>1. ASSUME Ends(from, next, data, x, p) PROVE FindAfter(from, x) = p
    <2> DEFINE h == CHOOSE h : h = Looks(h, from, next, data, x)
    <2>1. h = Looks(h, from, next, data, x)
      BY <1>1 DEF Ends
    <2>2. FindAfter(from, x) = h[Cardinality(Nodes)]
      BY DEF FindAfter, Walk, Looks
    <2> HIDE DEF h
    <2>3. QED
      BY <1>1, <2>1, <2>2 DEF Ends
  <1>2. ASSUME Ends(from, prev, data, x, p) PROVE FindBefore(from, x) = p
    <2> DEFINE h == CHOOSE h : h = Looks(h, from, prev, data, x)
    <2>1. h = Looks(h, from, prev, data, x)
      BY <1>2 DEF Ends
    <2>2. FindBefore(from, x) = h[Cardinality(Nodes)]
      BY DEF FindBefore, Walk, Looks
    <2> HIDE DEF h
    <2>3. QED
      BY <1>2, <2>1, <2>2 DEF Ends
  <1>3. QED
    BY <1>1, <1>2

(* A search along a ring ends at the first node with the item, or at the head. *)
LEMMA LooksEnd ==
  ASSUME ListPremise, NEW w, Order(w), NEW link, Leads(w, link), NEW da, NEW x,
         NEW f, First(w, da, x, f)
  PROVE  Ends(link[mHead], link, da, x, Place(w, f))
  <1> DEFINE n == Len(w)
             N == Cardinality(Nodes)
             from == link[mHead]
             m(i) == IF i + 1 < f THEN i + 1 ELSE f
             g == [i \in 0 .. N |-> Place(w, m(i))]
  <1>1. n \in Nat /\ N \in Nat /\ n <= N /\ f \in 1 .. n + 1
    BY OrderFits DEF Order, First
  <1>2. /\ Place(w, 0) = mHead /\ Place(w, n + 1) = mHead
        /\ \A i \in 1 .. n : Place(w, i) # mHead /\ Place(w, i) = w[i]
    BY PlacesDiffer
  <1>3. \A i \in 0 .. n : link[Place(w, i)] = Place(w, i + 1)
    BY DEF Leads
  <1>4. /\ \A i \in 1 .. n : i < f => da[Place(w, i)] # x
        /\ Place(w, f) = mHead \/ da[Place(w, f)] = x
    BY <1>1, <1>2 DEF First
  <1> HIDE DEF n, N
  <1>5. ASSUME NEW y, NEW i \in 1 .. N, y = Place(w, m(i - 1))
        PROVE  (IF y = mHead \/ da[y] = x THEN y ELSE link[y]) = Place(w, m(i))
    <2>1. CASE i < f
      <3>1. y = Place(w, i) /\ i \in 1 .. n
        BY <1>1, <1>5, <2>1
      <3>2. link[y] = Place(w, i + 1) /\ y # mHead /\ da[y] # x
        BY <1>1, <1>2, <1>3, <1>4, <2>1, <3>1
      <3>3. m(i) = i + 1
        BY <1>1, <2>1
      <3>4. QED
        BY <3>2, <3>3
    <2>2. CASE ~(i < f)
      <3>1. y = Place(w, f) /\ m(i) = f
        BY <1>1, <1>5, <2>2
      <3>2. QED
        BY <1>4, <3>1
    <2>3. QED
      BY <2>1, <2>2
  <1>6. from = Place(w, m(0))
    <2>1. m(0) = 1
      BY <1>1
    <2>2. link[mHead] = Place(w, 1)
      BY <1>1, <1>2, <1>3
    <2>3. QED
      BY <2>1, <2>2
  <1>7. g = Looks(g, from, link, da, x)
    <2>1. ASSUME NEW i \in 0 .. N
          PROVE  g[i] = IF i = 0 THEN from
                        ELSE IF g[i - 1] = mHead \/ da[g[i - 1]] = x THEN g[i - 1]
                        ELSE link[g[i - 1]]
      <3>1. CASE i = 0
        BY <1>6, <3>1
      <3>2. CASE i # 0
        <4>1. i \in 1 .. N /\ i - 1 \in 0 .. N
          BY <1>1, <3>2
        <4>2. g[i - 1] = Place(w, m(i - 1)) /\ g[i] = Place(w, m(i))
          BY <4>1
        <4> HIDE DEF g, m
        <4>3. QED
          BY <1>5, <3>2, <4>1, <4>2
      <3>3. QED
        BY <3>1, <3>2
    <2>2. g = [i \in 0 .. N |-> g[i]]
      OBVIOUS
    <2> HIDE DEF g, m
    <2>3. g = [i \in 0 .. N |-> IF i = 0 THEN from
                                ELSE IF g[i - 1] = mHead \/ da[g[i - 1]] = x THEN g[i - 1]
                                ELSE link[g[i - 1]]]
      BY <2>1, <2>2
    <2>4. QED
      BY <2>3 DEF Looks, N
  <1> HIDE DEF m
  <1>8. ASSUME NEW h, h = Looks(h, from, link, da, x) PROVE h[N] = Place(w, f)
    <2> DEFINE S == {i \in 0 .. N : h[i] # Place(w, m(i))}
    <2>1. \A i \in 0 .. N : h[i] = IF i = 0 THEN from
                                   ELSE IF h[i - 1] = mHead \/ da[h[i - 1]] = x THEN h[i - 1]
                                   ELSE link[h[i - 1]]
      BY <1>8 DEF Looks, N
    <2>2. ASSUME S # {} PROVE FALSE
      <3>1. PICK i \in S : \A j \in S : i <= j
        <4>1. S \subseteq Nat
          BY <1>1
        <4> HIDE DEF S
        <4>2. QED
          BY <2>2, <4>1, LeastNatural
      <3>2. i \in 0 .. N /\ h[i] # Place(w, m(i))
        BY <3>1
      <3>3. i # 0
        BY <1>6, <2>1, <3>2
      <3>4. i \in 1 .. N /\ i - 1 \in 0 .. N /\ i - 1 \notin S
        BY <1>1, <3>1, <3>2, <3>3
      <3>5. h[i - 1] = Place(w, m(i - 1))
        BY <3>4
      <3>6. h[i] = Place(w, m(i))
        BY <1>5, <2>1, <3>2, <3>3, <3>4, <3>5
      <3>7. QED
        BY <3>2, <3>6
    <2>3. m(N) = f
      BY <1>1 DEF m
    <2>4. h[N] = Place(w, m(N))
      BY <1>1, <2>2
    <2>5. QED
      BY <2>3, <2>4
  <1>9. QED
    BY <1>7, <1>8 DEF N, Ends

-----------------------------------------------------------------------------
(* The items                                                               *)

(* The items in the order of their nodes. *)
ItemsOf(w, da) == [i \in 1 .. Len(w) |-> da[w[i]]]

(* They are a sequence of items as long as w. *)
LEMMA ItemsAre ==
  ASSUME NEW w, Order(w), NEW da, Holds(w, da)
  PROVE  /\ ItemsOf(w, da) \in Seq(Items) /\ Len(ItemsOf(w, da)) = Len(w) /\ Len(w) \in Nat
         /\ \A i \in 1 .. Len(w) : ItemsOf(w, da)[i] = da[w[i]] /\ da[w[i]] \in Items
         /\ DOMAIN ItemsOf(w, da) = 1 .. Len(w)
  <1>1. Len(w) \in Nat /\ \A i \in 1 .. Len(w) : w[i] \in Nodes
    BY DEF Order
  <1>2. ASSUME NEW i \in 1 .. Len(w) PROVE da[w[i]] \in Items
    <2>1. da[w[i]] # NoItem /\ da[w[i]] \in Items \cup {NoItem}
      BY <1>1 DEF Holds, Addresses
    <2>2. QED
      BY <2>1
  <1>3. QED
    BY <1>1, <1>2 DEF ItemsOf

(* The item of a new node stands at the node's place. *)
LEMMA ItemsInserted ==
  ASSUME ListPremise, NEW w, Order(w), NEW da, Holds(w, da), NEW k \in 1 .. Len(w) + 1,
         NEW node \in Nodes, \A i \in 1 .. Len(w) : w[i] # node, NEW x \in Items
  PROVE  /\ Holds(InsertAt(w, k, node), [da EXCEPT ![node] = x])
         /\ ItemsOf(InsertAt(w, k, node), [da EXCEPT ![node] = x]) = InsertAt(ItemsOf(w, da), k, x)
  <1> DEFINE v == InsertAt(w, k, node)
             n == Len(w)
             da2 == [da EXCEPT ![node] = x]
             s == ItemsOf(w, da)
             t == InsertAt(s, k, x)
  <1>1. /\ Order(v) /\ Len(v) = n + 1
    BY PlacesInserted
  <1>2. w \in Seq(Nodes) /\ n \in Nat /\ \A i \in 1 .. n : w[i] \in Nodes
    BY DEF Order
  <1>3. \A j \in 1 .. n + 1 : v[j] = IF j < k THEN w[j] ELSE IF j = k THEN node ELSE w[j - 1]
    <2>1. w \in Seq(Nodes)
      BY <1>2
    <2>2. /\ v \in Seq(Nodes) /\ Len(v) = n + 1
          /\ \A j \in 1 .. n + 1 : v[j] = IF j < k THEN w[j] ELSE IF j = k THEN node ELSE w[j - 1]
      BY <2>1, Inserted
    <2>3. QED
      BY <2>2
  <1>4. s \in Seq(Items) /\ Len(s) = n /\ \A i \in 1 .. n : s[i] = da[w[i]]
    BY ItemsAre
  <1>5. /\ t \in Seq(Items) /\ Len(t) = n + 1
        /\ \A j \in 1 .. n + 1 : t[j] = IF j < k THEN s[j] ELSE IF j = k THEN x ELSE s[j - 1]
    <2> HIDE DEF s
    <2>1. s \in Seq(Items) /\ k \in 1 .. Len(s) + 1
      BY <1>4
    <2>2. /\ t \in Seq(Items) /\ Len(t) = Len(s) + 1
          /\ \A j \in 1 .. Len(s) + 1 :
               t[j] = IF j < k THEN s[j] ELSE IF j = k THEN x ELSE s[j - 1]
      BY <2>1, Inserted, SMTT(60)
    <2> HIDE DEF t
    <2>3. QED
      BY <1>4, <2>2
  <1>6. /\ da2 \in [Addresses -> Items \cup {NoItem}] /\ da2[node] = x /\ x # NoItem
        /\ \A y \in Addresses : y # node => da2[y] = da[y]
        /\ mHead # node /\ mHead \in Addresses
    BY DEF Holds, Addresses, ListPremise
  <1> HIDE DEF v, n, da2, s, t
  <1>7. \A i \in 1 .. n + 1 : i > k => i - 1 \in 1 .. n
    BY <1>2 DEF n
  <1>8. \A i \in 1 .. n + 1 : i < k => i \in 1 .. n
    BY <1>2 DEF n
  <1>9. k \in 1 .. n + 1 /\ \A i \in 1 .. n : w[i] # node
    BY DEF n
  <1>10. Holds(v, da2)
    <2>1. ASSUME NEW y \in Nodes, \E j \in 1 .. Len(v) : v[j] = y PROVE da2[y] # NoItem
      <3>1. PICK j \in 1 .. n + 1 : v[j] = y
        BY <1>1, <2>1
      <3>2. CASE j = k
        BY <1>3, <1>6, <3>1, <3>2
      <3>3. CASE j < k
        <4>1. j \in 1 .. n /\ y = w[j] /\ y # node
          BY <1>3, <1>8, <1>9, <3>1, <3>3
        <4>2. QED
          BY <1>6, <4>1 DEF Holds, Addresses, n
      <3>4. CASE j > k
        <4>1. j - 1 \in 1 .. n /\ ~(j < k) /\ j # k
          BY <1>7, <1>9, <3>4
        <4>2. y = w[j - 1] /\ y # node
          BY <1>3, <1>9, <3>1, <4>1
        <4>3. QED
          BY <1>6, <4>1, <4>2 DEF Holds, Addresses, n
      <3>5. QED
        BY <1>9, <3>2, <3>3, <3>4
    <2>2. ASSUME NEW y \in Nodes, da2[y] # NoItem PROVE \E j \in 1 .. Len(v) : v[j] = y
      <3>1. CASE y = node
        BY <1>1, <1>3, <1>9, <3>1
      <3>2. CASE y # node
        <4>1. PICK i \in 1 .. n : w[i] = y
          BY <1>6, <2>2, <3>2 DEF Holds, Addresses, n
        <4>2. CASE i < k
          <5>1. i \in 1 .. n + 1 /\ v[i] = y
            BY <1>2, <1>3, <4>1, <4>2 DEF n
          <5>2. QED
            BY <1>1, <5>1
        <4>3. CASE ~(i < k)
          <5>1. i + 1 \in 1 .. n + 1 /\ ~(i + 1 < k) /\ i + 1 # k /\ (i + 1) - 1 = i
            BY <1>2, <1>9, <4>3 DEF n
          <5>2. v[i + 1] = y
            BY <1>3, <4>1, <5>1
          <5>3. QED
            BY <1>1, <5>1, <5>2
        <4>4. QED
          BY <4>2, <4>3
      <3>3. QED
        BY <3>1, <3>2
    <2>3. da2[mHead] = NoItem
      BY <1>6 DEF Holds
    <2>4. QED
      BY <1>6, <2>1, <2>2, <2>3 DEF Holds
  <1>11. ItemsOf(v, da2) = t
    <2> DEFINE u == ItemsOf(v, da2)
    <2>1. u \in Seq(Items) /\ Len(u) = n + 1 /\ \A i \in 1 .. n + 1 : u[i] = da2[v[i]]
      BY <1>1, <1>10, ItemsAre
    <2> HIDE DEF u
    <2>2. ASSUME NEW i \in 1 .. n + 1 PROVE u[i] = t[i]
      <3>1. CASE i < k
        <4>1. i \in 1 .. n /\ v[i] = w[i] /\ w[i] # node /\ w[i] \in Addresses
          BY <1>2, <1>3, <1>8, <1>9, <3>1 DEF Addresses, n
        <4>2. u[i] = da[w[i]]
          BY <1>6, <2>1, <4>1
        <4>3. t[i] = s[i] /\ s[i] = da[w[i]]
          BY <1>4, <1>5, <3>1, <4>1
        <4>4. QED
          BY <4>2, <4>3
      <3>2. CASE i = k
        BY <1>3, <1>5, <1>6, <2>1, <3>2
      <3>3. CASE i > k
        <4>1. i - 1 \in 1 .. n /\ ~(i < k) /\ i # k
          BY <1>7, <1>9, <3>3
        <4>2. v[i] = w[i - 1] /\ w[i - 1] # node /\ w[i - 1] \in Addresses
          BY <1>2, <1>3, <1>9, <4>1 DEF Addresses, n
        <4>3. t[i] = s[i - 1] /\ s[i - 1] = da[w[i - 1]]
          BY <1>4, <1>5, <4>1
        <4>4. QED
          BY <1>6, <2>1, <4>2, <4>3
      <3>4. QED
        BY <1>9, <3>1, <3>2, <3>3
    <2>3. u = t
      BY <1>5, <2>1, <2>2, SeqEqual
    <2>4. QED
      BY <2>3 DEF u
  <1>12. QED
    BY <1>10, <1>11 DEF v, da2, s, t

(* The item of a removed node goes. *)
LEMMA ItemsRemoved ==
  ASSUME ListPremise, NEW w, Order(w), NEW da, Holds(w, da), NEW k \in 1 .. Len(w)
  PROVE  /\ Holds(RemoveAt(w, k), [da EXCEPT ![w[k]] = NoItem])
         /\ ItemsOf(RemoveAt(w, k), [da EXCEPT ![w[k]] = NoItem]) = RemoveAt(ItemsOf(w, da), k)
  <1> DEFINE v == RemoveAt(w, k)
             n == Len(w)
             node == w[k]
             da2 == [da EXCEPT ![node] = NoItem]
             s == ItemsOf(w, da)
             t == RemoveAt(s, k)
  <1>1. /\ Order(v) /\ Len(v) = n - 1
        /\ \A i \in 1 .. n - 1 : v[i] # node
        /\ \A i \in 1 .. n : w[i] # node => \E j \in 1 .. n - 1 : v[j] = w[i]
    BY PlacesRemoved
  <1>2. /\ w \in Seq(Nodes) /\ n \in Nat /\ \A i \in 1 .. n : w[i] \in Nodes
        /\ node \in Nodes /\ \A i, j \in 1 .. n : w[i] = w[j] => i = j
    BY DEF Order
  <1>3. \A j \in 1 .. n - 1 : v[j] = IF j < k THEN w[j] ELSE w[j + 1]
    BY <1>2, Removed
  <1>4. s \in Seq(Items) /\ Len(s) = n /\ \A i \in 1 .. n : s[i] = da[w[i]]
    BY ItemsAre
  <1>5. /\ t \in Seq(Items) /\ Len(t) = n - 1
        /\ \A j \in 1 .. n - 1 : t[j] = IF j < k THEN s[j] ELSE s[j + 1]
    <2> HIDE DEF s
    <2>1. k \in 1 .. Len(s)
      BY <1>4
    <2>2. QED
      BY <1>4, <2>1, Removed
  <1>6. /\ da2 \in [Addresses -> Items \cup {NoItem}] /\ da2[node] = NoItem
        /\ \A y \in Addresses : y # node => da2[y] = da[y]
        /\ mHead # node /\ mHead \in Addresses
    BY <1>2 DEF Holds, Addresses, ListPremise
  <1>7. k \in 1 .. n /\ \A i \in 1 .. n - 1 : i \in 1 .. n /\ i + 1 \in 1 .. n
    BY <1>2
  <1> HIDE DEF v, n, da2, s, t, node
  <1>8. \A i \in 1 .. n - 1 : v[i] \in Nodes /\ \E j \in 1 .. n : v[i] = w[j]
    BY <1>2, <1>3, <1>7
  <1>9. Holds(v, da2)
    <2>1. ASSUME NEW y \in Nodes, \E j \in 1 .. Len(v) : v[j] = y PROVE da2[y] # NoItem
      <3>1. y # node /\ \E j \in 1 .. n : w[j] = y
        BY <1>1, <1>8, <2>1
      <3>2. QED
        BY <1>6, <3>1 DEF Holds, Addresses, n
    <2>2. ASSUME NEW y \in Nodes, da2[y] # NoItem PROVE \E j \in 1 .. Len(v) : v[j] = y
      <3>1. y # node /\ da[y] # NoItem
        BY <1>6, <2>2 DEF Addresses
      <3>2. PICK i \in 1 .. n : w[i] = y
        BY <3>1 DEF Holds, n
      <3>3. QED
        BY <1>1, <3>1, <3>2
    <2>3. da2[mHead] = NoItem
      BY <1>6 DEF Holds
    <2>4. QED
      BY <1>6, <2>1, <2>2, <2>3 DEF Holds
  <1>10. ItemsOf(v, da2) = t
    <2> DEFINE u == ItemsOf(v, da2)
    <2>1. u \in Seq(Items) /\ Len(u) = n - 1 /\ \A i \in 1 .. n - 1 : u[i] = da2[v[i]]
      BY <1>1, <1>9, ItemsAre
    <2> HIDE DEF u
    <2>2. ASSUME NEW i \in 1 .. n - 1 PROVE u[i] = t[i]
      <3>1. u[i] = da[v[i]]
        BY <1>1, <1>6, <1>8, <2>1 DEF Addresses
      <3>2. CASE i < k
        BY <1>3, <1>4, <1>5, <1>7, <3>1, <3>2
      <3>3. CASE ~(i < k)
        BY <1>3, <1>4, <1>5, <1>7, <3>1, <3>3
      <3>4. QED
        BY <3>2, <3>3
    <2>3. u = t
      BY <1>5, <2>1, <2>2, SeqEqual
    <2>4. QED
      BY <2>3 DEF u
  <1>11. QED
    BY <1>9, <1>10 DEF v, da2, s, t, node

(* Exchanged nodes take their items along. *)
LEMMA ItemsSwapped ==
  ASSUME ListPremise, NEW w, Order(w), NEW da, Holds(w, da),
         NEW a \in 1 .. Len(w), NEW b \in 1 .. Len(w)
  PROVE  Holds(Swap(w, a, b), da) /\ ItemsOf(Swap(w, a, b), da) = Swap(ItemsOf(w, da), a, b)
  <1> DEFINE v == Swap(w, a, b)
             n == Len(w)
             s == ItemsOf(w, da)
             t == Swap(s, a, b)
             u == ItemsOf(v, da)
  <1>1. /\ Order(v) /\ Len(v) = n
        /\ \A i \in 1 .. n : \E j \in 1 .. n : v[j] = w[i]
        /\ \A i \in 1 .. n : \E j \in 1 .. n : w[j] = v[i]
    BY PlacesExchanged
  <1>2. w \in Seq(Nodes)
    BY DEF Order
  <1>3. \A j \in 1 .. n : v[j] = IF j = a THEN w[b] ELSE IF j = b THEN w[a] ELSE w[j]
    <2>1. v \in Seq(Nodes) /\ Len(v) = n
          /\ \A j \in 1 .. n : v[j] = IF j = a THEN w[b] ELSE IF j = b THEN w[a] ELSE w[j]
      BY <1>2, Exchanged
    <2>2. QED
      BY <2>1
  <1>4. s \in Seq(Items) /\ Len(s) = n /\ \A i \in 1 .. n : s[i] = da[w[i]]
    BY ItemsAre
  <1>5. /\ t \in Seq(Items) /\ Len(t) = n
        /\ \A j \in 1 .. n : t[j] = IF j = a THEN s[b] ELSE IF j = b THEN s[a] ELSE s[j]
    <2> HIDE DEF s
    <2>1. s \in Seq(Items) /\ a \in 1 .. Len(s) /\ b \in 1 .. Len(s)
      BY <1>4
    <2>2. /\ t \in Seq(Items) /\ Len(t) = Len(s)
          /\ \A j \in 1 .. Len(s) : t[j] = IF j = a THEN s[b] ELSE IF j = b THEN s[a] ELSE s[j]
      BY <2>1, Exchanged, SMTT(60)
    <2> HIDE DEF t
    <2>3. QED
      BY <1>4, <2>2
  <1> HIDE DEF v
  <1>6. Holds(v, da)
    <2>1. \A y \in Nodes : (\E i \in 1 .. Len(v) : v[i] = y) <=> (\E i \in 1 .. Len(w) : w[i] = y)
      BY <1>1
    <2>2. QED
      BY <2>1 DEF Holds
  <1>7. u \in Seq(Items) /\ Len(u) = n /\ \A i \in 1 .. n : u[i] = da[v[i]]
    BY <1>1, <1>6, ItemsAre
  <1> HIDE DEF s, t, u
  <1>8. \A i \in 1 .. n : u[i] = t[i]
    BY <1>3, <1>4, <1>5, <1>7
  <1>9. u = t
    BY <1>5, <1>7, <1>8, SeqEqual
  <1>10. QED
    BY <1>6, <1>9 DEF u, t, s, v

(* Exchanging the items of two nodes does the same to them. *)
LEMMA ItemsExchanged ==
  ASSUME ListPremise, NEW w, Order(w), NEW da, Holds(w, da),
         NEW a \in 1 .. Len(w), NEW b \in 1 .. Len(w)
  PROVE  LET da2 == [da EXCEPT ![w[a]] = da[w[b]], ![w[b]] = da[w[a]]]
         IN  Holds(w, da2) /\ ItemsOf(w, da2) = Swap(ItemsOf(w, da), a, b)
  <1> DEFINE n == Len(w)
             A == w[a]
             B == w[b]
             da2 == [da EXCEPT ![A] = da[B], ![B] = da[A]]
             s == ItemsOf(w, da)
             t == Swap(s, a, b)
             u == ItemsOf(w, da2)
  <1>1. /\ w \in Seq(Nodes) /\ n \in Nat /\ \A i \in 1 .. n : w[i] \in Nodes
        /\ A \in Nodes /\ B \in Nodes /\ \A i, j \in 1 .. n : w[i] = w[j] => i = j
    BY DEF Order
  <1>2. s \in Seq(Items) /\ Len(s) = n /\ \A i \in 1 .. n : s[i] = da[w[i]] /\ da[w[i]] \in Items
    BY ItemsAre
  <1>3. /\ t \in Seq(Items) /\ Len(t) = n
        /\ \A j \in 1 .. n : t[j] = IF j = a THEN s[b] ELSE IF j = b THEN s[a] ELSE s[j]
    <2> HIDE DEF s
    <2>1. a \in 1 .. Len(s) /\ b \in 1 .. Len(s)
      BY <1>2
    <2>2. QED
      BY <1>2, <2>1, Exchanged
  <1>4. a \in 1 .. n /\ b \in 1 .. n /\ A = w[a] /\ B = w[b]
    OBVIOUS
  <1>5. da[A] \in Items /\ da[B] \in Items /\ NoItem \notin Items
    BY <1>2, <1>4 DEF ListPremise
  <1> HIDE DEF n, A, B
  <1>6. /\ da2 \in [Addresses -> Items \cup {NoItem}]
        /\ \A y \in Addresses : da2[y] = IF y = B THEN da[A] ELSE IF y = A THEN da[B] ELSE da[y]
        /\ mHead # A /\ mHead # B /\ mHead \in Addresses
    BY <1>1, <1>5 DEF Holds, Addresses, ListPremise
  <1> HIDE DEF da2
  <1>7. Holds(w, da2)
    <2>1. \A y \in Nodes : da2[y] # NoItem <=> da[y] # NoItem
      BY <1>5, <1>6 DEF Addresses
    <2>2. da2[mHead] = NoItem
      BY <1>6 DEF Holds
    <2>3. QED
      BY <1>6, <2>1, <2>2 DEF Holds
  <1>8. u \in Seq(Items) /\ Len(u) = n /\ \A i \in 1 .. n : u[i] = da2[w[i]]
    BY <1>7, ItemsAre DEF n
  <1> HIDE DEF s, t, u
  <1>9. ASSUME NEW i \in 1 .. n PROVE u[i] = t[i]
    <2>1. w[i] \in Addresses /\ (w[i] = A <=> i = a) /\ (w[i] = B <=> i = b)
      BY <1>1, <1>4 DEF Addresses
    <2>2. u[i] = IF i = b THEN da[A] ELSE IF i = a THEN da[B] ELSE da[w[i]]
      BY <1>6, <1>8, <2>1
    <2>3. s[a] = da[A] /\ s[b] = da[B] /\ s[i] = da[w[i]]
      BY <1>2, <1>4
    <2>4. t[i] = IF i = a THEN s[b] ELSE IF i = b THEN s[a] ELSE s[i]
      BY <1>3
    <2>5. CASE i = a /\ i = b
      BY <1>4, <2>2, <2>3, <2>4, <2>5
    <2>6. CASE ~(i = a /\ i = b)
      BY <2>2, <2>3, <2>4, <2>6
    <2>7. QED
      BY <2>5, <2>6
  <1>10. u = t
    BY <1>3, <1>8, <1>9, SeqEqual
  <1>11. QED
    BY <1>7, <1>10 DEF u, t, s, da2, A, B

(* In a ring turned round the items come the other way. *)
LEMMA ItemsReversed ==
  ASSUME ListPremise, NEW w, Order(w), NEW da, Holds(w, da)
  PROVE  Holds(Reverse(w), da) /\ ItemsOf(Reverse(w), da) = Reverse(ItemsOf(w, da))
  <1> DEFINE v == Reverse(w)
             n == Len(w)
             s == ItemsOf(w, da)
             t == Reverse(s)
             u == ItemsOf(v, da)
  <1>1. Order(v) /\ Len(v) = n
    BY PlacesReversed
  <1>2. w \in Seq(Nodes) /\ n \in Nat
    BY DEF Order
  <1>3. \A j \in 1 .. n : v[j] = w[n + 1 - j]
    BY <1>2, Reversed
  <1>4. s \in Seq(Items) /\ Len(s) = n /\ \A i \in 1 .. n : s[i] = da[w[i]]
    BY ItemsAre
  <1>5. t \in Seq(Items) /\ Len(t) = n /\ \A j \in 1 .. n : t[j] = s[n + 1 - j]
    <2> HIDE DEF s
    <2>1. QED
      BY <1>4, Reversed
  <1>6. \A i \in 1 .. n : n + 1 - i \in 1 .. n /\ n + 1 - (n + 1 - i) = i
    BY <1>2
  <1> HIDE DEF v, n
  <1>7. \A i \in 1 .. n : \E j \in 1 .. n : v[j] = w[i]
    <2>1. ASSUME NEW i \in 1 .. n PROVE \E j \in 1 .. n : v[j] = w[i]
      <3>1. n + 1 - i \in 1 .. n /\ v[n + 1 - i] = w[n + 1 - (n + 1 - i)]
        BY <1>3, <1>6
      <3>2. QED
        BY <1>6, <3>1
    <2>2. QED
      BY <2>1
  <1>8. \A i \in 1 .. n : \E j \in 1 .. n : w[j] = v[i]
    BY <1>3, <1>6
  <1>9. Holds(v, da)
    <2>1. \A y \in Nodes : (\E i \in 1 .. Len(v) : v[i] = y) <=> (\E i \in 1 .. Len(w) : w[i] = y)
      BY <1>1, <1>7, <1>8 DEF n
    <2>2. QED
      BY <2>1 DEF Holds
  <1>10. u \in Seq(Items) /\ Len(u) = n /\ \A i \in 1 .. n : u[i] = da[v[i]]
    BY <1>1, <1>9, ItemsAre
  <1> HIDE DEF s, t, u
  <1>11. ASSUME NEW i \in 1 .. n PROVE u[i] = t[i]
    <2>1. u[i] = da[w[n + 1 - i]]
      BY <1>3, <1>10
    <2>2. t[i] = s[n + 1 - i] /\ n + 1 - i \in 1 .. n
      BY <1>5, <1>6
    <2>3. QED
      BY <1>4, <2>1, <2>2
  <1>12. u = t
    BY <1>5, <1>10, <1>11, SeqEqual
  <1>13. QED
    BY <1>9, <1>12 DEF u, t, s, v

-----------------------------------------------------------------------------
(* The map                                                                 *)

(* They are the items in the order of the ring, and the place in it. *)
LEMMA Mapped ==
  ASSUME ListPremise, NEW w, NEW nx, NEW pv, Ring(w, nx, pv), NEW da, NEW k \in 0 .. Len(w)
  PROVE  /\ ItemsAlong(nx, da) = ItemsOf(w, da)
         /\ AtAlong(nx, Place(w, k)) = k
  <1>1. Order(w) /\ Way(nx) = w
    BY WayIs DEF Ring
  <1>2. Len(w) \in Nat /\ DOMAIN w = 1 .. Len(w)
    BY <1>1 DEF Order
  <1>3. ItemsAlong(nx, da) = ItemsOf(w, da)
    BY <1>1, <1>2 DEF ItemsAlong, ItemsOf
  <1>4. CASE k = 0
    BY <1>1, <1>3, <1>4, PlacesDiffer DEF AtAlong
  <1>5. CASE k # 0
    <2>1. k \in 1 .. Len(w) /\ Place(w, k) = w[k] /\ w[k] # mHead
      BY <1>1, <1>2, <1>5, PlacesDiffer
    <2>2. {i \in 1 .. Len(w) : w[i] = w[k]} = {k}
      BY <1>1, <2>1 DEF Order
    <2>3. Min({k}) = k
      <3>1. \A y \in {k} : k <= y
        BY <2>1
      <3>2. QED
        BY <3>1 DEF Min
    <2>4. SelectInSeq(w, LAMBDA n : n = w[k]) = k
      BY <2>2, <2>3 DEF SelectInSeq
    <2>5. QED
      BY <1>1, <1>3, <2>1, <2>4 DEF AtAlong
  <1>6. QED
    BY <1>3, <1>4, <1>5

(* The operations of ItemSequence, said of what the map makes of the list. *)
LEMMA MappedSteps ==
  LET s == ItemsAlong(next, data)
      t == ItemsAlong(next, data)'
      k == AtAlong(next, it)
      l == AtAlong(next, it)'
  IN  /\ \A x : Abstract!AtBack(x) <=> t = InsertAt(s, Len(s) + 1, x) /\ l = k
      /\ \A x : Abstract!AtFront(x) <=>
           t = InsertAt(s, 1, x) /\ l = IF k = 0 THEN 0 ELSE k + 1
      /\ \A x : Abstract!Behind(x) <=> t = InsertAt(s, k + 1, x) /\ l = k + 1
      /\ \A x : Abstract!Before(x) <=>
           LET i == IF k = 0 THEN Len(s) + 1 ELSE k IN t = InsertAt(s, i, x) /\ l = i
      /\ \A i, p : Abstract!RemoveItem(i, p) <=> i \in DOMAIN s /\ t = RemoveAt(s, i) /\ l = p
      /\ Abstract!Move <=> t = s /\ l \in {(k + 1) % (Len(s) + 1), (k - 1) % (Len(s) + 1)}
      /\ Abstract!Turn <=> t = Reverse(s) /\ l = IF k = 0 THEN 0 ELSE Len(s) + 1 - k
      /\ Abstract!Clear <=> t = <<>> /\ l = 0
      /\ Abstract!Init <=> s = <<>> /\ k = 0
      /\ \A x : Abstract!Search(x) <=>
           LET found == {i \in DOMAIN s : s[i] = x}
           IN  t = s /\ l \in IF found = {} THEN {0} ELSE {Min(found), Max(found)}
      /\ \A i, p : Abstract!Exchange(i, p) <=>
           /\ k # 0 /\ i \in DOMAIN s
           /\ t = [s EXCEPT ![k] = s[i], ![i] = s[k]]
           /\ l = p
  <1> DEFINE s == ItemsAlong(next, data)
             t == ItemsAlong(next, data)'
             k == AtAlong(next, it)
             l == AtAlong(next, it)'
  <1>2. /\ \A x : Abstract!AtBack(x) <=> t = InsertAt(s, Len(s) + 1, x) /\ l = k
        /\ \A x : Abstract!AtFront(x) <=>
             t = InsertAt(s, 1, x) /\ l = IF k = 0 THEN 0 ELSE k + 1
        /\ \A x : Abstract!Behind(x) <=> t = InsertAt(s, k + 1, x) /\ l = k + 1
        /\ \A x : Abstract!Before(x) <=>
             LET i == IF k = 0 THEN Len(s) + 1 ELSE k IN t = InsertAt(s, i, x) /\ l = i
    BY DEF Abstract!AtBack, Abstract!AtFront, Abstract!Behind, Abstract!Before, Abstract!Insert,
           Abstract!InsertAt, InsertAt, ItemsAlong, AtAlong
  <1>3. \A i, p : Abstract!RemoveItem(i, p) <=> i \in DOMAIN s /\ t = RemoveAt(s, i) /\ l = p
    BY DEF Abstract!RemoveItem, Abstract!RemoveAt, RemoveAt, ItemsAlong, AtAlong
  <1>4. Abstract!Move <=> t = s /\ l \in {(k + 1) % (Len(s) + 1), (k - 1) % (Len(s) + 1)}
    BY DEF Abstract!Move, ItemsAlong, AtAlong
  <1>5. Abstract!Turn <=> t = Reverse(s) /\ l = IF k = 0 THEN 0 ELSE Len(s) + 1 - k
    BY DEF Abstract!Turn, Abstract!Reverse, Reverse, ItemsAlong, AtAlong
  <1>6. /\ Abstract!Clear <=> t = <<>> /\ l = 0
        /\ Abstract!Init <=> s = <<>> /\ k = 0
    BY DEF Abstract!Clear, Abstract!Init, ItemsAlong, AtAlong
  <1>7. \A x : Abstract!Search(x) <=>
           LET found == {i \in DOMAIN s : s[i] = x}
           IN  t = s /\ l \in IF found = {} THEN {0} ELSE {Min(found), Max(found)}
    BY DEF Abstract!Search, Abstract!Min, Abstract!Max, Min, Max, ItemsAlong, AtAlong
  <1>8. \A i, p : Abstract!Exchange(i, p) <=>
          /\ k # 0 /\ i \in DOMAIN s
          /\ t = [s EXCEPT ![k] = s[i], ![i] = s[k]]
          /\ l = p
    BY DEF Abstract!Exchange, ItemsAlong, AtAlong
  <1>9. QED
    BY <1>2, <1>3, <1>4, <1>5, <1>6, <1>7, <1>8

(* What the map makes of the list before and after a step. *)
LEMMA MappedTo ==
  ASSUME ListPremise, NEW w, NEW k, Listed(w, k), NEW v, NEW l, Listed(v, l)'
  PROVE  /\ ItemsAlong(next, data) = ItemsOf(w, data) /\ AtAlong(next, it) = k
         /\ ItemsAlong(next, data)' = ItemsOf(v, data') /\ AtAlong(next, it)' = l
         /\ IInv'
         /\ Len(ItemsOf(w, data)) = Len(w) /\ DOMAIN ItemsOf(w, data) = 1 .. Len(w)
  <1>1. Ring(w, next, prev) /\ Holds(w, data) /\ k \in 0 .. Len(w) /\ it = Place(w, k)
    BY DEF Listed
  <1>2. Ring(v, next', prev') /\ Holds(v, data') /\ l \in 0 .. Len(v) /\ it' = Place(v, l)
    BY DEF Listed
  <1>3. ItemsAlong(next, data) = ItemsOf(w, data) /\ AtAlong(next, it) = k
    BY <1>1, Mapped
  <1>4. ItemsAlong(next', data') = ItemsOf(v, data') /\ AtAlong(next', it') = l
    BY <1>2, Mapped
  <1>5. ItemsAlong(next, data)' = ItemsAlong(next', data')
    OBVIOUS
  <1>6. AtAlong(next, it)' = AtAlong(next', it')
    OBVIOUS
  <1>7. Way(next') = v
    BY <1>2, WayIs DEF Ring
  <1>8. Len(ItemsOf(w, data)) = Len(w) /\ DOMAIN ItemsOf(w, data) = 1 .. Len(w)
    BY <1>1, ItemsAre DEF Ring
  <1>9. IInv'
    BY <1>4, <1>6, <1>7 DEF IInv, Listed
  <1>10. QED
    BY <1>3, <1>4, <1>5, <1>6, <1>8, <1>9

(* What the places are in a listed state. *)
LEMMA ListedPlaces ==
  ASSUME ListPremise, NEW w, NEW k, Listed(w, k)
  PROVE  /\ Order(w) /\ Len(w) \in Nat /\ k \in 0 .. Len(w) /\ it = Place(w, k)
         /\ Place(w, 0) = mHead /\ Place(w, Len(w) + 1) = mHead
         /\ \A i \in 1 .. Len(w) : Place(w, i) = w[i] /\ w[i] # mHead /\ w[i] \in Nodes
         /\ \A i, j \in 0 .. Len(w) : Place(w, i) = Place(w, j) => i = j
         /\ \A i \in 0 .. Len(w) : next[Place(w, i)] = Place(w, i + 1)
         /\ \A i \in 0 .. Len(w) : prev[Place(w, i + 1)] = Place(w, i)
         /\ next[mHead] = Place(w, 1) /\ prev[mHead] = Place(w, Len(w))
  <1>1. Ring(w, next, prev) /\ Order(w) /\ Leads(w, next) /\ k \in 0 .. Len(w) /\ it = Place(w, k)
        /\ \A i \in 0 .. Len(w) : prev[Place(w, i + 1)] = Place(w, i)
    BY DEF Listed, Ring
  <1>2. /\ Len(w) \in Nat /\ Place(w, 0) = mHead /\ Place(w, Len(w) + 1) = mHead
        /\ \A i \in 1 .. Len(w) : Place(w, i) = w[i] /\ w[i] # mHead /\ w[i] \in Nodes
        /\ \A i, j \in 0 .. Len(w) : Place(w, i) = Place(w, j) => i = j
    BY <1>1, PlacesDiffer
  <1>3. \A i \in 0 .. Len(w) : next[Place(w, i)] = Place(w, i + 1)
    BY <1>1 DEF Leads
  <1>4. next[mHead] = Place(w, 1) /\ prev[mHead] = Place(w, Len(w))
    BY <1>1, <1>2, <1>3
  <1>5. QED
    BY <1>1, <1>2, <1>3, <1>4

(* Link puts a new node with its item between two neighbours. *)
LEMMA LinkStep ==
  ASSUME ListPremise, NEW w, NEW k, Listed(w, k), NEW j \in 1 .. Len(w) + 1,
         NEW node \in Unused, NEW x \in Items, Link(node, x, Place(w, j - 1), Place(w, j))
  PROVE  /\ Ring(InsertAt(w, j, node), next', prev') /\ Holds(InsertAt(w, j, node), data')
         /\ mCount' = Len(InsertAt(w, j, node)) /\ Len(InsertAt(w, j, node)) = Len(w) + 1
         /\ ItemsOf(InsertAt(w, j, node), data') = InsertAt(ItemsOf(w, data), j, x)
         /\ \A i \in 0 .. Len(w) + 2 : Place(InsertAt(w, j, node), i) =
              IF i < j THEN Place(w, i) ELSE IF i = j THEN node ELSE Place(w, i - 1)
  <1>1. Ring(w, next, prev) /\ Order(w) /\ Holds(w, data) /\ mCount = Len(w)
    BY DEF Listed, Ring
  <1>2. node \in Nodes /\ \A i \in 1 .. Len(w) : w[i] # node
    BY <1>1 DEF Unused, Linked, Holds
  <1>3. /\ data' = [data EXCEPT ![node] = x]
        /\ next' = [next EXCEPT ![Place(w, j - 1)] = node, ![node] = Place(w, j)]
        /\ prev' = [prev EXCEPT ![Place(w, j)] = node, ![node] = Place(w, j - 1)]
        /\ mCount' = mCount + 1
    BY DEF Link
  <1>4. Ring(InsertAt(w, j, node), next', prev')
    BY <1>1, <1>2, <1>3, RingLinked
  <1>5. /\ Holds(InsertAt(w, j, node), data')
        /\ ItemsOf(InsertAt(w, j, node), data') = InsertAt(ItemsOf(w, data), j, x)
    <2>1. /\ Holds(InsertAt(w, j, node), [data EXCEPT ![node] = x])
          /\ ItemsOf(InsertAt(w, j, node), [data EXCEPT ![node] = x])
                = InsertAt(ItemsOf(w, data), j, x)
      BY <1>1, <1>2, ItemsInserted
    <2>2. QED
      BY <1>3, <2>1
  <1>6. /\ Len(InsertAt(w, j, node)) = Len(w) + 1
        /\ \A i \in 0 .. Len(w) + 2 : Place(InsertAt(w, j, node), i) =
             IF i < j THEN Place(w, i) ELSE IF i = j THEN node ELSE Place(w, i - 1)
    BY <1>1, <1>2, PlacesInserted
  <1>7. QED
    BY <1>1, <1>3, <1>4, <1>5, <1>6

(* Unlink takes a node out with its item. *)
LEMMA UnlinkStep ==
  ASSUME ListPremise, NEW w, NEW k, Listed(w, k), NEW j \in 1 .. Len(w), Unlink(w[j])
  PROVE  /\ Ring(RemoveAt(w, j), next', prev') /\ Holds(RemoveAt(w, j), data')
         /\ mCount' = Len(RemoveAt(w, j)) /\ Len(RemoveAt(w, j)) = Len(w) - 1
         /\ ItemsOf(RemoveAt(w, j), data') = RemoveAt(ItemsOf(w, data), j)
         /\ \A i \in 0 .. Len(w) : Place(RemoveAt(w, j), i) =
              IF i < j THEN Place(w, i) ELSE Place(w, i + 1)
  <1>1. Ring(w, next, prev) /\ Order(w) /\ Holds(w, data) /\ mCount = Len(w)
    BY DEF Listed, Ring
  <1>2. next[w[j]] = Place(w, j + 1) /\ prev[w[j]] = Place(w, j - 1)
    <2>1. j - 1 \in 0 .. Len(w) /\ (j - 1) + 1 = j /\ j \in 0 .. Len(w) /\ Place(w, j) = w[j]
      BY ListedPlaces
    <2>2. QED
      BY <2>1, ListedPlaces
  <1>3. /\ data' = [data EXCEPT ![w[j]] = NoItem]
        /\ next' = [next EXCEPT ![Place(w, j - 1)] = Place(w, j + 1), ![w[j]] = mHead]
        /\ prev' = [prev EXCEPT ![Place(w, j + 1)] = Place(w, j - 1), ![w[j]] = mHead]
        /\ mCount' = mCount - 1
    BY <1>2 DEF Unlink
  <1>4. Ring(RemoveAt(w, j), next', prev')
    BY <1>1, <1>3, RingUnlinked
  <1>5. /\ Holds(RemoveAt(w, j), data')
        /\ ItemsOf(RemoveAt(w, j), data') = RemoveAt(ItemsOf(w, data), j)
    <2>1. /\ Holds(RemoveAt(w, j), [data EXCEPT ![w[j]] = NoItem])
          /\ ItemsOf(RemoveAt(w, j), [data EXCEPT ![w[j]] = NoItem]) = RemoveAt(ItemsOf(w, data), j)
      BY <1>1, ItemsRemoved
    <2>2. QED
      BY <1>3, <2>1
  <1>6. /\ Len(RemoveAt(w, j)) = Len(w) - 1
        /\ \A i \in 0 .. Len(w) : Place(RemoveAt(w, j), i) =
             IF i < j THEN Place(w, i) ELSE Place(w, i + 1)
    BY <1>1, PlacesRemoved
  <1>7. QED
    BY <1>1, <1>3, <1>4, <1>5, <1>6

(* The remainders that carry a place round the ring. *)
LEMMA RoundTheRing ==
  ASSUME NEW n \in Nat, NEW k \in 0 .. n
  PROVE  /\ (k + 1) % (n + 1) = IF k = n THEN 0 ELSE k + 1
         /\ (k - 1) % (n + 1) = IF k = 0 THEN n ELSE k - 1
  <1>1. \A d \in Nat \ {0} : \A r \in 0 .. d - 1 : r % d = r
    OBVIOUS
  <1>2. \A d \in Nat \ {0} : d % d = 0
    OBVIOUS
  <1>3. \A d \in Nat \ {0} : (-1) % d = d - 1
    OBVIOUS
  <1> DEFINE d == n + 1
  <1>4. d \in Nat \ {0} /\ d - 1 = n
    OBVIOUS
  <1>5. (k + 1) % d = IF k = n THEN 0 ELSE k + 1
    <2>1. CASE k = n
      BY <1>2, <1>4, <2>1
    <2>2. CASE k # n
      <3>1. k + 1 \in 0 .. d - 1
        BY <2>2
      <3>2. QED
        BY <1>1, <1>4, <2>2, <3>1
    <2>3. QED
      BY <2>1, <2>2
  <1>6. (k - 1) % d = IF k = 0 THEN n ELSE k - 1
    <2>1. CASE k = 0
      <3>1. k - 1 = -1
        BY <2>1
      <3>2. QED
        BY <1>3, <1>4, <2>1, <3>1
    <2>2. CASE k # 0
      <3>1. k - 1 \in 0 .. d - 1
        BY <2>2
      <3>2. QED
        BY <1>1, <1>4, <2>2, <3>1
    <2>3. QED
      BY <2>1, <2>2
  <1>7. QED
    BY <1>5, <1>6

(* The steps of ItemSequence, said of the same. *)
LEMMA MappedNext ==
  LET s == ItemsAlong(next, data)
      t == ItemsAlong(next, data)'
      k == AtAlong(next, it)
      l == AtAlong(next, it)'
  IN  /\ \A x \in Items : \/ Abstract!Behind(x) \/ Abstract!Before(x) \/ Abstract!AtBack(x)
                         \/ Abstract!AtFront(x) \/ Abstract!Search(x) => Abstract!Next
      /\ k \in DOMAIN s /\ t = RemoveAt(s, k) /\ l = k - 1 => Abstract!Next
      /\ /\ k # 1 /\ 1 \in DOMAIN s
         /\ t = RemoveAt(s, 1) /\ l = IF k = 0 THEN 0 ELSE k - 1
         => Abstract!Next
      /\ k # Len(s) /\ Len(s) \in DOMAIN s /\ t = RemoveAt(s, Len(s)) /\ l = k => Abstract!Next
      /\ \A i \in DOMAIN s :
           k # 0 /\ t = [s EXCEPT ![k] = s[i], ![i] = s[k]] /\ l \in {k, i} => Abstract!Next
      /\ Abstract!Move \/ Abstract!Turn \/ Abstract!Clear => Abstract!Next
  <1> DEFINE s == ItemsAlong(next, data)
             t == ItemsAlong(next, data)'
             k == AtAlong(next, it)
             l == AtAlong(next, it)'
  <1>1. \A x \in Items : \/ Abstract!Behind(x) \/ Abstract!Before(x) \/ Abstract!AtBack(x)
                        \/ Abstract!AtFront(x) \/ Abstract!Search(x) => Abstract!Next
    BY DEF Abstract!Next
  <1>2. k \in DOMAIN s /\ t = RemoveAt(s, k) /\ l = k - 1 => Abstract!Next
    BY DEF Abstract!Next, Abstract!RemoveItem, Abstract!RemoveAt, RemoveAt, ItemsAlong, AtAlong
  <1>3. /\ k # 1 /\ 1 \in DOMAIN s
        /\ t = RemoveAt(s, 1) /\ l = IF k = 0 THEN 0 ELSE k - 1
        => Abstract!Next
    BY DEF Abstract!Next, Abstract!RemoveItem, Abstract!RemoveAt, RemoveAt, ItemsAlong, AtAlong
  <1>4. k # Len(s) /\ Len(s) \in DOMAIN s /\ t = RemoveAt(s, Len(s)) /\ l = k => Abstract!Next
    BY DEF Abstract!Next, Abstract!RemoveItem, Abstract!RemoveAt, RemoveAt, ItemsAlong, AtAlong
  <1>5. \A i \in DOMAIN s :
          k # 0 /\ t = [s EXCEPT ![k] = s[i], ![i] = s[k]] /\ l \in {k, i} => Abstract!Next
    BY DEF Abstract!Next, Abstract!Exchange, ItemsAlong, AtAlong
  <1>6. Abstract!Move \/ Abstract!Turn \/ Abstract!Clear => Abstract!Next
    BY DEF Abstract!Next
  <1>7. QED
    BY <1>1, <1>2, <1>3, <1>4, <1>5, <1>6

(* A node linked in: the ring stays one, and its item is inserted. *)
LEMMA LinkedIn ==
  ASSUME ListPremise, NEW w, NEW k, Listed(w, k), NEW j \in 1 .. Len(w) + 1,
         NEW node \in Unused, NEW x \in Items, Link(node, x, Place(w, j - 1), Place(w, j)),
         NEW l \in 0 .. Len(w) + 1,
         it' = IF l < j THEN Place(w, l) ELSE IF l = j THEN node ELSE Place(w, l - 1)
  PROVE  /\ IInv'
         /\ ItemsAlong(next, data)' = InsertAt(ItemsAlong(next, data), j, x)
         /\ AtAlong(next, it)' = l
  <1> DEFINE v == InsertAt(w, j, node)
  <1>1. /\ Ring(v, next', prev') /\ Holds(v, data')
        /\ mCount' = Len(v) /\ Len(v) = Len(w) + 1
        /\ ItemsOf(v, data') = InsertAt(ItemsOf(w, data), j, x)
        /\ \A i \in 0 .. Len(w) + 2 : Place(v, i) =
             IF i < j THEN Place(w, i) ELSE IF i = j THEN node ELSE Place(w, i - 1)
    BY LinkStep
  <1> HIDE DEF v
  <1>2. Len(w) \in Nat
    BY ListedPlaces
  <1>3. l \in 0 .. Len(v) /\ it' = Place(v, l)
    BY <1>1, <1>2
  <1>4. Listed(v, l)'
    BY <1>1, <1>3 DEF Listed
  <1>5. QED
    BY <1>1, <1>4, MappedTo

(* append, prepend, insertAfter and insertBefore. *)
LEMMA Insertions ==
  ASSUME ListPremise, NEW w, NEW k, Listed(w, k), NEW x \in Items,
         AppendItem(x) \/ Prepend(x) \/ InsertAfter(x) \/ InsertBefore(x)
  PROVE  IInv' /\ Abstract!Next
  <1> DEFINE n == Len(w)
  <1>1. /\ n \in Nat /\ k \in 0 .. n /\ it = Place(w, k)
        /\ Place(w, 0) = mHead /\ Place(w, n + 1) = mHead
        /\ next[mHead] = Place(w, 1) /\ prev[mHead] = Place(w, n)
        /\ \A i \in 0 .. n : next[Place(w, i)] = Place(w, i + 1)
        /\ \A i \in 0 .. n : prev[Place(w, i + 1)] = Place(w, i)
    BY ListedPlaces
  <1>2. /\ Len(ItemsAlong(next, data)) = n /\ AtAlong(next, it) = k
    <2>1. /\ Ring(w, next, prev) /\ Order(w) /\ Holds(w, data)
          /\ k \in 0 .. Len(w) /\ it = Place(w, k)
      BY DEF Listed, Ring
    <2>2. ItemsAlong(next, data) = ItemsOf(w, data) /\ AtAlong(next, it) = k
      BY <2>1, Mapped
    <2>3. Len(ItemsOf(w, data)) = n
      BY <2>1, ItemsAre
    <2>4. QED
      BY <2>2, <2>3
  <1>3. CASE AppendItem(x)
    <2>1. PICK node \in Unused : Link(node, x, prev[mHead], mHead) /\ it' = it
      BY <1>3 DEF AppendItem
    <2>2. n + 1 \in 1 .. n + 1 /\ (n + 1) - 1 = n /\ k \in 0 .. n + 1 /\ k < n + 1
      BY <1>1
    <2>3. Link(node, x, Place(w, (n + 1) - 1), Place(w, n + 1))
      BY <1>1, <2>1, <2>2
    <2>4. /\ IInv'
          /\ ItemsAlong(next, data)' = InsertAt(ItemsAlong(next, data), n + 1, x)
          /\ AtAlong(next, it)' = k
      BY <1>1, <2>1, <2>2, <2>3, LinkedIn
    <2>5. Abstract!AtBack(x)
      BY <1>2, <2>4, MappedSteps
    <2>6. QED
      BY <2>4, <2>5, MappedNext
  <1>4. CASE Prepend(x)
    <2> DEFINE l == IF k = 0 THEN 0 ELSE k + 1
    <2>1. PICK node \in Unused : Link(node, x, mHead, next[mHead]) /\ it' = it
      BY <1>4 DEF Prepend
    <2>2. 1 \in 1 .. n + 1 /\ 1 - 1 = 0 /\ l \in 0 .. n + 1
      BY <1>1
    <2>3. Link(node, x, Place(w, 1 - 1), Place(w, 1))
      BY <1>1, <2>1, <2>2
    <2>4. it' = IF l < 1 THEN Place(w, l) ELSE IF l = 1 THEN node ELSE Place(w, l - 1)
      BY <1>1, <2>1
    <2>5. /\ IInv'
          /\ ItemsAlong(next, data)' = InsertAt(ItemsAlong(next, data), 1, x)
          /\ AtAlong(next, it)' = l
      BY <2>2, <2>3, <2>4, LinkedIn
    <2>6. Abstract!AtFront(x)
      BY <1>2, <2>5, MappedSteps
    <2>7. QED
      BY <2>5, <2>6, MappedNext
  <1>5. CASE InsertAfter(x)
    <2>1. PICK node \in Unused : Link(node, x, it, next[it]) /\ it' = node
      BY <1>5 DEF InsertAfter
    <2>2. k + 1 \in 1 .. n + 1 /\ (k + 1) - 1 = k /\ k + 1 \in 0 .. n + 1
      BY <1>1
    <2>3. Link(node, x, Place(w, (k + 1) - 1), Place(w, k + 1))
      BY <1>1, <2>1, <2>2
    <2>4. /\ IInv'
          /\ ItemsAlong(next, data)' = InsertAt(ItemsAlong(next, data), k + 1, x)
          /\ AtAlong(next, it)' = k + 1
      BY <2>1, <2>2, <2>3, LinkedIn
    <2>5. Abstract!Behind(x)
      BY <1>2, <2>4, MappedSteps
    <2>6. QED
      BY <2>4, <2>5, MappedNext
  <1>6. CASE InsertBefore(x)
    <2> DEFINE j == IF k = 0 THEN n + 1 ELSE k
    <2>1. PICK node \in Unused : Link(node, x, prev[it], it) /\ it' = node
      BY <1>6 DEF InsertBefore
    <2>2. j \in 1 .. n + 1 /\ j \in 0 .. n + 1 /\ j - 1 \in 0 .. n /\ (j - 1) + 1 = j
      BY <1>1
    <2>3. it = Place(w, j)
      BY <1>1
    <2>4. prev[it] = Place(w, j - 1)
      BY <1>1, <2>2, <2>3
    <2> HIDE DEF j
    <2>5. Link(node, x, Place(w, j - 1), Place(w, j))
      BY <2>1, <2>3, <2>4
    <2>6. /\ IInv'
          /\ ItemsAlong(next, data)' = InsertAt(ItemsAlong(next, data), j, x)
          /\ AtAlong(next, it)' = j
      BY <2>1, <2>2, <2>5, LinkedIn
    <2>7. Abstract!Before(x)
      BY <1>2, <2>6, MappedSteps DEF j
    <2>8. QED
      BY <2>6, <2>7, MappedNext
  <1>7. QED
    BY <1>3, <1>4, <1>5, <1>6

(* A node taken out: the ring stays one, and its item is removed. *)
LEMMA TakenOut ==
  ASSUME ListPremise, NEW w, NEW k, Listed(w, k), NEW j \in 1 .. Len(w), Unlink(w[j]),
         NEW l \in 0 .. Len(w) - 1, it' = IF l < j THEN Place(w, l) ELSE Place(w, l + 1)
  PROVE  /\ IInv'
         /\ ItemsAlong(next, data)' = RemoveAt(ItemsAlong(next, data), j)
         /\ AtAlong(next, it)' = l
  <1> DEFINE v == RemoveAt(w, j)
  <1>1. /\ Ring(v, next', prev') /\ Holds(v, data')
        /\ mCount' = Len(v) /\ Len(v) = Len(w) - 1
        /\ ItemsOf(v, data') = RemoveAt(ItemsOf(w, data), j)
        /\ \A i \in 0 .. Len(w) : Place(v, i) = IF i < j THEN Place(w, i) ELSE Place(w, i + 1)
    BY UnlinkStep
  <1> HIDE DEF v
  <1>2. Len(w) \in Nat
    BY ListedPlaces
  <1>3. l \in 0 .. Len(v) /\ it' = Place(v, l)
    BY <1>1, <1>2
  <1>4. Listed(v, l)'
    BY <1>1, <1>3 DEF Listed
  <1>5. QED
    BY <1>1, <1>4, MappedTo

(* removeItem, popFront and popBack. *)
LEMMA Removals ==
  ASSUME ListPremise, NEW w, NEW k, Listed(w, k), RemoveItem \/ PopFront \/ PopBack
  PROVE  IInv' /\ Abstract!Next
  <1> DEFINE n == Len(w)
  <1>1. /\ n \in Nat /\ k \in 0 .. n /\ it = Place(w, k) /\ mCount = n
        /\ Place(w, 0) = mHead
        /\ \A i \in 1 .. n : Place(w, i) = w[i]
        /\ next[mHead] = Place(w, 1) /\ prev[mHead] = Place(w, n)
        /\ \A i \in 0 .. n : prev[Place(w, i + 1)] = Place(w, i)
    BY ListedPlaces DEF Listed
  <1>2. /\ Len(ItemsAlong(next, data)) = n /\ AtAlong(next, it) = k
        /\ DOMAIN ItemsAlong(next, data) = 1 .. n
    BY Mapped, ItemsAre DEF Listed, Ring
  <1>3. CASE RemoveItem
    <2>1. it # mHead /\ Unlink(it) /\ it' = prev[it]
      BY <1>3 DEF RemoveItem
    <2>2. k \in 1 .. n /\ k - 1 \in 0 .. n - 1 /\ k - 1 \in 0 .. n /\ (k - 1) + 1 = k /\ k - 1 < k
      BY <1>1, <2>1
    <2>3. it = w[k] /\ it' = Place(w, k - 1)
      BY <1>1, <2>1, <2>2
    <2>4. Unlink(w[k])
      BY <2>1, <2>3
    <2>5. /\ IInv'
          /\ ItemsAlong(next, data)' = RemoveAt(ItemsAlong(next, data), k)
          /\ AtAlong(next, it)' = k - 1
      BY <2>2, <2>3, <2>4, TakenOut
    <2>6. QED
      BY <1>2, <2>2, <2>5, MappedNext
  <1>4. CASE PopFront
    <2> DEFINE l == IF k = 0 THEN 0 ELSE k - 1
    <2>1. n > 0 /\ it # Place(w, 1) /\ Unlink(Place(w, 1)) /\ it' = it
      BY <1>1, <1>4 DEF PopFront
    <2>2. k # 1 /\ 1 \in 1 .. n /\ l \in 0 .. n - 1 /\ (k # 0 => ~(l < 1) /\ l + 1 = k)
      BY <1>1, <2>1
    <2>3. Unlink(w[1])
      BY <1>1, <2>1, <2>2
    <2>4. it' = IF l < 1 THEN Place(w, l) ELSE Place(w, l + 1)
      BY <1>1, <2>1, <2>2
    <2> HIDE DEF l
    <2>5. /\ IInv'
          /\ ItemsAlong(next, data)' = RemoveAt(ItemsAlong(next, data), 1)
          /\ AtAlong(next, it)' = l
      BY <2>2, <2>3, <2>4, TakenOut
    <2>6. QED
      BY <1>2, <2>2, <2>5, MappedNext DEF l
  <1>5. CASE PopBack
    <2>1. n > 0 /\ it # Place(w, n) /\ Unlink(Place(w, n)) /\ it' = it
      BY <1>1, <1>5 DEF PopBack
    <2>2. k # n /\ n \in 1 .. n /\ k \in 0 .. n - 1 /\ k < n
      BY <1>1, <2>1
    <2>3. Unlink(w[n])
      BY <1>1, <2>1, <2>2
    <2>4. it' = IF k < n THEN Place(w, k) ELSE Place(w, k + 1)
      BY <1>1, <2>1, <2>2
    <2>5. /\ IInv'
          /\ ItemsAlong(next, data)' = RemoveAt(ItemsAlong(next, data), n)
          /\ AtAlong(next, it)' = k
      BY <2>2, <2>3, <2>4, TakenOut
    <2>6. QED
      BY <1>2, <2>2, <2>5, MappedNext
  <1>6. QED
    BY <1>3, <1>4, <1>5

(* The iterator moved to another place. *)
LEMMA MovedTo ==
  ASSUME ListPremise, NEW w, NEW k, Listed(w, k), UNCHANGED <<next, prev, data, mCount>>,
         NEW l \in 0 .. Len(w), it' = Place(w, l)
  PROVE  /\ IInv'
         /\ ItemsAlong(next, data)' = ItemsAlong(next, data)
         /\ AtAlong(next, it)' = l
  <1>1. Listed(w, l)'
    BY DEF Listed
  <1>2. ItemsAlong(next, data)' = ItemsOf(w, data)
    BY <1>1, MappedTo
  <1>3. QED
    BY <1>1, <1>2, MappedTo

(* Forward and backward, round the ring. *)
LEMMA Movements ==
  ASSUME ListPremise, NEW w, NEW k, Listed(w, k), Forward \/ Backward
  PROVE  IInv' /\ Abstract!Next
  <1> DEFINE n == Len(w)
             forth == IF k = n THEN 0 ELSE k + 1
             back == IF k = 0 THEN n ELSE k - 1
  <1>1. /\ n \in Nat /\ k \in 0 .. n /\ it = Place(w, k)
        /\ Place(w, 0) = mHead /\ Place(w, n + 1) = mHead
        /\ prev[mHead] = Place(w, n)
        /\ \A i \in 0 .. n : next[Place(w, i)] = Place(w, i + 1)
        /\ \A i \in 0 .. n : prev[Place(w, i + 1)] = Place(w, i)
    BY ListedPlaces
  <1>2. /\ Len(ItemsAlong(next, data)) = n /\ AtAlong(next, it) = k
    BY Mapped, ItemsAre DEF Listed, Ring
  <1>3. (k + 1) % (n + 1) = forth /\ (k - 1) % (n + 1) = back
    BY <1>1, RoundTheRing
  <1>4. CASE Forward
    <2>1. it' = next[it] /\ UNCHANGED <<next, prev, data, mCount>>
      BY <1>4 DEF Forward
    <2>2. forth \in 0 .. n /\ it' = Place(w, forth)
      BY <1>1, <2>1
    <2> HIDE DEF forth
    <2>3. IInv' /\ ItemsAlong(next, data)' = ItemsAlong(next, data) /\ AtAlong(next, it)' = forth
      BY <2>1, <2>2, MovedTo
    <2>4. Abstract!Move
      BY <1>2, <1>3, <2>3, MappedSteps
    <2>5. QED
      BY <2>3, <2>4, MappedNext
  <1>5. CASE Backward
    <2>1. it' = prev[it] /\ UNCHANGED <<next, prev, data, mCount>>
      BY <1>5 DEF Backward
    <2>2. back \in 0 .. n
      BY <1>1
    <2>3. it' = Place(w, back)
      <3>1. CASE k = 0
        BY <1>1, <2>1, <3>1
      <3>2. CASE k # 0
        <4>1. k - 1 \in 0 .. n /\ (k - 1) + 1 = k
          BY <1>1, <3>2
        <4>2. QED
          BY <1>1, <2>1, <3>2, <4>1
      <3>3. QED
        BY <3>1, <3>2
    <2> HIDE DEF back
    <2>4. IInv' /\ ItemsAlong(next, data)' = ItemsAlong(next, data) /\ AtAlong(next, it)' = back
      BY <2>1, <2>2, <2>3, MovedTo
    <2>5. Abstract!Move
      BY <1>2, <1>3, <2>4, MappedSteps
    <2>6. QED
      BY <2>4, <2>5, MappedNext
  <1>6. QED
    BY <1>4, <1>5

(* An element that no other is less than is the least. *)
LEMMA LeastIs == ASSUME NEW S, S \subseteq Int, NEW m \in S, \A y \in S : m <= y
                 PROVE  Min(S) = m
  <1>1. \A z \in S : (\A y \in S : z <= y) => z = m
    BY SMT
  <1>2. QED
    BY <1>1 DEF Min

(* Likewise the greatest. *)
LEMMA GreatestIs == ASSUME NEW S, S \subseteq Int, NEW m \in S, \A y \in S : m >= y
                    PROVE  Max(S) = m
  <1>1. \A z \in S : (\A y \in S : z >= y) => z = m
    BY SMT
  <1>2. QED
    BY <1>1 DEF Max

(* Either no node of w holds x or one does first. *)
LEMMA FirstFound ==
  ASSUME NEW w, Order(w), NEW da, NEW x
  PROVE  \E f : First(w, da, x, f)
  <1> DEFINE n == Len(w)
             S == {i \in 1 .. n + 1 : i = n + 1 \/ da[w[i]] = x}
  <1>1. n \in Nat
    BY DEF Order
  <1>2. S \subseteq Nat /\ n + 1 \in S
    BY <1>1
  <1>3. PICK f \in S : \A y \in S : f <= y
    <2> HIDE DEF S
    <2>1. QED
      BY <1>2, LeastNatural
  <1>4. f \in 1 .. n + 1 /\ (f \in 1 .. n => da[w[f]] = x)
    BY <1>1
  <1>5. ASSUME NEW i \in 1 .. n, i < f PROVE da[w[i]] # x
    BY <1>1, <1>3, <1>5
  <1>6. QED
    BY <1>4, <1>5 DEF First

(* find, from either end: the first or the last node with the item, or the
   end of the list. *)
LEMMA Finding ==
  ASSUME ListPremise, NEW w, NEW k, Listed(w, k), NEW x \in Items, Find(x)
  PROVE  IInv' /\ Abstract!Next
  <1> DEFINE n == Len(w)
             r == Reverse(w)
             s == ItemsAlong(next, data)
             found == {i \in DOMAIN s : s[i] = x}
  <1>1. /\ n \in Nat /\ Place(w, 0) = mHead /\ Place(w, n + 1) = mHead
        /\ Order(w) /\ Leads(w, next) /\ Ring(w, next, prev) /\ Holds(w, data)
    BY ListedPlaces DEF Listed, Ring
  <1>2. /\ Order(r) /\ Leads(r, prev) /\ Len(r) = n
        /\ \A j \in 0 .. n + 1 : Place(r, j) = Place(w, n + 1 - j)
    BY <1>1, RingTurned, PlacesReversed DEF Ring
  <1>3. DOMAIN s = 1 .. n /\ \A i \in 1 .. n : s[i] = data[w[i]]
    <2>1. s = ItemsOf(w, data)
      BY Mapped DEF Listed
    <2>2. QED
      BY <1>1, <2>1, ItemsAre
  <1> HIDE DEF s
  <1>4. found = {i \in 1 .. n : data[w[i]] = x}
    BY <1>3
  <1>5. PICK f : First(w, data, x, f)
    BY <1>1, FirstFound
  <1>6. PICK b : First(r, data, x, b)
    <2> HIDE DEF r
    <2>1. QED
      BY <1>2, FirstFound
  <1>7. FindAfter(next[mHead], x) = Place(w, f)
    <2>1. Ends(next[mHead], next, data, x, Place(w, f))
      BY <1>1, <1>5, LooksEnd
    <2>2. QED
      BY <2>1, WalkUnfolds
  <1>8. FindBefore(prev[mHead], x) = Place(r, b)
    <2> HIDE DEF r
    <2>1. Ends(prev[mHead], prev, data, x, Place(r, b))
      BY <1>2, <1>6, LooksEnd
    <2>2. QED
      BY <2>1, WalkUnfolds
  <1>9. /\ f \in 1 .. n + 1 /\ b \in 1 .. n + 1 /\ n + 1 - b \in 0 .. n
        /\ Place(r, b) = Place(w, n + 1 - b)
    <2>1. f \in 1 .. n + 1 /\ b \in 1 .. n + 1
      BY <1>2, <1>5, <1>6 DEF First
    <2> HIDE DEF r
    <2>2. b \in 0 .. n + 1 /\ n + 1 - b \in 0 .. n
      BY <1>1, <2>1
    <2>3. QED
      BY <1>2, <2>1, <2>2
  <1>10. \A i \in 1 .. n : r[n + 1 - i] = w[i] /\ n + 1 - i \in 1 .. n
    <2> HIDE DEF n
    <2>1. w \in Seq(Nodes)
      BY <1>1 DEF Order
    <2>2. \A j \in 1 .. n : r[j] = w[n + 1 - j]
      BY <2>1, Reversed DEF n
    <2>3. \A i \in 1 .. n : n + 1 - i \in 1 .. n /\ n + 1 - (n + 1 - i) = i
      BY <1>1
    <2> HIDE DEF r
    <2>4. QED
      BY <2>2, <2>3
  <1> HIDE DEF r
  <1>11. \A i \in 1 .. n : /\ i < f => data[w[i]] # x
                           /\ i > n + 1 - b => data[w[i]] # x
    <2>1. ASSUME NEW i \in 1 .. n, i > n + 1 - b PROVE data[w[i]] # x
      <3>1. n + 1 - i \in 1 .. n /\ n + 1 - i < b /\ r[n + 1 - i] = w[i]
        BY <1>1, <1>9, <1>10, <2>1
      <3>2. QED
        BY <1>2, <1>6, <3>1 DEF First
    <2>2. ASSUME NEW i \in 1 .. n, i < f PROVE data[w[i]] # x
      BY <1>5, <2>2 DEF First
    <2>3. QED
      BY <2>1, <2>2
  <1>12. /\ f \in 1 .. n => data[w[f]] = x
         /\ b \in 1 .. n => n + 1 - b \in 1 .. n /\ data[w[n + 1 - b]] = x
    <2>1. ASSUME b \in 1 .. n PROVE n + 1 - b \in 1 .. n /\ data[w[n + 1 - b]] = x
      <3>1. n + 1 - b \in 1 .. n /\ n + 1 - (n + 1 - b) = b
        BY <1>1, <2>1
      <3>2. r[b] = w[n + 1 - b]
        BY <1>10, <3>1
      <3>3. QED
        BY <1>2, <1>6, <2>1, <3>1, <3>2 DEF First
    <2>2. f \in 1 .. n => data[w[f]] = x
      BY <1>5 DEF First
    <2>3. QED
      BY <2>1, <2>2
  <1> DEFINE there == IF f = n + 1 THEN 0 ELSE f
  <1>13. /\ UNCHANGED <<next, prev, data, mCount>>
         /\ it' = Place(w, there) \/ it' = Place(w, n + 1 - b)
         /\ there \in 0 .. n
    BY <1>1, <1>7, <1>8, <1>9 DEF Find
  <1> HIDE DEF found
  <1>14. {there, n + 1 - b} \subseteq IF found = {} THEN {0} ELSE {Min(found), Max(found)}
    <2>1. found \subseteq Int
      BY <1>1, <1>4
    <2>2. CASE found = {}
      <3>1. f \notin 1 .. n /\ b \notin 1 .. n
        BY <1>4, <1>12, <2>2
      <3>2. there = 0 /\ n + 1 - b = 0
        BY <1>1, <1>9, <3>1
      <3>3. QED
        BY <2>2, <3>2
    <2>3. CASE found # {}
      <3>1. PICK i \in 1 .. n : data[w[i]] = x
        BY <1>4, <2>3
      <3>2. i >= f /\ i <= n + 1 - b
        BY <1>1, <1>9, <1>11, <3>1
      <3>3. f \in 1 .. n /\ b \in 1 .. n
        BY <1>1, <1>9, <3>2
      <3>4. f \in found /\ n + 1 - b \in found /\ there = f
        BY <1>4, <1>12, <3>3
      <3>5. \A y \in found : f <= y /\ n + 1 - b >= y
        BY <1>1, <1>4, <1>9, <1>11
      <3>6. Min(found) = f /\ Max(found) = n + 1 - b
        BY <2>1, <3>4, <3>5, LeastIs, GreatestIs
      <3>7. QED
        BY <2>3, <3>4, <3>6
    <2>4. QED
      BY <2>2, <2>3
  <1>15. PICK l \in {there, n + 1 - b} : it' = Place(w, l)
    BY <1>13
  <1> HIDE DEF there
  <1>16. l \in 0 .. n
    BY <1>9, <1>13
  <1>17. IInv' /\ s' = s /\ AtAlong(next, it)' = l
    BY <1>13, <1>15, <1>16, MovedTo DEF s
  <1>18. l \in IF found = {} THEN {0} ELSE {Min(found), Max(found)}
    BY <1>14, <1>15
  <1>19. Abstract!Search(x)
    BY <1>17, <1>18, MappedSteps DEF s, found
  <1>20. QED
    BY <1>17, <1>19, MappedNext

(* swapLinks of nodes that are no neighbours, and swapValues. *)
LEMMA Swappings ==
  ASSUME ListPremise, NEW w, NEW k, Listed(w, k), NEW b \in Nodes, SwapLinks(b) \/ SwapValues(b)
  PROVE  IInv' /\ Abstract!Next
  <1> DEFINE n == Len(w)
             s == ItemsAlong(next, data)
             t == ItemsAlong(next, data)'
  <1>1. /\ n \in Nat /\ k \in 0 .. n /\ it = Place(w, k) /\ Place(w, 0) = mHead
        /\ \A i \in 1 .. n : Place(w, i) = w[i] /\ w[i] # mHead
        /\ \A i \in 0 .. n : next[Place(w, i)] = Place(w, i + 1)
        /\ Order(w) /\ Ring(w, next, prev) /\ Holds(w, data) /\ mCount = n
    BY ListedPlaces DEF Listed, Ring
  <1>2. /\ s = ItemsOf(w, data) /\ AtAlong(next, it) = k /\ DOMAIN s = 1 .. n
    <2>1. s = ItemsOf(w, data) /\ AtAlong(next, it) = k
      BY <1>1, Mapped
    <2>2. DOMAIN ItemsOf(w, data) = 1 .. n
      BY <1>1, ItemsAre
    <2>3. QED
      BY <2>1, <2>2
  <1>3. it # mHead /\ b \in Linked
    BY DEF SwapLinks, SwapValues
  <1>4. k \in 1 .. n /\ it = w[k] /\ k # 0
    BY <1>1, <1>3
  <1>5. PICK j \in 1 .. n : b = w[j]
    BY <1>1, <1>3 DEF Linked, Holds
  <1>6. ASSUME t = Swap(s, k, j), AtAlong(next, it)' \in {k, j} PROVE Abstract!Next
    <2>1. t = [s EXCEPT ![k] = s[j], ![j] = s[k]]
      BY <1>6 DEF Swap
    <2> HIDE DEF s, t
    <2>2. QED
      BY <1>2, <1>4, <1>5, <1>6, <2>1, MappedNext DEF s, t
  <1> HIDE DEF s, t
  <1>7. CASE SwapLinks(b)
    <2> DEFINE v == Swap(w, k, j)
               n1 == [next EXCEPT ![prev[w[k]]] = w[j], ![prev[w[j]]] = w[k]]
               p1 == [prev EXCEPT ![next[w[k]]] = w[j], ![next[w[j]]] = w[k]]
    <2>1. /\ b # next[it] /\ b # prev[it]
          /\ next' = [n1 EXCEPT ![w[k]] = n1[w[j]], ![w[j]] = n1[w[k]]]
          /\ prev' = [p1 EXCEPT ![w[k]] = p1[w[j]], ![w[j]] = p1[w[k]]]
          /\ data' = data /\ mCount' = mCount /\ it' = it
      BY <1>4, <1>5, <1>7 DEF SwapLinks
    <2>2. j # k + 1 /\ k # j + 1
      <3>1. next[w[k]] = Place(w, k + 1) /\ \A i \in 0 .. n : prev[Place(w, i + 1)] = Place(w, i)
        BY <1>1, <1>4, ListedPlaces
      <3>2. ASSUME j = k + 1 PROVE FALSE
        BY <1>1, <1>4, <1>5, <2>1, <3>1, <3>2
      <3>3. ASSUME k = j + 1 PROVE FALSE
        <4>1. j \in 0 .. n /\ prev[Place(w, j + 1)] = Place(w, j)
          BY <1>1, <1>5, <3>1
        <4>2. QED
          BY <1>1, <1>4, <1>5, <2>1, <3>3, <4>1
      <3>4. QED
        BY <3>2, <3>3
    <2>3. Ring(v, next', prev')
      <3>1. Ring(v, [n1 EXCEPT ![w[k]] = n1[w[j]], ![w[j]] = n1[w[k]]],
                    [p1 EXCEPT ![w[k]] = p1[w[j]], ![w[j]] = p1[w[k]]])
        BY <1>1, <1>4, <1>5, <2>2, RingSwapped
      <3> HIDE DEF v, n1, p1
      <3>2. QED
        BY <2>1, <3>1
    <2>4. /\ Len(v) = n
          /\ \A i \in 0 .. n + 1 : Place(v, i) =
               IF i = k THEN w[j] ELSE IF i = j THEN w[k] ELSE Place(w, i)
      <3>1. Order(w) /\ k \in 1 .. Len(w) /\ j \in 1 .. Len(w)
        BY <1>1, <1>4
      <3>2. QED
        BY <3>1, PlacesExchanged
    <2>5. Holds(v, data) /\ ItemsOf(v, data) = Swap(ItemsOf(w, data), k, j)
      BY <1>1, <1>4, <1>5, ItemsSwapped
    <2> HIDE DEF v
    <2>6. j \in 0 .. n /\ j \in 0 .. n + 1 /\ Place(v, j) = it
      <3>1. j \in 0 .. n /\ j \in 0 .. n + 1
        BY <1>1, <1>5
      <3>2. QED
        BY <1>4, <2>4, <3>1
    <2>7. Listed(v, j)'
      BY <1>1, <2>1, <2>3, <2>4, <2>5, <2>6 DEF Listed
    <2>8. IInv' /\ t = Swap(s, k, j) /\ AtAlong(next, it)' = j
      <3>1. IInv' /\ t = ItemsOf(v, data') /\ AtAlong(next, it)' = j
        BY <2>7, MappedTo DEF t
      <3>2. QED
        BY <1>2, <2>1, <2>5, <3>1
    <2>9. QED
      BY <1>6, <2>8
  <1>8. CASE SwapValues(b)
    <2> DEFINE da2 == [data EXCEPT ![w[k]] = data[w[j]], ![w[j]] = data[w[k]]]
    <2>1. /\ data' = da2
          /\ next' = next /\ prev' = prev /\ mCount' = mCount /\ it' = it
      BY <1>4, <1>5, <1>8 DEF SwapValues
    <2>2. Holds(w, da2) /\ ItemsOf(w, da2) = Swap(ItemsOf(w, data), k, j)
      <3>1. Order(w) /\ Holds(w, data) /\ k \in 1 .. Len(w) /\ j \in 1 .. Len(w)
        BY <1>1, <1>4
      <3>2. QED
        BY <3>1, ItemsExchanged
    <2> HIDE DEF da2
    <2>3. Listed(w, k)'
      BY <1>1, <2>1, <2>2 DEF Listed
    <2>4. IInv' /\ t = Swap(s, k, j) /\ AtAlong(next, it)' = k
      <3>1. IInv' /\ t = ItemsOf(w, data') /\ AtAlong(next, it)' = k
        BY <2>3, MappedTo DEF t
      <3>2. QED
        BY <1>2, <2>1, <2>2, <3>1
    <2>5. QED
      BY <1>6, <2>4
  <1>9. QED
    BY <1>7, <1>8

(* reverse. *)
LEMMA Turning ==
  ASSUME ListPremise, NEW w, NEW k, Listed(w, k), ReverseAll
  PROVE  IInv' /\ Abstract!Next
  <1> DEFINE n == Len(w)
             r == Reverse(w)
             l == IF k = 0 THEN 0 ELSE n + 1 - k
  <1>1. /\ n \in Nat /\ k \in 0 .. n /\ it = Place(w, k) /\ Place(w, 0) = mHead
        /\ Place(w, n + 1) = mHead
        /\ Order(w) /\ Ring(w, next, prev) /\ Holds(w, data) /\ mCount = n
    BY ListedPlaces DEF Listed, Ring
  <1>2. /\ Ring(r, prev, next) /\ Len(r) = n
        /\ \A j \in 0 .. n + 1 : Place(r, j) = Place(w, n + 1 - j)
    BY <1>1, RingTurned, PlacesReversed
  <1>3. Holds(r, data) /\ ItemsOf(r, data) = Reverse(ItemsOf(w, data))
    BY <1>1, ItemsReversed
  <1> HIDE DEF r
  <1>4. l \in 0 .. n /\ l \in 0 .. n + 1 /\ n + 1 - l = (IF k = 0 THEN n + 1 ELSE k)
    BY <1>1
  <1>5. Place(r, l) = it
    BY <1>1, <1>2, <1>4
  <1>6. next' = prev /\ prev' = next /\ data' = data /\ mCount' = mCount /\ it' = it
    BY DEF ReverseAll
  <1>7. Listed(r, l)'
    <2> HIDE DEF l
    <2>1. QED
      BY <1>1, <1>2, <1>3, <1>4, <1>5, <1>6 DEF Listed
  <1>8. /\ IInv' /\ ItemsAlong(next, data)' = ItemsOf(r, data') /\ AtAlong(next, it)' = l
        /\ ItemsAlong(next, data) = ItemsOf(w, data) /\ AtAlong(next, it) = k
        /\ Len(ItemsOf(w, data)) = n
    BY <1>7, MappedTo
  <1>9. Abstract!Turn
    BY <1>3, <1>6, <1>8, MappedSteps
  <1>10. QED
    BY <1>8, <1>9, MappedNext

(* The empty list. *)
LEMMA Empty ==
  ASSUME ListPremise
  PROVE  LET nx == [n \in Addresses |-> mHead]
             da == [n \in Addresses |-> NoItem]
         IN  /\ Ring(<<>>, nx, nx) /\ Holds(<<>>, da) /\ Len(<<>>) = 0 /\ Place(<<>>, 0) = mHead
             /\ ItemsOf(<<>>, da) = <<>>
  <1>1. /\ Len(<<>>) = 0 /\ <<>> \in Seq(Nodes)
        /\ \A i : Place(<<>>, i) = mHead
    BY DEF Place
  <1>2. mHead \in Addresses /\ \A n \in Nodes : n \in Addresses
    BY DEF Addresses
  <1>3. ItemsOf(<<>>, [n \in Addresses |-> NoItem]) = <<>>
    BY <1>1 DEF ItemsOf
  <1>4. QED
    BY <1>1, <1>2, <1>3 DEF Ring, Order, Leads, Holds

(* clear. *)
LEMMA Clearing ==
  ASSUME ListPremise, NEW w, NEW k, Listed(w, k), Clear
  PROVE  IInv' /\ Abstract!Next
  <1>1. Listed(<<>>, 0)' /\ ItemsOf(<<>>, data') = <<>>
    BY Empty DEF Clear, Listed
  <1>2. IInv' /\ ItemsAlong(next, data)' = <<>> /\ AtAlong(next, it)' = 0
    BY <1>1, MappedTo
  <1>3. Abstract!Clear
    BY <1>2, MappedSteps
  <1>4. QED
    BY <1>2, <1>3, MappedNext

-----------------------------------------------------------------------------
(* The theorems                                                            *)

(* In a listed state the iterator's place is the one the map finds. *)
LEMMA InvariantIs ==
  ASSUME ListPremise
  PROVE  IInv <=> \E w, k : Listed(w, k)
  <1>1. ASSUME NEW w, NEW k, Listed(w, k) PROVE IInv
    <2>1. Way(next) = w /\ AtAlong(next, it) = k
      BY <1>1, Mapped, WayIs DEF Listed, Ring
    <2>2. QED
      BY <1>1, <2>1 DEF IInv
  <1>2. QED
    BY <1>1 DEF IInv

(* A new list is empty. *)
LEMMA StartsEmpty == ASSUME ListPremise, Init PROVE IInv /\ Abstract!Init
  <1>1. Listed(<<>>, 0) /\ ItemsOf(<<>>, data) = <<>>
    BY Empty DEF Init, Listed
  <1>2. ItemsAlong(next, data) = <<>> /\ AtAlong(next, it) = 0
    BY <1>1, Mapped DEF Listed
  <1>3. QED
    BY <1>1, <1>2, InvariantIs, MappedSteps

(* Each operation does to the sequence what ItemSequence says, or nothing. *)
LEMMA StepsAsSequence ==
  ASSUME ListPremise, IInv, [Next]_vars
  PROVE  /\ IInv'
         /\ \/ Abstract!Next
            \/ /\ ItemsAlong(next, data)' = ItemsAlong(next, data)
               /\ AtAlong(next, it)' = AtAlong(next, it)
  <1>1. PICK w, k : Listed(w, k)
    BY InvariantIs
  <1>2. CASE Next
    <2>1. ASSUME NEW x \in Items, AppendItem(x) \/ Prepend(x) \/ InsertAfter(x) \/ InsertBefore(x)
          PROVE  IInv' /\ Abstract!Next
      BY <1>1, <2>1, Insertions
    <2>2. ASSUME NEW x \in Items, Find(x) PROVE IInv' /\ Abstract!Next
      BY <1>1, <2>2, Finding
    <2>3. ASSUME NEW b \in Nodes, SwapLinks(b) \/ SwapValues(b) PROVE IInv' /\ Abstract!Next
      BY <1>1, <2>3, Swappings
    <2>4. CASE RemoveItem \/ PopFront \/ PopBack
      BY <1>1, <2>4, Removals
    <2>5. CASE Forward \/ Backward
      BY <1>1, <2>5, Movements
    <2>6. CASE ReverseAll
      BY <1>1, <2>6, Turning
    <2>7. CASE Clear
      BY <1>1, <2>7, Clearing
    <2>8. QED
      BY <1>2, <2>1, <2>2, <2>3, <2>4, <2>5, <2>6, <2>7 DEF Next
  <1>3. CASE UNCHANGED vars
    <2>1. k \in 0 .. Len(w) /\ it' = Place(w, k) /\ UNCHANGED <<next, prev, data, mCount, it>>
      BY <1>1, <1>3 DEF Listed, vars
    <2>2. IInv' /\ ItemsAlong(next, data)' = ItemsAlong(next, data) /\ AtAlong(next, it)' = k
      BY <1>1, <2>1, MovedTo
    <2>3. AtAlong(next, it) = k
      BY <1>1, Mapped DEF Listed
    <2>4. QED
      BY <2>2, <2>3
  <1>4. QED
    BY <1>2, <1>3

(* The way back is the way forth reversed, and mCount counts the nodes. *)
LEMMA BothWays ==
  ASSUME ListPremise, IInv
  PROVE  Way(prev) = Reverse(Way(next)) /\ mCount = Len(Way(next))
  <1>1. PICK w, k : Listed(w, k)
    BY InvariantIs
  <1>2. Ring(w, next, prev) /\ mCount = Len(w) /\ Ring(Reverse(w), prev, next)
    BY <1>1, RingTurned DEF Listed
  <1>3. Way(next) = w /\ Way(prev) = Reverse(w)
    BY <1>2, WayIs DEF Ring
  <1>4. QED
    BY <1>2, <1>3

(* For any set of nodes and any items: the list is always one ring through the
   nodes that have data, whose links back answer the links forth. *)
THEOREM ListInvariant == ASSUME ListPremise PROVE Spec => []IInv
  <1>1. Init => IInv
    BY StartsEmpty
  <1>2. IInv /\ [Next]_vars => IInv'
    BY StepsAsSequence
  <1>3. QED
    BY <1>1, <1>2, PTL DEF Spec

(* Every operation of the list (append to clear, include/std/List.h) does to its
   items, and to the place of the user's iterator, what it does to a sequence;
   the way back along mPrev is the way forth reversed, and mCount is right. *)
THEOREM ListIsSequence == ASSUME ListPremise PROVE Spec => IsSequence
  <1>1. Init => Abstract!Init
    BY StartsEmpty
  <1>2. IInv /\ [Next]_vars =>
          [Abstract!Next]_<<[i \in DOMAIN Way(next) |-> data[Way(next)[i]]],
                            IF it = mHead THEN 0
                            ELSE SelectInSeq(Way(next), LAMBDA n : n = it)>>
    BY StepsAsSequence DEF ItemsAlong, AtAlong
  <1>3. IInv => Way(prev) = Reverse(Way(next)) /\ mCount = Len(Way(next))
    BY BothWays
  <1>4. QED
    BY <1>1, <1>2, <1>3, ListInvariant, PTL DEF Spec, IsSequence, Abstract!Spec

-----------------------------------------------------------------------------
(* Containers of a fixed size                                              *)

(* SIZE and QTY are template parameters, QTY may be none; an ActBuffer without
   a place for one item would be written outside. *)
Sized ==
  /\ SIZE \in Nat \ {0} /\ QTY \in Nat
  /\ BITS_PER_ITEM \in Nat \ {0} /\ INT_BITS \in 1 .. BITS_PER_ITEM /\ Bits \in Nat

(* An Array: its items are the first count cells. *)
ArrayInv ==
  /\ cells \in [1 .. SIZE -> Items] /\ count \in 0 .. SIZE
  /\ list \in Seq(Items) /\ Len(list) = count
  /\ \A i \in 1 .. count : list[i] = cells[i]

(* A Pool: the free places are on the stack, every one once. *)
PoolInv ==
  /\ stack \in [1 .. QTY -> 1 .. QTY] /\ top \in 0 .. QTY /\ used \in SUBSET (1 .. QTY)
  /\ \A i, j \in 1 .. top : stack[i] = stack[j] => i = j
  /\ \A x \in 1 .. QTY : x \in used <=> \A i \in 1 .. top : stack[i] # x
  /\ top + Cardinality(used) = QTY

(* An ActBuffer: what has been given to it has been handed on or is in it. *)
BufferInv ==
  /\ buffer \in [1 .. SIZE -> Items] /\ filled \in 0 .. SIZE - 1
  /\ processed \in Seq(Items) /\ handed \in Seq(Items)
  /\ Len(processed) = Len(handed) + filled
  /\ \A i \in 1 .. Len(handed) : processed[i] = handed[i]
  /\ \A i \in 1 .. filled : processed[Len(handed) + i] = buffer[i]

(* A BitArray: the words have the bits of the numbers set, and above the bits of
   an int what its sign says. *)
BitsInv ==
  /\ words \in [1 .. Box!Words -> SUBSET Box!Full] /\ set \subseteq Box!Usable
  /\ \A w \in 1 .. Box!Words, j \in Box!Full :
       j >= INT_BITS => (j \in words[w] <=> INT_BITS - 1 \in words[w])
  /\ \A i \in Box!Usable : i \in set <=> i % BITS_PER_ITEM \in words[Box!Word(i)]

BoxInv == ArrayInv /\ BitsInv /\ PoolInv /\ BufferInv

(* The first items of an array as a sequence. *)
LEMMA Prefix ==
  ASSUME NEW S, NEW n \in Nat, NEW c \in [1 .. n -> S], NEW k \in 0 .. n
  PROVE  /\ SubSeq(c, 1, k) \in Seq(S) /\ Len(SubSeq(c, 1, k)) = k
         /\ \A i \in 1 .. k : SubSeq(c, 1, k)[i] = c[i]
  <1>1. c \in Seq(S) /\ Len(c) = n
    BY IsASeq
  <1>2. \A i \in 1 .. k : c[i] \in S
    BY <1>1
  <1>3. /\ SubSeq(c, 1, k) \in Seq(S) /\ Len(SubSeq(c, 1, k)) = IF 1 <= k THEN k - 1 + 1 ELSE 0
        /\ \A i \in 1 .. k - 1 + 1 : SubSeq(c, 1, k)[i] = c[1 + i - 1]
    BY <1>2, SubSeqProperties
  <1>4. QED
    BY <1>3

(* Sequences with an item more at the end. *)
LEMMA Longer ==
  ASSUME NEW S, NEW s \in Seq(S), NEW x \in S, NEW t, t = Append(s, x)
  PROVE  /\ t \in Seq(S) /\ Len(t) = Len(s) + 1
         /\ \A j \in 1 .. Len(s) + 1 : t[j] = IF j = Len(s) + 1 THEN x ELSE s[j]
  BY AppendProperties, LenProperties

(* What inserting and removing do to the result's elements. *)
IsInserted(t, s, k, e) ==
  /\ Len(t) = Len(s) + 1
  /\ \A j \in 1 .. Len(s) + 1 : t[j] = IF j < k THEN s[j] ELSE IF j = k THEN e ELSE s[j - 1]

LEMMA InsertedIn ==
  ASSUME NEW S, NEW s \in Seq(S), NEW k \in 1 .. Len(s) + 1, NEW e \in S,
         NEW t, t = Box!InsertAt(s, k, e)
  PROVE  t \in Seq(S) /\ IsInserted(t, s, k, e)
  <1>1. t = InsertAt(s, k, e)
    BY DEF Box!InsertAt, InsertAt
  <1>2. QED
    BY <1>1, Inserted, SMTT(60) DEF IsInserted

LEMMA RemovedFrom ==
  ASSUME NEW S, NEW s \in Seq(S), NEW k \in 1 .. Len(s), NEW t, t = Box!RemoveAt(s, k)
  PROVE  /\ t \in Seq(S) /\ Len(t) = Len(s) - 1
         /\ \A j \in 1 .. Len(s) - 1 : t[j] = IF j < k THEN s[j] ELSE s[j + 1]
  <1> DEFINE r == RemoveAt(s, k)
  <1>1. /\ r \in Seq(S) /\ Len(r) = Len(s) - 1
        /\ \A j \in 1 .. Len(s) - 1 : r[j] = IF j < k THEN s[j] ELSE s[j + 1]
    BY Removed
  <1>2. t = r
    BY DEF Box!RemoveAt, RemoveAt
  <1> HIDE DEF r
  <1>3. QED
    BY <1>1, <1>2

(* Every operation of Array does to the items what it does to a sequence. *)
LEMMA ArrayKeeps ==
  ASSUME Sized, ArrayInv, Box!ArrayOp
  PROVE  ArrayInv'
  <1>1. /\ SIZE \in Nat /\ cells \in [1 .. SIZE -> Items] /\ count \in 0 .. SIZE /\ count \in Nat
        /\ list \in Seq(Items) /\ Len(list) = count
        /\ \A i \in 1 .. count : list[i] = cells[i]
    BY DEF Sized, ArrayInv
  <1>2. ASSUME NEW x \in Items, Box!ArrayAppend(x) PROVE ArrayInv'
    <2>1. /\ count < SIZE /\ cells' = Box!Put(cells, count, x) /\ count' = count + 1
          /\ list' = Append(list, x)
      BY <1>2 DEF Box!ArrayAppend
    <2>2. count \in 0 .. SIZE - 1 /\ count' \in 0 .. SIZE
      BY <1>1, <2>1
    <2>3. /\ cells' \in [1 .. SIZE -> Items]
          /\ \A j \in 1 .. SIZE : cells'[j] = IF j = count + 1 THEN x ELSE cells[j]
      BY <1>1, <2>1, <2>2 DEF Box!Put
    <2>4. /\ list' \in Seq(Items) /\ Len(list') = count'
          /\ \A j \in 1 .. count + 1 : list'[j] = IF j = count + 1 THEN x ELSE list[j]
      BY <1>1, <2>1, Longer
    <2>5. \A j \in 1 .. count' : list'[j] = cells'[j]
      BY <1>1, <2>1, <2>2, <2>3, <2>4
    <2>6. QED
      BY <2>2, <2>3, <2>4, <2>5 DEF ArrayInv
  <1>3. ASSUME NEW p \in 0 .. SIZE, NEW x \in Items, Box!ArrayInsert(p, x) PROVE ArrayInv'
    <2>1. /\ count < SIZE /\ p <= count /\ cells' = Box!Put(Box!MoveUp(p), p, x)
          /\ count' = count + 1 /\ list' = Box!InsertAt(list, p + 1, x)
      BY <1>3 DEF Box!ArrayInsert
    <2>2. p \in 0 .. SIZE - 1 /\ count' \in 0 .. SIZE /\ p + 1 \in 1 .. Len(list) + 1
      BY <1>1, <2>1
    <2>3. /\ Box!MoveUp(p) \in [1 .. SIZE -> Items]
          /\ \A j \in 1 .. SIZE : Box!MoveUp(p)[j] =
               IF j \in p + 2 .. count + 1 THEN cells[j - 1] ELSE cells[j]
      BY <1>1, <2>1, <2>2 DEF Box!MoveUp
    <2>4. /\ cells' \in [1 .. SIZE -> Items]
          /\ \A j \in 1 .. SIZE : cells'[j] = IF j = p + 1 THEN x ELSE Box!MoveUp(p)[j]
      BY <1>1, <2>1, <2>2, <2>3 DEF Box!Put
    <2>6. /\ list' \in Seq(Items) /\ Len(list') = count + 1
          /\ \A j \in 1 .. count + 1 : list'[j] =
               IF j < p + 1 THEN list[j] ELSE IF j = p + 1 THEN x ELSE list[j - 1]
      <3> DEFINE k == p + 1
      <3>1. list \in Seq(Items) /\ k \in 1 .. Len(list) + 1 /\ list' = Box!InsertAt(list, k, x)
        BY <1>1, <2>1, <2>2
      <3> HIDE DEF k
      <3>2. list' \in Seq(Items) /\ IsInserted(list', list, k, x)
        BY <3>1, InsertedIn
      <3>3. QED
        BY <1>1, <3>2 DEF k, IsInserted
    <2>7. ASSUME NEW j \in 1 .. count' PROVE list'[j] = cells'[j]
      <3>1. j \in 1 .. SIZE /\ j \in 1 .. count + 1
        BY <1>1, <2>1, <2>2
      <3>2. CASE j < p + 1
        BY <3>1, <3>2, <1>1, <2>1, <2>2, <2>3, <2>4, <2>6
      <3>3. CASE j = p + 1
        BY <3>1, <3>3, <2>4, <2>6
      <3>4. CASE j > p + 1
        <4>1. j \in p + 2 .. count + 1 /\ j - 1 \in 1 .. count
          BY <3>1, <3>4, <1>1, <2>2
        <4>2. QED
          BY <3>1, <3>4, <4>1, <1>1, <2>2, <2>3, <2>4, <2>6
      <3>5. QED
        BY <3>1, <3>2, <3>3, <3>4, <2>2
    <2>8. QED
      BY <2>1, <2>2, <2>4, <2>6, <2>7 DEF ArrayInv
  <1>4. ASSUME NEW p \in 0 .. SIZE, Box!ArrayRemoveAt(p) PROVE ArrayInv'
    <2>1. /\ p < count /\ count' = count - 1 /\ list' = Box!RemoveAt(list, p + 1)
          /\ cells' = [i \in 1 .. SIZE |-> IF i \in p + 1 .. count - 1 THEN cells[i + 1] ELSE cells[i]]
      BY <1>4 DEF Box!ArrayRemoveAt
    <2>2. count' \in 0 .. SIZE /\ p + 1 \in 1 .. Len(list)
      BY <1>1, <2>1
    <2>3. /\ cells' \in [1 .. SIZE -> Items]
          /\ \A j \in 1 .. SIZE : cells'[j] =
               IF j \in p + 1 .. count - 1 THEN cells[j + 1] ELSE cells[j]
      BY <1>1, <2>1, <2>2
    <2>5. /\ list' \in Seq(Items) /\ Len(list') = count - 1
          /\ \A j \in 1 .. count - 1 : list'[j] = IF j < p + 1 THEN list[j] ELSE list[j + 1]
      <3>1. list \in Seq(Items) /\ p + 1 \in 1 .. Len(list) /\ list' = Box!RemoveAt(list, p + 1)
        BY <1>1, <2>1, <2>2
      <3>2. /\ list' \in Seq(Items) /\ Len(list') = Len(list) - 1
            /\ \A j \in 1 .. Len(list) - 1 : list'[j] = IF j < p + 1 THEN list[j] ELSE list[j + 1]
        BY <3>1, RemovedFrom
      <3>3. QED
        BY <1>1, <3>2
    <2>6. \A j \in 1 .. count' : list'[j] = cells'[j]
      BY <1>1, <2>1, <2>2, <2>3, <2>5
    <2>7. QED
      BY <2>1, <2>2, <2>3, <2>5, <2>6 DEF ArrayInv
  <1>5. CASE Box!ArrayClear
    <2>1. count' = 0 /\ list' = <<>> /\ cells' = cells
      BY <1>5 DEF Box!ArrayClear
    <2>2. QED
      BY <1>1, <2>1 DEF ArrayInv
  <1>6. QED
    BY <1>2, <1>3, <1>4, <1>5 DEF Box!ArrayOp

(* A pool hands out a place that is free and takes back one that is in use. *)
LEMMA PoolKeeps ==
  ASSUME Sized, PoolInv, Box!PoolOp
  PROVE  PoolInv'
  <1>1. /\ QTY \in Nat /\ stack \in [1 .. QTY -> 1 .. QTY] /\ top \in 0 .. QTY
        /\ used \in SUBSET (1 .. QTY)
        /\ \A i, j \in 1 .. top : stack[i] = stack[j] => i = j
        /\ \A x \in 1 .. QTY : x \in used <=> \A i \in 1 .. top : stack[i] # x
        /\ top + Cardinality(used) = QTY
    BY DEF Sized, PoolInv
  <1>2. IsFiniteSet(used) /\ Cardinality(used) \in Nat
    <2>1. IsFiniteSet(1 .. QTY)
      BY <1>1, FS_Interval
    <2>2. QED
      BY <1>1, <2>1, FS_Subset, FS_CardinalityType
  <1>3. CASE Box!PoolAllocate
    <2> DEFINE x == stack[top]
    <2>1. top > 0 /\ top' = top - 1 /\ used' = used \cup {x} /\ stack' = stack
      BY <1>3 DEF Box!PoolAllocate, Box!StackPop
    <2>2. top \in 1 .. top /\ x \in 1 .. QTY /\ x \notin used
      BY <1>1, <2>1
    <2>3. Cardinality(used') = Cardinality(used) + 1
      BY <1>2, <2>1, <2>2, FS_AddElement
    <2> HIDE DEF x
    <2>4. \A y \in 1 .. QTY : y \in used' <=> \A i \in 1 .. top' : stack'[i] # y
      <3>1. \A i \in 1 .. top : i \in 1 .. top' \/ i = top
        BY <1>1, <2>1
      <3>2. \A i \in 1 .. top' : i \in 1 .. top /\ i # top
        BY <1>1, <2>1
      <3>3. \A i \in 1 .. top' : stack[i] # x
        BY <3>2, <2>2, <1>1 DEF x
      <3>4. QED
        BY <3>1, <3>2, <3>3, <2>1, <2>2, <1>1 DEF x
    <2>5. /\ top' \in 0 .. QTY /\ used' \in SUBSET (1 .. QTY)
          /\ \A i, j \in 1 .. top' : stack'[i] = stack'[j] => i = j
      <3>1. \A i \in 1 .. top' : i \in 1 .. top
        BY <1>1, <2>1
      <3>2. \A i, j \in 1 .. top' : stack'[i] = stack'[j] => i = j
        BY <1>1, <2>1, <3>1
      <3>3. top' \in 0 .. QTY
        BY <1>1, <2>1
      <3>4. used' \in SUBSET (1 .. QTY)
        BY <1>1, <2>1, <2>2
      <3>5. QED
        BY <3>2, <3>3, <3>4
    <2>7. top' + Cardinality(used') = QTY
      <3> DEFINE m == Cardinality(used)
      <3>1. m \in Nat /\ top \in Int /\ top + m = QTY /\ top' = top - 1 /\ Cardinality(used') = m + 1
        BY <1>1, <1>2, <2>1, <2>3
      <3> HIDE DEF m
      <3>2. QED
        BY <3>1
    <2>6. QED
      BY <1>1, <2>1, <2>4, <2>5, <2>7 DEF PoolInv
  <1>4. ASSUME NEW x \in 1 .. QTY, Box!PoolRelease(x) PROVE PoolInv'
    <2>11. /\ x \in used /\ top' = top + 1 /\ used' = used \ {x}
           /\ stack' = [stack EXCEPT ![top + 1] = x]
      BY <1>4 DEF Box!PoolRelease, Box!StackPush
    (* As x is in use, not all places are on the stack. *)
    <2>12. Cardinality(used) > 0
      BY <1>2, <2>11, FS_EmptySet
    <2>1. /\ x \in used /\ top < QTY /\ top' = top + 1 /\ used' = used \ {x}
          /\ stack' = [stack EXCEPT ![top + 1] = x]
      <3> DEFINE m == Cardinality(used)
      <3>1. m \in Nat /\ m > 0 /\ top \in Int /\ top + m = QTY
        BY <1>1, <1>2, <2>12
      <3> HIDE DEF m
      <3>2. top < QTY
        BY <3>1, <1>1
      <3>3. QED
        BY <3>2, <2>11
    <2>2. /\ stack' \in [1 .. QTY -> 1 .. QTY] /\ top' \in 0 .. QTY
          /\ \A i \in 1 .. QTY : stack'[i] = IF i = top + 1 THEN x ELSE stack[i]
      BY <1>1, <2>1, SMTT(30)
    <2>3. \A i \in 1 .. top' : i \in 1 .. QTY /\ (i \in 1 .. top \/ i = top + 1)
      BY <1>1, <2>1
    <2>4. \A i \in 1 .. top : i \in 1 .. top' /\ i # top + 1 /\ i \in 1 .. QTY /\ stack[i] # x
      BY <1>1, <2>1
    <2>5. top + 1 \in 1 .. top'
      BY <1>1, <2>1
    <2>6. \A i, j \in 1 .. top' : stack'[i] = stack'[j] => i = j
      BY <1>1, <2>2, <2>3, <2>4, ZenonT(30)
    <2>7. \A y \in 1 .. QTY : y \in used' <=> \A i \in 1 .. top' : stack'[i] # y
      BY <1>1, <2>1, <2>2, <2>3, <2>4, <2>5
    <2>8. Cardinality(used') = Cardinality(used) - 1
      BY <1>2, <2>1, FS_RemoveElement
    <2>9. used' \in SUBSET (1 .. QTY) /\ top' + Cardinality(used') = QTY
      <3> DEFINE m == Cardinality(used)
      <3>1. m \in Nat /\ top \in Int /\ top + m = QTY /\ top' = top + 1 /\ Cardinality(used') = m - 1
        BY <1>1, <1>2, <2>1, <2>8
      <3>2. used' \in SUBSET (1 .. QTY)
        BY <1>1, <2>1
      <3> HIDE DEF m
      <3>3. QED
        BY <3>1, <3>2
    <2>10. QED
      BY <2>2, <2>6, <2>7, <2>9 DEF PoolInv
  <1>5. QED
    BY <1>3, <1>4 DEF Box!PoolOp

(* A full buffer is handed on in the order of its items, and so is one that is
   flushed. *)
LEMMA BufferKeeps ==
  ASSUME Sized, BufferInv, Box!BufferOp
  PROVE  BufferInv'
  <1>1. /\ SIZE \in Nat \ {0} /\ buffer \in [1 .. SIZE -> Items] /\ filled \in 0 .. SIZE - 1
        /\ processed \in Seq(Items) /\ handed \in Seq(Items)
        /\ Len(processed) \in Nat /\ Len(handed) \in Nat
        /\ Len(processed) = Len(handed) + filled
        /\ \A i \in 1 .. Len(handed) : processed[i] = handed[i]
        /\ \A i \in 1 .. filled : processed[Len(handed) + i] = buffer[i]
    BY LenProperties DEF Sized, BufferInv
  (* A batch that is handed on. *)
  <1>2. ASSUME NEW b \in [1 .. SIZE -> Items], NEW n \in 0 .. SIZE
        PROVE  /\ handed \o SubSeq(b, 1, n) \in Seq(Items)
               /\ Len(handed \o SubSeq(b, 1, n)) = Len(handed) + n
               /\ \A i \in 1 .. Len(handed) : (handed \o SubSeq(b, 1, n))[i] = handed[i]
               /\ \A i \in 1 .. n : (handed \o SubSeq(b, 1, n))[Len(handed) + i] = b[i]
    <2> DEFINE t == SubSeq(b, 1, n)
               h == Len(handed)
    <2>1. t \in Seq(Items) /\ Len(t) = n /\ \A i \in 1 .. n : t[i] = b[i]
      BY <1>1, Prefix
    <2> HIDE DEF t
    <2>2. /\ handed \o t \in Seq(Items) /\ Len(handed \o t) = Len(handed) + Len(t)
          /\ \A i \in 1 .. Len(handed) + Len(t) : (handed \o t)[i] =
               IF i <= Len(handed) THEN handed[i] ELSE t[i - Len(handed)]
      BY <1>1, <2>1, ConcatProperties
    <2>3. \A i \in 1 .. n : h + i \in 1 .. h + n /\ ~(h + i <= h) /\ (h + i) - h = i
      BY <1>1
    <2>4. \A i \in 1 .. n : (handed \o t)[h + i] = b[i]
      BY <2>1, <2>2, <2>3
    <2>5. \A i \in 1 .. h : (handed \o t)[i] = handed[i]
      BY <1>1, <2>1, <2>2
    <2>6. QED
      BY <2>1, <2>2, <2>4, <2>5 DEF t
  <1>3. CASE Box!Flush
    <2>1. /\ handed' = handed \o SubSeq(buffer, 1, filled) /\ filled' = 0
          /\ buffer' = buffer /\ processed' = processed
      BY <1>3 DEF Box!Flush, Box!InnerFlush
    <2>2. /\ handed' \in Seq(Items) /\ Len(handed') = Len(handed) + filled
          /\ \A i \in 1 .. Len(handed) : handed'[i] = handed[i]
          /\ \A i \in 1 .. filled : handed'[Len(handed) + i] = buffer[i]
      BY <1>1, <1>2, <2>1, SMTT(30)
    <2>3. ASSUME NEW i \in 1 .. Len(handed') PROVE processed'[i] = handed'[i]
      <3>1. CASE i <= Len(handed)
        BY <3>1, <1>1, <2>1, <2>2
      <3>2. CASE i > Len(handed)
        <4>1. i - Len(handed) \in 1 .. filled /\ Len(handed) + (i - Len(handed)) = i
          BY <3>2, <1>1, <2>2
        <4>2. QED
          BY <4>1, <1>1, <2>1, <2>2
      <3>3. QED
        BY <3>1, <3>2, <1>1, <2>2
    <2>4. QED
      BY <1>1, <2>1, <2>2, <2>3 DEF BufferInv
  <1>4. ASSUME NEW x \in Items, Box!Process(x) PROVE BufferInv'
    <2>1. /\ processed' = Append(processed, x) /\ buffer' = Box!Put(buffer, filled, x)
          /\ IF filled + 1 >= SIZE
             THEN handed' = handed \o SubSeq(buffer', 1, filled + 1) /\ filled' = 0
             ELSE filled' = filled + 1 /\ handed' = handed
      BY <1>4 DEF Box!Process, Box!InnerFlush
    <2>2. /\ processed' \in Seq(Items) /\ Len(processed') = Len(processed) + 1
          /\ \A i \in 1 .. Len(processed) + 1 :
               processed'[i] = IF i = Len(processed) + 1 THEN x ELSE processed[i]
      BY <1>1, <2>1, Longer
    <2>3. /\ buffer' \in [1 .. SIZE -> Items]
          /\ \A i \in 1 .. SIZE : buffer'[i] = IF i = filled + 1 THEN x ELSE buffer[i]
      BY <1>1, <2>1 DEF Box!Put
    <2>4. \A i \in 1 .. Len(handed) : processed'[i] = handed[i]
      BY <1>1, <2>2
    <2>5. ASSUME NEW i \in 1 .. filled + 1 PROVE processed'[Len(handed) + i] = buffer'[i]
      <3>1. CASE i = filled + 1
        BY <3>1, <1>1, <2>2, <2>3
      <3>2. CASE i # filled + 1
        <4>1. i \in 1 .. filled /\ i \in 1 .. SIZE /\ Len(handed) + i \in 1 .. Len(processed) + 1
              /\ Len(handed) + i # Len(processed) + 1
          BY <3>2, <1>1
        <4>2. QED
          BY <3>2, <4>1, <1>1, <2>2, <2>3
      <3>3. QED
        BY <3>1, <3>2
    <2>6. CASE filled + 1 >= SIZE
      <3>1. filled + 1 = SIZE /\ handed' = handed \o SubSeq(buffer', 1, SIZE) /\ filled' = 0
        BY <2>1, <2>6, <1>1
      <3>2. /\ handed' \in Seq(Items) /\ Len(handed') = Len(handed) + SIZE
            /\ \A i \in 1 .. Len(handed) : handed'[i] = handed[i]
            /\ \A i \in 1 .. SIZE : handed'[Len(handed) + i] = buffer'[i]
        BY <3>1, <1>1, <1>2, <2>3
      <3>3. ASSUME NEW i \in 1 .. Len(handed') PROVE processed'[i] = handed'[i]
        <4>1. CASE i <= Len(handed)
          BY <4>1, <1>1, <2>4, <3>2
        <4>2. CASE i > Len(handed)
          <5>1. i - Len(handed) \in 1 .. SIZE /\ Len(handed) + (i - Len(handed)) = i
            BY <4>2, <1>1, <3>2
          <5>2. QED
            BY <5>1, <2>5, <3>1, <3>2
        <4>3. QED
          BY <4>1, <4>2, <1>1, <3>2
      <3>4. Len(processed') = Len(handed') + filled' /\ filled' \in 0 .. SIZE - 1
        BY <1>1, <2>2, <3>1, <3>2
      <3>5. \A i \in 1 .. filled' : FALSE
        BY <3>1
      <3>6. QED
        BY <2>2, <2>3, <3>2, <3>3, <3>4, <3>5 DEF BufferInv
    <2>7. CASE filled + 1 < SIZE
      <3>1. filled' = filled + 1 /\ handed' = handed
        BY <2>1, <2>7, <1>1
      <3>2. filled' \in 0 .. SIZE - 1
        BY <2>7, <3>1, <1>1
      <3>3. QED
        BY <1>1, <2>2, <2>3, <2>4, <2>5, <3>1, <3>2 DEF BufferInv
    <2>8. QED
      BY <2>6, <2>7, <1>1
  <1>5. QED
    BY <1>3, <1>4 DEF Box!BufferOp

(* The instance has names of its own for the library's operators. *)
LEMMA SameSize == \A S : Box!Cardinality(S) = Cardinality(S)
  BY Zenon DEF Box!Cardinality, Cardinality

LEMMA SameMin == \A S : Box!Min(S) = Min(S)
  BY DEF Box!Min, Min

-----------------------------------------------------------------------------
(* Bit arrays: which word and which bit of it stand for a number.          *)
LEMMA Quotient ==
  ASSUME NEW i \in Nat, NEW b \in Nat \ {0}
  PROVE  i \div b \in Nat /\ i % b \in 0 .. b - 1 /\ i = b * (i \div b) + (i % b)
  OBVIOUS

LEMMA QuotientUnique ==
  ASSUME NEW q \in Nat, NEW b \in Nat \ {0}, NEW j \in 0 .. b - 1
  PROVE  (b * q + j) \div b = q /\ (b * q + j) % b = j
  OBVIOUS

LEMMA NextMultiple ==
  ASSUME NEW q \in Nat, NEW b \in Nat \ {0}, NEW p \in Nat, q < p
  PROVE  b * q + b <= b * p
  <1>1. b * q + b = b * (q + 1)
    OBVIOUS
  <1>2. QED
    BY <1>1

LEMMA BitPlace ==
  ASSUME Sized
  PROVE  /\ Box!Words \in Nat
         /\ \A i \in Box!Usable :
              /\ i \in Nat /\ Box!Word(i) \in 1 .. Box!Words /\ i % BITS_PER_ITEM \in Box!Shifts
              /\ i = BITS_PER_ITEM * (Box!Word(i) - 1) + (i % BITS_PER_ITEM)
         /\ \A w \in 1 .. Box!Words, j \in Box!Shifts :
              LET i == BITS_PER_ITEM * (w - 1) + j
              IN  i \in Box!Usable /\ Box!Word(i) = w /\ i % BITS_PER_ITEM = j
  <1> DEFINE B == BITS_PER_ITEM
             W == Box!Words
  <1>1. B \in Nat \ {0} /\ INT_BITS \in 1 .. B /\ Bits \in Nat
    BY DEF Sized
  <1>2. W \in Nat
    BY <1>1, Quotient DEF Box!Words
  <1> HIDE DEF W
  <1>3. W * B = B * W /\ B * W \in Nat
    BY <1>1, <1>2
  <1>4. ASSUME NEW i \in Box!Usable
        PROVE  /\ i \in Nat /\ Box!Word(i) \in 1 .. W /\ i % B \in Box!Shifts
               /\ i = B * (Box!Word(i) - 1) + (i % B)
    <2> DEFINE q == i \div B
               r == i % B
    <2>1. i \in Nat /\ i < B * W /\ r \in Box!Shifts
      BY <1>3 DEF Box!Usable, W
    <2>2. q \in Nat /\ r \in 0 .. B - 1 /\ i = B * q + r
      BY <1>1, <2>1, Quotient
    <2>3. Box!Word(i) = q + 1
      BY DEF Box!Word
    <2> HIDE DEF q, r
    <2>4. q < W
      <3>1. ASSUME W < q PROVE FALSE
        <4>1. B * W + B <= B * q
          BY <3>1, <1>1, <1>2, <2>2, NextMultiple
        <4>2. B * q \in Nat
          BY <1>1, <2>2
        <4>3. QED
          BY <4>1, <4>2, <1>1, <1>3, <2>1, <2>2
      <3>2. q # W
        BY <1>1, <1>3, <2>1, <2>2
      <3>3. QED
        BY <3>1, <3>2, <1>2, <2>2
    <2>5. q + 1 \in 1 .. W /\ (q + 1) - 1 = q
      BY <2>2, <2>4, <1>2
    <2>6. QED
      BY <2>1, <2>2, <2>3, <2>5 DEF r
  <1>5. ASSUME NEW w \in 1 .. W, NEW j \in Box!Shifts
        PROVE  LET i == B * (w - 1) + j
               IN  i \in Box!Usable /\ Box!Word(i) = w /\ i % B = j
    <2> DEFINE q == w - 1
               i == B * q + j
    <2>1. q \in Nat /\ q < W /\ j \in 0 .. B - 1 /\ q + 1 = w
      BY <1>1, <1>2 DEF Box!Shifts
    <2> HIDE DEF q
    <2>2. i \div B = q /\ i % B = j
      BY <1>1, <2>1, QuotientUnique
    <2>3. B * q + B <= B * W /\ B * q \in Nat
      BY <1>1, <1>2, <2>1, NextMultiple
    <2>4. i \in 0 .. W * B - 1
      BY <1>1, <1>3, <2>1, <2>3
    <2> HIDE DEF i
    <2>5. i \in Box!Usable /\ Box!Word(i) = w
      BY <2>1, <2>2, <2>4 DEF Box!Usable, Box!Word, W
    <2>6. QED
      BY <2>2, <2>5 DEF i, q
  <1>6. QED
    BY <1>2, <1>4, <1>5 DEF W

(* Of the bits that can be shifted to, a mask has one; of those above, all when
   that one is the sign and else none. *)
LEMMA MaskBits ==
  ASSUME Sized, NEW o \in Box!Shifts
  PROVE  /\ Box!Mask(o) \subseteq Box!Full
         /\ \A j \in Box!Shifts : j \in Box!Mask(o) <=> j = o
         /\ \A j \in Box!Full : j >= INT_BITS => (j \in Box!Mask(o) <=> o = INT_BITS - 1)
  <1>1. BITS_PER_ITEM \in Nat \ {0} /\ INT_BITS \in 1 .. BITS_PER_ITEM /\ o \in 0 .. INT_BITS - 1
    BY DEF Sized, Box!Shifts
  <1>2. Box!Mask(o) = IF o = INT_BITS - 1 THEN o .. BITS_PER_ITEM - 1 ELSE {o}
    BY DEF Box!Mask
  <1>3. QED
    BY <1>1, <1>2 DEF Box!Full, Box!Shifts

(* So the bits above say what the sign says, and a word meets a mask when it has
   the mask's own bit. *)
LEMMA MaskMeets ==
  ASSUME Sized, BitsInv, NEW w \in 1 .. Box!Words, NEW o \in Box!Shifts
  PROVE  words[w] \cap Box!Mask(o) # {} <=> o \in words[w]
  <1>1. /\ words[w] \subseteq Box!Full
        /\ \A j \in Box!Full : j >= INT_BITS => (j \in words[w] <=> INT_BITS - 1 \in words[w])
    BY DEF BitsInv
  <1>2. /\ \A j \in Box!Shifts : j \in Box!Mask(o) <=> j = o
        /\ \A j \in Box!Full : j >= INT_BITS => (j \in Box!Mask(o) <=> o = INT_BITS - 1)
    BY MaskBits
  <1>3. \A j \in Box!Full : j \in Box!Shifts \/ j >= INT_BITS
    BY DEF Sized, Box!Full, Box!Shifts
  <1>4. ASSUME NEW j \in words[w], j \in Box!Mask(o) PROVE o \in words[w]
    <2>1. j \in Box!Full
      BY <1>1
    <2>2. CASE j \in Box!Shifts
      BY <1>2, <1>4, <2>2
    <2>3. CASE j >= INT_BITS
      BY <1>1, <1>2, <1>4, <2>1, <2>3
    <2>4. QED
      BY <1>3, <2>1, <2>2, <2>3
  <1>5. o \in Box!Mask(o)
    BY <1>2
  <1>6. QED
    BY <1>4, <1>5

(* Set, Clear and ClearAll. *)
LEMMA BitsKeep ==
  ASSUME Sized, BitsInv, Box!BitOp
  PROVE  BitsInv'
  <1>1. /\ words \in [1 .. Box!Words -> SUBSET Box!Full] /\ set \subseteq Box!Usable
        /\ \A w \in 1 .. Box!Words, j \in Box!Full :
             j >= INT_BITS => (j \in words[w] <=> INT_BITS - 1 \in words[w])
        /\ \A k \in Box!Usable : k \in set <=> k % BITS_PER_ITEM \in words[Box!Word(k)]
    BY DEF BitsInv
  <1>2. INT_BITS - 1 \in Box!Shifts
    BY DEF Sized, Box!Shifts
  <1>3. CASE Box!BitClearAll
    <2>1. words' = [i \in 1 .. Box!Words |-> {}] /\ set' = {}
      BY <1>3 DEF Box!BitClearAll
    <2>2. \A k \in Box!Usable : Box!Word(k) \in 1 .. Box!Words
      BY BitPlace
    <2>3. QED
      BY <2>1, <2>2 DEF BitsInv
  <1>4. ASSUME NEW i \in Box!Usable, NEW on \in BOOLEAN,
               IF on THEN Box!BitSet(i) ELSE Box!BitClear(i)
        PROVE  BitsInv'
    <2> DEFINE o == i % BITS_PER_ITEM
               u == Box!Word(i)
               M == Box!Mask(o)
               has(w, j) == IF w = u /\ j \in M THEN on ELSE j \in words[w]
    <2>1. o \in Box!Shifts /\ u \in 1 .. Box!Words
      BY BitPlace
    <2>2. /\ words' = [words EXCEPT ![u] = IF on THEN @ \cup M ELSE @ \ M]
          /\ set' = IF on THEN set \cup {i} ELSE set \ {i}
      BY <1>4 DEF Box!BitSet, Box!BitClear, Box!MaskOf
    <2>3. /\ M \subseteq Box!Full
          /\ \A j \in Box!Shifts : j \in M <=> j = o
          /\ \A j \in Box!Full : j >= INT_BITS => (j \in M <=> o = INT_BITS - 1)
      BY <2>1, MaskBits
    <2>4. \A k \in Box!Usable :
            /\ k % BITS_PER_ITEM \in Box!Shifts /\ Box!Word(k) \in 1 .. Box!Words
            /\ k % BITS_PER_ITEM = o /\ Box!Word(k) = u <=> k = i
      BY BitPlace
    <2> HIDE DEF o, u, M
    <2>5. /\ words' \in [1 .. Box!Words -> SUBSET Box!Full]
          /\ \A w \in 1 .. Box!Words, j \in Box!Full : j \in words'[w] <=> has(w, j)
      BY <1>1, <2>1, <2>2, <2>3
    <2>6. ASSUME NEW w \in 1 .. Box!Words, NEW j \in Box!Full, j >= INT_BITS
          PROVE  j \in words'[w] <=> INT_BITS - 1 \in words'[w]
      <3>1. INT_BITS - 1 \in Box!Full /\ (j \in M <=> INT_BITS - 1 \in M)
        BY <1>2, <2>3, <2>6 DEF Sized, Box!Full
      <3>2. j \in words[w] <=> INT_BITS - 1 \in words[w]
        BY <1>1, <2>6
      <3>3. QED
        BY <2>5, <3>1, <3>2
    <2>7. ASSUME NEW k \in Box!Usable
          PROVE  k \in set' <=> k % BITS_PER_ITEM \in words'[Box!Word(k)]
      <3> DEFINE b == k % BITS_PER_ITEM
                 v == Box!Word(k)
      <3>1. b \in Box!Shifts /\ v \in 1 .. Box!Words /\ (b = o /\ v = u <=> k = i)
        BY <2>4
      <3>2. k \in set <=> b \in words[v]
        BY <1>1
      <3> HIDE DEF b, v
      <3>3. b \in Box!Full
        BY <3>1 DEF Sized, Box!Full, Box!Shifts
      <3>4. b \in words'[v] <=> IF k = i THEN on ELSE b \in words[v]
        BY <2>3, <2>5, <3>1, <3>3
      <3>5. k \in set' <=> IF k = i THEN on ELSE k \in set
        BY <2>2
      <3>6. QED
        BY <3>2, <3>4, <3>5 DEF b, v
    <2>8. set' \subseteq Box!Usable
      BY <1>1, <2>2
    <2>9. QED
      BY <2>5, <2>6, <2>7, <2>8 DEF BitsInv
  <1>5. QED
    BY <1>3, <1>4 DEF Box!BitOp

LEMMA LeastChosen ==
  ASSUME NEW S, S \subseteq Nat, S # {}
  PROVE  Min(S) \in S /\ \A y \in S : Min(S) <= y
  <1>1. PICK x \in S : \A y \in S : x <= y
    BY LeastNatural
  <1>2. S \subseteq Int
    OBVIOUS
  <1>3. Min(S) = x
    BY <1>1, <1>2, LeastIs
  <1>4. QED
    BY <1>1, <1>3

(* The search for the first bit, set or clear: the first word that is not passed
   over has one among the bits that can be shifted to, and no word before. *)
LEMMA FirstBitIs ==
  ASSUME Sized, BitsInv, NEW pass, NEW value \in BOOLEAN, NEW S \in SUBSET Box!Usable,
         \A i \in Box!Usable : i \in S <=> (i % BITS_PER_ITEM \in words[Box!Word(i)]) = value,
         \A w \in 1 .. Box!Words :
           words[w] # pass <=> \E j \in Box!Shifts : (j \in words[w]) = value
  PROVE  Box!FirstBit(pass, value) = IF S = {} THEN -1 ELSE Min(S)
  <1> DEFINE B == BITS_PER_ITEM
             ws == {w \in 1 .. Box!Words : words[w] # pass}
             w0 == Min(ws)
             J(w) == {j \in Box!Shifts : (words[w] \cap Box!Mask(j) # {}) = value}
             m == Min(J(w0))
  <1>1. B \in Nat \ {0} /\ INT_BITS \in 1 .. B
    BY DEF Sized
  <1>2. ASSUME NEW w \in 1 .. Box!Words, NEW j \in Box!Shifts
        PROVE  j \in J(w) <=> (j \in words[w]) = value
    BY <1>2, MaskMeets
  <1>3. Box!FirstBit(pass, value) = IF ws = {} THEN -1 ELSE (w0 - 1) * B + m
    BY SameMin DEF Box!FirstBit
  <1>4. ASSUME NEW i \in S PROVE Box!Word(i) \in ws /\ i % B \in J(Box!Word(i))
    <2>1. Box!Word(i) \in 1 .. Box!Words /\ i % B \in Box!Shifts
      BY BitPlace
    <2>2. (i % B \in words[Box!Word(i)]) = value
      OBVIOUS
    <2>3. QED
      BY <1>2, <2>1, <2>2
  <1>5. ASSUME NEW w \in ws, NEW j \in J(w) PROVE B * (w - 1) + j \in S
    <2>1. w \in 1 .. Box!Words /\ j \in Box!Shifts /\ (j \in words[w]) = value
      BY <1>2
    <2> DEFINE i == B * (w - 1) + j
    <2>2. i \in Box!Usable /\ Box!Word(i) = w /\ i % B = j
      BY <2>1, BitPlace
    <2> HIDE DEF i
    <2>3. i \in S
      BY <2>1, <2>2
    <2>4. QED
      BY <2>3 DEF i
  <1>6. ASSUME NEW w \in ws PROVE J(w) # {} /\ J(w) \subseteq Nat
    <2>1. PICK j \in Box!Shifts : (j \in words[w]) = value
      OBVIOUS
    <2>2. j \in J(w)
      BY <1>2, <2>1
    <2>3. Box!Shifts \subseteq Nat
      BY <1>1 DEF Box!Shifts
    <2>4. QED
      BY <2>2, <2>3
  <1>7. ws \subseteq Nat
    OBVIOUS
  <1>8. CASE ws = {}
    BY <1>3, <1>4, <1>8
  <1>9. CASE ws # {}
    <2>1. w0 \in ws /\ \A w \in ws : w0 <= w
      <3> HIDE DEF ws
      <3>1. QED
        BY <1>7, <1>9, LeastChosen
    <2> DEFINE T == J(w0)
    <2>2. T # {} /\ T \subseteq Nat
      BY <1>6, <2>1
    <2>3. m \in T /\ \A j \in T : m <= j
      <3> HIDE DEF T
      <3>1. Min(T) \in T /\ \A j \in T : Min(T) <= j
        BY <2>2, LeastChosen
      <3>2. QED
        BY <3>1 DEF T
    <2> HIDE DEF w0, m
    <2> DEFINE x == B * (w0 - 1) + m
    <2>4. x \in S
      BY <1>5, <2>1, <2>3
    <2>5. w0 \in 1 .. Box!Words /\ m \in Box!Shifts /\ w0 - 1 \in Nat /\ m \in 0 .. B - 1
      BY <1>1, <2>1, <2>3 DEF Box!Shifts
    <2>6. ASSUME NEW y \in S PROVE x <= y
      <3> DEFINE q == Box!Word(y) - 1
                 r == y % B
      <3>1. y = B * q + r /\ q \in Nat /\ r \in Nat
        BY <1>1, BitPlace DEF Box!Shifts
      <3>2. w0 - 1 <= q /\ (q = w0 - 1 => r \in T)
        <4>1. Box!Word(y) \in 1 .. Box!Words
          BY BitPlace
        <4>2. Box!Word(y) \in ws /\ r \in J(Box!Word(y))
          BY <1>4
        <4>3. QED
          BY <2>1, <2>5, <4>1, <4>2
      <3> HIDE DEF q, r, T
      <3>3. CASE q = w0 - 1
        <4>1. m <= r /\ B * q = B * (w0 - 1) /\ B * q \in Nat
          BY <1>1, <2>3, <3>1, <3>2, <3>3
        <4>2. QED
          BY <3>1, <2>5, <4>1
      <3>4. CASE w0 - 1 < q
        <4>1. B * (w0 - 1) + B <= B * q /\ B * (w0 - 1) \in Nat /\ B * q \in Nat
          BY <1>1, <2>5, <3>1, <3>4, NextMultiple
        <4>2. QED
          BY <1>1, <2>5, <3>1, <4>1
      <3>5. QED
        BY <2>5, <3>1, <3>2, <3>3, <3>4
    <2>7. x = (w0 - 1) * B + m
      BY <1>1, <2>5
    <2>8. S \subseteq Int
      BY BitPlace
    <2> HIDE DEF x
    <2>9. Min(S) = x
      BY <2>4, <2>6, <2>8, LeastIs
    <2>10. QED
      BY <1>3, <1>9, <2>4, <2>7, <2>9
  <1>10. QED
    BY <1>8, <1>9

(* A bit array is the set of the numbers that were set, and finds the first one
   in and the first one missing. *)
LEMMA BitsAsSet == ASSUME Sized, BitsInv PROVE Box!BitsRight
  <1>1. /\ words \in [1 .. Box!Words -> SUBSET Box!Full] /\ set \subseteq Box!Usable
        /\ \A w \in 1 .. Box!Words, j \in Box!Full :
             j >= INT_BITS => (j \in words[w] <=> INT_BITS - 1 \in words[w])
        /\ \A k \in Box!Usable : k \in set <=> k % BITS_PER_ITEM \in words[Box!Word(k)]
    BY DEF BitsInv
  <1>2. /\ INT_BITS - 1 \in Box!Shifts /\ Box!Shifts \subseteq Box!Full
        /\ \A j \in Box!Full : j \in Box!Shifts \/ j >= INT_BITS
    BY DEF Sized, Box!Shifts, Box!Full
  <1>3. set = {i \in Box!Usable : Box!BitTest(i)}
    <2>1. ASSUME NEW i \in Box!Usable PROVE Box!BitTest(i) <=> i \in set
      <3>1. Box!Word(i) \in 1 .. Box!Words /\ i % BITS_PER_ITEM \in Box!Shifts
        BY BitPlace
      <3>2. words[Box!Word(i)] \cap Box!Mask(i % BITS_PER_ITEM) # {}
              <=> i % BITS_PER_ITEM \in words[Box!Word(i)]
        BY <3>1, MaskMeets
      <3>3. QED
        BY <1>1, <3>2 DEF Box!BitTest, Box!MaskOf
    <2>2. QED
      BY <1>1, <2>1
  <1>4. Box!FindFirstSet = IF set = {} THEN -1 ELSE Min(set)
    <2>1. \A i \in Box!Usable : i \in set <=> (i % BITS_PER_ITEM \in words[Box!Word(i)]) = TRUE
      BY <1>1
    <2>2. \A w \in 1 .. Box!Words : words[w] # {} <=> \E j \in Box!Shifts : (j \in words[w]) = TRUE
      BY <1>1, <1>2
    <2>3. QED
      BY <1>1, <2>1, <2>2, FirstBitIs DEF Box!FindFirstSet
  <1>5. Box!FindFirstClear = LET T == Box!Usable \ set IN IF T = {} THEN -1 ELSE Min(T)
    <2> DEFINE T == Box!Usable \ set
    <2>1. \A i \in Box!Usable : i \in T <=> (i % BITS_PER_ITEM \in words[Box!Word(i)]) = FALSE
      BY <1>1
    <2>2. ASSUME NEW w \in 1 .. Box!Words
          PROVE  words[w] # Box!Full <=> \E j \in Box!Shifts : (j \in words[w]) = FALSE
      <3>1. words[w] \subseteq Box!Full
        BY <1>1
      <3>2. ASSUME \A j \in Box!Shifts : j \in words[w], NEW j \in Box!Full PROVE j \in words[w]
        BY <1>1, <1>2, <3>2
      <3>3. QED
        BY <1>2, <3>1, <3>2
    <2>3. T \in SUBSET Box!Usable
      OBVIOUS
    <2> HIDE DEF T
    <2>4. QED
      BY <2>1, <2>2, <2>3, FirstBitIs DEF Box!FindFirstClear, T
  <1>6. QED
    BY <1>3, <1>4, <1>5, SameMin DEF Box!BitsRight

-----------------------------------------------------------------------------
(* Freshly constructed containers. *)
LEMMA BoxStarts ==
  ASSUME Sized, Box!Init
  PROVE  BoxInv
  <1>1. SIZE \in Nat \ {0} /\ QTY \in Nat
    BY DEF Sized
  <1>2. ArrayInv
    <2>1. count = 0 /\ list = <<>> /\ \E x \in Items : cells = [i \in 1 .. SIZE |-> x]
      BY DEF Box!Init
    <2>2. QED
      BY <1>1, <2>1 DEF ArrayInv
  <1>3. PoolInv
    <2>1. stack = [i \in 1 .. QTY |-> i] /\ top = QTY /\ used = {}
      BY DEF Box!Init
    <2>2. Cardinality(used) = 0
      BY <2>1, FS_EmptySet
    <2>3. \A i \in 1 .. QTY : stack[i] = i
      BY <2>1
    <2>4. QED
      BY <1>1, <2>1, <2>2, <2>3 DEF PoolInv
  <1>4. BufferInv
    <2>1. /\ filled = 0 /\ processed = <<>> /\ handed = <<>>
          /\ \E x \in Items : buffer = [i \in 1 .. SIZE |-> x]
      BY DEF Box!Init
    <2>2. QED
      BY <1>1, <2>1 DEF BufferInv
  <1>5. BitsInv
    <2>1. words = [i \in 1 .. Box!Words |-> {}] /\ set = {}
      BY DEF Box!Init
    <2>2. \A i \in Box!Usable : Box!Word(i) \in 1 .. Box!Words
      BY BitPlace
    <2>3. QED
      BY <2>1, <2>2 DEF BitsInv
  <1>6. QED
    BY <1>2, <1>3, <1>4, <1>5 DEF BoxInv

(* No call disturbs any of the containers. *)
LEMMA BoxSteps ==
  ASSUME Sized, BoxInv, [Box!Next]_Box!vars
  PROVE  BoxInv'
  <1>1. ArrayInv /\ BitsInv /\ PoolInv /\ BufferInv
    BY DEF BoxInv
  <1>2. UNCHANGED Box!array => ArrayInv'
    BY <1>1 DEF Box!array, ArrayInv
  <1>3. UNCHANGED Box!pool => PoolInv'
    BY <1>1 DEF Box!pool, PoolInv
  <1>4. UNCHANGED Box!batches => BufferInv'
    BY <1>1 DEF Box!batches, BufferInv
  <1>5. UNCHANGED Box!bits => BitsInv'
    BY <1>1 DEF Box!bits, BitsInv
  <1>6. \/ Box!ArrayOp /\ UNCHANGED <<Box!bits, Box!pool, Box!batches>>
        \/ Box!BitOp /\ UNCHANGED <<Box!array, Box!pool, Box!batches>>
        \/ Box!PoolOp /\ UNCHANGED <<Box!array, Box!bits, Box!batches>>
        \/ Box!BufferOp /\ UNCHANGED <<Box!array, Box!bits, Box!pool>>
        \/ UNCHANGED <<Box!array, Box!bits, Box!pool, Box!batches>>
    BY DEF Box!Next, Box!vars
  <1>7. CASE Box!ArrayOp /\ UNCHANGED <<Box!bits, Box!pool, Box!batches>>
    BY <1>1, <1>3, <1>4, <1>5, <1>7, ArrayKeeps DEF BoxInv
  <1>8. CASE Box!BitOp /\ UNCHANGED <<Box!array, Box!pool, Box!batches>>
    BY <1>1, <1>2, <1>3, <1>4, <1>8, BitsKeep DEF BoxInv
  <1>9. CASE Box!PoolOp /\ UNCHANGED <<Box!array, Box!bits, Box!batches>>
    BY <1>1, <1>2, <1>4, <1>5, <1>9, PoolKeeps DEF BoxInv
  <1>10. CASE Box!BufferOp /\ UNCHANGED <<Box!array, Box!bits, Box!pool>>
    BY <1>1, <1>2, <1>3, <1>5, <1>10, BufferKeeps DEF BoxInv
  <1>11. CASE UNCHANGED <<Box!array, Box!bits, Box!pool, Box!batches>>
    BY <1>2, <1>3, <1>4, <1>5, <1>11 DEF BoxInv
  <1>12. QED
    BY <1>6, <1>7, <1>8, <1>9, <1>10, <1>11

(* An array's items are the sequence's, and FindFirst finds the first. *)
LEMMA ArrayAsList == ASSUME Sized, ArrayInv PROVE Box!ArrayRight
  <1>1. /\ SIZE \in Nat /\ cells \in [1 .. SIZE -> Items] /\ count \in 0 .. SIZE /\ count \in Nat
        /\ list \in Seq(Items) /\ Len(list) = count /\ DOMAIN list = 1 .. count
        /\ \A i \in 1 .. count : list[i] = cells[i]
    BY DEF Sized, ArrayInv
  <1>2. list = SubSeq(cells, 1, count)
    <2> DEFINE t == SubSeq(cells, 1, count)
    <2>1. t \in Seq(Items) /\ Len(t) = count /\ \A i \in 1 .. count : t[i] = cells[i]
      BY <1>1, Prefix
    <2> HIDE DEF t
    <2>2. list = t
      BY <1>1, <2>1, SeqEqual
    <2>3. QED
      BY <2>2 DEF t
  <1>3. ASSUME NEW x \in Items
        PROVE  LET found == {i \in DOMAIN list : list[i] = x}
               IN  Box!ArrayFindFirst(x) = IF found = {} THEN Len(list) ELSE Box!Min(found) - 1
    <2> DEFINE A == {i \in 0 .. count - 1 : cells[i + 1] = x}
               B == {i \in DOMAIN list : list[i] = x}
    <2>1. Box!ArrayFindFirst(x) = IF A = {} THEN count ELSE Min(A)
      BY SameMin DEF Box!ArrayFindFirst
    <2>2. \A i : i \in B <=> i \in 1 .. count /\ cells[i] = x
      BY <1>1
    <2>3. \A i : i \in A <=> i \in 0 .. count - 1 /\ cells[i + 1] = x
      OBVIOUS
    <2> HIDE DEF A, B
    <2>4. CASE B = {}
      <3>1. ASSUME NEW i \in A PROVE FALSE
        <4>1. i + 1 \in B
          BY <1>1, <2>2, <2>3
        <4>2. QED
          BY <4>1, <2>4
      <3>2. QED
        BY <1>1, <2>1, <2>4, <3>1 DEF B
    <2>5. CASE B # {}
      <3>1. B \subseteq Nat
        BY <1>1, <2>2
      <3>2. PICK m \in B : \A y \in B : m <= y
        BY <2>5, <3>1, LeastNatural
      <3>3. B \subseteq Int /\ A \subseteq Int
        BY <1>1, <2>2, <2>3
      <3>4. Min(B) = m
        BY <3>2, <3>3, LeastIs
      <3>5. m \in 1 .. count /\ m - 1 \in 0 .. count - 1 /\ (m - 1) + 1 = m /\ cells[m] = x
        BY <1>1, <2>2
      <3>6. m - 1 \in A
        BY <2>3, <3>5
      <3>7. ASSUME NEW y \in A PROVE m - 1 <= y
        <4>1. y \in Int /\ y + 1 \in B
          BY <1>1, <2>2, <2>3
        <4>2. m <= y + 1
          BY <3>2, <4>1
        <4>3. QED
          BY <3>5, <4>1, <4>2
      <3>8. Min(A) = m - 1
        BY <3>3, <3>6, <3>7, LeastIs
      <3>9. Box!ArrayFindFirst(x) = Box!Min(B) - 1
        BY <2>1, <3>4, <3>6, <3>8, SameMin
      <3>10. QED
        BY <2>5, <3>9 DEF B
    <2>6. QED
      BY <2>4, <2>5
  <1>4. QED
    BY <1>2, <1>3 DEF Box!ArrayRight

(* The free places are those that are not in use. *)
LEMMA PoolAsPlaces == ASSUME Sized, PoolInv PROVE Box!PoolRight
  <1>1. top + Box!Cardinality(used) = QTY
    BY SameSize DEF PoolInv
  <1>2. /\ QTY \in Nat /\ top \in 0 .. QTY /\ stack \in [1 .. QTY -> 1 .. QTY]
        /\ \A x \in 1 .. QTY : x \in used <=> \A i \in 1 .. top : stack[i] # x
    BY DEF Sized, PoolInv
  <1>3. \A i \in 1 .. top : stack[i] \in 1 .. QTY
    BY <1>2
  <1>4. {stack[i] : i \in 1 .. top} = (1 .. QTY) \ used
    BY <1>2, <1>3
  <1>5. QED
    BY <1>1, <1>2, <1>4 DEF Box!PoolRight

(* What was given has been handed on, or waits. *)
LEMMA BufferAsSequence == ASSUME Sized, BufferInv PROVE Box!BatchesRight
  <1> DEFINE t == SubSeq(buffer, 1, filled)
             h == Len(handed)
  <1>1. /\ SIZE \in Nat \ {0} /\ buffer \in [1 .. SIZE -> Items] /\ filled \in 0 .. SIZE
        /\ processed \in Seq(Items) /\ handed \in Seq(Items) /\ h \in Nat
        /\ Len(processed) = h + filled
        /\ \A i \in 1 .. h : processed[i] = handed[i]
        /\ \A i \in 1 .. filled : processed[h + i] = buffer[i]
    BY LenProperties DEF Sized, BufferInv
  <1>2. t \in Seq(Items) /\ Len(t) = filled /\ \A i \in 1 .. filled : t[i] = buffer[i]
    BY <1>1, Prefix
  <1> HIDE DEF t
  <1> DEFINE c == handed \o t
  <1>3. /\ c \in Seq(Items) /\ Len(c) = h + filled
        /\ \A i \in 1 .. h + filled : c[i] = IF i <= h THEN handed[i] ELSE t[i - h]
    BY <1>1, <1>2, ConcatProperties
  <1> HIDE DEF c
  <1>4. ASSUME NEW i \in 1 .. h + filled PROVE processed[i] = c[i]
    <2>1. CASE i <= h
      BY <1>1, <1>3, <2>1
    <2>2. CASE i > h
      <3>1. i - h \in 1 .. filled /\ h + (i - h) = i
        BY <1>1, <2>2
      <3>2. QED
        BY <1>1, <1>2, <1>3, <2>2, <3>1
    <2>3. QED
      BY <1>1, <2>1, <2>2
  <1>5. processed = c
    BY <1>1, <1>3, <1>4, SeqEqual
  <1>6. QED
    BY <1>5 DEF Box!BatchesRight, c, t

(* The memory of the fixed-size containers is used as it should be, whatever
   the sizes and items: an Array's first count cells are its items, a BitArray's
   words have the bits of its numbers, a Pool's free places are on its stack once
   each, an ActBuffer keeps what it has not handed on (include/std/Array.h,
   BitArray.h, Pool.h, ActBuffer.h). *)
THEOREM ContainersInvariant == ASSUME Sized PROVE Box!Spec => []BoxInv
  <1>1. Box!Init => BoxInv
    BY BoxStarts
  <1>2. BoxInv /\ [Box!Next]_Box!vars => BoxInv'
    BY BoxSteps
  <1>3. QED
    BY <1>1, <1>2, PTL DEF Box!Spec

(* An Array holds its items in order wherever they were inserted or removed,
   and finds the first equal one; a BitArray has the numbers that were set, also
   where the sign of the int that is shifted spills into the bits above; a Pool
   loses no place, hands none out twice and always finds room on its stack; an
   ActBuffer hands every item on once and in order. *)
THEOREM ContainersAsIntended == ASSUME Sized PROVE Box!Spec => []Box!ContainersRight
  <1>1. BoxInv => Box!ContainersRight
    BY ArrayAsList, BitsAsSet, PoolAsPlaces, BufferAsSequence DEF BoxInv, Box!ContainersRight
  <1>2. QED
    BY <1>1, ContainersInvariant, PTL

=============================================================================
