----------------------------- MODULE HeapProofs -----------------------------
(***************************************************************************)
(* Proofs about the kernel heap, for every arena, header size, split       *)
(* threshold and set of request sizes: the list stays well formed, the     *)
(* heap implements the allocator (module Allocator; the map forgets the    *)
(* list and keeps the clients' pointers), and freeing undoes allocating.   *)
(***************************************************************************)
EXTENDS Heap, FiniteSetTheorems, WellFoundedInduction, TLAPS

USE HeapAssumption

(* A list the surgery operators can work on. *)
WF(h) == ListType(h) /\ Linked(h) /\ Ordered(h) /\ Counted(h)

-----------------------------------------------------------------------------
(* Facts that hold in every well-formed list. *)

(* The sentinel lies behind the first header. *)
LEMMA EndNodeFacts == EndNode \in Nat /\ EndNode > NodeSz /\ EndNode # 0
  BY DEF EndNode

(* Two different headers are two. *)
LEMMA PairCounted ==
  ASSUME NEW a, NEW b, a # b
  PROVE  IsFiniteSet({a, b}) /\ Cardinality({a, b}) = 2
  <1>1. IsFiniteSet({a}) /\ Cardinality({a}) = 1
    BY FS_Singleton
  <1> DEFINE S == {a}
  <1>2. IsFiniteSet(S) /\ Cardinality(S) = 1 /\ b \notin S
    BY <1>1
  <1>3. {a, b} = S \cup {b}
    OBVIOUS
  <1> HIDE DEF S
  <1>4. IsFiniteSet(S \cup {b}) /\ Cardinality(S \cup {b}) = Cardinality(S) + 1
    BY <1>2, FS_AddElement
  <1>5. QED
    BY <1>2, <1>3, <1>4

(* The header that follows a block lies behind it, and the one before it in
   front of it, unless the block is the first one. *)
LEMMA Neighbours ==
  ASSUME NEW h, WF(h), NEW n \in Blocks(h)
  PROVE  /\ n \in Nodes(h) /\ n \in Nat
         /\ h.next[n] \in Nodes(h) /\ h.next[n] \in Nat
         /\ n + NodeSz < h.next[n]
         /\ h.next[n] # 0
         /\ h.prev[n] \in Nodes(h)
         /\ n # 0 => h.prev[n] \in Blocks(h) /\ h.prev[n] < n
  <1>1. /\ n \in Nodes(h) /\ n # EndNode /\ n \in Nat
        /\ h.next[n] \in Nodes(h) /\ h.next[n] \in Nat
        /\ h.prev[n] \in Nodes(h) /\ h.prev[n] \in Nat
    BY EndNodeFacts DEF WF, ListType, Blocks, Nodes
  <1>2. n + NodeSz < h.next[n]
    BY <1>1 DEF WF, Ordered, Payload
  <1>3. ASSUME n # 0 PROVE h.prev[n] \in Blocks(h) /\ h.prev[n] < n
    <2>1. h.next[h.prev[n]] = n
      BY <1>1 DEF WF, Linked
    <2>2. h.prev[n] # EndNode
      BY <2>1, <1>3 DEF WF, Linked
    <2>3. h.prev[n] \in Blocks(h)
      BY <2>2, <1>1 DEF Blocks
    <2>4. Payload(h.prev[n]) < n
      BY <2>1, <2>3 DEF WF, Ordered
    <2>5. QED
      BY <2>3, <2>4, <1>1 DEF Payload
  <1>4. QED
    BY <1>1, <1>2, <1>3

-----------------------------------------------------------------------------
(* g is h without the header n, whose bytes go to the block before it. *)
IsMerge(h, g, n) ==
  /\ Nodes(g) = Nodes(h) \ {n}
  /\ Blocks(g) = Blocks(h) \ {n}
  /\ \A m \in Nodes(g) : g.free[m] = h.free[m]
  /\ g.next[h.prev[n]] = h.next[n]
  /\ \A m \in Nodes(g) : m # h.prev[n] => g.next[m] = h.next[m]
  /\ g.prev[h.next[n]] = h.prev[n]
  /\ \A m \in Nodes(g) : m # h.next[n] => g.prev[m] = h.prev[m]

(* RemoveNode takes a block other than the first out of the list and gives its
   bytes to the block before it. *)
LEMMA RemoveNodeShape ==
  ASSUME NEW h, WF(h), NEW n \in Blocks(h), n # 0
  PROVE  IsMerge(h, RemoveNode(h, n), n)
  <1>1. /\ h.next[n] \in Nodes(h) /\ h.next[n] # n
        /\ h.prev[n] \in Nodes(h) /\ h.prev[n] # n
    BY Neighbours
  <1>2. QED
    BY <1>1 DEF RemoveNode, Nodes, Blocks, IsMerge

(* RemoveNode keeps a list well formed when the block before takes over the
   space. *)
LEMMA RemoveNodeWF ==
  ASSUME NEW h, WF(h), NEW n \in Blocks(h), n # 0
  PROVE  WF(RemoveNode(h, n))
  <1> DEFINE g == RemoveNode(h, n)
             p == h.prev[n]
             q == h.next[n]
  <1>0. /\ Nodes(g) = Nodes(h) \ {n} /\ Blocks(g) = Blocks(h) \ {n}
        /\ \A m \in Nodes(g) : g.free[m] = h.free[m]
        /\ g.next[p] = q
        /\ \A m \in Nodes(g) : m # p => g.next[m] = h.next[m]
        /\ g.prev[q] = p
        /\ \A m \in Nodes(g) : m # q => g.prev[m] = h.prev[m]
    BY RemoveNodeShape DEF IsMerge
  <1>1. /\ p \in Nodes(h) /\ q \in Nodes(h) /\ p # n /\ q # n
        /\ p \in Blocks(h) /\ p < n /\ n < q
        /\ p \in Nat /\ q \in Nat /\ n \in Nat /\ n \in Nodes(h)
        /\ p + NodeSz < n /\ n + NodeSz < q
        /\ h.next[p] = n /\ h.prev[q] = n
    BY Neighbours DEF WF, Linked
  <1>2. ListType(g)
    <2>1. Nodes(g) \subseteq 0 .. EndNode
      BY <1>0 DEF WF, ListType
    <2>2. g.free \in [Nodes(g) -> BOOLEAN]
      BY <1>0 DEF WF, ListType, RemoveNode, Nodes
    <2>3. \A m \in Nodes(g) : g.next[m] \in Nodes(g) /\ g.prev[m] \in Nodes(g)
      <3> SUFFICES ASSUME NEW m \in Nodes(g)
                   PROVE  g.next[m] \in Nodes(g) /\ g.prev[m] \in Nodes(g)
        OBVIOUS
      <3>1. m \in Nodes(h) /\ m # n /\ h.next[m] \in Nodes(h) /\ h.prev[m] \in Nodes(h)
        BY <1>0 DEF WF, ListType
      <3>2. m # p => h.next[m] # n
        BY <3>1, <1>1 DEF WF, Linked
      <3>3. m # q => h.prev[m] # n
        BY <3>1, <1>1 DEF WF, Linked
      <3>4. QED
        BY <3>1, <3>2, <3>3, <1>1, <1>0
    <2>4. g.nodesQty \in Nat
      <3>1. IsFiniteSet(Nodes(h)) /\ {n, p} \subseteq Nodes(h) /\ n # p
        BY <1>1 DEF WF, Counted
      <3>2. Cardinality({n, p}) = 2
        BY <3>1, PairCounted
      <3>3. Cardinality(Nodes(h)) \in Nat /\ Cardinality(Nodes(h)) >= 2
        <4>1. Cardinality({n, p}) <= Cardinality(Nodes(h))
          BY <3>1, FS_Subset
        <4>2. Cardinality(Nodes(h)) \in Nat
          BY <3>1, FS_CardinalityType
        <4>3. QED
          BY <4>1, <4>2, <3>2
      <3>4. QED
        BY <3>3 DEF RemoveNode, WF, Counted
    <2>5. QED
      BY <2>1, <2>2, <2>3, <2>4 DEF ListType, RemoveNode, Nodes
  <1>3. Linked(g)
    <2>1. {0, EndNode} \subseteq Nodes(g)
      BY <1>0, EndNodeFacts DEF WF, Linked, Blocks
    <2>2. ~g.free[EndNode]
      BY <2>1, <1>0 DEF WF, Linked
    <2>3. g.next[EndNode] = 0
      BY <2>1, <1>1, <1>0 DEF WF, Linked, Blocks
    <2>4. \A m \in Nodes(g) : g.prev[g.next[m]] = m /\ g.next[g.prev[m]] = m
      <3> SUFFICES ASSUME NEW m \in Nodes(g)
                   PROVE  g.prev[g.next[m]] = m /\ g.next[g.prev[m]] = m
        OBVIOUS
      <3>1. /\ m \in Nodes(h) /\ m # n
            /\ h.prev[h.next[m]] = m /\ h.next[h.prev[m]] = m
            /\ g.next[m] \in Nodes(g) /\ g.prev[m] \in Nodes(g)
        BY <1>0, <1>2 DEF WF, Linked, ListType
      <3>2. g.prev[g.next[m]] = m
        BY <3>1, <1>1, <1>0
      <3>3. g.next[g.prev[m]] = m
        BY <3>1, <1>1, <1>0
      <3>4. QED
        BY <3>2, <3>3
    <2>5. QED
      BY <2>1, <2>2, <2>3, <2>4 DEF Linked
  <1>4. Ordered(g)
    <2> SUFFICES ASSUME NEW k \in Blocks(g), NEW m \in Nodes(g)
                 PROVE  /\ Payload(k) < g.next[k]
                        /\ m <= k \/ g.next[k] <= m
      BY <1>0 DEF Ordered, WF, Linked
    <2>1. /\ k \in Blocks(h) /\ m \in Nodes(h) /\ m # n /\ k # n
          /\ k \in Nat /\ m \in Nat /\ h.next[k] \in Nat
      BY <1>0, EndNodeFacts DEF WF, ListType, Blocks
    <2>2. Payload(k) < h.next[k] /\ (m <= k \/ h.next[k] <= m)
      BY <2>1 DEF WF, Ordered
    <2>3. CASE k = p
      <3>1. m <= n \/ q <= m
        BY <2>1 DEF WF, Ordered
      <3>2. m <= p \/ n <= m
        BY <2>2, <2>3, <1>1
      <3>3. QED
        BY <3>1, <3>2, <2>1, <2>3, <1>1, <1>0 DEF Payload
    <2>4. CASE k # p
      BY <2>1, <2>2, <2>4, <1>0 DEF Blocks
    <2>5. QED
      BY <2>3, <2>4
  <1>5. Counted(g)
    <2>1. g.nodesQty = h.nodesQty - 1
      BY DEF RemoveNode
    <2>2. IsFiniteSet(Nodes(h)) /\ h.nodesQty = Cardinality(Nodes(h)) - 1
      BY DEF WF, Counted
    <2>3. /\ IsFiniteSet(Nodes(h) \ {n})
          /\ Cardinality(Nodes(h) \ {n}) = Cardinality(Nodes(h)) - 1
      BY <2>2, <1>1, FS_RemoveElement
    <2>4. QED
      BY <2>1, <2>2, <2>3, <1>0, FS_CardinalityType DEF Counted
  <1>6. QED
    BY <1>2, <1>3, <1>4, <1>5 DEF WF

-----------------------------------------------------------------------------
(* g is h with the header x linked in behind c. *)
IsSplit(h, g, c, x) ==
  /\ x \notin Nodes(h)
  /\ Nodes(g) = Nodes(h) \cup {x}
  /\ Blocks(g) = Blocks(h) \cup {x}
  /\ g.free[x] = TRUE
  /\ \A m \in Nodes(h) : g.free[m] = h.free[m]
  /\ g.next[c] = x /\ g.next[x] = h.next[c]
  /\ \A m \in Nodes(h) : m # c => g.next[m] = h.next[m]
  /\ g.prev[x] = c /\ g.prev[h.next[c]] = x
  /\ \A m \in Nodes(h) : m # h.next[c] => g.prev[m] = h.prev[m]

(* AddNodeAfter splits a block in two, provided the new header and at least
   one byte of payload fit in front of the next header. *)
LEMMA AddNodeShape ==
  ASSUME NEW h, WF(h), NEW c \in Blocks(h), NEW x \in Nat,
         c < x, x < h.next[c]
  PROVE  IsSplit(h, AddNodeAfter(h, c, x), c, x)
  <1> DEFINE g == AddNodeAfter(h, c, x)
  <1>1. /\ c \in Nodes(h) /\ c \in Nat
        /\ h.next[c] \in Nodes(h) /\ h.next[c] \in Nat
    BY Neighbours
  <1>2. x \notin Nodes(h)
    BY <1>1 DEF WF, Ordered
  <1>3. EndNode \in Nodes(h)
    BY DEF WF, Linked
  <1>4. Nodes(g) = Nodes(h) \cup {x}
    BY DEF AddNodeAfter, Nodes
  <1>5. Blocks(g) = Blocks(h) \cup {x}
    BY <1>2, <1>3, <1>4 DEF Blocks
  <1>6. QED
    BY <1>1, <1>2, <1>4, <1>5 DEF AddNodeAfter, Nodes, IsSplit

(* AddNodeAfter keeps a list well formed when the new header and a byte of
   payload fit into the block it splits. *)
LEMMA AddNodeWF ==
  ASSUME NEW h, WF(h), NEW c \in Blocks(h), NEW x \in Nat,
         Payload(c) < x, Payload(x) < h.next[c]
  PROVE  WF(AddNodeAfter(h, c, x))
  <1> DEFINE g == AddNodeAfter(h, c, x)
             q == h.next[c]
  <1>1. /\ c \in Nodes(h) /\ c \in Nat /\ q \in Nodes(h) /\ q \in Nat
        /\ c < x /\ x < q /\ h.prev[q] = c /\ q <= EndNode
        /\ c + NodeSz < x /\ x + NodeSz < q
    BY Neighbours DEF Payload, WF, ListType, Linked
  <1>0. /\ x \notin Nodes(h)
        /\ Nodes(g) = Nodes(h) \cup {x}
        /\ Blocks(g) = Blocks(h) \cup {x}
        /\ g.free[x] = TRUE
        /\ \A m \in Nodes(h) : g.free[m] = h.free[m]
        /\ g.next[c] = x /\ g.next[x] = q
        /\ \A m \in Nodes(h) : m # c => g.next[m] = h.next[m]
        /\ g.prev[x] = c /\ g.prev[q] = x
        /\ \A m \in Nodes(h) : m # q => g.prev[m] = h.prev[m]
    <2>1. c < x /\ x < h.next[c]
      BY <1>1
    <2>2. IsSplit(h, g, c, x)
      BY <2>1, AddNodeShape
    <2>3. QED
      BY <2>2 DEF IsSplit
  <1> HIDE DEF g
  <1>2. ListType(g)
    <2>1. Nodes(g) \subseteq 0 .. EndNode
      BY <1>0, <1>1, EndNodeFacts DEF WF, ListType
    <2>2. g.free \in [Nodes(g) -> BOOLEAN]
      BY <1>0 DEF g, WF, ListType, AddNodeAfter, Nodes
    <2>3. \A m \in Nodes(g) : g.next[m] \in Nodes(g) /\ g.prev[m] \in Nodes(g)
      BY <1>0, <1>1 DEF WF, ListType
    <2>4. g.nodesQty \in Nat
      BY DEF g, WF, ListType, AddNodeAfter
    <2>5. QED
      BY <2>1, <2>2, <2>3, <2>4 DEF g, ListType, AddNodeAfter, Nodes
  <1>3. Linked(g)
    <2>1. {0, EndNode} \subseteq Nodes(g)
      BY <1>0 DEF WF, Linked
    <2>2. ~g.free[EndNode] /\ g.next[EndNode] = 0
      BY <1>0, <1>1 DEF WF, Linked, Blocks
    <2>3. \A m \in Nodes(g) : g.prev[g.next[m]] = m /\ g.next[g.prev[m]] = m
      <3> SUFFICES ASSUME NEW m \in Nodes(g)
                   PROVE  g.prev[g.next[m]] = m /\ g.next[g.prev[m]] = m
        OBVIOUS
      <3>1. CASE m = x
        BY <3>1, <1>0, <1>1
      <3>2. CASE m # x
        <4>1. /\ m \in Nodes(h) /\ h.next[m] \in Nodes(h) /\ h.prev[m] \in Nodes(h)
              /\ h.prev[h.next[m]] = m /\ h.next[h.prev[m]] = m
          BY <3>2, <1>0 DEF WF, Linked, ListType
        <4>2. g.prev[g.next[m]] = m
          <5>1. CASE m = c
            BY <5>1, <1>0
          <5>2. CASE m # c
            <6>1. h.next[m] # q
              BY <4>1, <5>2, <1>1
            <6>2. QED
              BY <6>1, <5>2, <4>1, <1>0
          <5>3. QED
            BY <5>1, <5>2
        <4>3. g.next[g.prev[m]] = m
          <5>1. CASE m = q
            BY <5>1, <1>0
          <5>2. CASE m # q
            <6>1. h.prev[m] # c
              BY <4>1, <5>2
            <6>2. QED
              BY <6>1, <5>2, <4>1, <1>0
          <5>3. QED
            BY <5>1, <5>2
        <4>4. QED
          BY <4>2, <4>3
      <3>3. QED
        BY <3>1, <3>2
    <2>4. QED
      BY <2>1, <2>2, <2>3 DEF Linked
  <1>4. Ordered(g)
    <2> SUFFICES ASSUME NEW k \in Blocks(g), NEW m \in Nodes(g)
                 PROVE  /\ Payload(k) < g.next[k]
                        /\ m <= k \/ g.next[k] <= m
      BY <1>3 DEF Ordered, Linked
    <2>1. /\ \A j \in Nodes(h) : j \in Nat /\ h.next[j] \in Nat
          /\ \A j \in Blocks(h), i \in Nodes(h) :
               Payload(j) < h.next[j] /\ (i <= j \/ h.next[j] <= i)
          /\ \A j \in Blocks(h) : j \in Nodes(h)
      BY EndNodeFacts DEF WF, ListType, Ordered, Blocks
    <2>2. \A i \in Nodes(h) : i <= c \/ q <= i
      BY <2>1
    <2>3. CASE k = x
      BY <2>1, <2>2, <2>3, <1>0, <1>1 DEF Payload
    <2>4. CASE k = c
      BY <2>1, <2>2, <2>4, <1>0, <1>1 DEF Payload
    <2>5. CASE k # x /\ k # c
      <3>1. k \in Blocks(h) /\ k \in Nodes(h) /\ k \in Nat /\ h.next[k] \in Nat /\ g.next[k] = h.next[k]
        BY <2>1, <2>5, <1>0
      <3>2. CASE m = x
        <4>1. (c <= k \/ h.next[k] <= c) /\ (k <= c \/ q <= k)
          BY <3>1, <2>1, <1>1
        <4>2. QED
          BY <4>1, <3>1, <3>2, <2>1, <2>5, <1>1
      <3>3. CASE m # x
        BY <3>1, <3>3, <2>1, <1>0
      <3>4. QED
        BY <3>2, <3>3
    <2>6. QED
      BY <2>3, <2>4, <2>5
  <1>5. Counted(g)
    <2>1. g.nodesQty = h.nodesQty + 1
      BY DEF g, AddNodeAfter
    <2>2. IsFiniteSet(Nodes(h)) /\ h.nodesQty = Cardinality(Nodes(h)) - 1
      BY DEF WF, Counted
    <2>3. /\ IsFiniteSet(Nodes(h) \cup {x})
          /\ Cardinality(Nodes(h) \cup {x}) = Cardinality(Nodes(h)) + 1
      BY <2>2, <1>0, FS_AddElement
    <2>4. QED
      BY <2>1, <2>2, <2>3, <1>0, FS_CardinalityType DEF Counted
  <1>6. QED
    BY <1>2, <1>3, <1>4, <1>5 DEF WF, g

(* g is h with the flag of n set to b and the links as they were. *)
IsFlagged(h, g, n, b) ==
  /\ Nodes(g) = Nodes(h) /\ Blocks(g) = Blocks(h)
  /\ g.next = h.next /\ g.prev = h.prev /\ g.nodesQty = h.nodesQty
  /\ g.free[n] = b
  /\ \A m \in Nodes(h) : m # n => g.free[m] = h.free[m]

(* Marking a block free or used leaves the shape of the list alone. *)
LEMMA SetFreeWF ==
  ASSUME NEW h, WF(h), NEW n \in Blocks(h), NEW b \in BOOLEAN
  PROVE  WF(SetFree(h, n, b)) /\ IsFlagged(h, SetFree(h, n, b), n, b)
  <1> DEFINE g == SetFree(h, n, b)
  <1>1. n \in Nodes(h) /\ n # EndNode
    BY DEF Blocks
  <1>2. /\ g.next = h.next /\ g.prev = h.prev /\ g.nodesQty = h.nodesQty
        /\ g.free = [h.free EXCEPT ![n] = b]
    BY DEF WF, ListType, SetFree
  <1>3. Nodes(g) = Nodes(h) /\ Blocks(g) = Blocks(h)
    BY <1>2 DEF Nodes, Blocks
  <1>4. ListType(g)
    BY <1>3 DEF WF, ListType, SetFree
  <1>5. g.free[n] = b /\ \A m \in Nodes(h) : m # n => g.free[m] = h.free[m]
    BY <1>1, <1>2 DEF WF, ListType
  <1>6. Linked(g) /\ Ordered(g) /\ Counted(g)
    BY <1>1, <1>2, <1>3, <1>5 DEF WF, Linked, Ordered, Counted
  <1>7. QED
    BY <1>2, <1>3, <1>4, <1>5, <1>6 DEF WF, IsFlagged

-----------------------------------------------------------------------------
(* FindSutableNode finds a free block that is large enough whenever there is
   one: a smallest size exists, and among the blocks of that size a lowest
   address. *)
LEMMA LeastNatural ==
  ASSUME NEW S \in SUBSET Nat, S # {}
  PROVE  \E x \in S : \A y \in S : x <= y
  <1> DEFINE LT == {ij \in Nat \X Nat : ij[1] < ij[2]}
  <1>1. IsWellFoundedOn(LT, Nat)
    BY NatLessThanWellFounded DEF OpToRel
  <1> HIDE DEF LT
  <1>2. PICK x \in S : \A y \in S : ~ (<<y, x>> \in LT)
    BY <1>1, WFMin
  <1>3. ASSUME NEW y \in S PROVE x <= y
    <2>1. <<y, x>> \in LT <=> y < x
      BY DEF LT
    <2>2. QED
      BY <2>1, <1>2
  <1>4. QED
    BY <1>3

(* FindSutableNode returns a free block that is large enough, if there is one. *)
LEMMA FindSutableNodeFinds ==
  ASSUME NEW h, WF(h), NEW size \in Nat, Sutable(h, size) # {}
  PROVE  FindSutableNode(h, size) \in Sutable(h, size)
  <1> DEFINE S == Sutable(h, size)
             T == {GetSize(h, n) : n \in S}
  <1>1. \A n \in S : n \in Nat /\ GetSize(h, n) \in Nat
    BY Neighbours DEF Sutable, GetSize
  <1>2. PICK s \in T : \A t \in T : s <= t
    <2>1. T \in SUBSET Nat /\ T # {}
      BY <1>1
    <2>2. QED
      BY <2>1, LeastNatural
  <1> DEFINE U == {n \in S : GetSize(h, n) = s}
  <1>3. PICK n \in U : \A m \in U : n <= m
    <2>1. U \in SUBSET Nat /\ U # {}
      BY <1>1, <1>2
    <2>2. QED
      BY <2>1, LeastNatural
  <1>4. ASSUME NEW m \in S
        PROVE  \/ GetSize(h, n) < GetSize(h, m)
               \/ GetSize(h, n) = GetSize(h, m) /\ n <= m
    <2>1. s \in Nat /\ GetSize(h, m) \in Nat /\ GetSize(h, m) \in T
      BY <1>1
    <2>2. s <= GetSize(h, m) /\ GetSize(h, n) = s
      BY <1>2, <2>1
    <2>3. CASE GetSize(h, m) = s
      BY <1>3, <2>2, <2>3
    <2>4. QED
      BY <2>1, <2>2, <2>3
  <1>5. QED
    BY <1>4 DEF FindSutableNode, Sutable

-----------------------------------------------------------------------------
(* The three operations on a list.  Each keeps it well formed and coalesced,
   changes the set of used blocks as its caller expects and leaves the extent
   of every other used block alone. *)
Used(h) == {n \in Blocks(h) : ~h.free[n]}

Good(h) == WF(h) /\ Coalesced(h)

KeepsOthers(h, g, n) == \A m \in Used(h) \ {n} : g.next[m] = h.next[m]

(* Allocate keeps the list good and turns exactly one block into a used one. *)
LEMMA AllocateInGood ==
  ASSUME NEW h, Good(h), NEW size \in Nat \ {0}, NEW n \in Sutable(h, size)
  PROVE  /\ Good(AllocateIn(h, size, n))
         /\ Used(AllocateIn(h, size, n)) = Used(h) \cup {n}
         /\ n \notin Used(h)
         /\ KeepsOthers(h, AllocateIn(h, size, n), n)
         /\ size <= GetSize(AllocateIn(h, size, n), n)
  <1> DEFINE t == SetFree(h, n, FALSE)
             x == Payload(n) + size
             g == AllocateIn(h, size, n)
  <1>1. WF(h) /\ n \in Blocks(h) /\ h.free[n] /\ size <= GetSize(h, n)
    BY DEF Good, Sutable
  <1>2. /\ n \in Nodes(h) /\ n \in Nat /\ h.next[n] \in Nat /\ h.next[n] \in Nodes(h)
        /\ h.next[n] # n
    BY <1>1, Neighbours
  <1>3. /\ WF(t)
        /\ Nodes(t) = Nodes(h) /\ Blocks(t) = Blocks(h)
        /\ t.next = h.next
        /\ t.free[n] = FALSE
        /\ \A m \in Nodes(h) : m # n => t.free[m] = h.free[m]
    <2>1. WF(t) /\ IsFlagged(h, t, n, FALSE)
      BY <1>1, SetFreeWF
    <2>2. QED
      BY <2>1 DEF IsFlagged
  <1> HIDE DEF t
  <1>4. ~h.free[h.next[n]]
    BY <1>1 DEF Good, Coalesced
  <1>5. \A m \in Blocks(h) : m \in Nodes(h) /\ h.next[m] \in Nodes(h)
    BY <1>1, Neighbours
  <1>6. CASE Splits(GetSize(h, n) - size)
    <2>1. GetSize(h, n) - size > NodeSz /\ GetSize(h, n) \in Int
      <3>1. GetSize(h, n) \in Int
        BY <1>2 DEF GetSize
      <3>2. MinBlockSpace * NodeSz >= NodeSz
        OBVIOUS
      <3>3. QED
        BY <3>1, <3>2, <1>6 DEF Splits
    <2>2. x \in Nat /\ Payload(n) < x /\ Payload(x) < h.next[n] /\ n < x /\ x < h.next[n]
      BY <2>1, <1>2 DEF Payload, GetSize
    <2>3. g = AddNodeAfter(t, n, x)
      BY <1>6 DEF AllocateIn, t
    <2>4. WF(g) /\ IsSplit(t, g, n, x)
      BY <2>2, <2>3, <1>1, <1>3, AddNodeWF, AddNodeShape
    <2> HIDE DEF g, x
    <2>5. /\ Nodes(g) = Nodes(h) \cup {x} /\ x \notin Nodes(h)
          /\ Blocks(g) = Blocks(h) \cup {x}
          /\ g.free[x] = TRUE
          /\ g.free[n] = FALSE
          /\ \A m \in Nodes(h) : m # n => g.free[m] = h.free[m]
          /\ g.next[n] = x /\ g.next[x] = h.next[n]
          /\ \A m \in Nodes(h) : m # n => g.next[m] = h.next[m]
      BY <2>4, <1>2, <1>3 DEF IsSplit
    <2>6. Coalesced(g)
      <3> SUFFICES ASSUME NEW m \in Blocks(g), g.free[m]
                   PROVE  ~g.free[g.next[m]]
        BY DEF Coalesced
      <3>1. CASE m = x
        BY <3>1, <2>5, <1>2, <1>4
      <3>2. CASE m # x
        <4>1. m \in Blocks(h) /\ m # n /\ m \in Nodes(h) /\ h.free[m]
              /\ g.next[m] = h.next[m] /\ h.next[m] \in Nodes(h)
          BY <3>2, <2>5, <1>5
        <4>2. ~h.free[h.next[m]]
          BY <4>1 DEF Good, Coalesced
        <4>3. QED
          BY <4>1, <4>2, <2>5
      <3>3. QED
        BY <3>1, <3>2
    <2>7. Used(g) = Used(h) \cup {n}
      BY <2>5, <1>1, <1>5 DEF Used
    <2>8. n \notin Used(h) /\ KeepsOthers(h, g, n)
      BY <2>5, <1>1, <1>5 DEF Used, KeepsOthers
    <2>9. size <= GetSize(g, n)
      BY <2>5, <1>2 DEF GetSize, x, Payload
    <2>10. QED
      BY <2>4, <2>6, <2>7, <2>8, <2>9 DEF Good, g
  <1>7. CASE ~Splits(GetSize(h, n) - size)
    <2>1. g = t
      BY <1>7 DEF AllocateIn, t
    <2>2. Coalesced(t)
      BY <1>1, <1>3, <1>5 DEF Coalesced, Good
    <2>3. Used(t) = Used(h) \cup {n}
      BY <1>1, <1>3, <1>5 DEF Used
    <2>4. n \notin Used(h) /\ KeepsOthers(h, t, n)
      BY <1>1, <1>3 DEF Used, KeepsOthers
    <2>5. size <= GetSize(t, n)
      BY <1>1, <1>3 DEF GetSize
    <2>6. QED
      BY <1>3, <2>1, <2>2, <2>3, <2>4, <2>5 DEF Good
  <1>8. QED
    BY <1>6, <1>7

(* Free keeps the list good, whichever neighbours it merges with, and frees
   exactly one block. *)
LEMMA FreeInGood ==
  ASSUME NEW h, Good(h), NEW n \in Used(h)
  PROVE  /\ Good(FreeIn(h, n))
         /\ Used(FreeIn(h, n)) = Used(h) \ {n}
         /\ KeepsOthers(h, FreeIn(h, n), n)
  <1> DEFINE q == h.next[n]
             k == IF h.free[q] THEN RemoveNode(h, q) ELSE h
             g == FreeIn(h, n)
  <1>1. /\ WF(h) /\ Coalesced(h)
        /\ n \in Blocks(h) /\ n \in Nodes(h) /\ n \in Nat /\ ~h.free[n]
        /\ q \in Nodes(h) /\ q # 0 /\ q # n
        /\ h.prev[n] \in Nodes(h) /\ h.prev[q] = n
    BY Neighbours DEF Good, Used, WF, Linked
  <1>2. \A m \in Blocks(h) : /\ m \in Nodes(h) /\ h.next[m] \in Nodes(h)
                             /\ h.prev[h.next[m]] = m
    BY <1>1, Neighbours DEF WF, Linked
  (* merging with the block behind *)
  <1>3. /\ WF(k) /\ Coalesced(k)
        /\ n \in Blocks(k) /\ ~k.free[n] /\ ~k.free[k.next[n]]
        /\ k.prev[n] = h.prev[n]
        /\ Used(k) = Used(h) /\ KeepsOthers(h, k, n)
    <2>1. CASE h.free[q]
      <3>1. q \in Blocks(h)
        BY <2>1, <1>1 DEF WF, Linked, Blocks
      <3>2. k = RemoveNode(h, q)
        BY <2>1
      <3>3. WF(k) /\ IsMerge(h, k, q)
        BY <3>1, <3>2, <1>1, RemoveNodeWF, RemoveNodeShape
      <3> HIDE DEF k
      <3>4. /\ Nodes(k) = Nodes(h) \ {q} /\ Blocks(k) = Blocks(h) \ {q}
            /\ \A m \in Nodes(k) : k.free[m] = h.free[m]
            /\ k.next[n] = h.next[q]
            /\ \A m \in Nodes(k) : m # n => k.next[m] = h.next[m]
            /\ \A m \in Nodes(k) : m # h.next[q] => k.prev[m] = h.prev[m]
        BY <3>3, <1>1 DEF IsMerge
      <3>5. h.next[q] \in Nodes(h) /\ ~h.free[h.next[q]] /\ h.next[q] # q
        BY <3>1, <2>1, <1>1, Neighbours DEF Coalesced
      <3>6. n \in Blocks(k) /\ n \in Nodes(k) /\ ~k.free[n] /\ ~k.free[k.next[n]]
        BY <3>4, <3>5, <1>1
      <3>7. k.prev[n] = h.prev[n]
        <4>1. CASE n # h.next[q]
          BY <4>1, <3>4, <3>6
        <4>2. CASE n = h.next[q]
          BY <4>2, <3>1, <1>1, Neighbours
        <4>3. QED
          BY <4>1, <4>2
      <3>8. Coalesced(k)
        <4> SUFFICES ASSUME NEW m \in Blocks(k), k.free[m]
                     PROVE  ~k.free[k.next[m]]
          BY DEF Coalesced
        <4>1. /\ m \in Blocks(h) /\ m \in Nodes(k) /\ h.free[m] /\ m # n /\ k.next[m] = h.next[m]
              /\ h.next[m] \in Nodes(h)
          BY <3>4, <1>1, <1>2
        <4>2. h.next[m] # q
          BY <4>1, <1>1, <1>2
        <4>3. ~h.free[h.next[m]]
          BY <4>1, <1>1 DEF Coalesced
        <4>4. QED
          BY <4>1, <4>2, <4>3, <3>4
      <3>9. Used(k) = Used(h) /\ KeepsOthers(h, k, n)
        BY <3>4, <2>1, <1>2 DEF Used, KeepsOthers
      <3>10. QED
        BY <3>3, <3>6, <3>7, <3>8, <3>9
    <2>2. CASE ~h.free[q]
      BY <2>2, <1>1 DEF KeepsOthers
    <2>3. QED
      BY <2>1, <2>2
  <1>4. g = IF k.free[k.prev[n]] THEN RemoveNode(k, n) ELSE SetFree(k, n, TRUE)
    BY DEF FreeIn
  <1> HIDE DEF k, g
  <1>5. /\ n \in Nodes(k) /\ k.next[n] \in Nodes(k) /\ k.prev[n] \in Nodes(k)
        /\ k.next[n] # n
        /\ n # 0 => k.prev[n] \in Blocks(k)
        /\ \A m \in Blocks(k) : /\ m \in Nodes(k) /\ k.next[m] \in Nodes(k)
                                /\ k.prev[k.next[m]] = m
    BY <1>3, <1>1, Neighbours DEF WF, Linked
  (* merging with the block in front *)
  <1>6. Good(g) /\ Used(g) = Used(k) \ {n} /\ KeepsOthers(k, g, n)
    <2>1. CASE k.free[k.prev[n]]
      <3>1. n # 0
        BY <2>1, <1>3 DEF WF, Linked
      <3>2. g = RemoveNode(k, n)
        BY <2>1, <1>4
      <3>3. WF(g) /\ IsMerge(k, g, n)
        BY <3>1, <3>2, <1>3, RemoveNodeWF, RemoveNodeShape
      <3>4. /\ Nodes(g) = Nodes(k) \ {n} /\ Blocks(g) = Blocks(k) \ {n}
            /\ \A m \in Nodes(g) : g.free[m] = k.free[m]
            /\ g.next[k.prev[n]] = k.next[n]
            /\ \A m \in Nodes(g) : m # k.prev[n] => g.next[m] = k.next[m]
        BY <3>3 DEF IsMerge
      <3>5. Coalesced(g)
        <4> SUFFICES ASSUME NEW m \in Blocks(g), g.free[m]
                     PROVE  ~g.free[g.next[m]]
          BY DEF Coalesced
        <4>1. m \in Blocks(k) /\ m \in Nodes(g) /\ m # n /\ k.free[m]
          BY <3>4, <1>5
        <4>2. CASE m = k.prev[n]
          BY <4>2, <4>1, <3>4, <1>3, <1>5
        <4>3. CASE m # k.prev[n]
          <5>1. g.next[m] = k.next[m] /\ k.next[m] # n /\ k.next[m] \in Nodes(g)
            BY <4>1, <4>3, <3>4, <1>5
          <5>2. ~k.free[k.next[m]]
            BY <4>1, <1>3 DEF Coalesced
          <5>3. QED
            BY <5>1, <5>2, <3>4
        <4>4. QED
          BY <4>2, <4>3
      <3>6. Used(g) = Used(k) \ {n} /\ KeepsOthers(k, g, n)
        BY <3>4, <2>1, <1>5 DEF Used, KeepsOthers
      <3>7. QED
        BY <3>3, <3>5, <3>6 DEF Good
    <2>2. CASE ~k.free[k.prev[n]]
      <3>1. WF(g) /\ IsFlagged(k, g, n, TRUE)
        BY <2>2, <1>3, <1>4, SetFreeWF
      <3>2. /\ Nodes(g) = Nodes(k) /\ Blocks(g) = Blocks(k) /\ g.next = k.next
            /\ g.free[n] = TRUE
            /\ \A m \in Nodes(k) : m # n => g.free[m] = k.free[m]
        BY <3>1 DEF IsFlagged
      <3>3. Coalesced(g)
        <4> SUFFICES ASSUME NEW m \in Blocks(g), g.free[m]
                     PROVE  ~g.free[g.next[m]]
          BY DEF Coalesced
        <4>1. CASE m = n
          BY <4>1, <3>2, <1>3, <1>5
        <4>2. CASE m # n
          <5>1. k.free[m] /\ k.next[m] \in Nodes(k) /\ k.next[m] # n /\ m \in Blocks(k)
            BY <4>2, <3>2, <1>5, <2>2
          <5>2. ~k.free[k.next[m]]
            BY <5>1, <1>3 DEF Coalesced
          <5>3. QED
            BY <5>1, <5>2, <3>2
        <4>3. QED
          BY <4>1, <4>2
      <3>4. Used(g) = Used(k) \ {n} /\ KeepsOthers(k, g, n)
        BY <3>2, <1>5 DEF Used, KeepsOthers
      <3>5. QED
        BY <3>1, <3>3, <3>4 DEF Good
    <2>3. QED
      BY <2>1, <2>2
  <1>7. KeepsOthers(h, g, n)
    BY <1>3, <1>6 DEF KeepsOthers
  <1>8. QED
    BY <1>3, <1>6, <1>7 DEF g

(* What growing in place leaves of the block behind is long enough for a
   header and a byte: a tail of exactly one header is a multiple of NodeSz, so
   the pointer difference is exact and does not exceed MinBlockSpace. *)
LEMMA LongTail ==
  ASSUME NEW b \in Nat, NEW split \in NodeDiffExceeds(b), split, b >= NodeSz
  PROVE  b > NodeSz
  <1>1. SUFFICES ASSUME b = NodeSz PROVE FALSE
    OBVIOUS
  <1>2. b % NodeSz = 0 /\ b \div NodeSz = 1
    BY <1>1
  <1>3. ~(1 > MinBlockSpace)
    OBVIOUS
  <1>4. NodeDiffExceeds(b) = {1 > MinBlockSpace}
    BY <1>2 DEF NodeDiffExceeds
  <1>5. QED
    BY <1>3, <1>4

(* Growing in place keeps the list good and every other used block as it is. *)
LEMMA GrowInGood ==
  ASSUME NEW h, Good(h), NEW n \in Used(h), NEW size \in Nat \ {0},
         CanGrow(h, n, size),
         NEW split \in NodeDiffExceeds(Leftover(h, n, size)),
         ~(split /\ Leftover(h, n, size) < NodeSz)
  PROVE  /\ Good(GrowIn(h, n, size, split))
         /\ Used(GrowIn(h, n, size, split)) = Used(h)
         /\ KeepsOthers(h, GrowIn(h, n, size, split), n)
         /\ size <= GetSize(GrowIn(h, n, size, split), n)
  <1> DEFINE q == h.next[n]
             r == h.next[q]
             x == Payload(n) + size
             k == RemoveNode(h, q)
             g == GrowIn(h, n, size, split)
  <1>1. /\ WF(h) /\ Coalesced(h)
        /\ n \in Blocks(h) /\ n \in Nodes(h) /\ n \in Nat /\ ~h.free[n]
        /\ q \in Nodes(h) /\ q # 0 /\ q # n /\ n < q
        /\ h.prev[q] = n /\ h.free[q]
    BY Neighbours DEF Good, Used, WF, Linked, CanGrow
  <1>2. q \in Blocks(h) /\ r \in Nodes(h) /\ r # q /\ r \in Nat /\ q < r /\ ~h.free[r]
    <2>1. q \in Blocks(h)
      BY <1>1 DEF WF, Linked, Blocks
    <2>2. QED
      BY <2>1, <1>1, Neighbours DEF Coalesced
  <1>3. \A m \in Blocks(h) : /\ m \in Nodes(h) /\ h.next[m] \in Nodes(h)
                             /\ h.prev[h.next[m]] = m
    BY <1>1, Neighbours DEF WF, Linked
  <1>4. x \in Nat /\ x < r /\ Payload(n) < x /\ Leftover(h, n, size) = r - x
    BY <1>1, <1>2 DEF CanGrow, Payload, Leftover
  <1>5. WF(k) /\ IsMerge(h, k, q)
    BY <1>1, <1>2, RemoveNodeWF, RemoveNodeShape
  <1>6. g = IF split THEN AddNodeAfter(k, n, x) ELSE k
    BY DEF GrowIn
  <1>7. Leftover(h, n, size) \in Nat
    BY <1>2, <1>4
  <1>8. ASSUME split PROVE NodeSz < r - x
    <2>1. Leftover(h, n, size) >= NodeSz
      BY <1>7, <1>8
    <2>2. Leftover(h, n, size) > NodeSz
      BY <1>7, <1>8, <2>1, LongTail
    <2>3. QED
      BY <2>2, <1>4
  <1> HIDE DEF k, g
  <1>9. /\ Nodes(k) = Nodes(h) \ {q} /\ Blocks(k) = Blocks(h) \ {q}
        /\ \A m \in Nodes(k) : k.free[m] = h.free[m]
        /\ k.next[n] = r
        /\ \A m \in Nodes(k) : m # n => k.next[m] = h.next[m]
    BY <1>5, <1>1 DEF IsMerge
  <1>10. n \in Nodes(k) /\ n \in Blocks(k) /\ ~k.free[n] /\ r \in Nodes(k) /\ ~k.free[r]
    BY <1>9, <1>1, <1>2
  <1>11. \A m \in Blocks(k) : /\ m \in Nodes(k) /\ m \in Blocks(h)
                              /\ k.next[m] \in Nodes(k)
    BY <1>9, <1>3, <1>5, Neighbours
  <1>12. Coalesced(k)
    <2> SUFFICES ASSUME NEW m \in Blocks(k), k.free[m]
                 PROVE  ~k.free[k.next[m]]
      BY DEF Coalesced
    <2>1. m \in Blocks(h) /\ m # n /\ h.free[m] /\ k.next[m] = h.next[m] /\ k.next[m] \in Nodes(k)
      BY <1>9, <1>10, <1>11
    <2>2. ~h.free[h.next[m]]
      BY <2>1, <1>1 DEF Coalesced
    <2>3. QED
      BY <2>1, <2>2, <1>9
  <1>13. Used(k) = Used(h) /\ KeepsOthers(h, k, n)
    <2>1. Used(k) = Used(h)
      BY <1>9, <1>1, <1>3, <1>11 DEF Used
    <2>2. KeepsOthers(h, k, n)
      BY <2>1, <1>9, <1>11 DEF KeepsOthers, Used
    <2>3. QED
      BY <2>1, <2>2
  <1>14. CASE ~split
    <2>1. size <= GetSize(k, n)
      BY <1>4, <1>9, <1>1, <1>2 DEF GetSize, Payload
    <2>2. g = k
      BY <1>6, <1>14
    <2>3. QED
      BY <2>1, <2>2, <1>5, <1>12, <1>13 DEF Good, g
  <1>15. CASE split
    <2>1. g = AddNodeAfter(k, n, x) /\ Payload(x) < r /\ n < x
      BY <1>15, <1>6, <1>8, <1>4, <1>1, <1>2 DEF Payload
    <2>2. WF(g) /\ IsSplit(k, g, n, x)
      BY <2>1, <1>4, <1>5, <1>9, <1>10, AddNodeWF, AddNodeShape
    <2>3. /\ x \notin Nodes(k)
          /\ Nodes(g) = Nodes(k) \cup {x} /\ Blocks(g) = Blocks(k) \cup {x}
          /\ g.free[x] = TRUE
          /\ \A m \in Nodes(k) : g.free[m] = k.free[m]
          /\ g.next[n] = x /\ g.next[x] = r
          /\ \A m \in Nodes(k) : m # n => g.next[m] = k.next[m]
      BY <2>2, <1>9 DEF IsSplit
    <2>4. Coalesced(g)
      <3> SUFFICES ASSUME NEW m \in Blocks(g), g.free[m]
                   PROVE  ~g.free[g.next[m]]
        BY DEF Coalesced
      <3>1. CASE m = x
        BY <3>1, <2>3, <1>10
      <3>2. CASE m # x
        <4>1. m \in Blocks(k) /\ k.free[m] /\ m # n /\ g.next[m] = k.next[m] /\ k.next[m] \in Nodes(k)
          BY <3>2, <2>3, <1>10, <1>11
        <4>2. QED
          BY <4>1, <2>3, <1>12 DEF Coalesced
      <3>3. QED
        BY <3>1, <3>2
    <2>5. Used(g) = Used(k)
      BY <2>3, <1>11 DEF Used
    <2>6. KeepsOthers(h, g, n)
      BY <2>3, <1>11, <1>13 DEF KeepsOthers, Used
    <2>7. size <= GetSize(g, n)
      BY <2>3, <1>1 DEF GetSize, Payload
    <2>8. QED
      BY <2>2, <2>4, <2>5, <2>6, <2>7, <1>13 DEF Good, g
  <1>16. QED
    BY <1>14, <1>15

-----------------------------------------------------------------------------
(* The inductive invariant: a well-formed, coalesced list whose used blocks
   are exactly those behind the live pointers. *)
IInv ==
  /\ TypeOK
  /\ Good(heap)
  /\ LiveOwnBlocks

(* The constructor establishes the invariant. *)
LEMMA InitIInv == Init => IInv
  <1> SUFFICES ASSUME Init PROVE IInv
    OBVIOUS
  <1>1. /\ heap.free = [m \in {0, EndNode} |-> m = 0]
        /\ heap.prev = [m \in {0, EndNode} |-> IF m = 0 THEN EndNode ELSE 0]
        /\ heap.next = [m \in {0, EndNode} |-> IF m = 0 THEN EndNode ELSE 0]
        /\ heap.nodesQty = 1
        /\ live = [p \in {} |-> 0] /\ status = "ok"
    BY DEF Init
  <1>2. Nodes(heap) = {0, EndNode} /\ Blocks(heap) = {0}
    BY <1>1, EndNodeFacts DEF Nodes, Blocks
  <1>2a. /\ heap.free[0] = TRUE /\ heap.free[EndNode] = FALSE
         /\ heap.prev[0] = EndNode /\ heap.prev[EndNode] = 0
         /\ heap.next[0] = EndNode /\ heap.next[EndNode] = 0
    BY <1>1, EndNodeFacts
  <1>3. ListType(heap)
    <2>1. Nodes(heap) \subseteq 0 .. EndNode
      BY <1>2, EndNodeFacts
    <2>2. /\ heap.free \in [{0, EndNode} -> BOOLEAN]
          /\ heap.prev \in [{0, EndNode} -> {0, EndNode}]
          /\ heap.next \in [{0, EndNode} -> {0, EndNode}]
      BY <1>1
    <2>3. heap = [free |-> heap.free, prev |-> heap.prev, next |-> heap.next,
                  nodesQty |-> 1]
      BY DEF Init
    <2>4. QED
      BY <2>1, <2>2, <2>3, <1>2 DEF ListType
  <1>4. TypeOK
    BY <1>1, <1>3 DEF TypeOK
  <1>5. Linked(heap) /\ Ordered(heap) /\ Coalesced(heap)
    BY <1>2, <1>2a, EndNodeFacts DEF Linked, Ordered, Coalesced, Payload
  <1>6. Counted(heap)
    <2>1. IsFiniteSet({0, EndNode}) /\ Cardinality({0, EndNode}) = 2
      BY EndNodeFacts, PairCounted
    <2>2. QED
      BY <1>1, <1>2, <2>1 DEF Counted
  <1>7. LiveOwnBlocks
    <2>1. {m \in Blocks(heap) : ~heap.free[m]} = {}
      BY <1>2, <1>2a
    <2>2. DOMAIN live = {}
      BY <1>1
    <2>3. QED
      BY <2>1, <2>2 DEF LiveOwnBlocks
  <1>8. QED
    BY <1>3, <1>4, <1>5, <1>6, <1>7 DEF IInv, Good, WF

(* The pointers of the client are the payloads of the used blocks. *)
LEMMA HeaderOfLive ==
  ASSUME IInv, NEW p \in DOMAIN live
  PROVE  /\ Header(p) \in Used(heap) /\ Payload(Header(p)) = p
         /\ p \in Nat /\ live[p] \in Sizes /\ live[p] <= GetSize(heap, Header(p))
  <1>1. PICK n \in Used(heap) : p = Payload(n)
    BY DEF IInv, LiveOwnBlocks, Used
  <1>2. n \in Nat
    BY <1>1, Neighbours DEF IInv, Good, Used
  <1>3. Header(p) = n /\ p \in Nat
    BY <1>1, <1>2 DEF Header, Payload
  <1>4. QED
    BY <1>1, <1>3 DEF IInv, LiveOwnBlocks, TypeOK

(* How the client's view follows the list: n becomes used with room for size,
   or stops being used, and every other used block keeps its extent. *)
LEMMA LiveFollowsHold ==
  ASSUME IInv, NEW g, Good(g), NEW n \in Blocks(g), NEW size \in Sizes,
         Used(g) = Used(heap) \cup {n}, KeepsOthers(heap, g, n),
         size <= GetSize(g, n),
         heap' = g, live' = Hold(Payload(n), size)
  PROVE  LiveOwnBlocks' /\ (live \in [DOMAIN live -> Sizes])'
         /\ (DOMAIN live \subseteq 0 .. ArenaSize)'
  <1>1. DOMAIN live' = DOMAIN live \cup {Payload(n)}
    BY DEF Hold
  <1>2. \A p \in DOMAIN live' : live'[p] = IF p = Payload(n) THEN size ELSE live[p]
    BY <1>1 DEF Hold
  <1>3. DOMAIN live = {Payload(m) : m \in Used(heap)}
    BY DEF IInv, LiveOwnBlocks, Used
  <1>4. DOMAIN live' = {Payload(m) : m \in Used(g)}
    BY <1>1, <1>3
  <1>5. n \in Nat /\ n < EndNode /\ Header(Payload(n)) = n
    <2>1. n \in Nat /\ n # EndNode /\ n <= EndNode
      BY EndNodeFacts DEF Good, WF, ListType, Blocks
    <2>2. QED
      BY <2>1, EndNodeFacts DEF Header, Payload
  <1>6. \A p \in DOMAIN live' : live'[p] <= GetSize(g, Header(p))
    <2> SUFFICES ASSUME NEW p \in DOMAIN live'
                 PROVE  live'[p] <= GetSize(g, Header(p))
      OBVIOUS
    <2>1. CASE p = Payload(n)
      BY <2>1, <1>2, <1>5
    <2>2. CASE p # Payload(n)
      <3>1. p \in DOMAIN live
        BY <2>2, <1>1
      <3>2. /\ Header(p) \in Used(heap) /\ Header(p) # n
            /\ live[p] <= GetSize(heap, Header(p))
        BY <3>1, <2>2, HeaderOfLive
      <3>3. GetSize(g, Header(p)) = GetSize(heap, Header(p))
        BY <3>2 DEF KeepsOthers, GetSize
      <3>4. QED
        BY <3>2, <3>3, <2>2, <1>2
    <2>3. QED
      BY <2>1, <2>2
  <1>7. LiveOwnBlocks'
    <2>1. (DOMAIN live)' = {Payload(m) : m \in {j \in Blocks(heap') : ~heap'.free[j]}}
      BY <1>4 DEF Used
    <2>2. \A p \in (DOMAIN live)' : live'[p] <= GetSize(heap', Header(p))
      BY <1>6
    <2>3. QED
      BY <2>1, <2>2 DEF LiveOwnBlocks
  <1>8. live' \in [DOMAIN live' -> Sizes]
    BY <1>1 DEF Hold, IInv, TypeOK
  <1>9. DOMAIN live' \subseteq 0 .. ArenaSize
    BY <1>1, <1>5 DEF IInv, TypeOK, Payload, EndNode
  <1>10. QED
    BY <1>7, <1>8, <1>9

(* After a free, live pointers and used blocks still correspond. *)
LEMMA LiveFollowsDrop ==
  ASSUME IInv, NEW g, Good(g), NEW p \in DOMAIN live,
         Used(g) = Used(heap) \ {Header(p)}, KeepsOthers(heap, g, Header(p)),
         heap' = g, live' = Drop(p)
  PROVE  LiveOwnBlocks' /\ (live \in [DOMAIN live -> Sizes])'
         /\ (DOMAIN live \subseteq 0 .. ArenaSize)'
  <1>1. DOMAIN live' = DOMAIN live \ {p} /\ \A q \in DOMAIN live' : live'[q] = live[q]
    BY DEF Drop
  <1>2. DOMAIN live = {Payload(m) : m \in Used(heap)}
    BY DEF IInv, LiveOwnBlocks, Used
  <1>3. \A m \in Used(heap) : Payload(m) = p <=> m = Header(p)
    BY Neighbours, HeaderOfLive DEF IInv, Good, Used, Payload, Header
  <1>4. DOMAIN live' = {Payload(m) : m \in Used(g)}
    BY <1>1, <1>2, <1>3
  <1>5. \A q \in DOMAIN live' : live'[q] <= GetSize(g, Header(q))
    <2> SUFFICES ASSUME NEW q \in DOMAIN live'
                 PROVE  live'[q] <= GetSize(g, Header(q))
      OBVIOUS
    <2>1. q \in DOMAIN live /\ q # p
      BY <1>1
    <2>2. /\ Header(q) \in Used(heap) /\ Header(q) # Header(p)
          /\ live[q] <= GetSize(heap, Header(q))
      BY <2>1, HeaderOfLive
    <2>3. GetSize(g, Header(q)) = GetSize(heap, Header(q))
      BY <2>2 DEF KeepsOthers, GetSize
    <2>4. QED
      BY <2>2, <2>3, <1>1
  <1>6. LiveOwnBlocks'
    <2>1. (DOMAIN live)' = {Payload(m) : m \in {j \in Blocks(heap') : ~heap'.free[j]}}
      BY <1>4 DEF Used
    <2>2. \A q \in (DOMAIN live)' : live'[q] <= GetSize(heap', Header(q))
      BY <1>5
    <2>3. QED
      BY <2>1, <2>2 DEF LiveOwnBlocks
  <1>7. live' \in [DOMAIN live' -> Sizes] /\ DOMAIN live' \subseteq 0 .. ArenaSize
    BY <1>1 DEF Drop, IInv, TypeOK
  <1>8. QED
    BY <1>6, <1>7

(* After a move, live pointers and used blocks still correspond. *)
LEMMA LiveFollowsMove ==
  ASSUME IInv, NEW g, Good(g), NEW p \in DOMAIN live, NEW n \in Blocks(g),
         NEW size \in Sizes,
         Used(g) = (Used(heap) \ {Header(p)}) \cup {n},
         \A m \in Used(heap) \ {Header(p), n} : g.next[m] = heap.next[m],
         size <= GetSize(g, n),
         heap' = g,
         live' = [q \in (DOMAIN live \ {p}) \cup {Payload(n)} |->
                    IF q = Payload(n) THEN size ELSE live[q]]
  PROVE  LiveOwnBlocks' /\ (live \in [DOMAIN live -> Sizes])'
         /\ (DOMAIN live \subseteq 0 .. ArenaSize)'
  <1>1. DOMAIN live' = (DOMAIN live \ {p}) \cup {Payload(n)}
    OBVIOUS
  <1>2. \A q \in DOMAIN live' : live'[q] = IF q = Payload(n) THEN size ELSE live[q]
    OBVIOUS
  <1>3. DOMAIN live = {Payload(m) : m \in Used(heap)}
    BY DEF IInv, LiveOwnBlocks, Used
  <1>4. \A m \in Used(heap) : Payload(m) = p <=> m = Header(p)
    BY Neighbours, HeaderOfLive DEF IInv, Good, Used, Payload, Header
  <1>5. DOMAIN live' = {Payload(m) : m \in Used(g)}
    BY <1>1, <1>3, <1>4
  <1>6. n \in Nat /\ n < EndNode /\ Header(Payload(n)) = n
    <2>1. n \in Nat /\ n # EndNode /\ n <= EndNode
      BY EndNodeFacts DEF Good, WF, ListType, Blocks
    <2>2. QED
      BY <2>1, EndNodeFacts DEF Header, Payload
  <1>7. \A q \in DOMAIN live' : live'[q] <= GetSize(g, Header(q))
    <2> SUFFICES ASSUME NEW q \in DOMAIN live'
                 PROVE  live'[q] <= GetSize(g, Header(q))
      OBVIOUS
    <2>1. CASE q = Payload(n)
      BY <2>1, <1>2, <1>6
    <2>2. CASE q # Payload(n)
      <3>1. q \in DOMAIN live /\ q # p
        BY <2>2, <1>1
      <3>2. /\ Header(q) \in Used(heap) /\ Header(q) # n /\ Header(q) # Header(p)
            /\ live[q] <= GetSize(heap, Header(q))
        BY <3>1, <2>2, HeaderOfLive
      <3>3. GetSize(g, Header(q)) = GetSize(heap, Header(q))
        BY <3>2 DEF GetSize
      <3>4. QED
        BY <3>2, <3>3, <2>2, <1>2
    <2>3. QED
      BY <2>1, <2>2
  <1>8. LiveOwnBlocks'
    <2>1. (DOMAIN live)' = {Payload(m) : m \in {j \in Blocks(heap') : ~heap'.free[j]}}
      BY <1>5 DEF Used
    <2>2. \A q \in (DOMAIN live)' : live'[q] <= GetSize(heap', Header(q))
      BY <1>7
    <2>3. QED
      BY <2>1, <2>2 DEF LiveOwnBlocks
  <1>9. live' \in [DOMAIN live' -> Sizes]
    BY <1>1 DEF IInv, TypeOK
  <1>10. DOMAIN live' \subseteq 0 .. ArenaSize
    BY <1>1, <1>6 DEF IInv, TypeOK, Payload, EndNode
  <1>11. QED
    BY <1>8, <1>9, <1>10

(* A free block taken whole, as AllocateAt does. *)
LEMMA ReserveGood ==
  ASSUME NEW h, Good(h), NEW n \in Blocks(h), h.free[n]
  PROVE  /\ Good(SetFree(h, n, FALSE))
         /\ Used(SetFree(h, n, FALSE)) = Used(h) \cup {n}
         /\ KeepsOthers(h, SetFree(h, n, FALSE), n)
         /\ n \in Blocks(SetFree(h, n, FALSE))
         /\ GetSize(SetFree(h, n, FALSE), n) = GetSize(h, n)
  <1> DEFINE t == SetFree(h, n, FALSE)
  <1>1. WF(t) /\ IsFlagged(h, t, n, FALSE)
    BY SetFreeWF DEF Good
  <1> HIDE DEF t
  <1>2. /\ Blocks(t) = Blocks(h) /\ Nodes(t) = Nodes(h) /\ t.next = h.next
        /\ t.free[n] = FALSE
        /\ \A m \in Nodes(h) : m # n => t.free[m] = h.free[m]
    BY <1>1 DEF IsFlagged
  <1>3. \A m \in Blocks(h) : m \in Nodes(h) /\ h.next[m] \in Nodes(h)
    BY Neighbours DEF Good
  <1>4. Coalesced(t)
    BY <1>2, <1>3 DEF Coalesced, Good
  <1>5. Used(t) = Used(h) \cup {n} /\ KeepsOthers(h, t, n)
    BY <1>2, <1>3 DEF Used, KeepsOthers
  <1>6. QED
    BY <1>1, <1>2, <1>4, <1>5 DEF Good, t, GetSize

(* Every call keeps the invariant: one step of the proof per action. *)
LEMMA StepIInv == IInv /\ [Next]_vars => IInv'
  <1> SUFFICES ASSUME IInv, [Next]_vars PROVE IInv'
    OBVIOUS
  <1>1. Good(heap) /\ TypeOK /\ LiveOwnBlocks /\ Sizes \subseteq Nat \ {0}
    BY DEF IInv
  (* what is left to show once the list and the client agree again *)
  <1>2. ASSUME Good(heap'), LiveOwnBlocks', (live \in [DOMAIN live -> Sizes])',
               (DOMAIN live \subseteq 0 .. ArenaSize)',
               status' \in {"ok", "halted", "null_deref", "overlap"}
        PROVE  IInv'
    BY <1>2 DEF IInv, TypeOK, Good, WF
  <1>3. ASSUME UNCHANGED <<heap, live>>,
               status' \in {"ok", "halted", "null_deref", "overlap"}
        PROVE  IInv'
    BY <1>1, <1>3 DEF IInv, TypeOK, LiveOwnBlocks
  <1>4. ASSUME NEW size \in Sizes, Allocate(size) PROVE IInv'
    <2>1. CASE OutOfMemory
      BY <2>1, <1>3 DEF OutOfMemory
    <2>2. CASE Sutable(heap, size) # {} /\ ~OutOfMemory
      <3> DEFINE n == FindSutableNode(heap, size)
                 g == AllocateIn(heap, size, n)
      <3>1. heap' = g /\ live' = Hold(Payload(n), size) /\ status' = status
        BY <1>4, <2>2 DEF Allocate
      <3>2. n \in Sutable(heap, size)
        BY <1>1, <2>2, FindSutableNodeFinds DEF Good
      <3> HIDE DEF n
      <3>3. /\ Good(g) /\ Used(g) = Used(heap) \cup {n}
            /\ KeepsOthers(heap, g, n) /\ size <= GetSize(g, n)
        BY <1>1, <3>2, AllocateInGood
      <3> HIDE DEF g
      <3>4. n \in Blocks(g)
        BY <3>3 DEF Used
      <3>5. /\ LiveOwnBlocks' /\ (live \in [DOMAIN live -> Sizes])'
            /\ (DOMAIN live \subseteq 0 .. ArenaSize)'
        BY <3>1, <3>3, <3>4, LiveFollowsHold
      <3>6. QED
        BY <3>1, <3>3, <3>5, <1>1, <1>2 DEF TypeOK
    <2>3. QED
      BY <1>4, <2>1, <2>2 DEF Allocate
  <1>5. ASSUME NEW p \in DOMAIN live, Free(p) PROVE IInv'
    <2> DEFINE n == Header(p)
               g == FreeIn(heap, n)
    <2>1. heap' = g /\ live' = Drop(p) /\ status' = status
      BY <1>5 DEF Free
    <2>2. n \in Used(heap)
      BY HeaderOfLive
    <2>3. Good(g) /\ Used(g) = Used(heap) \ {n} /\ KeepsOthers(heap, g, n)
      BY <1>1, <2>2, FreeInGood
    <2> HIDE DEF g
    <2>4. /\ LiveOwnBlocks' /\ (live \in [DOMAIN live -> Sizes])'
          /\ (DOMAIN live \subseteq 0 .. ArenaSize)'
      BY <2>1, <2>3, LiveFollowsDrop
    <2>5. QED
      BY <2>1, <2>3, <2>4, <1>1, <1>2 DEF TypeOK
  <1>6. ASSUME NEW p \in 0 .. ArenaSize, NEW size \in Sizes, AllocateAt(p, size)
        PROVE  IInv'
    <2>1. CASE status' = "halted" /\ UNCHANGED <<heap, live>>
      BY <2>1, <1>3
    <2>2. CASE ~(status' = "halted" /\ UNCHANGED <<heap, live>>)
      <3>1. PICK n \in Blocks(heap) :
              /\ heap.free[n] /\ p = Payload(n) /\ GetSize(heap, n) = size
              /\ heap' = SetFree(heap, n, FALSE)
              /\ live' = Hold(p, size) /\ status' = status
        BY <1>6, <2>2 DEF AllocateAt
      <3> DEFINE g == SetFree(heap, n, FALSE)
      <3>2. /\ Good(g) /\ Used(g) = Used(heap) \cup {n}
            /\ KeepsOthers(heap, g, n) /\ n \in Blocks(g)
            /\ GetSize(g, n) = GetSize(heap, n)
        BY <1>1, <3>1, ReserveGood
      <3> HIDE DEF g
      <3>3. heap' = g /\ live' = Hold(Payload(n), size) /\ size <= GetSize(g, n)
        <4>1. size \in Nat /\ GetSize(g, n) = size
          BY <3>1, <3>2, <1>1
        <4>2. size <= GetSize(g, n)
          BY <4>1
        <4>3. heap' = g
          BY <3>1 DEF g
        <4>4. live' = Hold(Payload(n), size)
          BY <3>1
        <4>5. QED
          BY <4>2, <4>3, <4>4
      <3>4. /\ LiveOwnBlocks' /\ (live \in [DOMAIN live -> Sizes])'
            /\ (DOMAIN live \subseteq 0 .. ArenaSize)'
        BY <3>2, <3>3, LiveFollowsHold
      <3>5. QED
        BY <3>1, <3>2, <3>3, <3>4, <1>1, <1>2 DEF TypeOK
    <2>3. QED
      BY <2>1, <2>2
  <1>7. ASSUME NEW p \in DOMAIN live, NEW size \in Sizes, ReallocateInside(p, size)
        PROVE  IInv'
    <2> DEFINE n == Header(p)
    <2>1. n \in Used(heap) /\ Payload(n) = p /\ n \in Blocks(heap)
      BY HeaderOfLive DEF Used
    <2> HIDE DEF n
    <2>2. /\ heap' = heap /\ live' = Hold(Payload(n), size) /\ status' = status
          /\ size <= GetSize(heap, n)
      BY <1>7, <2>1 DEF ReallocateInside, n
    <2>3. Used(heap) = Used(heap) \cup {n} /\ KeepsOthers(heap, heap, n)
      BY <2>1 DEF KeepsOthers
    <2>4. /\ LiveOwnBlocks' /\ (live \in [DOMAIN live -> Sizes])'
          /\ (DOMAIN live \subseteq 0 .. ArenaSize)'
      BY <1>1, <2>1, <2>2, <2>3, LiveFollowsHold
    <2>5. QED
      BY <2>2, <2>4, <1>1, <1>2 DEF TypeOK
  <1>8. ASSUME NEW p \in DOMAIN live, NEW size \in Sizes, ReallocateGrow(p, size)
        PROVE  IInv'
    <2> DEFINE n == Header(p)
    <2>1. n \in Used(heap) /\ Payload(n) = p
      BY HeaderOfLive
    <2>2. CanGrow(heap, n, size)
      BY <1>8 DEF ReallocateGrow
    <2>3. PICK split \in NodeDiffExceeds(Leftover(heap, n, size)) :
            IF split /\ Leftover(heap, n, size) < NodeSz
            THEN status' = "overlap" /\ UNCHANGED <<heap, live>>
            ELSE /\ heap' = GrowIn(heap, n, size, split)
                 /\ live' = Hold(p, size)
                 /\ UNCHANGED status
      BY <1>8 DEF ReallocateGrow
    <2>4. CASE split /\ Leftover(heap, n, size) < NodeSz
      BY <2>3, <2>4, <1>3
    <2>5. CASE ~(split /\ Leftover(heap, n, size) < NodeSz)
      <3> DEFINE g == GrowIn(heap, n, size, split)
      <3>1. /\ Good(g) /\ Used(g) = Used(heap) /\ KeepsOthers(heap, g, n)
            /\ size <= GetSize(g, n)
        BY <1>1, <2>1, <2>2, <2>5, GrowInGood
      <3> HIDE DEF g, n
      <3>2. heap' = g /\ live' = Hold(Payload(n), size) /\ status' = status
        <4>1. /\ heap' = GrowIn(heap, n, size, split)
              /\ live' = Hold(p, size)
              /\ status' = status
          BY <2>3, <2>5, Zenon
        <4>2. QED
          BY <4>1, <2>1 DEF g
      <3>3. n \in Blocks(g) /\ Used(g) = Used(heap) \cup {n}
        BY <2>1, <3>1 DEF Used
      <3>4. /\ LiveOwnBlocks' /\ (live \in [DOMAIN live -> Sizes])'
            /\ (DOMAIN live \subseteq 0 .. ArenaSize)'
        BY <3>1, <3>2, <3>3, LiveFollowsHold
      <3>5. QED
        BY <3>1, <3>2, <3>4, <1>1, <1>2 DEF TypeOK
    <2>6. QED
      BY <2>4, <2>5
  <1>9. ASSUME NEW p \in DOMAIN live, NEW size \in Sizes, ReallocateMove(p, size)
        PROVE  IInv'
    <2>1. CASE OutOfMemory
      BY <2>1, <1>3 DEF OutOfMemory
    <2>2. CASE Sutable(heap, size) # {} /\ ~OutOfMemory
      <3> DEFINE n == Header(p)
                 m == FindSutableNode(heap, size)
                 k == AllocateIn(heap, size, m)
                 g == FreeIn(k, n)
      <3>1. /\ heap' = g /\ status' = status
            /\ live' = [q \in (DOMAIN live \ {p}) \cup {Payload(m)} |->
                          IF q = Payload(m) THEN size ELSE live[q]]
        BY <1>9, <2>2 DEF ReallocateMove
      <3>2. m \in Sutable(heap, size) /\ n \in Used(heap)
        BY <1>1, <2>2, FindSutableNodeFinds, HeaderOfLive DEF Good
      <3> HIDE DEF m, n
      <3>3. /\ Good(k) /\ Used(k) = Used(heap) \cup {m} /\ m \notin Used(heap)
            /\ KeepsOthers(heap, k, m) /\ size <= GetSize(k, m)
        BY <1>1, <3>2, AllocateInGood
      <3> HIDE DEF k
      <3>4. Good(g) /\ Used(g) = Used(k) \ {n} /\ KeepsOthers(k, g, n)
        BY <3>2, <3>3, FreeInGood
      <3> HIDE DEF g
      <3>5. /\ Used(g) = (Used(heap) \ {n}) \cup {m} /\ m \in Blocks(g)
            /\ \A j \in Used(heap) \ {n, m} : g.next[j] = heap.next[j]
            /\ size <= GetSize(g, m)
        BY <3>2, <3>3, <3>4 DEF KeepsOthers, GetSize, Used
      <3>6. /\ LiveOwnBlocks' /\ (live \in [DOMAIN live -> Sizes])'
            /\ (DOMAIN live \subseteq 0 .. ArenaSize)'
        BY <3>1, <3>4, <3>5, LiveFollowsMove DEF n
      <3>7. QED
        BY <3>1, <3>4, <3>6, <1>1, <1>2 DEF TypeOK
    <2>3. QED
      BY <1>9, <2>1, <2>2 DEF ReallocateMove
  <1>10. CASE UNCHANGED vars
    BY <1>10, <1>1, <1>3 DEF vars, TypeOK
  <1>11. QED
    BY <1>4, <1>5, <1>6, <1>7, <1>8, <1>9, <1>10 DEF Next

(* Type correctness, the shape of the list, coalescing and the agreement of
   list and client hold in every reachable state, for every arena. *)
THEOREM HeapInvariant == Spec => []IInv
  BY InitIInv, StepIInv, PTL DEF Spec

-----------------------------------------------------------------------------
(* The headline facts. *)

(* Every field of a header and every live pointer stays within its type: no
   call leaves an address outside the arena in the list. *)
THEOREM TypeCorrect == Spec => []TypeOK
  BY HeapInvariant, PTL DEF IInv

(* The ring stays doubly linked, in address order and counted. *)
THEOREM ListAlwaysWellFormed == Spec => []ListWellFormed
  <1>1. IInv => ListWellFormed
    BY DEF IInv, Good, WF, ListWellFormed
  <1>2. QED
    BY <1>1, HeapInvariant, PTL

(* No two neighbouring free blocks survive a call. *)
THEOREM AlwaysCoalesced == Spec => []NoNeighbouringFree
  <1>1. IInv => NoNeighbouringFree
    BY DEF IInv, Good, NoNeighbouringFree
  <1>2. QED
    BY <1>1, HeapInvariant, PTL

(* Used blocks and live pointers correspond. *)
THEOREM LiveAlwaysOwnBlocks == Spec => []LiveOwnBlocks
  <1>1. IInv => LiveOwnBlocks
    BY DEF IInv
  <1>2. QED
    BY <1>1, HeapInvariant, PTL

(* With nothing live every block is free, so, coalesced, there is one block:
   the list the constructor built. *)
THEOREM EmptyAlwaysInitial == Spec => []EmptyIsInitial
  <1>1. IInv => EmptyIsInitial
    <2> SUFFICES ASSUME IInv, DOMAIN live = {}
                 PROVE  heap = [free |-> [m \in {0, EndNode} |-> m = 0],
                                prev |-> [m \in {0, EndNode} |-> IF m = 0 THEN EndNode ELSE 0],
                                next |-> [m \in {0, EndNode} |-> IF m = 0 THEN EndNode ELSE 0],
                                nodesQty |-> 1]
      BY DEF EmptyIsInitial
    <2>1. WF(heap) /\ Coalesced(heap) /\ ListType(heap) /\ Linked(heap)
          /\ Ordered(heap) /\ Counted(heap)
      BY DEF IInv, Good, WF
    <2>2. \A n \in Blocks(heap) : heap.free[n]
      BY DEF IInv, LiveOwnBlocks
    <2>3. 0 \in Blocks(heap) /\ 0 \in Nodes(heap) /\ EndNode \in Nodes(heap)
      BY <2>1, EndNodeFacts DEF Linked, Blocks
    <2>4. heap.next[0] = EndNode
      <3>1. heap.next[0] \in Nodes(heap) /\ ~heap.free[heap.next[0]]
        BY <2>1, <2>2, <2>3, Neighbours DEF Coalesced
      <3>2. QED
        BY <3>1, <2>2 DEF Blocks
    <2>5. Nodes(heap) = {0, EndNode}
      <3> SUFFICES ASSUME NEW m \in Nodes(heap) PROVE m \in {0, EndNode}
        BY <2>3
      <3>1. m <= 0 \/ EndNode <= m
        BY <2>1, <2>3, <2>4 DEF Ordered
      <3>2. m \in 0 .. EndNode
        BY <2>1 DEF ListType
      <3>3. QED
        BY <3>1, <3>2, EndNodeFacts
    <2>6. /\ heap.next[EndNode] = 0
          /\ heap.prev[EndNode] = 0 /\ heap.prev[0] = EndNode
      BY <2>1, <2>3, <2>4 DEF Linked
    <2>7. heap.nodesQty = 1
      <3>1. Cardinality({0, EndNode}) = 2
        BY EndNodeFacts, PairCounted
      <3>2. QED
        BY <3>1, <2>1, <2>5 DEF Counted
    <2>8. heap.free[0] = TRUE /\ heap.free[EndNode] = FALSE
      <3>1. heap.free[0] \in BOOLEAN /\ heap.free[EndNode] \in BOOLEAN
        BY <2>1, <2>3 DEF ListType
      <3>2. heap.free[0] /\ ~heap.free[EndNode]
        BY <2>1, <2>2, <2>3 DEF Linked
      <3>3. QED
        BY <3>1, <3>2
    <2>9. /\ heap.free = [m \in {0, EndNode} |-> m = 0]
          /\ heap.next = [m \in {0, EndNode} |-> IF m = 0 THEN EndNode ELSE 0]
          /\ heap.prev = [m \in {0, EndNode} |-> IF m = 0 THEN EndNode ELSE 0]
      <3>1. /\ heap.free \in [{0, EndNode} -> BOOLEAN]
            /\ heap.next \in [{0, EndNode} -> {0, EndNode}]
            /\ heap.prev \in [{0, EndNode} -> {0, EndNode}]
        BY <2>1, <2>5 DEF ListType
      <3>2. QED
        BY <3>1, <2>4, <2>6, <2>8, EndNodeFacts
    <2>10. heap = [free |-> heap.free, prev |-> heap.prev, next |-> heap.next,
                   nodesQty |-> heap.nodesQty]
      BY <2>1 DEF ListType
    <2>11. QED
      BY <2>7, <2>9, <2>10
  <1>2. QED
    BY <1>1, HeapInvariant, PTL

-----------------------------------------------------------------------------
(* The refinement of the allocator                                         *)

(* In a good heap the bytes behind different live pointers are disjoint: their
   blocks are, and each pointer stays inside its block. *)
LEMMA LiveApartFromIInv == IInv => A!LiveApart
  <1> SUFFICES ASSUME IInv PROVE A!LiveApart
    OBVIOUS
  <1>1. WF(heap)
    BY DEF IInv, Good
  <1>2. ASSUME NEW p \in DOMAIN live
        PROVE  /\ Header(p) \in Blocks(heap) /\ Header(p) \in Nodes(heap)
               /\ Header(p) \in Nat
               /\ heap.next[Header(p)] \in Nat /\ heap.next[Header(p)] <= EndNode
               /\ p = Header(p) + NodeSz /\ live[p] \in Nat
               /\ p + live[p] <= heap.next[Header(p)]
    <2>1. /\ Header(p) \in Blocks(heap) /\ Payload(Header(p)) = p
          /\ live[p] \in Nat /\ live[p] <= GetSize(heap, Header(p))
      BY <1>2, HeaderOfLive DEF Used
    <2>2. /\ Header(p) \in Nodes(heap) /\ Header(p) \in Nat
          /\ heap.next[Header(p)] \in Nodes(heap) /\ heap.next[Header(p)] \in Nat
      BY <2>1, <1>1, Neighbours
    <2>3. heap.next[Header(p)] <= EndNode
      BY <2>2, EndNodeFacts DEF IInv, TypeOK, ListType
    <2>4. QED
      BY <2>1, <2>2, <2>3 DEF Payload, GetSize
  <1>3. ASSUME NEW p \in DOMAIN live
        PROVE  0 <= p /\ p + live[p] <= ArenaSize
    <2>1. EndNode <= ArenaSize /\ EndNode \in Nat
      BY EndNodeFacts DEF EndNode
    <2>2. QED
      BY <1>2, <2>1
  <1>4. ASSUME NEW p \in DOMAIN live, NEW q \in DOMAIN live, p # q
        PROVE  A!Apart(p, live[p], q, live[q])
    <2> DEFINE n == Header(p)
               m == Header(q)
    <2>1. /\ n \in Blocks(heap) /\ m \in Blocks(heap)
          /\ n \in Nodes(heap) /\ m \in Nodes(heap) /\ n \in Nat /\ m \in Nat
          /\ heap.next[n] \in Nat /\ heap.next[m] \in Nat
          /\ p = n + NodeSz /\ q = m + NodeSz
          /\ p + live[p] <= heap.next[n] /\ q + live[q] <= heap.next[m]
          /\ live[p] \in Nat /\ live[q] \in Nat
      BY <1>2
    <2> HIDE DEF n, m
    <2>2. (m <= n \/ heap.next[n] <= m) /\ (n <= m \/ heap.next[m] <= n)
      BY <2>1, <1>1 DEF WF, Ordered
    <2>3. n # m
      BY <2>1, <1>4
    <2>4. CASE heap.next[n] <= m
      BY <2>1, <2>4 DEF A!Apart
    <2>5. CASE heap.next[m] <= n
      BY <2>1, <2>5 DEF A!Apart
    <2>6. QED
      BY <2>1, <2>2, <2>3, <2>4, <2>5
  <1>5. QED
    BY <1>3, <1>4 DEF A!LiveApart

(* No byte is owned by two live pointers, in every reachable state. *)
THEOREM LiveAlwaysApart == Spec => []A!LiveApart
  BY LiveApartFromIInv, HeapInvariant, PTL

-----------------------------------------------------------------------------
(* The payload of a free block belongs to no client. *)
LEMMA FreeNotLive ==
  ASSUME IInv, NEW n \in Blocks(heap), heap.free[n]
  PROVE  Payload(n) \notin DOMAIN live
  <1>1. SUFFICES ASSUME Payload(n) \in DOMAIN live PROVE FALSE
    OBVIOUS
  <1>2. Header(Payload(n)) \in Used(heap)
    BY <1>1, HeaderOfLive
  <1>3. Header(Payload(n)) = n
    BY Neighbours DEF Header, Payload, IInv, Good
  <1>4. QED
    BY <1>2, <1>3 DEF Used

(* A new heap is an allocator that has granted nothing. *)
LEMMA InitRefines == Init => A!AInit
  BY DEF Init, A!AInit

(* What a client gets after a step is apart from what it keeps. *)
LEMMA FitsAfter ==
  ASSUME IInv', NEW p, NEW s, NEW K, p \notin K, K \subseteq DOMAIN live,
         live' = [q \in K \cup {p} |-> IF q = p THEN s ELSE live[q]]
  PROVE  A!Fits(p, s, K)
  <1>1. A!LiveApart'
    BY LiveApartFromIInv, PTL
  <1>2. /\ DOMAIN live' = K \cup {p}
        /\ live'[p] = s
        /\ \A q \in K : live'[q] = live[q]
    OBVIOUS
  <1>3. 0 <= p /\ p + s <= ArenaSize
    BY <1>1, <1>2 DEF A!LiveApart
  <1>4. ASSUME NEW q \in K PROVE A!Apart(p, s, q, live[q])
    <2>1. A!Apart(p, live'[p], q, live'[q])
      BY <1>1, <1>2 DEF A!LiveApart, A!Apart
    <2>2. QED
      BY <2>1, <1>2
  <1>5. QED
    BY <1>3, <1>4 DEF A!Fits

(* A pointer of the client lies in the arena. *)
LEMMA GrantRefines ==
  ASSUME IInv, IInv', NEW p, NEW s \in Sizes, p \notin DOMAIN live,
         status = "ok", status' = "ok", live' = Hold(p, s)
  PROVE  A!ANext
  <1>1. A!Fits(p, s, DOMAIN live)
    BY FitsAfter DEF Hold
  <1>2. p \in 0 .. ArenaSize
    <2>1. (DOMAIN live)' \subseteq 0 .. ArenaSize
      BY DEF IInv, TypeOK
    <2>2. p \in (DOMAIN live)'
      BY DEF Hold
    <2>3. QED
      BY <2>1, <2>2
  <1>3. A!Grant(p, s)
    BY <1>1 DEF A!Grant, Hold
  <1>4. QED
    BY <1>2, <1>3 DEF A!ANext

(* A pointer that is granted room apart from all others is a resize of the
   allocator. *)
LEMMA ResizeRefines ==
  ASSUME IInv, IInv', NEW p \in DOMAIN live, NEW q, NEW s \in Sizes,
         q \notin DOMAIN live \ {p},
         status = "ok", status' = "ok",
         live' = [r \in (DOMAIN live \ {p}) \cup {q} |-> IF r = q THEN s ELSE live[r]]
  PROVE  A!ANext
  <1>1. A!Fits(q, s, DOMAIN live \ {p})
    BY FitsAfter
  <1>2. q \in 0 .. ArenaSize
    <2>1. (DOMAIN live)' \subseteq 0 .. ArenaSize
      BY DEF IInv, TypeOK
    <2>2. q \in (DOMAIN live)'
      OBVIOUS
    <2>3. QED
      BY <2>1, <2>2
  <1>3. A!Resize(p, q, s)
    BY <1>1 DEF A!Resize
  <1>4. QED
    BY <1>2, <1>3 DEF A!ANext

(* Every call of the heap is a step of the allocator or changes nothing it
   sees. *)
LEMMA StepRefines ==
  IInv /\ IInv' /\ [Next]_vars => [A!ANext]_<<live, status = "ok">>
  <1> SUFFICES ASSUME IInv, IInv', [Next]_vars
               PROVE  A!ANext \/ UNCHANGED <<live, status = "ok">>
    OBVIOUS
  <1>1. ASSUME status = "ok", status' # "ok", UNCHANGED live PROVE A!ANext
    BY <1>1 DEF A!ANext, A!GoDown
  <1>2. ASSUME status = "ok", OutOfMemory PROVE A!ANext
    BY <1>1, <1>2 DEF OutOfMemory
  <1>3. ASSUME NEW size \in Sizes, Allocate(size) PROVE A!ANext
    <2>1. CASE OutOfMemory
      BY <2>1, <1>2, <1>3 DEF Allocate
    <2>2. CASE Sutable(heap, size) # {} /\ ~OutOfMemory
      <3> DEFINE n == FindSutableNode(heap, size)
      <3>1. live' = Hold(Payload(n), size) /\ status = "ok" /\ status' = "ok"
        BY <1>3, <2>2 DEF Allocate
      <3>2. n \in Sutable(heap, size)
        BY <2>2, FindSutableNodeFinds DEF IInv, Good
      <3> HIDE DEF n
      <3>3. Payload(n) \notin DOMAIN live
        BY <3>2, FreeNotLive DEF Sutable
      <3>4. QED
        BY <3>1, <3>3, GrantRefines
    <2>3. QED
      BY <1>3, <2>1, <2>2 DEF Allocate
  <1>4. ASSUME NEW p \in DOMAIN live, Free(p) PROVE A!ANext
    BY <1>4 DEF Free, Drop, A!ANext, A!Release
  <1>5. ASSUME NEW p \in 0 .. ArenaSize, NEW size \in Sizes, AllocateAt(p, size)
        PROVE  A!ANext
    <2>1. CASE status' = "halted" /\ UNCHANGED <<heap, live>>
      BY <2>1, <1>1, <1>5 DEF AllocateAt
    <2>2. CASE ~(status' = "halted" /\ UNCHANGED <<heap, live>>)
      <3>1. PICK n \in Blocks(heap) :
              /\ heap.free[n] /\ p = Payload(n)
              /\ live' = Hold(p, size) /\ status = "ok" /\ status' = "ok"
        BY <1>5, <2>2 DEF AllocateAt
      <3>2. p \notin DOMAIN live
        BY <3>1, FreeNotLive
      <3>3. QED
        BY <3>1, <3>2, GrantRefines
    <2>3. QED
      BY <2>1, <2>2
  <1>6. ASSUME NEW p \in DOMAIN live, NEW size \in Sizes,
               status = "ok", status' = "ok", live' = Hold(p, size)
        PROVE  A!ANext
    <2>1. live' = [r \in (DOMAIN live \ {p}) \cup {p} |-> IF r = p THEN size ELSE live[r]]
      <3>1. DOMAIN live \cup {p} = (DOMAIN live \ {p}) \cup {p}
        OBVIOUS
      <3>2. QED
        BY <3>1, <1>6 DEF Hold
    <2>2. QED
      BY <2>1, <1>6, ResizeRefines
  <1>7. ASSUME NEW p \in DOMAIN live, NEW size \in Sizes, ReallocateInside(p, size)
        PROVE  A!ANext
    BY <1>6, <1>7 DEF ReallocateInside
  <1>8. ASSUME NEW p \in DOMAIN live, NEW size \in Sizes, ReallocateGrow(p, size)
        PROVE  A!ANext
    <2>1. status = "ok"
      BY <1>8 DEF ReallocateGrow
    <2>2. \/ status' = "overlap" /\ UNCHANGED live
          \/ live' = Hold(p, size) /\ status' = status
      BY <1>8 DEF ReallocateGrow
    <2>3. QED
      BY <2>1, <2>2, <1>1, <1>6
  <1>9. ASSUME NEW p \in DOMAIN live, NEW size \in Sizes, ReallocateMove(p, size)
        PROVE  A!ANext
    <2>1. CASE OutOfMemory
      BY <2>1, <1>2, <1>9 DEF ReallocateMove
    <2>2. CASE Sutable(heap, size) # {} /\ ~OutOfMemory
      <3> DEFINE m == FindSutableNode(heap, size)
      <3>1. /\ status = "ok" /\ status' = "ok"
            /\ live' = [q \in (DOMAIN live \ {p}) \cup {Payload(m)} |->
                          IF q = Payload(m) THEN size ELSE live[q]]
        BY <1>9, <2>2 DEF ReallocateMove
      <3>2. m \in Sutable(heap, size)
        BY <2>2, FindSutableNodeFinds DEF IInv, Good
      <3> HIDE DEF m
      <3>3. Payload(m) \notin DOMAIN live
        BY <3>2, FreeNotLive DEF Sutable
      <3>4. QED
        BY <3>1, <3>3, ResizeRefines
    <2>3. QED
      BY <1>9, <2>1, <2>2 DEF ReallocateMove
  <1>10. CASE UNCHANGED vars
    BY <1>10 DEF vars
  <1>11. QED
    BY <1>3, <1>4, <1>5, <1>7, <1>8, <1>9, <1>10 DEF Next

(* Every behaviour of the heap is a behaviour of the allocator. *)
THEOREM HeapImplementsAllocator == Spec => AllocatorSpec
  <1>1. Spec => A!AInit /\ [][A!ANext]_<<live, status = "ok">>
    BY InitRefines, StepRefines, HeapInvariant, PTL DEF Spec
  <1>2. QED
    BY <1>1 DEF AllocatorSpec, A!ASpec, A!allocatorVars

-----------------------------------------------------------------------------
(* Freeing undoes allocating; headers of aligned sizes stay apart          *)

(* In a well-formed, coalesced list, taking a block and freeing it at once
   merges the split back: FreeIn undoes AllocateIn. *)
LEMMA AllocateThenFree ==
  ASSUME NEW h, Good(h), NEW size \in Nat \ {0}, NEW n \in Sutable(h, size)
  PROVE  FreeIn(AllocateIn(h, size, n), n) = h
  <1> DEFINE t == SetFree(h, n, FALSE)
             x == Payload(n) + size
             k == AllocateIn(h, size, n)
  <1>1. /\ WF(h) /\ Coalesced(h) /\ ListType(h)
        /\ n \in Blocks(h) /\ n \in Nodes(h) /\ n \in Nat /\ h.free[n]
        /\ h.next[n] \in Nodes(h) /\ h.next[n] \in Nat /\ h.next[n] # n
        /\ h.prev[n] \in Nodes(h) /\ h.prev[n] # n
        /\ h.prev[h.next[n]] = n
    BY Neighbours, EndNodeFacts DEF Good, Sutable, WF, Linked, Blocks
  <1>2. ~h.free[h.next[n]]
    BY <1>1 DEF Coalesced
  <1>3. ~h.free[h.prev[n]]
    <2>1. CASE n = 0
      <3>1. h.next[EndNode] = 0 /\ EndNode \in Nodes(h) /\ ~h.free[EndNode]
        BY <1>1 DEF WF, Linked
      <3>2. h.prev[n] = EndNode
        BY <3>1, <2>1, <1>1 DEF WF, Linked
      <3>3. QED
        BY <3>1, <3>2
    <2>2. CASE n # 0
      <3>1. h.prev[n] \in Blocks(h) /\ h.next[h.prev[n]] = n
        BY <2>2, <1>1, Neighbours DEF WF, Linked
      <3>2. QED
        BY <3>1, <1>1 DEF Coalesced
    <2>3. QED
      BY <2>1, <2>2
  <1>4. /\ Nodes(t) = Nodes(h) /\ t.next = h.next /\ t.prev = h.prev
        /\ t.nodesQty = h.nodesQty /\ t.free[n] = FALSE
        /\ t.free = [h.free EXCEPT ![n] = FALSE]
        /\ t = [free |-> t.free, prev |-> h.prev, next |-> h.next,
                nodesQty |-> h.nodesQty]
    <2>1. WF(t) /\ IsFlagged(h, t, n, FALSE)
      BY <1>1, SetFreeWF
    <2>2. /\ Nodes(t) = Nodes(h) /\ t.next = h.next /\ t.prev = h.prev
          /\ t.nodesQty = h.nodesQty /\ t.free[n] = FALSE
      BY <2>1 DEF IsFlagged
    <2>3. t.free = [h.free EXCEPT ![n] = FALSE]
      BY <1>1 DEF SetFree, ListType
    <2>4. t = [free |-> t.free, prev |-> t.prev, next |-> t.next,
               nodesQty |-> t.nodesQty]
      BY <2>1 DEF WF, ListType
    <2>5. QED
      BY <2>2, <2>3, <2>4
  (* what FreeIn does once the two headers are one again *)
  <1>5. SetFree(t, n, TRUE) = h
    <2>1. [t.free EXCEPT ![n] = TRUE] = h.free
      BY <1>1, <1>4 DEF ListType
    <2>2. SetFree(t, n, TRUE) = [free |-> h.free, prev |-> h.prev, next |-> h.next,
                                 nodesQty |-> h.nodesQty]
      <3> HIDE DEF t
      <3>1. SetFree(t, n, TRUE) = [t EXCEPT !.free = [t.free EXCEPT ![n] = TRUE]]
        BY DEF SetFree
      <3>2. SetFree(t, n, TRUE) = [t EXCEPT !.free = h.free]
        BY <3>1, <2>1
      <3>3. QED
        BY <3>2, <1>4
    <2>3. h = [free |-> h.free, prev |-> h.prev, next |-> h.next,
               nodesQty |-> h.nodesQty]
      BY <1>1 DEF ListType
    <2>4. QED
      BY <2>2, <2>3
  <1>6. ~t.free[t.next[n]] /\ ~t.free[t.prev[n]]
    BY <1>1, <1>2, <1>3, <1>4 DEF ListType
  <1> HIDE DEF t
  <1>7. CASE ~Splits(GetSize(h, n) - size)
    <2>1. k = t
      BY <1>7 DEF AllocateIn, t
    <2>2. FreeIn(t, n) = SetFree(t, n, TRUE)
      BY <1>6 DEF FreeIn
    <2>3. QED
      BY <2>1, <2>2, <1>5
  <1>8. CASE Splits(GetSize(h, n) - size)
    <2>1. k = AddNodeAfter(t, n, x)
      BY <1>8 DEF AllocateIn, t
    <2>2. x \in Nat /\ n < x /\ x < h.next[n]
      <3>1. GetSize(h, n) \in Int /\ MinBlockSpace * NodeSz >= 0
        BY <1>1 DEF GetSize
      <3>2. GetSize(h, n) - size > 0
        BY <3>1, <1>8 DEF Splits
      <3>3. QED
        BY <3>1, <3>2, <1>1 DEF Payload, GetSize
    <2>3. x \notin Nodes(h)
      BY <2>2, <1>1 DEF WF, Ordered
    <2> HIDE DEF x
    <2>4. /\ Nodes(k) = Nodes(h) \cup {x}
          /\ k.free[x] = TRUE /\ k.next[n] = x /\ k.next[x] = h.next[n]
          /\ k.prev[x] = n /\ x # h.next[n] /\ x # n
      BY <2>1, <2>3, <1>1, <1>4 DEF AddNodeAfter, Nodes
    <2>5. RemoveNode(k, x) = t
      <3> DEFINE r == RemoveNode(k, x)
      <3>1. (Nodes(h) \cup {x}) \ {x} = Nodes(h)
        BY <2>3
      <3>2. r.free = t.free
        <4>1. r.free = [m \in Nodes(h) |-> k.free[m]]
          BY <2>4, <3>1 DEF RemoveNode
        <4>2. \A m \in Nodes(h) : k.free[m] = t.free[m]
          <5> SUFFICES ASSUME NEW m \in Nodes(h) PROVE k.free[m] = t.free[m]
            OBVIOUS
          <5>1. k.free = [j \in Nodes(t) \cup {x} |-> IF j = x THEN TRUE ELSE t.free[j]]
            BY <2>1 DEF AddNodeAfter
          <5>2. m \in Nodes(t) \cup {x} /\ m # x
            BY <2>3, <1>4
          <5>3. QED
            BY <5>1, <5>2, Zenon
        <4>3. t.free \in [Nodes(h) -> BOOLEAN]
          BY <1>1, <1>4 DEF ListType
        <4>4. QED
          BY <4>1, <4>2, <4>3
      <3>3. r.next = h.next
        <4>1. r.next = [m \in Nodes(h) |-> IF m = n THEN h.next[n] ELSE k.next[m]]
          BY <2>4, <3>1 DEF RemoveNode
        <4>2. \A m \in Nodes(h) : m # n => k.next[m] = h.next[m]
          BY <2>1, <2>3, <1>4 DEF AddNodeAfter
        <4>3. h.next \in [Nodes(h) -> Nodes(h)]
          BY <1>1 DEF ListType
        <4>4. QED
          BY <4>1, <4>2, <4>3
      <3>4. r.prev = h.prev
        <4>1. r.prev = [m \in Nodes(h) |-> IF m = h.next[n] THEN n ELSE k.prev[m]]
          BY <2>4, <3>1 DEF RemoveNode
        <4>2. \A m \in Nodes(h) : m # h.next[n] => k.prev[m] = h.prev[m]
          BY <2>1, <2>3, <1>4 DEF AddNodeAfter
        <4>3. h.prev \in [Nodes(h) -> Nodes(h)]
          BY <1>1 DEF ListType
        <4> HIDE DEF r
        <4>4. r.prev = [m \in Nodes(h) |-> h.prev[m]]
          <5>1. ASSUME NEW m \in Nodes(h)
                PROVE  (IF m = h.next[n] THEN n ELSE k.prev[m]) = h.prev[m]
            <6>1. CASE m = h.next[n]
              BY <6>1, <1>1
            <6>2. CASE m # h.next[n]
              BY <6>2, <4>2
            <6>3. QED
              BY <6>1, <6>2
          <5>2. QED
            BY <4>1, <5>1
        <4>5. QED
          BY <4>3, <4>4
      <3>5. r.nodesQty = h.nodesQty
        BY <2>1, <1>1, <1>4 DEF RemoveNode, AddNodeAfter, ListType
      <3>6. r = [free |-> r.free, prev |-> r.prev, next |-> r.next,
                 nodesQty |-> r.nodesQty]
        BY DEF RemoveNode
      <3>7. QED
        BY <3>2, <3>3, <3>4, <3>5, <3>6, <1>4
    <2>6. FreeIn(k, n) = SetFree(t, n, TRUE)
      BY <2>4, <2>5, <1>6, <1>4 DEF FreeIn
    <2>7. QED
      BY <2>6, <1>5
  <1>9. QED
    BY <1>7, <1>8

(* Free after Allocate is the identity on every reachable heap. *)
THEOREM FreeAlwaysUndoesAllocate == Spec => []FreeUndoesAllocate
  <1>1. IInv => FreeUndoesAllocate
    <2> SUFFICES ASSUME IInv, NEW size \in Sizes, Sutable(heap, size) # {}
                 PROVE  LET n == FindSutableNode(heap, size)
                        IN  FreeIn(AllocateIn(heap, size, n), n) = heap
      BY DEF FreeUndoesAllocate
    <2>1. FindSutableNode(heap, size) \in Sutable(heap, size)
      BY FindSutableNodeFinds DEF IInv, Good
    <2>2. QED
      BY <2>1, AllocateThenFree DEF IInv
  <1>2. QED
    BY <1>1, HeapInvariant, PTL

=============================================================================
