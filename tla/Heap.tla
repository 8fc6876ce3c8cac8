-------------------------------- MODULE Heap --------------------------------
(***************************************************************************)
(* The kernel heap (kernel/Heap.h, kernel/Heap.cpp): a best-fit allocator  *)
(* over one contiguous arena.  Blocks are headed by a Node and linked in a *)
(* ring closed by the sentinel _head, which sits in the last bytes of the  *)
(* arena.  Addresses are offsets from the start of the arena.              *)
(*                                                                         *)
(* The list is the record `heap': DOMAIN heap.next is the set of headers   *)
(* linked at the moment, and the three functions are their fields.         *)
(***************************************************************************)
EXTENDS Integers, FiniteSets

CONSTANTS ArenaSize,      \* bytes given to the constructor
          NodeSz,         \* sizeof(Node)
          MinBlockSpace,  \* the macro of that name (16 in the code)
          Sizes,          \* the sizes clients ask for
          Debug           \* built with -D DEBUG: a failed assert halts the CPU

ASSUME HeapAssumption ==
  /\ NodeSz \in Nat \ {0}
  /\ MinBlockSpace \in Nat \ {0}
  /\ ArenaSize \in Nat
  /\ ArenaSize > 2 * NodeSz
  /\ Sizes \subseteq Nat \ {0}
  /\ Debug \in BOOLEAN

VARIABLES heap,    \* the list: [free, prev, next, nodesQty]
          live,    \* client view: pointer |-> size it asked for
          status   \* "ok" until an assertion halts the CPU or memory is overrun

vars == <<heap, live, status>>

EndNode  == ArenaSize - NodeSz        \* _head
Nodes(h) == DOMAIN h.next
Blocks(h) == Nodes(h) \ {EndNode}        \* what First() .. End() visits

GetSize(h, n) == h.next[n] - n - NodeSz
Payload(n)    == n + NodeSz           \* (Node*) n + 1, the client's pointer
Header(p)     == p - NodeSz           \* (Node*) p - 1

-----------------------------------------------------------------------------
(* List surgery: pure functions from one list to the next.                 *)

(* Mutant: the node behind keeps its _prev. *)
AddNodeAfterOneWay(h, curr, node) ==
  [free |-> [m \in Nodes(h) \cup {node} |-> IF m = node THEN TRUE ELSE h.free[m]],
   prev |-> [m \in Nodes(h) \cup {node} |-> IF m = node THEN curr ELSE h.prev[m]],
   next |-> [m \in Nodes(h) \cup {node} |->
               IF m = node THEN h.next[curr]
               ELSE IF m = curr THEN node ELSE h.next[m]],
   nodesQty |-> h.nodesQty + 1]

AddNodeAfter(h, curr, node) ==
  [free |-> [m \in Nodes(h) \cup {node} |-> IF m = node THEN TRUE ELSE h.free[m]],
   prev |-> [m \in Nodes(h) \cup {node} |->
               IF m = node THEN curr
               ELSE IF m = h.next[curr] THEN node ELSE h.prev[m]],
   next |-> [m \in Nodes(h) \cup {node} |->
               IF m = node THEN h.next[curr]
               ELSE IF m = curr THEN node ELSE h.next[m]],
   nodesQty |-> h.nodesQty + 1]

(* Mutants: the node before still points at the removed one; the count stays. *)
RemoveNodeDangling(h, n) ==
  [free |-> [m \in Nodes(h) \ {n} |-> h.free[m]],
   prev |-> [m \in Nodes(h) \ {n} |->
               IF m = h.next[n] THEN h.prev[n] ELSE h.prev[m]],
   next |-> [m \in Nodes(h) \ {n} |-> h.next[m]],
   nodesQty |-> h.nodesQty - 1]

RemoveNode(h, n) ==
  [free |-> [m \in Nodes(h) \ {n} |-> h.free[m]],
   prev |-> [m \in Nodes(h) \ {n} |->
               IF m = h.next[n] THEN h.prev[n] ELSE h.prev[m]],
   next |-> [m \in Nodes(h) \ {n} |->
               IF m = h.prev[n] THEN h.next[n] ELSE h.next[m]],
   nodesQty |-> h.nodesQty - 1]

SetFree(h, n, b) == [h EXCEPT !.free[n] = b]

(* FindSutableNode: an exact fit if there is one, else the smallest larger
   block; the loop keeps the first of equals, and the list is in address
   order (ListOrdered below). *)
(* Mutant: the header is counted as room for the client. *)
SutableWithHeader(h, size) == {n \in Blocks(h) : h.free[n] /\ h.next[n] - n >= size}

Sutable(h, size) == {n \in Blocks(h) : h.free[n] /\ GetSize(h, n) >= size}

FindSutableNode(h, size) ==
  CHOOSE n \in Sutable(h, size) :
    \A m \in Sutable(h, size) :
      \/ GetSize(h, n) < GetSize(h, m)
      \/ GetSize(h, n) = GetSize(h, m) /\ n <= m

(* Allocate splits the block it takes only when the rest is worth a block. *)
Splits(rest) == rest > MinBlockSpace * NodeSz

(* Mutant: the new header starts a byte late. *)
AllocateInOff(h, size, n) ==
  LET taken == SetFree(h, n, FALSE)
  IN  IF Splits(GetSize(h, n) - size)
      THEN AddNodeAfter(taken, n, Payload(n) + size + 1)
      ELSE taken

AllocateIn(h, size, n) ==
  LET taken == SetFree(h, n, FALSE)
  IN  IF Splits(GetSize(h, n) - size)
      THEN AddNodeAfter(taken, n, Payload(n) + size)
      ELSE taken

(* Mutants: only one neighbour is merged; a merge on one side is taken to
   make the other unnecessary. *)
FreeInForward(h, n) ==
  SetFree(IF h.free[h.next[n]] THEN RemoveNode(h, h.next[n]) ELSE h, n, TRUE)

FreeInBackward(h, n) ==
  IF h.free[h.prev[n]] THEN RemoveNode(h, n) ELSE SetFree(h, n, TRUE)

FreeInOneSide(h, n) ==
  IF h.free[h.prev[n]] THEN RemoveNode(h, n)
  ELSE SetFree(IF h.free[h.next[n]] THEN RemoveNode(h, h.next[n]) ELSE h, n, TRUE)

FreeIn(h, n) ==
  LET merged == IF h.free[h.next[n]] THEN RemoveNode(h, h.next[n]) ELSE h
  IN  IF merged.free[merged.prev[n]]
      THEN RemoveNode(merged, n)
      ELSE SetFree(merged, n, TRUE)

(* Reallocate compares `next2 - ins', a difference of Node pointers, with
   MinBlockSpace.  It is a number of nodes when the bytes between them are a
   multiple of sizeof(Node); otherwise the subtraction is undefined and the
   compiled code (an exact division by multiplication) may go either way. *)
NodeDiffExceeds(bytes) ==
  IF bytes % NodeSz = 0 THEN {bytes \div NodeSz > MinBlockSpace} ELSE BOOLEAN

-----------------------------------------------------------------------------
Init ==
  /\ heap = [free |-> [m \in {0, EndNode} |-> m = 0],
             prev |-> [m \in {0, EndNode} |-> IF m = 0 THEN EndNode ELSE 0],
             next |-> [m \in {0, EndNode} |-> IF m = 0 THEN EndNode ELSE 0],
             nodesQty |-> 1]
  /\ live = [p \in {} |-> 0]
  /\ status = "ok"

Hold(p, size) == [q \in DOMAIN live \cup {p} |-> IF q = p THEN size ELSE live[q]]
Drop(p)       == [q \in DOMAIN live \ {p} |-> live[q]]

(* No block fits: assert(n) halts a debug build, a release build goes on
   through the NULL pointer; either way the heap is not used again. *)
OutOfMemory ==
  /\ status' = IF Debug THEN "halted" ELSE "null_deref"
  /\ UNCHANGED <<heap, live>>

Allocate(size) ==
  /\ status = "ok"
  /\ \/ /\ Sutable(heap, size) # {}
        /\ LET n == FindSutableNode(heap, size) IN
             /\ heap' = AllocateIn(heap, size, n)
             /\ live' = Hold(Payload(n), size)
        /\ UNCHANGED status
     \/ /\ Sutable(heap, size) = {}
        /\ OutOfMemory

Free(p) ==
  /\ status = "ok"
  /\ heap' = FreeIn(heap, Header(p))
  /\ live' = Drop(p)
  /\ UNCHANGED status

(* AllocateAt, asked for memory the client does not own.  A free block of
   exactly this place and size is taken (a used one stays as it is); anywhere
   else a debug build stops when the block around the place is used or not
   larger than the request.  In every other case the pointer is returned and
   nothing is reserved ("TODO: add node"), a step that changes no state here. *)
AllocateAt(p, size) ==
  /\ status = "ok"
  /\ \E n \in Blocks(heap) :
       /\ Payload(n) <= p /\ p < heap.next[n]
       /\ \/ /\ p = Payload(n) /\ GetSize(heap, n) = size
             /\ heap.free[n]
             /\ heap' = SetFree(heap, n, FALSE)
             /\ live' = Hold(p, size)
             /\ UNCHANGED status
          \/ /\ ~(p = Payload(n) /\ GetSize(heap, n) = size)
             /\ Debug /\ (heap.free[n] => size >= GetSize(heap, n))
             /\ status' = "halted"
             /\ UNCHANGED <<heap, live>>

(* Reallocate(p, size): the block is large enough already. *)
ReallocateInside(p, size) ==
  /\ status = "ok"
  /\ size <= GetSize(heap, Header(p))
  /\ live' = Hold(p, size)
  /\ UNCHANGED <<heap, status>>

(* The block behind is free and leaves room: it is absorbed, and its tail
   may become a free block again.  A tail too short for a header would put
   the header over the next node. *)
(* Mutant: the block behind is absorbed without asking whether it is free. *)
CanGrowOverUsed(h, n, size) ==
  /\ size > GetSize(h, n)
  /\ h.next[n] # EndNode
  /\ Payload(n) + size < h.next[h.next[n]]

CanGrow(h, n, size) ==
  /\ size > GetSize(h, n)
  /\ h.free[h.next[n]]
  /\ Payload(n) + size < h.next[h.next[n]]

GrowIn(h, n, size, split) ==
  LET merged == RemoveNode(h, h.next[n])
  IN  IF split THEN AddNodeAfter(merged, n, Payload(n) + size) ELSE merged

Leftover(h, n, size) == h.next[h.next[n]] - (Payload(n) + size)

ReallocateGrow(p, size) ==
  LET n == Header(p) IN
  /\ status = "ok"
  /\ CanGrow(heap, n, size)
  /\ \E split \in NodeDiffExceeds(Leftover(heap, n, size)) :
       IF split /\ Leftover(heap, n, size) < NodeSz
       THEN /\ status' = "overlap"
            /\ UNCHANGED <<heap, live>>
       ELSE /\ heap' = GrowIn(heap, n, size, split)
            /\ live' = Hold(p, size)
            /\ UNCHANGED status

(* Otherwise a new block is allocated, the old one copied and freed. *)
ReallocateMove(p, size) ==
  LET n == Header(p) IN
  /\ status = "ok"
  /\ size > GetSize(heap, n)
  /\ ~CanGrow(heap, n, size)
  /\ \/ /\ Sutable(heap, size) # {}
        /\ LET m == FindSutableNode(heap, size) IN
             /\ heap' = FreeIn(AllocateIn(heap, size, m), n)
             /\ live' = [q \in (DOMAIN live \ {p}) \cup {Payload(m)} |->
                           IF q = Payload(m) THEN size ELSE live[q]]
        /\ UNCHANGED status
     \/ /\ Sutable(heap, size) = {}
        /\ OutOfMemory

(* Reallocate(NULL, size) is Allocate(size), Reallocate(p, 0) is Free(p);
   Allocate(0) and Free(NULL) return at once and change nothing. *)
Next ==
  \/ \E size \in Sizes : Allocate(size)
  \/ \E p \in DOMAIN live : Free(p)
  \/ \E p \in 0 .. ArenaSize, size \in Sizes : AllocateAt(p, size)
  \/ \E p \in DOMAIN live, size \in Sizes : ReallocateInside(p, size)
  \/ \E p \in DOMAIN live, size \in Sizes : ReallocateGrow(p, size)
  \/ \E p \in DOMAIN live, size \in Sizes : ReallocateMove(p, size)

Spec == Init /\ [][Next]_vars

-----------------------------------------------------------------------------
ListType(h) ==
  /\ Nodes(h) \subseteq 0 .. EndNode
  /\ h \in [free : [Nodes(h) -> BOOLEAN], prev : [Nodes(h) -> Nodes(h)],
            next : [Nodes(h) -> Nodes(h)], nodesQty : Nat]

(* The variables hold values of their types: a list over addresses of the
   arena, a size for every live pointer, a known status. *)
TypeOK ==
  /\ ListType(heap)
  /\ live \in [DOMAIN live -> Sizes]
  /\ DOMAIN live \subseteq 0 .. ArenaSize
  /\ status \in {"ok", "halted", "null_deref", "overlap"}

(* The ring is doubly linked: prev and next are each other's inverse, and the
   sentinel closes it (what AddNodeAfter and RemoveNode maintain by hand). *)
Linked(h) ==
  /\ {0, EndNode} \subseteq Nodes(h)
  /\ ~h.free[EndNode]
  /\ h.next[EndNode] = 0
  /\ \A n \in Nodes(h) : h.prev[h.next[n]] = n /\ h.next[h.prev[n]] = n

(* Blocks tile the arena in address order: each has at least one byte of
   payload and no header lies inside another block, so GetSize never wraps
   and First() .. End() visits every block once. *)
Ordered(h) ==
  \A n \in Blocks(h) :
    /\ Payload(n) < h.next[n]
    /\ \A m \in Nodes(h) : m <= n \/ h.next[n] <= m

(* Two neighbouring blocks are never both free: Free and the growing branch of
   Reallocate always merge, whatever the order of calls. *)
Coalesced(h) == \A n \in Blocks(h) : h.free[n] => ~h.free[h.next[n]]

(* _nodesQty, which GetOverhead relies on, counts the blocks of the list. *)
Counted(h) == IsFiniteSet(Nodes(h)) /\ h.nodesQty = Cardinality(Nodes(h)) - 1

ListWellFormed == Linked(heap) /\ Ordered(heap) /\ Counted(heap)

NoNeighbouringFree == Coalesced(heap)

(* Every used block belongs to exactly one live pointer and has room for the
   size that was asked for: nothing leaks, nothing is handed out twice. *)
LiveOwnBlocks ==
  /\ DOMAIN live = {Payload(n) : n \in {m \in Blocks(heap) : ~heap.free[m]}}
  /\ \A p \in DOMAIN live : live[p] <= GetSize(heap, Header(p))

(* Freeing what was just allocated gives back the very same list, from any
   reachable state: the split is undone by the merge. *)
FreeUndoesAllocate ==
  \A size \in Sizes :
    Sutable(heap, size) # {} =>
      LET n == FindSutableNode(heap, size)
      IN  FreeIn(AllocateIn(heap, size, n), n) = heap

(* A client that has freed everything finds the heap as the constructor left
   it, one free block: no sequence of calls fragments it for good. *)
EmptyIsInitial ==
  DOMAIN live = {} => heap = [free |-> [m \in {0, EndNode} |-> m = 0],
                              prev |-> [m \in {0, EndNode} |-> IF m = 0 THEN EndNode ELSE 0],
                              next |-> [m \in {0, EndNode} |-> IF m = 0 THEN EndNode ELSE 0],
                              nodesQty |-> 1]

(* CheckNode's assertion (Heap.h:10): the header of a node keeps its signature,
   that is, no other header is ever written over it. *)
SignaturesIntact == status # "overlap"

(* The heap implements the allocator's promise. *)
A == INSTANCE Allocator WITH up <- (status = "ok")
AllocatorSpec == A!ASpec

=============================================================================
