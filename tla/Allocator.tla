----------------------------- MODULE Allocator ------------------------------
(***************************************************************************)
(* What malloc, free and realloc promise a client of the kernel heap,      *)
(* without the list of blocks: every pointer handed out owns the bytes     *)
(* asked for, inside the arena, and no two pointers own the same byte.     *)
(* The heap may go down (out of memory, corruption) and then hands out     *)
(* nothing more.                                                           *)
(***************************************************************************)
EXTENDS Integers

CONSTANTS ArenaSize, Sizes

VARIABLES live,   \* pointer |-> bytes it owns
          up      \* the heap still serves requests

allocatorVars == <<live, up>>

Apart(p, s, q, t) == p + s <= q \/ q + t <= p

Fits(p, s, others) ==
  /\ 0 <= p
  /\ p + s <= ArenaSize
  /\ \A q \in others : Apart(p, s, q, live[q])

AInit == live = [p \in {} |-> 0] /\ up = TRUE

Grant(p, s) ==
  /\ up
  /\ Fits(p, s, DOMAIN live)
  /\ live' = [q \in DOMAIN live \cup {p} |-> IF q = p THEN s ELSE live[q]]
  /\ UNCHANGED up

Release(p) ==
  /\ up
  /\ live' = [q \in DOMAIN live \ {p} |-> live[q]]
  /\ UNCHANGED up

Resize(p, q, s) ==
  /\ up
  /\ Fits(q, s, DOMAIN live \ {p})
  /\ live' = [r \in (DOMAIN live \ {p}) \cup {q} |-> IF r = q THEN s ELSE live[r]]
  /\ UNCHANGED up

GoDown == up /\ up' = FALSE /\ UNCHANGED live

ANext ==
  \/ \E p \in 0 .. ArenaSize, s \in Sizes : Grant(p, s)
  \/ \E p \in DOMAIN live : Release(p)
  \/ \E p \in DOMAIN live, q \in 0 .. ArenaSize, s \in Sizes : Resize(p, q, s)
  \/ GoDown

ASpec == AInit /\ [][ANext]_allocatorVars

(* Two live pointers never own a byte in common, and every byte owned lies
   in the arena: the memory-safety promise of malloc/realloc/free. *)
LiveApart ==
  /\ \A p \in DOMAIN live : 0 <= p /\ p + live[p] <= ArenaSize
  /\ \A p, q \in DOMAIN live : p # q => Apart(p, live[p], q, live[q])

=============================================================================
