-------------------------------- MODULE Fifo --------------------------------
(***************************************************************************)
(* What the keyboard buffer promises the reader of keys: keys come out in  *)
(* the order they went in, each once, unless the kernel has stopped.       *)
(***************************************************************************)
EXTENDS Sequences

CONSTANTS Keys, NoKey

VARIABLES q,      \* keys waiting
          hand    \* the key the reader has taken and not yet used

fifoVars == <<q, hand>>

FInit == q = <<>> /\ hand = NoKey

Put(k) == q' = Append(q, k) /\ UNCHANGED hand

Take == /\ hand = NoKey /\ q # <<>>
        /\ hand' = Head(q) /\ q' = Tail(q)

Use  == /\ hand # NoKey
        /\ hand' = NoKey /\ UNCHANGED q

FNext == (\E k \in Keys : Put(k)) \/ Take \/ Use

FSpec == FInit /\ [][FNext]_fifoVars

=============================================================================
