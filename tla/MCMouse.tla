------------------------------- MODULE MCMouse ------------------------------
(* A mouse for TLC: motions of one count and of more than the screen. *)
EXTENDS Mouse

MCMoves == {[dx |-> 1, dy |-> 0], [dx |-> -3, dy |-> -255]}
=============================================================================
