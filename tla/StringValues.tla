---------------------------- MODULE StringValues ----------------------------
(***************************************************************************)
(* What the users of class String (include/std/String.h) rely on: every    *)
(* variable has a value of its own, whatever happens to the others.        *)
(***************************************************************************)
EXTENDS Sequences

CONSTANTS Vars,    \* String objects
          Texts,   \* values they are constructed from
          None     \* no object there

VARIABLE value

Init == value = [v \in Vars |-> None]

Live(v) == value[v] # None

Construct(v, s) ==
  /\ ~Live(v)
  /\ value' = [value EXCEPT ![v] = s]

CopyConstruct(v, w) ==
  /\ ~Live(v) /\ Live(w)
  /\ value' = [value EXCEPT ![v] = value[w]]

Destroy(v) ==
  /\ Live(v)
  /\ value' = [value EXCEPT ![v] = None]

Assign(v, w) ==
  /\ Live(v) /\ Live(w)
  /\ value' = [value EXCEPT ![v] = value[w]]

AppendTo(v, w) ==
  /\ Live(v) /\ Live(w)
  /\ value' = [value EXCEPT ![v] = value[v] \o value[w]]

Next ==
  \E v, w \in Vars :
    \/ \E s \in Texts : Construct(v, s)
    \/ CopyConstruct(v, w)
    \/ Destroy(v)
    \/ Assign(v, w)
    \/ AppendTo(v, w)

Spec == Init /\ [][Next]_value

=============================================================================
