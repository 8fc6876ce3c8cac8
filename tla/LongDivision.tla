---------------------------- MODULE LongDivision ----------------------------
(***************************************************************************)
(* The 64-bit division a 32-bit build calls (lib/crt/gcc-x86/              *)
(* longlong_ops.c): Knuth's algorithm D on four digits to the base         *)
(* B = 2^HALF_BITS.  A long holds two digits, a quad four; arithmetic on   *)
(* longs wraps.  The text of the algorithm does not depend on HALF_BITS,   *)
(* 16 in the code.                                                         *)
(***************************************************************************)
EXTENDS Integers, Sequences, SequencesExt, FiniteSetsExt

CONSTANTS HALF_BITS,
          Quads      \* operands

VARIABLE operands    \* [a, b] of the call looked at; b = 0 before the call

B    == 2 ^ HALF_BITS
Long == B * B
Quad == Long * Long

HHALF(x) == x \div B
LHALF(x) == x % B
COMBINE(a, b) == (a * B + b) % Long

(* The four digits of a quad, most significant first, behind a spare one. *)
Split(x) == [i \in 0 .. 4 |-> IF i = 0 THEN 0 ELSE (x \div B ^ (4 - i)) % B]
Join(u) == ((u[1] * B + u[2]) * B + u[3]) * B + u[4]

(* Digits `first' .. `last' of p, shifted left by sh bits. *)
shl(p, first, last, sh) ==
  [i \in DOMAIN p |->
     IF i \notin first .. last THEN p[i]
     ELSE LHALF(p[i] * 2 ^ sh) + (IF i = last THEN 0 ELSE p[i + 1] \div 2 ^ (HALF_BITS - sh))]

shr(p, first, last, sh) ==
  [i \in DOMAIN p |->
     IF i \notin first .. last THEN p[i]
     ELSE IF i = first THEN 0
     ELSE p[i] \div 2 ^ sh + LHALF(p[i - 1] * 2 ^ (HALF_BITS - sh))]

(* A divisor of one digit t: schoolbook division ("exercise 16"). *)
ShortDivision(u, t) ==
  FoldLeft(LAMBDA acc, i :
             LET rbj == COMBINE(acc.rem, u[i])
             IN  [q |-> [acc.q EXCEPT ![i] = rbj \div t], rem |-> rbj % t],
           [q |-> Split(0), rem |-> 0], <<1, 2, 3, 4>>)

(* D3: the trial digit, corrected until the second digit of the divisor
   agrees or the remainder has outgrown a digit. *)
(* Mutant: the trial digit is corrected once at most. *)
TrialOnce(u0, u1, u2, v1, v2) ==
  LET qhat == IF u0 = v1 THEN B ELSE COMBINE(u0, u1) \div v1
      rhat == IF u0 = v1 THEN u1 ELSE COMBINE(u0, u1) % v1
  IN  IF v2 * qhat > COMBINE(rhat, u2) THEN qhat - 1 ELSE qhat

Trial(u0, u1, u2, v1, v2) ==
  LET qhat == IF u0 = v1 THEN B ELSE COMBINE(u0, u1) \div v1
      rhat == IF u0 = v1 THEN u1 ELSE COMBINE(u0, u1) % v1
      steps == {k \in (IF u0 = v1 THEN 1 ELSE 0) .. qhat :
                  \/ rhat + k * v1 >= B
                  \/ v2 * (qhat - k) <= COMBINE(rhat + k * v1, u2)}
  IN  qhat - Min(steps)

(* D4: qhat times the divisor's n digits behind v0 is subtracted from the
   digits of u behind k; t is the borrow. *)
MultiplySubtract(u, k, v, v0, n, qhat) ==
  LET low == FoldLeft(LAMBDA acc, i :
                        LET t == (acc.u[k + i] - v[v0 + i] * qhat - acc.t) % Long
                        IN  [u |-> [acc.u EXCEPT ![k + i] = LHALF(t)], t |-> (B - HHALF(t)) % B],
                      [u |-> u, t |-> 0], Reverse([i \in 1 .. n |-> i]))
      t == (low.u[k] - low.t) % Long
  IN  [u |-> [low.u EXCEPT ![k] = LHALF(t)], t |-> HHALF(t)]

(* D6: the divisor is added back. *)
AddBack(u, k, v, v0, n) ==
  LET low == FoldLeft(LAMBDA acc, i :
                        LET t == acc.t + acc.u[k + i] + v[v0 + i]
                        IN  [u |-> [acc.u EXCEPT ![k + i] = LHALF(t)], t |-> HHALF(t)],
                      [u |-> u, t |-> 0], Reverse([i \in 1 .. n |-> i]))
  IN  [low.u EXCEPT ![k] = LHALF(low.u[k] + low.t)]

QuotientDigit(acc, k, v, v0, n) ==
  LET qhat == Trial(acc.u[k], acc.u[k + 1], acc.u[k + 2], v[v0 + 1], v[v0 + 2])
      sub == MultiplySubtract(acc.u, k, v, v0, n, qhat)
  IN  IF sub.t = 0
      THEN [u |-> sub.u, q |-> [acc.q EXCEPT ![k + n] = qhat]]
      ELSE [u |-> AddBack(sub.u, k, v, v0, n), q |-> [acc.q EXCEPT ![k + n] = qhat - 1]]

LeadingZeros(p) == Min({i \in 0 .. 3 : p[i + 1] # 0})

(* v has n >= 2 digits behind v0, u has m + n behind u0. *)
LongDivide(uq, vq) ==
  LET u0 == LeadingZeros(Split(uq))
      v0 == LeadingZeros(Split(vq))
      n == 4 - v0
      d == Min({s \in 0 .. HALF_BITS : Split(vq)[v0 + 1] * 2 ^ s >= B \div 2})
      u == IF d > 0 THEN shl(Split(uq), u0, 4, d) ELSE Split(uq)
      v == IF d > 0 THEN shl(Split(vq), v0 + 1, 4, d) ELSE Split(vq)
      end == FoldLeft(LAMBDA acc, k : QuotientDigit(acc, k, v, v0, n),
                      [u |-> u, q |-> Split(0)], [j \in 1 .. v0 - u0 + 1 |-> u0 + j - 1])
  IN  [q |-> Join(end.q), rem |-> Join(IF d > 0 THEN shr(end.u, v0, 4, d) ELSE end.u)]

qdivrem(uq, vq) ==
  IF uq < vq THEN [q |-> 0, rem |-> uq]
  ELSE IF LeadingZeros(Split(vq)) = 3
  THEN LET short == ShortDivision(Split(uq), vq) IN [q |-> Join(short.q), rem |-> short.rem]
  ELSE LongDivide(uq, vq)

(* quad_t: two's complement, negated as u_quad_t. *)
Negative(x) == x >= Quad \div 2
Negate(x) == (Quad - x) % Quad
Magnitude(x) == IF Negative(x) THEN Negate(x) ELSE x

udivdi3(a, b) == qdivrem(a, b).q
umoddi3(a, b) == qdivrem(a, b).rem
divdi3(a, b) ==
  LET uq == qdivrem(Magnitude(a), Magnitude(b)).q
  IN  IF Negative(a) # Negative(b) THEN Negate(uq) ELSE uq
moddi3(a, b) ==
  LET ur == qdivrem(Magnitude(a), Magnitude(b)).rem
  IN  IF Negative(a) THEN Negate(ur) ELSE ur

Init == operands = [a |-> 0, b |-> 0]

(* Division by zero traps. *)
Divide ==
  /\ operands.b = 0
  /\ operands' \in [a : Quads, b : Quads \ {0}]

Next == Divide

Spec == Init /\ [][Next]_operands

-----------------------------------------------------------------------------
(* The four functions compute the quotient rounded towards zero and the
   remainder with the sign of the dividend, whichever of the rare branches of
   algorithm D (a corrected trial digit, an added-back divisor, a divisor that
   needs no normalising) the operands lead into. *)
Signed(x) == IF Negative(x) THEN x - Quad ELSE x

DivisionRight ==
  LET a == operands.a
      b == operands.b
      trunc == Magnitude(a) \div Magnitude(b)
      quot == IF Negative(a) # Negative(b) THEN -trunc ELSE trunc
  IN  b # 0 =>
        /\ udivdi3(a, b) = a \div b
        /\ umoddi3(a, b) = a % b
        /\ divdi3(a, b) = quot % Quad
        /\ moddi3(a, b) = (Signed(a) - quot * Signed(b)) % Quad

=============================================================================
