------------------------------ MODULE Decimals ------------------------------
(***************************************************************************)
(* Python's Decimal as the sizing code uses it: every operation is exact   *)
(* and then rounded, half to even, to the Digits significant digits of the *)
(* context.  Python's default context has 28 of them; how an operation     *)
(* rounds is the same at any number.                                       *)
(*                                                                         *)
(* [c |-> 125, e |-> -1] is 12.5.  A number has one representation, with   *)
(* the smallest coefficient, so that = is equality of values.              *)
(***************************************************************************)
EXTENDS Integers

CONSTANT Digits

ASSUME DigitsAssumption == Digits \in Nat \ {0}

\* The powers of ten.
Ten[n \in Nat] == IF n = 0 THEN 1 ELSE 10 * Ten[n - 1]

\* How many digits n has.
Width[n \in Nat] == IF n < 10 THEN 1 ELSE 1 + Width[n \div 10]

Magnitude(n) == IF n < 0 THEN -n ELSE n

Zeros(n) == CHOOSE z \in 0 .. Width[n] : n % Ten[z] = 0 /\ n % Ten[z + 1] # 0

\* c * 10^e.
Dec(c, e) ==
  LET z == Zeros(Magnitude(c))
  IN  IF c = 0 THEN [c |-> 0, e |-> 0]
      ELSE [c |-> (IF c < 0 THEN -1 ELSE 1) * (Magnitude(c) \div Ten[z]), e |-> e + z]

Zero == Dec(0, 0)
One == Dec(1, 0)

\* n / d to a whole number, half to even.
HalfEven(n, d) ==
  LET q == n \div d
      r == n % d
  IN  IF 2 * r > d \/ (2 * r = d /\ q % 2 = 1) THEN q + 1 ELSE q

\* (n / d) * 10^e, to Digits digits; the quotient of naturals has at least as many, or is whole.
Rounded(sign, n, d, e) ==
  LET excess == Width[n \div d] - Digits
      unit   == IF excess > 0 THEN Ten[excess] ELSE 1
  IN  Dec(sign * HalfEven(n, d * unit), IF excess > 0 THEN e + excess ELSE e)

\* A number of at most Digits digits, as every operation returns it.
Amount(x) == x \in [c : Int, e : Int] /\ x = Dec(x.c, x.e) /\ Magnitude(x.c) < Ten[Digits]

Sign(x) == IF x.c < 0 THEN -1 ELSE 1

Smaller(m, n) == IF m < n THEN m ELSE n

\* The coefficient of x at the exponent e.
At10(x, e) == x.c * Ten[x.e - e]

Plus(x, y) ==
  LET e == Smaller(x.e, y.e)
      c == At10(x, e) + At10(y, e)
  IN  Rounded(IF c < 0 THEN -1 ELSE 1, Magnitude(c), 1, e)

Minus(x) == [x EXCEPT !.c = -@]

Abs(x) == [x EXCEPT !.c = Magnitude(x.c)]

Difference(x, y) == Plus(x, Minus(y))

Product(x, y) ==
  Rounded(Sign(x) * Sign(y), Magnitude(x.c) * Magnitude(y.c), 1, x.e + y.e)

\* x / y for y # 0, the dividend extended so far that its quotient has all the digits.
Quotient(x, y) ==
  LET n     == Magnitude(x.c)
      d     == Magnitude(y.c)
      shift == Digits + Width[d] - Width[n] + 1
      more  == IF shift > 0 THEN shift ELSE 0
  IN  Rounded(Sign(x) * Sign(y), n * Ten[more], d, x.e - y.e - more)

\* Comparisons are exact.
x \prec y ==
  LET e == Smaller(x.e, y.e)
  IN  At10(x, e) < At10(y, e)

x \preceq y == ~(y \prec x)

Least(x, y) == IF y \prec x THEN y ELSE x
Greatest(x, y) == IF x \prec y THEN y ELSE x

=============================================================================
