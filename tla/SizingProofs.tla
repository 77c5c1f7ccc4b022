---------------------------- MODULE SizingProofs ----------------------------
(***************************************************************************)
(* Facts about the rounded decimals, for any number of digits: the powers  *)
(* of ten and the widths of numbers, the comparison of exact values, what  *)
(* rounding keeps and by how much it may be off, and what follows for the  *)
(* sums, products and quotients the sizing computes: the net asset value,  *)
(* the proposals, their judgement and the book after a fill.               *)
(***************************************************************************)
EXTENDS Sizing, FiniteSetTheorems, WellFoundedInduction, TLAPS

(***************************************************************************)
(* Whole numbers.                                                          *)
(***************************************************************************)
\* A set of numbers that is not empty has a least one.
LEMMA LeastNumber ==
  ASSUME NEW T, T \subseteq Nat, T # {}
  PROVE  \E n \in T : \A m \in T : n <= m
<1>1. PICK n \in T : \A m \in T : ~ (<<m, n>> \in OpToRel(<, Nat))
  BY NatLessThanWellFounded, WFMin, Zenon
<1>2. ASSUME NEW m \in T PROVE n <= m
  <2>1. ~ (m < n)
    BY <1>1 DEF OpToRel
  <2> QED
    BY <2>1
<1> QED
  BY <1>2

\* The value of f at n is c or made from its value at p[n], and p descends.
Recurs(f, B, p, c, s) == f = [k \in Nat |-> IF k \in B THEN c ELSE s[f[p[k]]]]
Descends(p, B) == \A n \in Nat \ B : p[n] < n

\* Such a function exists.
LEMMA Recursion ==
  ASSUME NEW B \in SUBSET Nat, NEW p \in [Nat -> Nat], NEW c \in Nat, NEW s \in [Nat -> Nat],
         Descends(p, B)
  PROVE  \E f \in [Nat -> Nat] : Recurs(f, B, p, c, s)
<1> DEFINE T(f, n) == IF n \in B THEN c ELSE s[f[p[n]]]
           Good(f, n) == f \in [Nat -> Nat] /\ \A m \in Nat : m < n => f[m] = T(f, m)
           Bad == {n \in Nat : ~\E f : Good(f, n)}
<1>1. ASSUME NEW n \in Nat, NEW f, Good(f, n) PROVE \E g : Good(g, n + 1)
  <2> DEFINE g == [m \in Nat |-> T(f, m)]
  <2>1. g \in [Nat -> Nat]
    BY <1>1
  <2>2. ASSUME NEW m \in Nat, m < n + 1 PROVE g[m] = T(g, m)
    <3>1. CASE m \in B
      BY <3>1
    <3>2. CASE m \notin B
      <4>1. p[m] \in Nat /\ p[m] < n
        BY <2>2, <3>2 DEF Descends
      <4>2. f[p[m]] = T(f, p[m])
        BY <1>1, <4>1
      <4>3. g[p[m]] = f[p[m]]
        BY <4>1, <4>2
      <4>4. g[m] = s[f[p[m]]] /\ T(g, m) = s[g[p[m]]]
        BY <3>2
      <4> QED
        BY <4>3, <4>4
    <3> QED
      BY <3>1, <3>2
  <2> QED
    BY <2>1, <2>2
<1>2. \A n \in Nat : \E f : Good(f, n)
  <2> SUFFICES ASSUME Bad # {} PROVE FALSE
    OBVIOUS
  <2>1. PICK n \in Bad : \A m \in Bad : n <= m
    <3>1. Bad \subseteq Nat
      OBVIOUS
    <3> HIDE DEF Bad
    <3> QED
      BY <3>1, LeastNumber
  <2>2. n # 0
    <3>1. Good([m \in Nat |-> 0], 0)
      OBVIOUS
    <3> HIDE DEF Good
    <3> QED
      BY <3>1
  <2> HIDE DEF Good
  <2>3. n - 1 \in Nat /\ n - 1 \notin Bad /\ n = (n - 1) + 1
    BY <2>1, <2>2
  <2> QED
    BY <1>1, <2>1, <2>3
<1>3. ASSUME NEW f, NEW g, NEW n \in Nat, NEW k \in Nat, Good(f, n), Good(g, k)
      PROVE  \A m \in Nat : m < n /\ m < k => f[m] = g[m]
  <2> DEFINE Differ == {m \in Nat : m < n /\ m < k /\ f[m] # g[m]}
  <2> SUFFICES ASSUME Differ # {} PROVE FALSE
    OBVIOUS
  <2>1. PICK m \in Differ : \A x \in Differ : m <= x
    <3>1. Differ \subseteq Nat
      OBVIOUS
    <3> HIDE DEF Differ
    <3> QED
      BY <3>1, LeastNumber
  <2>2. f[m] = T(f, m) /\ g[m] = T(g, m) /\ m \in Nat /\ m < n /\ m < k
    BY <1>3, <2>1
  <2>3. CASE m \in B
    BY <2>1, <2>2, <2>3
  <2>4. CASE m \notin B
    <3>1. p[m] \in Nat /\ p[m] < m
      BY <2>2, <2>4 DEF Descends
    <3>2. p[m] \notin Differ
      BY <2>1, <2>2, <3>1
    <3>3. f[p[m]] = g[p[m]]
      BY <2>2, <3>1, <3>2
    <3> QED
      BY <2>1, <2>2, <2>4, <3>3
  <2> QED
    BY <2>3, <2>4
<1> DEFINE G(n) == CHOOSE f : Good(f, n + 1)
<1>4. \A n \in Nat : Good(G(n), n + 1)
  <2> HIDE DEF Good
  <2>1. \A n \in Nat : \E f : Good(f, n + 1)
    <3>1. \A n \in Nat : n + 1 \in Nat
      OBVIOUS
    <3> QED
      BY <1>2, <3>1, Zenon
  <2> QED
    BY <2>1, Zenon
<1> DEFINE h == [n \in Nat |-> G(n)[n]]
<1>5. h \in [Nat -> Nat]
  <2> HIDE DEF G
  <2> QED
    BY <1>4
<1>6. ASSUME NEW n \in Nat PROVE h[n] = T(h, n)
  <2>1. G(n)[n] = T(G(n), n)
    <3>1. Good(G(n), n + 1)
      BY <1>4
    <3> HIDE DEF G
    <3> QED
      BY <3>1
  <2>2. CASE n \in B
    BY <2>1, <2>2
  <2>3. CASE n \notin B
    <3>1. p[n] \in Nat /\ p[n] < n
      BY <2>3 DEF Descends
    <3>2. G(p[n])[p[n]] = G(n)[p[n]]
      <4>1. Good(G(n), n + 1) /\ Good(G(p[n]), p[n] + 1)
        BY <1>4, <3>1
      <4> HIDE DEF G, Good
      <4>2. p[n] < n + 1 /\ p[n] < p[n] + 1 /\ n + 1 \in Nat /\ p[n] + 1 \in Nat
        BY <3>1
      <4> QED
        BY <1>3, <3>1, <4>1, <4>2
    <3> HIDE DEF G
    <3> QED
      BY <2>1, <2>3, <3>1, <3>2
  <2> QED
    BY <2>2, <2>3
<1> HIDE DEF h
<1>7. h = [k \in Nat |-> IF k \in B THEN c ELSE s[h[p[k]]]]
  BY <1>5, <1>6
<1> QED
  BY <1>5, <1>7 DEF Recurs

\* The powers of ten are what they are called.
LEMMA Powers ==
  /\ Ten[0] = 1
  /\ \A n \in Nat : Ten[n] \in Nat \ {0} /\ Ten[n + 1] = 10 * Ten[n]
<1> DEFINE B == {0}
           p == [n \in Nat |-> IF n = 0 THEN 0 ELSE n - 1]
           c == 1
           s == [n \in Nat |-> 10 * n]
<1>1. PICK f \in [Nat -> Nat] : Recurs(f, B, p, c, s)
  <2>1. p \in [Nat -> Nat] /\ s \in [Nat -> Nat] /\ B \in SUBSET Nat /\ c \in Nat
    OBVIOUS
  <2>2. Descends(p, B)
    BY DEF Descends
  <2> HIDE DEF B, p, c, s
  <2> QED
    BY <2>1, <2>2, Recursion
<1>2. \A n \in Nat : f[n] = IF n = 0 THEN 1 ELSE 10 * f[n - 1]
  <2> TAKE n \in Nat
  <2>1. n # 0 => n - 1 \in Nat /\ p[n] = n - 1 /\ f[n - 1] \in Nat
    OBVIOUS
  <2>2. n # 0 => s[f[p[n]]] = 10 * f[n - 1]
    BY <2>1
  <2>3. f[n] = IF n \in B THEN c ELSE s[f[p[n]]]
    BY <1>1 DEF Recurs
  <2> QED
    BY <2>2, <2>3
<1>3. f = [n \in Nat |-> IF n = 0 THEN 1 ELSE 10 * f[n - 1]]
  BY <1>2
<1>4. Ten = [n \in Nat |-> IF n = 0 THEN 1 ELSE 10 * Ten[n - 1]]
  BY <1>3, Zenon DEF Ten
<1> HIDE DEF Ten
<1>5. Ten[0] = 1 /\ \A n \in Nat \ {0} : Ten[n] = 10 * Ten[n - 1]
  BY <1>4
<1> DEFINE Bad == {n \in Nat : Ten[n] \notin Nat \ {0}}
<1>6. Bad = {}
  <2> SUFFICES ASSUME Bad # {} PROVE FALSE
    OBVIOUS
  <2>1. PICK n \in Bad : \A m \in Bad : n <= m
    <3>1. Bad \subseteq Nat
      OBVIOUS
    <3> HIDE DEF Bad
    <3> QED
      BY <3>1, LeastNumber
  <2>2. n # 0 /\ n \in Nat
    BY <1>5, <2>1
  <2>3. n - 1 \in Nat /\ Ten[n - 1] \in Nat \ {0}
    BY <2>1, <2>2
  <2>4. Ten[n] = 10 * Ten[n - 1]
    BY <1>5, <2>2
  <2> QED
    BY <2>1, <2>3, <2>4
<1>7. ASSUME NEW n \in Nat PROVE Ten[n + 1] = 10 * Ten[n]
  <2>1. n + 1 \in Nat \ {0} /\ (n + 1) - 1 = n
    OBVIOUS
  <2> QED
    BY <1>5, <2>1
<1> QED
  BY <1>5, <1>6, <1>7

\* Powers multiply.
LEMMA PowerAdd ==
  ASSUME NEW m \in Nat, NEW n \in Nat
  PROVE  Ten[m + n] = Ten[m] * Ten[n]
<1> DEFINE Bad == {k \in Nat : Ten[m + k] # Ten[m] * Ten[k]}
<1> SUFFICES ASSUME Bad # {} PROVE FALSE
  OBVIOUS
<1>1. PICK k \in Bad : \A j \in Bad : k <= j
  <2>1. Bad \subseteq Nat
    OBVIOUS
  <2> HIDE DEF Bad
  <2> QED
    BY <2>1, LeastNumber
<1>2. CASE k = 0
  <2>1. m + 0 = m /\ Ten[m] \in Nat /\ Ten[0] = 1
    BY Powers
  <2> QED
    BY <1>1, <1>2, <2>1
<1>3. CASE k # 0
  <2>1. k - 1 \in Nat /\ k - 1 \notin Bad /\ (k - 1) + 1 = k /\ m + (k - 1) \in Nat
        /\ (m + (k - 1)) + 1 = m + k
    BY <1>1, <1>3
  <2>2. Ten[m + (k - 1)] = Ten[m] * Ten[k - 1]
    BY <2>1
  <2>3. Ten[m + k] = 10 * Ten[m + (k - 1)] /\ Ten[k] = 10 * Ten[k - 1]
    BY <2>1, Powers
  <2>4. PICK a \in Nat, b \in Nat : a = Ten[m] /\ b = Ten[k - 1]
    BY <2>1, Powers
  <2>5. 10 * (a * b) = a * (10 * b)
    OBVIOUS
  <2> QED
    BY <1>1, <2>2, <2>3, <2>4, <2>5
<1> QED
  BY <1>2, <1>3

\* They grow at least tenfold from one to the next.
LEMMA PowerOrder ==
  ASSUME NEW m \in Nat, NEW n \in Nat
  PROVE  /\ m <= n => Ten[m] <= Ten[n]
         /\ m < n => 10 * Ten[m] <= Ten[n]
<1>1. ASSUME NEW k \in Nat PROVE \A x \in Nat : x <= x * Ten[k]
  <2>1. PICK t \in Nat \ {0} : t = Ten[k]
    BY Powers
  <2>2. \A x \in Nat : x <= x * t
    OBVIOUS
  <2> QED
    BY <2>1, <2>2
<1>2. ASSUME m <= n PROVE Ten[m] <= Ten[n]
  <2>1. n - m \in Nat /\ m + (n - m) = n
    BY <1>2
  <2>2. Ten[n] = Ten[m] * Ten[n - m]
    BY <2>1, PowerAdd
  <2> QED
    BY <1>1, <2>1, <2>2, Powers
<1>3. ASSUME m < n PROVE 10 * Ten[m] <= Ten[n]
  <2>1. n - (m + 1) \in Nat /\ (m + 1) + (n - (m + 1)) = n /\ m + 1 \in Nat
    BY <1>3
  <2>2. Ten[n] = Ten[m + 1] * Ten[n - (m + 1)] /\ Ten[m + 1] = 10 * Ten[m]
    <3>1. Ten[(m + 1) + (n - (m + 1))] = Ten[m + 1] * Ten[n - (m + 1)]
      BY <2>1, PowerAdd
    <3> QED
      BY <2>1, <3>1, Powers
  <2> QED
    BY <1>1, <2>1, <2>2, Powers
<1> QED
  BY <1>2, <1>3

LEMMA PowerAbove ==
  ASSUME NEW n \in Nat
  PROVE  n < Ten[n]
<1> DEFINE Bad == {k \in Nat : ~ (k < Ten[k])}
<1> SUFFICES ASSUME Bad # {} PROVE FALSE
  OBVIOUS
<1>1. PICK k \in Bad : \A j \in Bad : k <= j
  <2>1. Bad \subseteq Nat
    OBVIOUS
  <2> HIDE DEF Bad
  <2> QED
    BY <2>1, LeastNumber
<1>2. k # 0
  BY <1>1, Powers
<1>3. k - 1 \in Nat /\ k - 1 \notin Bad /\ (k - 1) + 1 = k
  BY <1>1, <1>2
<1>4. Ten[k] = 10 * Ten[k - 1] /\ Ten[k - 1] \in Nat
  BY <1>3, Powers
<1> QED
  BY <1>1, <1>3, <1>4

\* Whole division.
LEMMA DivMod ==
  ASSUME NEW n \in Nat, NEW d \in Nat \ {0}
  PROVE  /\ n \div d \in Nat /\ n % d \in Nat /\ n % d < d
         /\ n = d * (n \div d) + (n % d)
OBVIOUS

LEMMA DivUnique ==
  ASSUME NEW d \in Nat \ {0}, NEW q \in Nat, NEW r \in Nat, r < d
  PROVE  (d * q + r) \div d = q /\ (d * q + r) % d = r
<1>1. PICK n \in Nat : n = d * q + r
  OBVIOUS
<1>2. PICK a \in Nat, b \in Nat : a = n \div d /\ b = n % d /\ b < d /\ n = d * a + b
  BY DivMod
<1>3. ~ (a < q)
  <2> SUFFICES ASSUME a < q PROVE FALSE
    OBVIOUS
  <2>1. PICK k \in Nat : q = a + 1 + k
    <3>1. q - a - 1 \in Nat /\ q = a + 1 + (q - a - 1)
      OBVIOUS
    <3> QED
      BY <3>1
  <2>2. d * q = d * a + d + d * k /\ d * k >= 0
    BY <2>1
  <2> QED
    BY <1>1, <1>2, <2>2
<1>4. ~ (q < a)
  <2> SUFFICES ASSUME q < a PROVE FALSE
    OBVIOUS
  <2>1. PICK k \in Nat : a = q + 1 + k
    <3>1. a - q - 1 \in Nat /\ a = q + 1 + (a - q - 1)
      OBVIOUS
    <3> QED
      BY <3>1
  <2>2. d * a = d * q + d + d * k /\ d * k >= 0
    BY <2>1
  <2> QED
    BY <1>1, <1>2, <2>2
<1>5. a = q
  BY <1>3, <1>4
<1>6. b = r
  BY <1>1, <1>2, <1>5
<1> QED
  BY <1>1, <1>2, <1>5, <1>6

\* A number of Width[n] digits, the first of them not zero.
LEMMA Widths ==
  ASSUME NEW n \in Nat
  PROVE  /\ Width[n] \in Nat \ {0} /\ n < Ten[Width[n]]
         /\ n # 0 => Ten[Width[n] - 1] <= n
         /\ n = 0 => Width[n] = 1
<1> DEFINE B == 0 .. 9
           p == [k \in Nat |-> k \div 10]
           c == 1
           s == [k \in Nat |-> 1 + k]
           W(k) == /\ Width[k] \in Nat \ {0} /\ k < Ten[Width[k]]
                   /\ k # 0 => Ten[Width[k] - 1] <= k
           Bad == {k \in Nat : ~ W(k)}
<1>1. PICK f \in [Nat -> Nat] : Recurs(f, B, p, c, s)
  <2>1. p \in [Nat -> Nat] /\ s \in [Nat -> Nat] /\ B \in SUBSET Nat /\ c \in Nat
    OBVIOUS
  <2>2. Descends(p, B)
    BY DEF Descends
  <2> HIDE DEF B, p, c, s
  <2> QED
    BY <2>1, <2>2, Recursion
<1>2. \A k \in Nat : f[k] = IF k < 10 THEN 1 ELSE 1 + f[k \div 10]
  <2> TAKE k \in Nat
  <2>1. k \div 10 \in Nat /\ p[k] = k \div 10 /\ f[k \div 10] \in Nat
    OBVIOUS
  <2>2. s[f[p[k]]] = 1 + f[k \div 10]
    BY <2>1
  <2>3. f[k] = IF k \in B THEN c ELSE s[f[p[k]]]
    BY <1>1 DEF Recurs
  <2>4. k \in B <=> k < 10
    OBVIOUS
  <2> QED
    BY <2>2, <2>3, <2>4
<1>3. f = [k \in Nat |-> IF k < 10 THEN 1 ELSE 1 + f[k \div 10]]
  BY <1>2
<1>4. Width = [k \in Nat |-> IF k < 10 THEN 1 ELSE 1 + Width[k \div 10]]
  BY <1>3, Zenon DEF Width
<1> HIDE DEF Width
<1>5. \A k \in Nat : Width[k] = IF k < 10 THEN 1 ELSE 1 + Width[k \div 10]
  BY <1>4
<1>6. Ten[0] = 1 /\ Ten[1] = 10
  <2>1. Ten[0 + 1] = 10 * Ten[0] /\ Ten[0] = 1
    BY Powers
  <2> QED
    BY <2>1
<1>7. ASSUME Bad # {} PROVE FALSE
  <2>1. PICK k \in Bad : \A j \in Bad : k <= j
    <3>1. Bad \subseteq Nat
      OBVIOUS
    <3> HIDE DEF Bad
    <3> QED
      BY <1>7, <3>1, LeastNumber
  <2>2. CASE k < 10
    <3>1. Width[k] = 1 /\ k \in Nat /\ ~ W(k)
      BY <1>5, <2>1, <2>2
    <3> QED
      BY <1>6, <2>2, <3>1
  <2>3. CASE ~ (k < 10)
    <3>1. PICK q \in Nat, r \in Nat : q = k \div 10 /\ k = 10 * q + r /\ r < 10
      <4>1. k \in Nat
        BY <2>1
      <4> QED
        BY <4>1, DivMod
    <3>2. q # 0 /\ q < k
      BY <2>1, <2>3, <3>1
    <3>3. W(q)
      BY <2>1, <3>2
    <3>4. Width[k] = 1 + Width[q]
      BY <1>5, <2>1, <2>3, <3>1
    <3>5. PICK w \in Nat : w + 1 = Width[q]
      <4>1. Width[q] - 1 \in Nat /\ (Width[q] - 1) + 1 = Width[q]
        BY <3>3
      <4> QED
        BY <4>1
    <3>6. q < Ten[w + 1] /\ Ten[w] <= q
      BY <3>2, <3>3, <3>5
    <3>7. Ten[w] \in Nat /\ Ten[w + 1] = 10 * Ten[w] /\ Ten[(w + 1) + 1] = 10 * Ten[w + 1]
      BY Powers
    <3>8. Width[k] = (w + 1) + 1 /\ Width[k] - 1 = w + 1
      BY <3>4, <3>5
    <3>9. k < Ten[(w + 1) + 1] /\ Ten[w + 1] <= k
      BY <3>1, <3>6, <3>7
    <3> QED
      BY <2>1, <3>8, <3>9
  <2> QED
    BY <2>2, <2>3
<1>8. W(n)
  BY <1>7
<1> QED
  BY <1>5, <1>8

LEMMA TrailingZeros ==
  ASSUME NEW n \in Nat \ {0}
  PROVE  /\ Zeros(n) \in Nat
         /\ n % Ten[Zeros(n)] = 0 /\ n % Ten[Zeros(n) + 1] # 0
<1> DEFINE Z == {z \in Nat : n % Ten[z + 1] # 0}
<1>1. Width[n] \in Nat /\ n < Ten[Width[n] + 1]
  <2>1. Width[n] \in Nat /\ n < Ten[Width[n]]
    BY Widths
  <2>2. Ten[Width[n] + 1] = 10 * Ten[Width[n]] /\ Ten[Width[n]] \in Nat
    BY <2>1, Powers
  <2> QED
    BY <2>1, <2>2
<1>2. Width[n] \in Z
  <2>1. PICK t \in Nat : t = Ten[Width[n] + 1]
    <3>1. Width[n] + 1 \in Nat
      BY <1>1
    <3> QED
      BY <3>1, Powers
  <2>2. n % t = n
    BY <1>1, <2>1
  <2> QED
    BY <1>1, <2>1, <2>2
<1>3. PICK z \in Z : \A y \in Z : z <= y
  <2>1. Z \subseteq Nat /\ Z # {}
    BY <1>2
  <2> HIDE DEF Z
  <2> QED
    BY <2>1, LeastNumber
<1>4. z \in 0 .. Width[n] /\ n % Ten[z + 1] # 0
  BY <1>1, <1>2, <1>3
<1>5. n % Ten[z] = 0
  <2>1. CASE z = 0
    <3>1. Ten[z] = 1
      BY <2>1, Powers
    <3> QED
      BY <3>1
  <2>2. CASE z # 0
    <3>1. z - 1 \in Nat /\ z - 1 \notin Z /\ (z - 1) + 1 = z
      BY <1>3, <2>2
    <3> QED
      BY <3>1
  <2> QED
    BY <2>1, <2>2
<1>6. \E y \in 0 .. Width[n] : n % Ten[y] = 0 /\ n % Ten[y + 1] # 0
  BY <1>4, <1>5
<1>7. PICK y \in 0 .. Width[n] : y = Zeros(n) /\ n % Ten[y] = 0 /\ n % Ten[y + 1] # 0
  BY <1>6 DEF Zeros
<1> QED
  BY <1>7

(***************************************************************************)
(* Numbers and their order.                                                *)
(***************************************************************************)
\* A coefficient and an exponent, in any representation.
Numeral == [c : Int, e : Int]

\* In the representation with the smallest coefficient.
Normal(x) == x \in Numeral /\ ((x.c = 0 /\ x.e = 0) \/ Magnitude(x.c) % 10 # 0)

LEMMA AtShift ==
  ASSUME NEW x \in Numeral, NEW e \in Int, NEW f \in Int, f <= e, e <= x.e
  PROVE  /\ At10(x, f) = At10(x, e) * Ten[e - f]
         /\ At10(x, e) \in Int /\ At10(x, f) \in Int
<1>1. x.e - e \in Nat /\ e - f \in Nat /\ x.e - f = (x.e - e) + (e - f) /\ x.c \in Int
  BY DEF Numeral
<1>2. Ten[x.e - f] = Ten[x.e - e] * Ten[e - f]
  BY <1>1, PowerAdd
<1>3. PICK a \in Nat, b \in Nat : a = Ten[x.e - e] /\ b = Ten[e - f]
  BY <1>1, Powers
<1>4. PICK c \in Int : c = x.c
  BY <1>1
<1>5. c * (a * b) = (c * a) * b
  OBVIOUS
<1> QED
  BY <1>2, <1>3, <1>4, <1>5 DEF At10

\* The comparison is of the values, at whatever exponent they are compared.
LEMMA CompareAt ==
  ASSUME NEW x \in Numeral, NEW y \in Numeral, NEW e \in Int, e <= x.e, e <= y.e
  PROVE  /\ x \prec y <=> At10(x, e) < At10(y, e)
         /\ x \preceq y <=> At10(x, e) <= At10(y, e)
<1>1. ASSUME NEW u \in Numeral, NEW v \in Numeral, e <= u.e, e <= v.e
      PROVE  u \prec v <=> At10(u, e) < At10(v, e)
  <2>1. PICK m \in Int : m = Smaller(u.e, v.e) /\ m <= u.e /\ m <= v.e /\ e <= m
    BY <1>1 DEF Smaller, Numeral
  <2>2. /\ At10(u, e) = At10(u, m) * Ten[m - e] /\ At10(u, m) \in Int
        /\ At10(v, e) = At10(v, m) * Ten[m - e] /\ At10(v, m) \in Int
    BY <2>1, AtShift
  <2>3. PICK t \in Nat \ {0} : t = Ten[m - e]
    BY <2>1, Powers
  <2>4. PICK a \in Int, b \in Int : a = At10(u, m) /\ b = At10(v, m)
    BY <2>2
  <2>5. a * t < b * t <=> a < b
    <3>1. (b - a) * t = b * t - a * t
      OBVIOUS
    <3>2. \A k \in Int : k > 0 <=> k * t > 0
      OBVIOUS
    <3> QED
      BY <3>1, <3>2
  <2> QED
    BY <2>1, <2>2, <2>3, <2>4, <2>5 DEF \prec
<1>2. At10(x, e) \in Int /\ At10(y, e) \in Int
  BY AtShift
<1> QED
  BY <1>1, <1>2 DEF \preceq

\* An exponent below those of three numbers.
LEMMA Common ==
  ASSUME NEW x \in Numeral, NEW y \in Numeral, NEW z \in Numeral
  PROVE  \E e \in Int : e <= x.e /\ e <= y.e /\ e <= z.e
<1>1. Smaller(x.e, Smaller(y.e, z.e)) \in Int
  BY DEF Smaller, Numeral
<1>2. /\ Smaller(x.e, Smaller(y.e, z.e)) <= x.e
      /\ Smaller(x.e, Smaller(y.e, z.e)) <= y.e
      /\ Smaller(x.e, Smaller(y.e, z.e)) <= z.e
  BY DEF Smaller, Numeral
<1> QED
  BY <1>1, <1>2

\* A total preorder.
LEMMA OrderReflexive ==
  ASSUME NEW x \in Numeral
  PROVE  x \preceq x
<1>1. x.e \in Int /\ x.e <= x.e
  BY DEF Numeral
<1>2. At10(x, x.e) \in Int
  BY <1>1, AtShift
<1> QED
  BY <1>1, <1>2, CompareAt

LEMMA OrderTransitive ==
  ASSUME NEW x \in Numeral, NEW y \in Numeral, NEW z \in Numeral
  PROVE  /\ x \preceq y /\ y \preceq z => x \preceq z
         /\ x \prec y /\ y \preceq z => x \prec z
         /\ x \preceq y /\ y \prec z => x \prec z
         /\ x \prec y => x \preceq y
<1>1. PICK e \in Int : e <= x.e /\ e <= y.e /\ e <= z.e
  BY Common
<1>2. PICK a \in Int, b \in Int, c \in Int : a = At10(x, e) /\ b = At10(y, e) /\ c = At10(z, e)
  BY <1>1, AtShift
<1>3. /\ x \prec y <=> a < b
      /\ x \preceq y <=> a <= b
      /\ y \prec z <=> b < c
      /\ y \preceq z <=> b <= c
      /\ x \prec z <=> a < c
      /\ x \preceq z <=> a <= c
  BY <1>1, <1>2, CompareAt
<1> QED
  BY <1>3

\* Every value has one normal representation.
LEMMA NormalUnique ==
  ASSUME NEW x, NEW y, Normal(x), Normal(y), x \preceq y, y \preceq x
  PROVE  x = y
<1>1. ASSUME NEW u, NEW v, Normal(u), Normal(v), u \preceq v, v \preceq u, u.e <= v.e
      PROVE  u = v
  <2>1. u \in Numeral /\ v \in Numeral /\ u.c \in Int /\ v.c \in Int /\ u.e \in Int /\ v.e \in Int
    BY <1>1 DEF Normal, Numeral
  <2>2. At10(u, u.e) = At10(v, u.e)
    <3>1. At10(u, u.e) <= At10(v, u.e) /\ At10(v, u.e) <= At10(u, u.e)
      BY <1>1, <2>1, CompareAt
    <3>2. At10(u, u.e) \in Int /\ At10(v, u.e) \in Int
      BY <1>1, <2>1, AtShift
    <3> QED
      BY <3>1, <3>2
  <2>3. PICK k \in Nat : k = v.e - u.e
    BY <1>1, <2>1
  <2>4. u.c = v.c * Ten[k]
    BY <2>1, <2>2, <2>3, Powers DEF At10
  <2>5. u.e = v.e
    <3> SUFFICES ASSUME k # 0, u.e # v.e PROVE FALSE
      BY <2>1, <2>3
    <3>1. PICK t \in Nat : Ten[k] = 10 * t
      <4>1. k - 1 \in Nat /\ (k - 1) + 1 = k
        OBVIOUS
      <4> QED
        BY <4>1, Powers
    <3>2. PICK m \in Nat : Magnitude(u.c) = 10 * m
      <4>1. PICK c \in Int : c = v.c
        BY <2>1
      <4>2. u.c = 10 * (c * t)
        <5>1. c * (10 * t) = 10 * (c * t)
          OBVIOUS
        <5> QED
          BY <2>4, <3>1, <4>1, <5>1
      <4>3. PICK p \in Int : p = c * t
        OBVIOUS
      <4>4. Magnitude(u.c) = 10 * Magnitude(p) /\ Magnitude(p) \in Nat
        BY <4>2, <4>3 DEF Magnitude
      <4> QED
        BY <4>4
    <3>3. Magnitude(u.c) % 10 = 0
      BY <3>2
    <3>4. u.c = 0 /\ u.e = 0
      BY <1>1, <3>3 DEF Normal
    <3>5. v.c = 0
      <4>1. PICK c \in Int, s \in Nat \ {0} : c = v.c /\ s = Ten[k]
        BY <2>1, Powers
      <4>2. c * s = 0 => c = 0
        OBVIOUS
      <4> QED
        BY <2>4, <3>4, <4>1, <4>2
    <3>6. v.e = 0
      BY <1>1, <3>5 DEF Normal, Magnitude
    <3> QED
      BY <3>4, <3>6
  <2>6. u.c = v.c
    <3>1. k = 0
      BY <2>1, <2>3, <2>5
    <3> QED
      BY <2>1, <2>4, <3>1, Powers
  <2> QED
    BY <2>1, <2>5, <2>6 DEF Numeral
<1>2. x.e \in Int /\ y.e \in Int
  BY DEF Normal, Numeral
<1> QED
  BY <1>1, <1>2

\* Dec is the normal representation of its value.
LEMMA DecOf ==
  ASSUME NEW c \in Int, NEW e \in Int
  PROVE  /\ Normal(Dec(c, e))
         /\ \A f \in Int : f <= e /\ f <= Dec(c, e).e => At10(Dec(c, e), f) = c * Ten[e - f]
         /\ c = 0 => Dec(c, e) = [c |-> 0, e |-> 0]
         /\ c > 0 => Dec(c, e).c > 0
         /\ c < 0 => Dec(c, e).c < 0
         /\ Magnitude(Dec(c, e).c) <= Magnitude(c)
<1>1. CASE c = 0
  <2>1. Dec(c, e) = [c |-> 0, e |-> 0]
    BY <1>1 DEF Dec
  <2>2. [c |-> 0, e |-> 0] \in Numeral /\ Magnitude(0) = 0
    BY DEF Numeral, Magnitude
  <2>3. \A f \in Int : f <= e /\ f <= 0 => At10([c |-> 0, e |-> 0], f) = c * Ten[e - f]
    <3> TAKE f \in Int
    <3> HAVE f <= e /\ f <= 0
    <3>1. e - f \in Nat /\ 0 - f \in Nat
      OBVIOUS
    <3>2. Ten[e - f] \in Nat /\ Ten[0 - f] \in Nat
      BY <3>1, Powers
    <3> QED
      BY <1>1, <3>2 DEF At10
  <2> QED
    BY <1>1, <2>1, <2>2, <2>3 DEF Normal
<1>2. CASE c # 0
  <2>1. PICK n \in Nat \ {0} : n = Magnitude(c)
    BY <1>2 DEF Magnitude
  <2>2. PICK z \in Nat : z = Zeros(n) /\ n % Ten[z] = 0 /\ n % Ten[z + 1] # 0
    BY TrailingZeros
  <2>3. PICK t \in Nat \ {0} : t = Ten[z] /\ Ten[z + 1] = 10 * t
    BY Powers
  <2>4. PICK q \in Nat : q = n \div t /\ n = t * q
    <3>1. n \div t \in Nat /\ n = t * (n \div t) + (n % t) /\ n % t = 0
      BY <2>2, <2>3, DivMod
    <3> QED
      BY <3>1
  <2>5. q # 0
    BY <2>4
  <2>6. q % 10 # 0
    <3> SUFFICES ASSUME q % 10 = 0 PROVE FALSE
      OBVIOUS
    <3>1. PICK k \in Nat : q = 10 * k
      <4>1. q = 10 * (q \div 10) + (q % 10) /\ q \div 10 \in Nat
        BY DivMod
      <4> QED
        BY <4>1
    <3>2. PICK u \in Nat \ {0} : u = Ten[z + 1] /\ u = 10 * t
      BY <2>3
    <3>3. n = u * k + 0
      <4>1. t * (10 * k) = (10 * t) * k
        OBVIOUS
      <4> QED
        BY <2>4, <3>1, <3>2, <4>1
    <3>4. (u * k + 0) % u = 0
      <4>1. 0 \in Nat /\ 0 < u
        OBVIOUS
      <4> QED
        BY <4>1, DivUnique
    <3> QED
      BY <2>2, <3>2, <3>3, <3>4
  <2>7. PICK s \in {-1, 1} : s = (IF c < 0 THEN -1 ELSE 1) /\ c = s * n
    BY <2>1 DEF Magnitude
  <2>8. Dec(c, e) = [c |-> s * q, e |-> e + z]
    <3>1. Zeros(Magnitude(c)) = z /\ Magnitude(c) \div Ten[z] = q
      BY <2>1, <2>2, <2>3, <2>4
    <3> QED
      BY <1>2, <2>7, <3>1, Zenon DEF Dec
  <2>9. s * q \in Int /\ Magnitude(s * q) = q /\ (c > 0 => s * q > 0) /\ (c < 0 => s * q < 0)
    BY <2>5, <2>7 DEF Magnitude
  <2>10. Normal(Dec(c, e))
    BY <2>6, <2>8, <2>9 DEF Normal, Numeral
  <2>11. ASSUME NEW f \in Int, f <= e, f <= e + z PROVE (s * q) * Ten[(e + z) - f] = c * Ten[e - f]
    <3>1. e - f \in Nat /\ (e + z) - f = z + (e - f)
      BY <2>11
    <3>2. Ten[(e + z) - f] = Ten[z] * Ten[e - f]
      BY <3>1, PowerAdd
    <3>3. PICK v \in Nat : v = Ten[e - f]
      BY <3>1, Powers
    <3>4. (s * q) * (t * v) = (s * (t * q)) * v
      BY <2>7
    <3> QED
      BY <2>3, <2>4, <2>7, <3>2, <3>3, <3>4
  <2>12. q <= n
    BY <2>4
  <2> QED
    BY <1>2, <2>1, <2>8, <2>9, <2>10, <2>11, <2>12 DEF At10
<1> QED
  BY <1>1, <1>2

\* Dec neither gains nor loses: it compares like the number it was made from.
LEMMA DecSame ==
  ASSUME NEW c \in Int, NEW e \in Int
  PROVE  /\ Dec(c, e) \in Numeral /\ [c |-> c, e |-> e] \in Numeral
         /\ Dec(c, e) \preceq [c |-> c, e |-> e]
         /\ [c |-> c, e |-> e] \preceq Dec(c, e)
<1>1. Dec(c, e) \in Numeral /\ [c |-> c, e |-> e] \in Numeral
  BY DecOf DEF Numeral, Normal
<1>2. PICK f \in Int : f <= e /\ f <= Dec(c, e).e
  <2>1. PICK f \in Int : f <= [c |-> c, e |-> e].e /\ f <= Dec(c, e).e
    BY <1>1, Common
  <2> QED
    BY <2>1
<1>3. At10(Dec(c, e), f) = c * Ten[e - f] /\ At10([c |-> c, e |-> e], f) = c * Ten[e - f]
  BY <1>2, DecOf DEF At10
<1>4. At10(Dec(c, e), f) \in Int
  <2>1. Dec(c, e).e \in Int
    BY <1>1 DEF Numeral
  <2> QED
    BY <1>1, <1>2, AtShift
<1> QED
  BY <1>1, <1>2, <1>3, <1>4, CompareAt

LEMMA NormalFixed ==
  ASSUME NEW x, Normal(x)
  PROVE  Dec(x.c, x.e) = x
<1>1. x \in Numeral /\ x.c \in Int /\ x.e \in Int /\ [c |-> x.c, e |-> x.e] = x
  BY DEF Normal, Numeral
<1>2. Dec(x.c, x.e) \preceq x /\ x \preceq Dec(x.c, x.e)
  BY <1>1, DecSame
<1> QED
  BY <1>1, <1>2, DecOf, NormalUnique

(***************************************************************************)
(* Rounding.                                                               *)
(***************************************************************************)
\* Half to even never reverses an order: n / d <= m / k.
LEMMA HalfEvenOrder ==
  ASSUME NEW n \in Nat, NEW d \in Nat \ {0}, NEW m \in Nat, NEW k \in Nat \ {0}, n * k <= m * d
  PROVE  HalfEven(n, d) <= HalfEven(m, k)
<1>1. PICK q \in Nat, r \in Nat : q = n \div d /\ r = n % d /\ r < d /\ n = d * q + r
  BY DivMod
<1>2. PICK p \in Nat, s \in Nat : p = m \div k /\ s = m % k /\ s < k /\ m = k * p + s
  BY DivMod
<1>3. (d * q + r) * k <= (k * p + s) * d
  BY <1>1, <1>2
<1>4. (d * k) * q + r * k <= (d * k) * p + s * d
  <2>1. (d * q + r) * k = (d * k) * q + r * k
    OBVIOUS
  <2>2. (k * p + s) * d = (d * k) * p + s * d
    OBVIOUS
  <2> QED
    BY <1>3, <2>1, <2>2
<1>5. s * d < k * d
  <2>1. \A x \in Nat : x < k => x * d < k * d
    <3>1. \A x \in Int : x > 0 => x * d > 0
      OBVIOUS
    <3>2. \A x \in Int : (k - x) * d = k * d - x * d
      OBVIOUS
    <3> QED
      BY <3>1, <3>2
  <2> QED
    BY <1>2, <2>1
<1>6. PICK dk \in Nat \ {0} : dk = d * k /\ dk = k * d
  OBVIOUS
<1>7. PICK rk \in Nat, sd \in Nat : rk = r * k /\ sd = s * d
  OBVIOUS
<1>8. q <= p
  <2> SUFFICES ASSUME p < q PROVE FALSE
    OBVIOUS
  <2>1. PICK j \in Nat : q = p + 1 + j
    <3>1. q - p - 1 \in Nat /\ q = p + 1 + (q - p - 1)
      OBVIOUS
    <3> QED
      BY <3>1
  <2>2. dk * q = dk * p + dk + dk * j /\ dk * j >= 0
    BY <2>1
  <2> QED
    BY <1>4, <1>5, <1>6, <1>7, <2>2
<1>9. HalfEven(n, d) \in {q, q + 1} /\ HalfEven(m, k) \in {p, p + 1}
  BY <1>1, <1>2 DEF HalfEven
<1>10. CASE q < p
  BY <1>9, <1>10
<1>11. CASE q = p
  <2>1. rk <= sd
    BY <1>4, <1>6, <1>7, <1>11
  <2>2. 2 * r > d => 2 * s > k
    <3> SUFFICES ASSUME 2 * r > d, 2 * s <= k PROVE FALSE
      OBVIOUS
    <3>1. (2 * r) * k > dk
      <4>1. PICK j \in Nat : 2 * r = d + 1 + j
        <5>1. 2 * r - d - 1 \in Nat /\ 2 * r = d + 1 + (2 * r - d - 1)
          OBVIOUS
        <5> QED
          BY <5>1
      <4>2. (d + 1 + j) * k = d * k + k + j * k /\ j * k >= 0
        OBVIOUS
      <4> QED
        BY <1>6, <4>1, <4>2
    <3>2. (2 * s) * d <= dk
      <4>1. PICK j \in Nat : k = 2 * s + j
        <5>1. k - 2 * s \in Nat /\ k = 2 * s + (k - 2 * s)
          OBVIOUS
        <5> QED
          BY <5>1
      <4>2. (2 * s + j) * d = (2 * s) * d + j * d /\ j * d >= 0
        OBVIOUS
      <4> QED
        BY <1>6, <4>1, <4>2
    <3>3. (2 * r) * k = 2 * rk /\ (2 * s) * d = 2 * sd
      BY <1>7
    <3> QED
      BY <2>1, <3>1, <3>2, <3>3
  <2>3. 2 * r = d => 2 * s >= k
    <3> SUFFICES ASSUME 2 * r = d, 2 * s < k PROVE FALSE
      OBVIOUS
    <3>1. 2 * rk = dk
      <4>1. (2 * r) * k = 2 * (r * k)
        OBVIOUS
      <4> QED
        BY <1>6, <1>7, <4>1
    <3>2. 2 * sd < dk
      <4>1. PICK j \in Nat : k = 2 * s + 1 + j
        <5>1. k - 2 * s - 1 \in Nat /\ k = 2 * s + 1 + (k - 2 * s - 1)
          OBVIOUS
        <5> QED
          BY <5>1
      <4>2. (2 * s + 1 + j) * d = 2 * (s * d) + d + j * d /\ j * d >= 0
        OBVIOUS
      <4> QED
        BY <1>6, <1>7, <4>1, <4>2
    <3> QED
      BY <2>1, <3>1, <3>2
  <2> QED
    BY <1>1, <1>2, <1>11, <2>2, <2>3 DEF HalfEven
<1> QED
  BY <1>8, <1>10, <1>11

\* A whole number stays, and what is within half of an even one becomes it.
LEMMA HalfEvenWhole ==
  ASSUME NEW n \in Nat
  PROVE  HalfEven(n, 1) = n
<1>1. n \div 1 = n /\ n % 1 = 0
  OBVIOUS
<1> QED
  BY <1>1 DEF HalfEven

LEMMA Cancel ==
  ASSUME NEW a \in Int, NEW b \in Int, NEW t \in Nat \ {0}
  PROVE  a * t <= b * t <=> a <= b
<1>1. (b - a) * t = b * t - a * t
  OBVIOUS
<1>2. \A x \in Int : x >= 0 <=> x * t >= 0
  OBVIOUS
<1> QED
  BY <1>1, <1>2

LEMMA TimesOrder ==
  ASSUME NEW a \in Nat, NEW b \in Nat, NEW s \in Nat, NEW t \in Nat, a <= b, s <= t
  PROVE  a * s <= b * t
<1>1. PICK i \in Nat, j \in Nat : b = a + i /\ t = s + j
  <2>1. b - a \in Nat /\ t - s \in Nat /\ b = a + (b - a) /\ t = s + (t - s)
    OBVIOUS
  <2> QED
    BY <2>1
<1>2. (a + i) * (s + j) = a * s + a * j + i * s + i * j
  OBVIOUS
<1>3. a * j \in Nat /\ i * s \in Nat /\ i * j \in Nat /\ a * s \in Nat
  OBVIOUS
<1> QED
  BY <1>1, <1>2, <1>3

\* How many digits the rounding removes, and the coefficient it keeps.
Excess(n, d) == IF Width[n \div d] > Digits THEN Width[n \div d] - Digits ELSE 0
KeptDigits(n, d) == HalfEven(n, d * Ten[Excess(n, d)])

\* What Rounded is given: a whole number, or a quotient with more digits than are kept.
Precise(n, d) ==
  n \in Nat /\ d \in Nat \ {0} /\ (d = 1 \/ n = 0 \/ Width[n \div d] > Digits)

LEMMA RoundedParts ==
  ASSUME NEW n \in Nat, NEW d \in Nat \ {0}, NEW e \in Int, NEW s \in {-1, 1}
  PROVE  Excess(n, d) \in Nat /\ Rounded(s, n, d, e) = Dec(s * KeptDigits(n, d), e + Excess(n, d))
<1>1. n \div d \in Nat
  BY DivMod
<1>2. PICK w \in Nat : w = Width[n \div d]
  BY <1>1, Widths
<1>3. Digits \in Nat
  BY DigitsAssumption
<1>4. CASE w > Digits
  <2>1. Excess(n, d) = w - Digits /\ w - Digits > 0 /\ w - Digits \in Nat
    BY <1>2, <1>3, <1>4 DEF Excess
  <2> QED
    BY <1>2, <2>1 DEF Rounded, KeptDigits
<1>5. CASE ~ (w > Digits)
  <2>1. Excess(n, d) = 0 /\ ~ (w - Digits > 0) /\ Ten[0] = 1 /\ e + 0 = e
    BY <1>2, <1>3, <1>5, Powers DEF Excess
  <2> QED
    BY <1>2, <2>1 DEF Rounded, KeptDigits
<1> QED
  BY <1>4, <1>5

LEMMA HalfEvenType ==
  ASSUME NEW n \in Nat, NEW d \in Nat \ {0}
  PROVE  HalfEven(n, d) \in Nat
<1>1. n \div d \in Nat
  BY DivMod
<1> QED
  BY <1>1 DEF HalfEven

\* The size of what is kept.
LEMMA KeptRange ==
  ASSUME NEW n, NEW d, Precise(n, d)
  PROVE  /\ Excess(n, d) \in Nat /\ KeptDigits(n, d) \in Nat
         /\ KeptDigits(n, d) <= Ten[Digits]
         /\ Excess(n, d) = 0 => n = d * KeptDigits(n, d)
         /\ n = 0 => KeptDigits(n, d) = 0
         /\ n # 0 => \E w \in Nat \ {0} :
              /\ w > Excess(n, d)
              /\ Excess(n, d) = IF w > Digits THEN w - Digits ELSE 0
              /\ d * Ten[w - 1] <= n /\ n < d * Ten[w]
              /\ Ten[w - 1 - Excess(n, d)] <= KeptDigits(n, d)
              /\ KeptDigits(n, d) <= Ten[w - Excess(n, d)]
<1>1. n \in Nat /\ d \in Nat \ {0}
  BY DEF Precise
<1>2. PICK v \in Nat, r \in Nat : v = n \div d /\ r = n % d /\ n = d * v + r /\ r < d
  BY <1>1, DivMod
<1>3. PICK w \in Nat \ {0} : /\ w = Width[v] /\ v < Ten[w]
                             /\ v # 0 => Ten[w - 1] <= v
                             /\ v = 0 => w = 1
  BY Widths
<1>4. PICK D \in Nat \ {0} : D = Digits
  BY DigitsAssumption
<1> DEFINE many == Width[n \div d] > Digits
<1>18. many <=> w > D
  <2>1. Width[n \div d] = w
    BY <1>2, <1>3, Zenon
  <2> QED
    BY <1>4, <2>1
<1>5. PICK x \in Nat : x = Excess(n, d) /\ x = (IF w > D THEN w - D ELSE 0) /\ x < w
  <2>1. Width[n \div d] = w
    BY <1>2, <1>3, Zenon
  <2>2. Excess(n, d) = IF w > D THEN w - D ELSE 0
    BY <1>4, <2>1, Zenon DEF Excess
  <2>3. PICK x : x = IF w > D THEN w - D ELSE 0
    OBVIOUS
  <2>4. x \in Nat /\ x < w
    BY <2>3
  <2> QED
    BY <2>2, <2>3, <2>4
<1>6. PICK t \in Nat \ {0} : t = Ten[x]
  BY Powers
<1>7. d * t \in Nat \ {0} /\ KeptDigits(n, d) = HalfEven(n, d * t)
  BY <1>1, <1>5, <1>6 DEF KeptDigits
<1>8. KeptDigits(n, d) \in Nat
  BY <1>1, <1>7, HalfEvenType
<1>9. ASSUME NEW K \in Nat
      PROVE  /\ n <= K * (d * t) => KeptDigits(n, d) <= K
             /\ K * (d * t) <= n => K <= KeptDigits(n, d)
  <2>1. HalfEven(K, 1) = K /\ n * 1 = n
    BY <1>1, HalfEvenWhole
  <2>2. n <= K * (d * t) => HalfEven(n, d * t) <= HalfEven(K, 1)
    BY <1>1, <1>7, <2>1, HalfEvenOrder
  <2>3. K * (d * t) <= n => HalfEven(K, 1) <= HalfEven(n, d * t)
    BY <1>1, <1>7, <2>1, HalfEvenOrder
  <2> QED
    BY <1>7, <2>1, <2>2, <2>3
<1>10. n < d * Ten[w]
  <2>1. PICK p \in Nat : p = Ten[w]
    BY Powers
  <2>2. d * (v + 1) <= d * p
    BY <1>1, <1>3, <2>1, TimesOrder
  <2>3. d * (v + 1) = d * v + d
    BY <1>1
  <2> QED
    BY <1>1, <1>2, <2>1, <2>2, <2>3
<1>11. w - x \in Nat /\ Ten[w] = Ten[w - x] * t
  <2>1. w - x \in Nat /\ (w - x) + x = w
    BY <1>5
  <2> QED
    BY <1>6, <2>1, PowerAdd
<1>12. KeptDigits(n, d) <= Ten[w - x]
  <2>1. PICK K \in Nat : K = Ten[w - x]
    BY <1>11, Powers
  <2>2. K * (d * t) = d * (K * t)
    BY <1>1
  <2> QED
    BY <1>1, <1>9, <1>10, <1>11, <2>1, <2>2
<1>13. KeptDigits(n, d) <= Ten[Digits]
  <2>1. w - x <= D
    BY <1>5
  <2>2. Ten[w - x] <= Ten[D] /\ Ten[w - x] \in Nat /\ Ten[D] \in Nat
    BY <1>11, <2>1, PowerOrder, Powers
  <2> QED
    BY <1>4, <1>8, <1>12, <2>2
<1>14. x = 0 => n = d * KeptDigits(n, d)
  <2> SUFFICES ASSUME x = 0 PROVE n = d * KeptDigits(n, d)
    OBVIOUS
  <2>1. t = 1 /\ d * t = d /\ KeptDigits(n, d) = HalfEven(n, d)
    BY <1>1, <1>6, <1>7, Powers
  <2>2. CASE d = 1
    BY <1>1, <2>1, <2>2, HalfEvenWhole
  <2>3. CASE n = 0
    <3>1. KeptDigits(n, d) <= 0
      BY <1>9, <2>3, <1>1
    <3> QED
      BY <1>1, <1>8, <2>3, <3>1
  <2>4. CASE many
    <3>1. w > D
      BY <1>18, <2>4
    <3> QED
      BY <1>5, <3>1
  <2> QED
    BY <2>2, <2>3, <2>4 DEF Precise
<1>15. n = 0 => KeptDigits(n, d) = 0
  <2>1. n = 0 => n <= 0 * (d * t)
    BY <1>7
  <2> QED
    BY <1>8, <1>9, <2>1
<1>16. n # 0 => v # 0
  <2> SUFFICES ASSUME n # 0, v = 0 PROVE FALSE
    OBVIOUS
  <2>1. w = 1 /\ ~ (w > D)
    BY <1>3, <1>4
  <2>2. d = 1
    BY <1>2, <1>3, <1>4, <2>1 DEF Precise
  <2> QED
    BY <1>2, <2>2
<1>17. ASSUME n # 0 PROVE d * Ten[w - 1] <= n /\ Ten[w - 1 - x] <= KeptDigits(n, d)
  <2>1. w - 1 \in Nat /\ w - 1 - x \in Nat /\ (w - 1 - x) + x = w - 1
    BY <1>5
  <2>2. Ten[w - 1] = Ten[w - 1 - x] * t
    BY <1>6, <2>1, PowerAdd
  <2>3. PICK K \in Nat, p \in Nat : K = Ten[w - 1 - x] /\ p = Ten[w - 1] /\ p = K * t
    BY <2>1, <2>2, Powers
  <2>4. d * p <= n
    <3>1. p <= v
      BY <1>3, <1>16, <1>17, <2>3
    <3>2. d * p <= d * v
      BY <1>1, <3>1, TimesOrder
    <3> QED
      BY <1>1, <1>2, <3>2
  <2>5. K * (d * t) = d * (K * t)
    BY <1>1
  <2> QED
    BY <1>9, <2>3, <2>4, <2>5
<1> QED
  BY <1>4, <1>5, <1>8, <1>10, <1>12, <1>13, <1>14, <1>15, <1>17

LEMMA PowerSum ==
  ASSUME NEW p \in Nat, NEW q \in Nat, NEW r \in Nat, r = p + q
  PROVE  /\ Ten[r] = Ten[p] * Ten[q]
         /\ Ten[p] \in Nat \ {0} /\ Ten[q] \in Nat \ {0} /\ Ten[r] \in Nat \ {0}
BY PowerAdd, Powers

\* Rounding never reverses an order, wherever the two values are cut: n / d * 10^e is at most
\* m / k * 10^g.
LEMMA KeptOrder ==
  ASSUME NEW n, NEW d, Precise(n, d), NEW e \in Int,
         NEW m, NEW k, Precise(m, k), NEW g \in Int,
         [c |-> n * k, e |-> e] \preceq [c |-> m * d, e |-> g]
  PROVE  [c |-> KeptDigits(n, d), e |-> e + Excess(n, d)] \preceq [c |-> KeptDigits(m, k), e |-> g + Excess(m, k)]
<1>1. n \in Nat /\ d \in Nat \ {0} /\ m \in Nat /\ k \in Nat \ {0}
  BY DEF Precise
<1>2. PICK x \in Nat, H \in Nat : x = Excess(n, d) /\ H = KeptDigits(n, d)
  BY KeptRange
<1>3. PICK y \in Nat, J \in Nat : y = Excess(m, k) /\ J = KeptDigits(m, k)
  BY KeptRange
<1>4. PICK f \in Int : f <= e - x - y /\ f <= g - x - y /\ f <= e /\ f <= g /\ f <= e + x /\ f <= g + y
  <2>1. PICK l \in Int : l <= e /\ l <= g
    <3>1. e <= g \/ g <= e
      OBVIOUS
    <3> QED
      BY <3>1
  <2>2. PICK f \in Int : f = l - x - y
    OBVIOUS
  <2>3. f <= e - x - y /\ f <= g - x - y /\ f <= e /\ f <= g /\ f <= e + x /\ f <= g + y
    BY <2>1, <2>2
  <2> QED
    BY <2>3
<1>5. [c |-> n * k, e |-> e] \in Numeral /\ [c |-> m * d, e |-> g] \in Numeral
      /\ [c |-> H, e |-> e + x] \in Numeral /\ [c |-> J, e |-> g + y] \in Numeral
  BY <1>1 DEF Numeral
<1>6. (n * k) * Ten[e - f] <= (m * d) * Ten[g - f]
  BY <1>1, <1>4, <1>5, CompareAt DEF At10
<1> SUFFICES H * Ten[(e + x) - f] <= J * Ten[(g + y) - f]
  BY <1>2, <1>3, <1>4, <1>5, CompareAt DEF At10
<1>7. PICK E \in Nat \ {0}, G \in Nat \ {0} : E = Ten[e - f] /\ G = Ten[g - f]
  <2>1. e - f \in Nat /\ g - f \in Nat
    BY <1>4
  <2> QED
    BY <2>1, Powers
<1>8. PICK X \in Nat \ {0}, Y \in Nat \ {0} : X = Ten[(e + x) - f] /\ Y = Ten[(g + y) - f]
  <2>1. (e + x) - f \in Nat /\ (g + y) - f \in Nat
    BY <1>4
  <2> QED
    BY <2>1, Powers
<1>9. CASE n = 0
  <2>1. H = 0
    BY <1>2, <1>9, KeptRange
  <2>2. J * Y \in Nat /\ 0 * X = 0
    OBVIOUS
  <2> QED
    BY <1>8, <2>1, <2>2
<1>10. CASE n # 0 /\ m = 0
  <2>1. (n * k) * E > 0
    <3>1. n * k > 0
      BY <1>1, <1>10
    <3>2. PICK z \in Nat : z = n * k
      BY <1>1
    <3> QED
      BY <3>1, <3>2
  <2>2. (m * d) * G = 0
    BY <1>1, <1>10
  <2>3. (n * k) * E <= (m * d) * G
    BY <1>6, <1>7
  <2>4. PICK z \in Int : z = (n * k) * E
    BY <1>1
  <2> QED
    BY <2>1, <2>2, <2>3, <2>4
<1>11. CASE n # 0 /\ m # 0
  <2>1. PICK w \in Nat \ {0} :
              /\ w > x /\ x = (IF w > Digits THEN w - Digits ELSE 0)
              /\ d * Ten[w - 1] <= n /\ n < d * Ten[w]
              /\ Ten[w - 1 - x] <= H /\ H <= Ten[w - x]
    BY <1>2, <1>11, KeptRange
  <2>2. PICK v \in Nat \ {0} :
              /\ v > y /\ y = (IF v > Digits THEN v - Digits ELSE 0)
              /\ k * Ten[v - 1] <= m /\ m < k * Ten[v]
              /\ Ten[v - 1 - y] <= J /\ J <= Ten[v - y]
    BY <1>3, <1>11, KeptRange
  <2>3. x = 0 => n = d * H
    BY <1>2, KeptRange
  <2>4. y = 0 => m = k * J
    BY <1>3, KeptRange
  <2>5. CASE w + e < v + g
    <3>1. H * X <= Ten[w - x] * X /\ Ten[w - x] * X = Ten[(w + e) - f]
      <4>1. w - x \in Nat /\ (e + x) - f \in Nat /\ (w + e) - f \in Nat
            /\ (w + e) - f = (w - x) + ((e + x) - f)
        BY <1>4, <2>1
      <4>2. Ten[(w + e) - f] = Ten[w - x] * X /\ Ten[w - x] \in Nat
        <5>1. Ten[(w + e) - f] = Ten[w - x] * Ten[(e + x) - f] /\ Ten[w - x] \in Nat
          BY <4>1, PowerSum
        <5> QED
          BY <1>8, <5>1
      <4> QED
        BY <2>1, <4>2, TimesOrder
    <3>2. Ten[v - 1 - y] * Y <= J * Y /\ Ten[v - 1 - y] * Y = Ten[(v - 1 + g) - f]
      <4>1. v - 1 - y \in Nat /\ (g + y) - f \in Nat /\ (v - 1 + g) - f \in Nat
            /\ (v - 1 + g) - f = (v - 1 - y) + ((g + y) - f)
        BY <1>4, <2>2
      <4>2. Ten[(v - 1 + g) - f] = Ten[v - 1 - y] * Y /\ Ten[v - 1 - y] \in Nat
        <5>1. Ten[(v - 1 + g) - f] = Ten[v - 1 - y] * Ten[(g + y) - f] /\ Ten[v - 1 - y] \in Nat
          BY <4>1, PowerSum
        <5> QED
          BY <1>8, <5>1
      <4> QED
        BY <2>2, <4>2, TimesOrder
    <3>3. Ten[(w + e) - f] <= Ten[(v - 1 + g) - f]
      <4>1. (w + e) - f \in Nat /\ (v - 1 + g) - f \in Nat /\ (w + e) - f <= (v - 1 + g) - f
        BY <1>4, <2>1, <2>5
      <4> QED
        BY <4>1, PowerOrder
    <3>4. Ten[(w + e) - f] \in Nat /\ Ten[(v - 1 + g) - f] \in Nat
      <4>1. (w + e) - f \in Nat /\ (v - 1 + g) - f \in Nat
        BY <1>4, <2>1, <2>5
      <4> QED
        BY <4>1, Powers
    <3>5. H * X \in Nat /\ J * Y \in Nat
      OBVIOUS
    <3> QED
      BY <1>8, <3>1, <3>2, <3>3, <3>4, <3>5
  <2>6. CASE v + g < w + e
    <3>1. PICK p \in Nat \ {0}, q \in Nat \ {0} : p = Ten[w - 1] /\ q = Ten[v]
      <4>1. w - 1 \in Nat /\ v \in Nat
        OBVIOUS
      <4> QED
        BY <4>1, Powers
    <3>2. Ten[v] * G <= Ten[w - 1] * E
      <4>1. /\ v \in Nat /\ g - f \in Nat /\ (v + g) - f \in Nat /\ (v + g) - f = v + (g - f)
            /\ w - 1 \in Nat /\ e - f \in Nat /\ (w - 1 + e) - f \in Nat
            /\ (w - 1 + e) - f = (w - 1) + (e - f)
        BY <1>4
      <4>2. Ten[(v + g) - f] = Ten[v] * G /\ Ten[(w - 1 + e) - f] = Ten[w - 1] * E
        <5>1. Ten[(v + g) - f] = Ten[v] * Ten[g - f]
          BY <4>1, PowerSum
        <5>2. Ten[(w - 1 + e) - f] = Ten[w - 1] * Ten[e - f]
          BY <4>1, PowerSum
        <5> QED
          BY <1>7, <5>1, <5>2
      <4>3. (v + g) - f \in Nat /\ (w - 1 + e) - f \in Nat /\ (v + g) - f <= (w - 1 + e) - f
        BY <2>6, <4>1
      <4> QED
        BY <4>2, <4>3, PowerOrder
    <3>3. (m * d) * G < ((k * q) * d) * G
      <4>1. PICK i \in Nat : k * q = m + 1 + i
        <5>1. (k * q) - m - 1 \in Nat /\ k * q = m + 1 + ((k * q) - m - 1)
          BY <1>1, <2>2, <3>1
        <5> QED
          BY <5>1
      <4>2. ((m + 1 + i) * d) * G = (m * d) * G + d * G + (i * d) * G
        BY <1>1
      <4>3. d * G > 0 /\ (i * d) * G >= 0
        <5>1. PICK id \in Nat : id = i * d
          BY <1>1
        <5> QED
          BY <1>1, <5>1
      <4> QED
        BY <1>1, <4>1, <4>2, <4>3
    <3>4. ((k * q) * d) * G <= ((d * p) * k) * E
      <4>1. (k * d) * (q * G) <= (k * d) * (p * E)
        <5>1. k * d \in Nat /\ q * G \in Nat /\ p * E \in Nat
          BY <1>1
        <5> QED
          BY <3>1, <3>2, <5>1, TimesOrder
      <4>2. ((k * q) * d) * G = (k * d) * (q * G) /\ ((d * p) * k) * E = (k * d) * (p * E)
        BY <1>1
      <4> QED
        BY <4>1, <4>2
    <3>5. ((d * p) * k) * E <= (n * k) * E
      <4>1. d * p \in Nat /\ (d * p) * k \in Nat /\ n * k \in Nat
        BY <1>1
      <4>2. (d * p) * k <= n * k
        BY <1>1, <2>1, <3>1, <4>1, TimesOrder
      <4> QED
        BY <4>1, <4>2, TimesOrder
    <3>6. (m * d) * G \in Nat /\ ((k * q) * d) * G \in Nat /\ ((d * p) * k) * E \in Nat /\ (n * k) * E \in Nat
      <4>1. m * d \in Nat /\ (k * q) * d \in Nat /\ (d * p) * k \in Nat /\ n * k \in Nat
        BY <1>1
      <4> QED
        BY <4>1
    <3> QED
      BY <1>6, <1>7, <3>3, <3>4, <3>5, <3>6
  <2>7. CASE w + e = v + g
    <3>1. PICK u \in Int : u = w + e - Digits
      BY DigitsAssumption
    <3>2. PICK xx \in Nat \ {0}, yy \in Nat \ {0} : xx = Ten[x] /\ yy = Ten[y]
      BY Powers
    \* Both are cut at the same place.
    <3>3. CASE x > 0 /\ y > 0
      <4>1. e + x = u /\ g + y = u
        BY <2>1, <2>2, <2>7, <3>1, <3>3, DigitsAssumption
      <4>2. PICK z \in Nat \ {0} : z = Ten[(e - y) - f] /\ (e - y) - f = (g - x) - f
        <5>1. (e - y) - f \in Nat /\ (e - y) - f = (g - x) - f
          BY <1>4, <4>1
        <5> QED
          BY <5>1, Powers
      <4>3. E = yy * z
        <5>1. y \in Nat /\ (e - y) - f \in Nat /\ e - f \in Nat /\ e - f = y + ((e - y) - f)
          BY <1>4, <4>2
        <5> QED
          BY <1>7, <3>2, <4>2, <5>1, PowerSum
      <4>4. G = xx * z
        <5>1. x \in Nat /\ (e - y) - f \in Nat /\ g - f \in Nat /\ g - f = x + ((e - y) - f)
          BY <1>4, <4>2
        <5>2. Ten[g - f] = Ten[x] * Ten[(e - y) - f]
          <6>1. PICK i \in Nat, j \in Nat, l \in Nat :
                  i = x /\ j = (e - y) - f /\ l = g - f /\ l = i + j
            BY <5>1
          <6>2. l = i + j
            BY <6>1
          <6>3. Ten[l] = Ten[i] * Ten[j] /\ Ten[i] \in Nat \ {0}
            BY <6>2, PowerSum
          <6> QED
            BY <6>1, <6>3
        <5> QED
          BY <1>7, <3>2, <4>2, <5>2
      <4>5. n * (k * yy) <= m * (d * xx)
        <5>1. (n * k) * (yy * z) = (n * (k * yy)) * z /\ (m * d) * (xx * z) = (m * (d * xx)) * z
          BY <1>1
        <5>2. n * (k * yy) \in Int /\ m * (d * xx) \in Int
          BY <1>1
        <5> QED
          BY <1>6, <1>7, <4>3, <4>4, <5>1, <5>2, Cancel
      <4>6. H <= J
        <5>1. d * xx \in Nat \ {0} /\ k * yy \in Nat \ {0}
          BY <1>1
        <5>2. HalfEven(n, d * xx) <= HalfEven(m, k * yy)
          BY <1>1, <4>5, <5>1, HalfEvenOrder
        <5> QED
          BY <1>2, <1>3, <3>2, <5>2 DEF KeptDigits
      <4>7. X = Y
        BY <1>8, <4>1
      <4> QED
        BY <1>8, <4>6, <4>7, TimesOrder
    \* Both are exact.
    <3>4. CASE x = 0 /\ y = 0
      <4>1. n = d * H /\ m = k * J /\ E = X /\ G = Y
        BY <1>7, <1>8, <2>3, <2>4, <3>4
      <4>2. (n * k) * E = (H * X) * (d * k) /\ (m * d) * G = (J * Y) * (d * k)
        BY <1>1, <4>1
      <4>3. H * X \in Int /\ J * Y \in Int /\ d * k \in Nat \ {0}
        BY <1>1
      <4> QED
        BY <1>6, <1>7, <1>8, <4>2, <4>3, Cancel
    \* Only the larger one is cut.
    <3>5. CASE x = 0 /\ y > 0
      <4>1. g + y = u /\ e >= u
        BY <2>1, <2>2, <2>7, <3>1, <3>5, DigitsAssumption
      <4>2. PICK z \in Nat \ {0} : z = Ten[e - u] /\ X = z * Y
        <5>1. e - u \in Nat /\ (g + y) - f \in Nat /\ (e + x) - f \in Nat
              /\ (e + x) - f = (e - u) + ((g + y) - f)
          BY <1>4, <3>5, <4>1
        <5>2. Ten[(e + x) - f] = Ten[e - u] * Ten[(g + y) - f] /\ Ten[e - u] \in Nat \ {0}
          <6>1. PICK i \in Nat, j \in Nat, l \in Nat :
                  i = e - u /\ j = (g + y) - f /\ l = (e + x) - f /\ l = i + j
            BY <5>1
          <6>2. l = i + j
            BY <6>1
          <6>3. Ten[l] = Ten[i] * Ten[j] /\ Ten[i] \in Nat \ {0}
            BY <6>2, PowerSum
          <6> QED
            BY <6>1, <6>3
        <5> QED
          BY <1>8, <5>2
      <4>3. Y = yy * G
        <5>1. y \in Nat /\ g - f \in Nat /\ (g + y) - f \in Nat /\ (g + y) - f = y + (g - f)
          BY <1>4
        <5> QED
          BY <1>7, <1>8, <3>2, <5>1, PowerSum
      <4>4. n = d * H /\ E = X
        BY <1>7, <1>8, <2>3, <3>5
      <4>5. (H * z) * (k * yy) <= m * 1
        <5>1. (n * k) * E = ((H * z) * (k * yy)) * (d * G)
          BY <1>1, <4>2, <4>3, <4>4
        <5>2. (m * d) * G = m * (d * G)
          BY <1>1
        <5>3. (H * z) * (k * yy) \in Int /\ d * G \in Nat \ {0} /\ m \in Int
          BY <1>1
        <5> QED
          BY <1>1, <1>6, <1>7, <5>1, <5>2, <5>3, Cancel
      <4>6. H * z <= J
        <5>1. H * z \in Nat /\ k * yy \in Nat \ {0}
          BY <1>1
        <5>2. HalfEven(H * z, 1) <= HalfEven(m, k * yy)
          BY <1>1, <4>5, <5>1, HalfEvenOrder
        <5> QED
          BY <1>3, <3>2, <5>1, <5>2, HalfEvenWhole DEF KeptDigits
      <4>7. (H * z) * Y <= J * Y
        BY <4>6, TimesOrder
      <4>8. (H * z) * Y = H * X
        BY <4>2
      <4> QED
        BY <1>8, <4>7, <4>8
    \* Only the smaller one is cut.
    <3>6. CASE x > 0 /\ y = 0
      <4>1. e + x = u /\ g >= u
        BY <2>1, <2>2, <2>7, <3>1, <3>6, DigitsAssumption
      <4>2. PICK z \in Nat \ {0} : z = Ten[g - u] /\ Y = z * X
        <5>1. g - u \in Nat /\ (e + x) - f \in Nat /\ (g + y) - f \in Nat
              /\ (g + y) - f = (g - u) + ((e + x) - f)
          BY <1>4, <3>6, <4>1
        <5>2. Ten[(g + y) - f] = Ten[g - u] * Ten[(e + x) - f] /\ Ten[g - u] \in Nat \ {0}
          <6>1. PICK i \in Nat, j \in Nat, l \in Nat :
                  i = g - u /\ j = (e + x) - f /\ l = (g + y) - f /\ l = i + j
            BY <5>1
          <6>2. l = i + j
            BY <6>1
          <6>3. Ten[l] = Ten[i] * Ten[j] /\ Ten[i] \in Nat \ {0}
            BY <6>2, PowerSum
          <6> QED
            BY <6>1, <6>3
        <5> QED
          BY <1>8, <5>2
      <4>3. X = xx * E
        <5>1. x \in Nat /\ e - f \in Nat /\ (e + x) - f \in Nat /\ (e + x) - f = x + (e - f)
          BY <1>4
        <5> QED
          BY <1>7, <1>8, <3>2, <5>1, PowerSum
      <4>4. m = k * J /\ G = Y
        BY <1>7, <1>8, <2>4, <3>6
      <4>5. n * 1 <= (J * z) * (d * xx)
        <5>1. (m * d) * G = ((J * z) * (d * xx)) * (k * E)
          BY <1>1, <4>2, <4>3, <4>4
        <5>2. (n * k) * E = n * (k * E)
          BY <1>1
        <5>3. (J * z) * (d * xx) \in Int /\ k * E \in Nat \ {0} /\ n \in Int
          BY <1>1
        <5> QED
          BY <1>1, <1>6, <1>7, <5>1, <5>2, <5>3, Cancel
      <4>6. H <= J * z
        <5>1. J * z \in Nat /\ d * xx \in Nat \ {0}
          BY <1>1
        <5>2. HalfEven(n, d * xx) <= HalfEven(J * z, 1)
          BY <1>1, <4>5, <5>1, HalfEvenOrder
        <5> QED
          BY <1>2, <3>2, <5>1, <5>2, HalfEvenWhole DEF KeptDigits
      <4>7. H * X <= (J * z) * X
        BY <4>6, TimesOrder
      <4>8. (J * z) * X = J * Y
        BY <4>2
      <4> QED
        BY <1>8, <4>7, <4>8
    <3> QED
      BY <3>3, <3>4, <3>5, <3>6
  <2> QED
    BY <2>1, <2>2, <2>5, <2>6, <2>7
<1> QED
  BY <1>9, <1>10, <1>11

(***************************************************************************)
(* Amounts and what the operations make of them.                           *)
(***************************************************************************)
LEMMA AmountNormal ==
  ASSUME NEW x
  PROVE  Amount(x) <=> Normal(x) /\ Magnitude(x.c) < Ten[Digits]
<1>1. ASSUME Amount(x) PROVE Normal(x)
  <2>1. x.c \in Int /\ x.e \in Int
    BY <1>1 DEF Amount
  <2>2. Normal(Dec(x.c, x.e))
    BY <2>1, DecOf
  <2> QED
    BY <1>1, <2>2 DEF Amount
<1>2. ASSUME Normal(x) PROVE x \in [c : Int, e : Int] /\ x = Dec(x.c, x.e)
  <2>1. Dec(x.c, x.e) = x
    BY <1>2, NormalFixed
  <2> QED
    BY <1>2, <2>1 DEF Normal, Numeral
<1> QED
  BY <1>1, <1>2 DEF Amount

LEMMA ZeroOne ==
  /\ Zero = [c |-> 0, e |-> 0] /\ One = [c |-> 1, e |-> 0]
  /\ Amount(Zero) /\ Amount(One) /\ Zero \in Numeral /\ One \in Numeral
<1>1. Zero = [c |-> 0, e |-> 0]
  BY DEF Zero, Dec
<1> DEFINE o == [c |-> 1, e |-> 0]
<1>2. o.c = 1 /\ o.e = 0
  OBVIOUS
<1>3. Normal(o)
  BY <1>2 DEF Normal, Numeral, Magnitude
<1>4. One = o
  <2>1. Dec(o.c, o.e) = o
    BY <1>3, NormalFixed
  <2> QED
    BY <1>2, <2>1 DEF One
<1>5. Normal(Zero)
  BY <1>1 DEF Normal, Numeral
<1>6. 1 < Ten[Digits]
  <2>1. Digits \in Nat /\ 1 <= Digits
    BY DigitsAssumption
  <2> QED
    BY <2>1, PowerAbove, Powers
<1>7. Magnitude(Zero.c) = 0 /\ Magnitude(o.c) = 1
  BY <1>1, <1>2 DEF Magnitude
<1>8. Amount(Zero) /\ Amount(One)
  <2>1. Magnitude(Zero.c) < Ten[Digits] /\ Magnitude(o.c) < Ten[Digits]
    <3>1. 0 < Ten[Digits]
      BY <1>6, DigitsAssumption, Powers
    <3> QED
      BY <1>6, <1>7, <3>1
  <2>2. Amount(Zero)
    BY <1>5, <2>1, AmountNormal
  <2> HIDE DEF o
  <2>3. Amount(o)
    BY <1>3, <2>1, AmountNormal
  <2> QED
    BY <1>4, <2>2, <2>3
<1> QED
  BY <1>1, <1>2, <1>3, <1>4, <1>5, <1>8 DEF Normal

\* The sign of a number is that of its coefficient.
LEMMA SignTells ==
  ASSUME NEW x \in Numeral
  PROVE  /\ Zero \prec x <=> x.c > 0
         /\ x \prec Zero <=> x.c < 0
         /\ Zero \preceq x <=> x.c >= 0
         /\ x \preceq Zero <=> x.c <= 0
<1>1. PICK e \in Int : e <= x.e /\ e <= 0
  <2>1. x.e \in Int
    BY DEF Numeral
  <2>2. x.e <= 0 \/ 0 <= x.e
    BY <2>1
  <2> QED
    BY <2>1, <2>2
<1>2. At10(Zero, e) = 0
  <2>1. 0 - e \in Nat
    BY <1>1
  <2>2. Ten[0 - e] \in Nat
    BY <2>1, Powers
  <2> QED
    BY <2>2, ZeroOne DEF At10
<1>3. PICK c \in Int, t \in Nat \ {0} : c = x.c /\ t = Ten[x.e - e] /\ At10(x, e) = c * t
  <2>1. x.e - e \in Nat /\ x.c \in Int
    BY <1>1 DEF Numeral
  <2> QED
    BY <2>1, Powers DEF At10
<1>4. (c * t > 0 <=> c > 0) /\ (c * t < 0 <=> c < 0)
  OBVIOUS
<1>5. PICK p \in Int : p = c * t
  OBVIOUS
<1>6. /\ Zero \prec x <=> 0 < p
      /\ x \prec Zero <=> p < 0
      /\ Zero \preceq x <=> 0 <= p
      /\ x \preceq Zero <=> p <= 0
  <2>1. Zero \in Numeral /\ e <= Zero.e
    BY <1>1, ZeroOne
  <2> QED
    BY <1>1, <1>2, <1>3, <1>5, <2>1, CompareAt
<1> QED
  BY <1>3, <1>4, <1>5, <1>6

\* Every result of a rounding is an amount.
LEMMA RoundedAmount ==
  ASSUME NEW n, NEW d, Precise(n, d), NEW e \in Int, NEW s \in {-1, 1}
  PROVE  /\ Amount(Rounded(s, n, d, e))
         /\ s = 1 => Rounded(s, n, d, e).c >= 0
         /\ s = 1 /\ n # 0 => Rounded(s, n, d, e).c > 0
         /\ s = -1 /\ n # 0 => Rounded(s, n, d, e).c < 0
         /\ n = 0 => Rounded(s, n, d, e) = Zero
<1>1. n \in Nat /\ d \in Nat \ {0}
  BY DEF Precise
<1>2. PICK x \in Nat, H \in Nat : x = Excess(n, d) /\ H = KeptDigits(n, d) /\ H <= Ten[Digits]
  BY KeptRange
<1>3. Rounded(s, n, d, e) = Dec(s * H, e + x)
  BY <1>1, <1>2, RoundedParts
<1>4. PICK r : r = Dec(s * H, e + x)
  OBVIOUS
<1>5. s * H \in Int /\ e + x \in Int /\ Magnitude(s * H) = H
  BY DEF Magnitude
<1>6. /\ Normal(r) /\ Magnitude(r.c) <= H
      /\ s * H = 0 => r = [c |-> 0, e |-> 0]
      /\ s * H > 0 => r.c > 0
      /\ s * H < 0 => r.c < 0
  BY <1>4, <1>5, DecOf
<1>7. Magnitude(r.c) # Ten[Digits]
  <2>1. PICK t \in Nat : Ten[Digits] = 10 * t
    <3>1. Digits - 1 \in Nat /\ (Digits - 1) + 1 = Digits
      BY DigitsAssumption
    <3> QED
      BY <3>1, Powers
  <2>2. (10 * t) % 10 = 0 /\ Magnitude(0) = 0 /\ 10 * t = 0 => t = 0
    BY DEF Magnitude
  <2>3. Ten[Digits] # 0
    BY DigitsAssumption, Powers
  <2>4. r.c = 0 => Magnitude(r.c) = 0
    BY DEF Magnitude
  <2> QED
    BY <1>6, <2>1, <2>2, <2>3, <2>4 DEF Normal
<1>8. Magnitude(r.c) < Ten[Digits]
  <2>1. Magnitude(r.c) \in Int /\ Ten[Digits] \in Nat
    BY <1>6, DigitsAssumption, Powers DEF Normal, Numeral, Magnitude
  <2> QED
    BY <1>2, <1>6, <1>7, <2>1
<1>9. Amount(r)
  BY <1>6, <1>8, AmountNormal
<1>10. n # 0 => H # 0
  <2> SUFFICES ASSUME n # 0 PROVE H # 0
    OBVIOUS
  <2>1. PICK w \in Nat : w > x /\ Ten[w - 1 - x] <= H
    BY <1>2, KeptRange
  <2>2. w - 1 - x \in Nat
    BY <2>1
  <2> QED
    BY <2>1, <2>2, Powers
<1>11. n = 0 => H = 0
  BY <1>2, KeptRange
<1>12. s = 1 => r.c >= 0
  <2>1. s = 1 => (s * H = 0 \/ s * H > 0)
    OBVIOUS
  <2> QED
    BY <1>6, <2>1 DEF Normal, Numeral
<1>13. (s = 1 /\ n # 0 => s * H > 0) /\ (s = -1 /\ n # 0 => s * H < 0) /\ (n = 0 => s * H = 0)
  BY <1>10, <1>11
<1> QED
  BY <1>3, <1>4, <1>6, <1>9, <1>12, <1>13, ZeroOne

\* The rounded value of a number that is not negative.
Near(x) == Rounded(1, x.c, 1, x.e)

RawNat == [c : Nat, e : Int]

LEMMA NearOrder ==
  ASSUME NEW n, NEW d, Precise(n, d), NEW e \in Int,
         NEW m, NEW k, Precise(m, k), NEW g \in Int,
         [c |-> n * k, e |-> e] \preceq [c |-> m * d, e |-> g]
  PROVE  Rounded(1, n, d, e) \preceq Rounded(1, m, k, g)
<1>1. PICK x \in Nat, H \in Nat : x = Excess(n, d) /\ H = KeptDigits(n, d)
  BY KeptRange
<1>2. PICK y \in Nat, J \in Nat : y = Excess(m, k) /\ J = KeptDigits(m, k)
  BY KeptRange
<1>3. Rounded(1, n, d, e) = Dec(H, e + x) /\ Rounded(1, m, k, g) = Dec(J, g + y)
  <2>1. n \in Nat /\ d \in Nat \ {0} /\ m \in Nat /\ k \in Nat \ {0} /\ 1 * H = H /\ 1 * J = J
    BY DEF Precise
  <2> QED
    BY <1>1, <1>2, <2>1, RoundedParts
<1>4. [c |-> H, e |-> e + x] \preceq [c |-> J, e |-> g + y]
  BY <1>1, <1>2, KeptOrder
<1>5. H \in Int /\ J \in Int /\ e + x \in Int /\ g + y \in Int
  OBVIOUS
<1>6. PICK p, q, u, v : p = Dec(H, e + x) /\ q = Dec(J, g + y)
                        /\ u = [c |-> H, e |-> e + x] /\ v = [c |-> J, e |-> g + y]
  OBVIOUS
<1>7. p \in Numeral /\ u \in Numeral /\ p \preceq u /\ q \in Numeral /\ v \in Numeral /\ v \preceq q /\ u \preceq v
  BY <1>4, <1>5, <1>6, DecSame
<1>8. p \preceq v
  BY <1>7, OrderTransitive
<1> QED
  BY <1>3, <1>6, <1>7, <1>8, OrderTransitive

LEMMA Monotone ==
  ASSUME NEW x \in RawNat, NEW y \in RawNat, x \preceq y
  PROVE  Near(x) \preceq Near(y)
<1>1. Precise(x.c, 1) /\ Precise(y.c, 1) /\ x.e \in Int /\ y.e \in Int
  BY DEF RawNat, Precise
<1>2. [c |-> x.c * 1, e |-> x.e] = x /\ [c |-> y.c * 1, e |-> y.e] = y
  BY DEF RawNat
<1> QED
  BY <1>1, <1>2, NearOrder DEF Near

\* What has few enough digits is not rounded.
LEMMA NearFixed ==
  ASSUME NEW x, Amount(x), x.c >= 0
  PROVE  Near(x) = x /\ x \in RawNat
<1>1. Normal(x) /\ Magnitude(x.c) < Ten[Digits]
  BY AmountNormal
<1>2. x.c \in Nat /\ x.e \in Int /\ Magnitude(x.c) = x.c /\ x \in RawNat
  BY <1>1 DEF Normal, Numeral, RawNat, Magnitude
<1>3. PICK n \in Nat, e \in Int : n = x.c /\ e = x.e
  BY <1>2
<1>4. PICK w \in Nat \ {0} : w = Width[n] /\ (n # 0 => Ten[w - 1] <= n) /\ (n = 0 => w = 1)
  BY Widths
<1>5. w <= Digits
  <2>1. CASE n = 0
    BY <1>4, <2>1, DigitsAssumption
  <2>2. CASE n # 0
    <3> SUFFICES ASSUME Digits < w PROVE FALSE
      BY DigitsAssumption
    <3>1. Digits <= w - 1 /\ w - 1 \in Nat /\ Digits \in Nat
      BY DigitsAssumption
    <3>2. Ten[Digits] <= Ten[w - 1] /\ Ten[Digits] \in Nat /\ Ten[w - 1] \in Nat
      BY <3>1, PowerOrder, Powers
    <3> QED
      BY <1>1, <1>2, <1>3, <1>4, <2>2, <3>2
  <2> QED
    BY <2>1, <2>2
<1>6. n \div 1 = n
  OBVIOUS
<1>7. Excess(n, 1) = 0
  <2>1. ~ (Width[n \div 1] > Digits)
    BY <1>4, <1>5, <1>6, DigitsAssumption
  <2> QED
    BY <2>1 DEF Excess
<1>8. KeptDigits(n, 1) = n
  <2>1. 1 * Ten[0] = 1
    BY Powers
  <2> QED
    BY <1>7, <2>1, HalfEvenWhole DEF KeptDigits
<1>9. Rounded(1, n, 1, e) = Dec(n, e)
  <2>1. 1 * n = n /\ e + 0 = e
    OBVIOUS
  <2> QED
    BY <1>7, <1>8, <2>1, RoundedParts
<1> QED
  BY <1>1, <1>2, <1>3, <1>9, NormalFixed DEF Near

\* An amount that bounds a value bounds what the value is rounded to.
LEMMA NearBelow ==
  ASSUME NEW x \in RawNat, NEW y, Amount(y), y.c >= 0
  PROVE  /\ x \preceq y => Near(x) \preceq y
         /\ y \preceq x => y \preceq Near(x)
BY Monotone, NearFixed

LEMMA NearAmount ==
  ASSUME NEW x \in RawNat
  PROVE  /\ Amount(Near(x)) /\ Near(x).c >= 0
         /\ x.c > 0 => Near(x).c > 0
<1>1. Precise(x.c, 1) /\ x.e \in Int
  BY DEF RawNat, Precise
<1>2. x.c > 0 => x.c # 0
  BY DEF RawNat
<1> QED
  BY <1>1, <1>2, RoundedAmount DEF Near

(***************************************************************************)
(* Products.                                                               *)
(***************************************************************************)
RawTimes(x, y) == [c |-> x.c * y.c, e |-> x.e + y.e]

LEMMA RawTimesOrder ==
  ASSUME NEW x \in RawNat, NEW y \in RawNat, x \preceq y,
         NEW z \in RawNat, NEW w \in RawNat, z \preceq w
  PROVE  RawTimes(x, z) \preceq RawTimes(y, w) /\ RawTimes(x, z) \in RawNat /\ RawTimes(y, w) \in RawNat
<1>1. x \in Numeral /\ y \in Numeral /\ z \in Numeral /\ w \in Numeral
  BY DEF Numeral, RawNat
<1>2. PICK f \in Int : f <= x.e /\ f <= y.e
  BY <1>1, Common
<1>3. PICK g \in Int : g <= z.e /\ g <= w.e
  BY <1>1, Common
<1>4. ASSUME NEW u \in RawNat, NEW v \in RawNat, f <= u.e, g <= v.e
      PROVE  /\ At10(RawTimes(u, v), f + g) = At10(u, f) * At10(v, g)
             /\ RawTimes(u, v) \in RawNat /\ f + g <= RawTimes(u, v).e
             /\ At10(u, f) \in Nat /\ At10(v, g) \in Nat
  <2>1. PICK a \in Nat, b \in Nat, i \in Int, j \in Int : u.c = a /\ v.c = b /\ u.e = i /\ v.e = j
    BY DEF RawNat
  <2>2. i - f \in Nat /\ j - g \in Nat /\ (i + j) - (f + g) = (i - f) + (j - g)
    BY <1>4, <2>1
  <2>3. Ten[(i + j) - (f + g)] = Ten[i - f] * Ten[j - g]
    BY <2>2, PowerAdd
  <2>4. PICK s \in Nat, t \in Nat : s = Ten[i - f] /\ t = Ten[j - g]
    BY <2>2, Powers
  <2>5. (a * b) * (s * t) = (a * s) * (b * t) /\ a * s \in Nat /\ b * t \in Nat /\ a * b \in Nat
    OBVIOUS
  <2>6. f + g <= i + j /\ i + j \in Int
    BY <1>4, <2>1
  <2> QED
    BY <2>1, <2>3, <2>4, <2>5, <2>6 DEF At10, RawTimes, RawNat
<1>5. At10(x, f) <= At10(y, f) /\ At10(z, g) <= At10(w, g)
  BY <1>1, <1>2, <1>3, CompareAt
<1>6. At10(RawTimes(x, z), f + g) <= At10(RawTimes(y, w), f + g)
  BY <1>2, <1>3, <1>4, <1>5, TimesOrder
<1>7. /\ RawTimes(x, z) \in RawNat /\ f + g <= RawTimes(x, z).e
      /\ RawTimes(y, w) \in RawNat /\ f + g <= RawTimes(y, w).e
  BY <1>2, <1>3, <1>4
<1>8. RawTimes(x, z) \in Numeral /\ RawTimes(y, w) \in Numeral /\ f + g \in Int
  BY <1>7 DEF RawNat, Numeral
<1> QED
  BY <1>6, <1>7, <1>8, CompareAt

LEMMA ProductNear ==
  ASSUME NEW x \in RawNat, NEW y \in RawNat
  PROVE  Product(x, y) = Near(RawTimes(x, y)) /\ RawTimes(x, y) \in RawNat
<1>1. x.c \in Nat /\ y.c \in Nat /\ x.e \in Int /\ y.e \in Int /\ x.c * y.c \in Nat
  BY DEF RawNat
<1>2. Sign(x) = 1 /\ Sign(y) = 1 /\ Magnitude(x.c) = x.c /\ Magnitude(y.c) = y.c /\ 1 * 1 = 1
  BY <1>1 DEF Sign, Magnitude
<1> QED
  BY <1>1, <1>2 DEF Product, Near, RawTimes, RawNat

LEMMA ProductAmount ==
  ASSUME NEW x \in Numeral, NEW y \in Numeral
  PROVE  Amount(Product(x, y))
<1>1. PICK n \in Nat : n = Magnitude(x.c) * Magnitude(y.c)
  <2>1. Magnitude(x.c) \in Nat /\ Magnitude(y.c) \in Nat
    BY DEF Numeral, Magnitude
  <2> QED
    BY <2>1
<1>2. Sign(x) * Sign(y) \in {-1, 1} /\ x.e + y.e \in Int
  BY DEF Sign, Numeral
<1>3. Precise(n, 1)
  BY DEF Precise
<1> QED
  BY <1>1, <1>2, <1>3, RoundedAmount DEF Product

LEMMA ProductSign ==
  ASSUME NEW x \in RawNat, NEW y \in RawNat
  PROVE  /\ Product(x, y).c >= 0 /\ Amount(Product(x, y)) /\ Product(x, y) \in RawNat
         /\ x.c > 0 /\ y.c > 0 => Product(x, y).c > 0
<1>1. x.c > 0 /\ y.c > 0 => RawTimes(x, y).c > 0
  BY DEF RawTimes, RawNat
<1>2. Amount(Product(x, y)) /\ Product(x, y).c >= 0 /\ (RawTimes(x, y).c > 0 => Product(x, y).c > 0)
  BY ProductNear, NearAmount
<1> QED
  BY <1>1, <1>2, NearFixed

\* Rounded products grow with their factors.
LEMMA ProductOrder ==
  ASSUME NEW x \in RawNat, NEW y \in RawNat, x \preceq y,
         NEW z \in RawNat, NEW w \in RawNat, z \preceq w
  PROVE  Product(x, z) \preceq Product(y, w)
<1>1. RawTimes(x, z) \preceq RawTimes(y, w) /\ RawTimes(x, z) \in RawNat /\ RawTimes(y, w) \in RawNat
  BY RawTimesOrder
<1> QED
  BY <1>1, Monotone, ProductNear

\* A part of an amount is not more than the amount.
LEMMA ProductPart ==
  ASSUME NEW x, Amount(x), x.c >= 0, NEW p \in RawNat, p \preceq One
  PROVE  Product(x, p) \preceq x
<1>1. x \in RawNat /\ One \in RawNat
  BY NearFixed, ZeroOne DEF RawNat
<1>2. x \in Numeral
  BY <1>1 DEF Numeral, RawNat
<1>3. RawTimes(x, One) = x
  <2>1. x.c * 1 = x.c /\ x.e + 0 = x.e
    BY <1>2 DEF Numeral
  <2> QED
    BY <1>1, <2>1, ZeroOne DEF RawTimes, RawNat
<1>4. x \preceq x
  BY <1>2, OrderReflexive
<1>5. RawTimes(x, p) \preceq x /\ RawTimes(x, p) \in RawNat
  BY <1>1, <1>3, <1>4, RawTimesOrder
<1> QED
  BY <1>1, <1>5, NearBelow, ProductNear

(***************************************************************************)
(* Sums.                                                                   *)
(***************************************************************************)
RawSum(x, y) ==
  [c |-> At10(x, Smaller(x.e, y.e)) + At10(y, Smaller(x.e, y.e)), e |-> Smaller(x.e, y.e)]

LEMMA RawSumAt ==
  ASSUME NEW x \in Numeral, NEW y \in Numeral, NEW f \in Int, f <= x.e, f <= y.e
  PROVE  /\ RawSum(x, y) \in Numeral /\ f <= RawSum(x, y).e
         /\ At10(RawSum(x, y), f) = At10(x, f) + At10(y, f)
         /\ At10(x, f) \in Int /\ At10(y, f) \in Int
<1>1. PICK m \in Int : m = Smaller(x.e, y.e) /\ m <= x.e /\ m <= y.e /\ f <= m
  BY DEF Smaller, Numeral
<1>2. /\ At10(x, f) = At10(x, m) * Ten[m - f] /\ At10(x, m) \in Int /\ At10(x, f) \in Int
      /\ At10(y, f) = At10(y, m) * Ten[m - f] /\ At10(y, m) \in Int /\ At10(y, f) \in Int
  BY <1>1, AtShift
<1>3. PICK t \in Nat : t = Ten[m - f]
  <2>1. m - f \in Nat
    BY <1>1
  <2> QED
    BY <2>1, Powers
<1>4. PICK a \in Int, b \in Int : a = At10(x, m) /\ b = At10(y, m)
  BY <1>2
<1>5. (a + b) * t = a * t + b * t /\ a + b \in Int
  OBVIOUS
<1>6. RawSum(x, y) = [c |-> a + b, e |-> m]
  BY <1>1, <1>4 DEF RawSum
<1> QED
  BY <1>1, <1>2, <1>3, <1>4, <1>5, <1>6 DEF At10, Numeral

LEMMA PlusSum ==
  ASSUME NEW x \in Numeral, NEW y \in Numeral
  PROVE  /\ RawSum(x, y) \in Numeral
         /\ Amount(Plus(x, y))
         /\ RawSum(x, y).c >= 0 => Plus(x, y) = Near(RawSum(x, y)) /\ RawSum(x, y) \in RawNat
         /\ RawSum(x, y).c > 0 => Plus(x, y).c > 0
         /\ RawSum(x, y).c < 0 => Plus(x, y).c < 0
         /\ RawSum(x, y).c = 0 => Plus(x, y) = Zero
<1>1. PICK m \in Int : m <= x.e /\ m <= y.e
  BY Common
<1>2. RawSum(x, y) \in Numeral
  BY <1>1, RawSumAt
<1>3. PICK c \in Int, e \in Int : RawSum(x, y).c = c /\ RawSum(x, y).e = e
  BY <1>2 DEF Numeral
<1>4. Plus(x, y) = Rounded(IF c < 0 THEN -1 ELSE 1, Magnitude(c), 1, e)
  BY <1>3 DEF Plus, RawSum
<1>5. PICK n \in Nat : n = Magnitude(c) /\ (c >= 0 => n = c) /\ (c # 0 => n # 0) /\ (c = 0 => n = 0)
  BY DEF Magnitude
<1>6. PICK s \in {-1, 1} : s = (IF c < 0 THEN -1 ELSE 1)
  OBVIOUS
<1>7. Precise(n, 1) /\ Plus(x, y) = Rounded(s, n, 1, e)
  BY <1>4, <1>5, <1>6 DEF Precise
<1>8. /\ Amount(Plus(x, y))
      /\ s = 1 /\ n # 0 => Plus(x, y).c > 0
      /\ s = -1 /\ n # 0 => Plus(x, y).c < 0
      /\ n = 0 => Plus(x, y) = Zero
  BY <1>7, RoundedAmount
<1>9. c >= 0 => s = 1 /\ RawSum(x, y) \in RawNat
  BY <1>2, <1>3, <1>6 DEF Numeral, RawNat
<1>10. c >= 0 => Plus(x, y) = Near(RawSum(x, y))
  BY <1>3, <1>5, <1>7, <1>9 DEF Near
<1> QED
  BY <1>2, <1>3, <1>5, <1>6, <1>8, <1>9, <1>10

LEMMA PlusSymmetric ==
  ASSUME NEW x \in Numeral, NEW y \in Numeral
  PROVE  Plus(x, y) = Plus(y, x)
<1>1. PICK m \in Int : m = Smaller(x.e, y.e) /\ m <= x.e /\ m <= y.e
  BY DEF Smaller, Numeral
<1>2. Smaller(y.e, x.e) = m
  BY <1>1 DEF Smaller, Numeral
<1>3. At10(x, m) \in Int /\ At10(y, m) \in Int
  BY <1>1, AtShift
<1>4. At10(x, m) + At10(y, m) = At10(y, m) + At10(x, m)
  BY <1>3
<1> QED
  BY <1>1, <1>2, <1>4 DEF Plus

\* A sum is at least each of its terms.
LEMMA PlusAtLeast ==
  ASSUME NEW x, Amount(x), x.c >= 0, NEW y \in RawNat
  PROVE  /\ x \preceq Plus(x, y) /\ Amount(Plus(x, y)) /\ Plus(x, y).c >= 0
         /\ x.c > 0 => Plus(x, y).c > 0
<1>1. x \in RawNat /\ x \in Numeral /\ y \in Numeral
  BY NearFixed DEF Numeral, RawNat
<1>2. PICK f \in Int : f <= x.e /\ f <= y.e
  BY <1>1, Common
<1>3. /\ RawSum(x, y) \in Numeral /\ f <= RawSum(x, y).e
      /\ At10(RawSum(x, y), f) = At10(x, f) + At10(y, f)
      /\ At10(x, f) \in Int /\ At10(y, f) \in Int
  BY <1>1, <1>2, RawSumAt
<1>4. At10(y, f) >= 0
  <2>1. y.c \in Nat /\ y.e - f \in Nat
    BY <1>2 DEF RawNat
  <2>2. PICK t \in Nat : t = Ten[y.e - f]
    BY <2>1, Powers
  <2> QED
    BY <2>1, <2>2 DEF At10
<1>5. x \preceq RawSum(x, y)
  BY <1>1, <1>2, <1>3, <1>4, CompareAt
<1>6. Zero \preceq x /\ (x.c > 0 => Zero \prec x)
  BY <1>1, SignTells
<1>7. RawSum(x, y).c >= 0 /\ (x.c > 0 => RawSum(x, y).c > 0)
  <2>1. Zero \in Numeral
    BY ZeroOne
  <2>2. Zero \preceq RawSum(x, y) /\ (x.c > 0 => Zero \prec RawSum(x, y))
    BY <1>1, <1>3, <1>5, <1>6, <2>1, OrderTransitive
  <2> QED
    BY <1>3, <2>2, SignTells
<1>8. Plus(x, y) = Near(RawSum(x, y)) /\ RawSum(x, y) \in RawNat
  BY <1>1, <1>7, PlusSum
<1>9. x \preceq Plus(x, y)
  BY <1>5, <1>8, NearBelow
<1>10. Amount(Plus(x, y)) /\ Plus(x, y).c >= 0 /\ (x.c > 0 => Plus(x, y).c > 0)
  BY <1>7, <1>8, NearAmount
<1> QED
  BY <1>9, <1>10

LEMMA MinusRaw ==
  ASSUME NEW y \in Numeral
  PROVE  /\ Minus(y) \in Numeral /\ Minus(y).e = y.e /\ Minus(y).c = - y.c
         /\ \A f \in Int : f <= y.e => At10(Minus(y), f) = - At10(y, f)
<1>1. Minus(y) = [c |-> - y.c, e |-> y.e] /\ y.c \in Int /\ y.e \in Int
  BY DEF Minus, Numeral
<1>2. ASSUME NEW f \in Int, f <= y.e PROVE At10(Minus(y), f) = - At10(y, f)
  <2>1. y.e - f \in Nat
    BY <1>1, <1>2
  <2>2. PICK t \in Nat : t = Ten[y.e - f]
    BY <2>1, Powers
  <2>3. PICK c \in Int : c = y.c
    BY <1>1
  <2>4. (-c) * t = -(c * t)
    OBVIOUS
  <2> QED
    BY <1>1, <2>2, <2>3, <2>4 DEF At10
<1> QED
  BY <1>1, <1>2 DEF Numeral

\* A difference has the sign of the comparison.
LEMMA DifferenceSign ==
  ASSUME NEW x \in Numeral, NEW y \in Numeral
  PROVE  /\ Amount(Difference(x, y))
         /\ y \preceq x => Difference(x, y).c >= 0
         /\ y \prec x => Difference(x, y).c > 0
         /\ x \prec y => Difference(x, y).c < 0
         /\ Amount(x) /\ x.c >= 0 /\ y.c >= 0 /\ y \preceq x => Difference(x, y) \preceq x
         /\ x = y => Difference(x, y) = Zero
<1>1. PICK f \in Int : f <= x.e /\ f <= y.e
  BY Common
<1>2. Minus(y) \in Numeral /\ f <= Minus(y).e /\ At10(Minus(y), f) = - At10(y, f)
  BY <1>1, MinusRaw
<1>3. PICK S : S = RawSum(x, Minus(y))
  OBVIOUS
<1>4. S \in Numeral /\ f <= S.e /\ At10(S, f) = At10(x, f) - At10(y, f)
      /\ At10(x, f) \in Int /\ At10(y, f) \in Int
  <2>1. /\ S \in Numeral /\ f <= S.e /\ At10(S, f) = At10(x, f) + At10(Minus(y), f)
        /\ At10(x, f) \in Int
    BY <1>1, <1>2, <1>3, RawSumAt
  <2>2. At10(y, f) \in Int
    BY <1>1, AtShift
  <2> QED
    BY <1>2, <2>1, <2>2
<1>5. PICK c \in Int, t \in Nat \ {0} : S.c = c /\ At10(S, f) = c * t
  <2>1. S.e - f \in Nat /\ S.c \in Int
    BY <1>1, <1>4 DEF Numeral
  <2> QED
    BY <2>1, Powers DEF At10
<1>6. (c * t > 0 <=> c > 0) /\ (c * t < 0 <=> c < 0)
  OBVIOUS
<1>7. PICK a \in Int, b \in Int, p \in Int : a = At10(x, f) /\ b = At10(y, f) /\ p = c * t /\ p = a - b
  BY <1>4, <1>5
<1>8. (y \preceq x <=> b <= a) /\ (y \prec x <=> b < a) /\ (x \prec y <=> a < b)
  BY <1>1, <1>7, CompareAt
<1>9. /\ Amount(Difference(x, y))
      /\ c >= 0 => Difference(x, y) = Near(S) /\ S \in RawNat
      /\ c > 0 => Difference(x, y).c > 0
      /\ c < 0 => Difference(x, y).c < 0
      /\ c = 0 => Difference(x, y) = Zero
  BY <1>2, <1>3, <1>5, PlusSum DEF Difference
<1>10. Zero.c = 0
  BY ZeroOne
<1>11. y \preceq x => Difference(x, y).c >= 0
  <2>1. y \preceq x => c > 0 \/ c = 0
    BY <1>6, <1>7, <1>8
  <2>2. Difference(x, y).c \in Int
    BY <1>9, AmountNormal DEF Normal, Numeral
  <2> QED
    BY <1>9, <1>10, <2>1, <2>2
<1>12. ASSUME Amount(x), x.c >= 0, y.c >= 0, y \preceq x PROVE Difference(x, y) \preceq x
  <2>1. b >= 0
    <3>1. y.c \in Nat /\ y.e - f \in Nat
      BY <1>1, <1>12 DEF Numeral
    <3>2. PICK r \in Nat, k \in Nat : r = Ten[y.e - f] /\ k = y.c
      BY <3>1, Powers
    <3> QED
      BY <1>7, <3>2 DEF At10
  <2>2. S \preceq x
    BY <1>1, <1>4, <1>5, <1>7, <2>1, CompareAt
  <2>3. c >= 0
    BY <1>6, <1>7, <1>8, <1>12
  <2> QED
    BY <1>9, <1>12, <2>2, <2>3, NearBelow
<1>13. x = y => Difference(x, y) = Zero
  BY <1>6, <1>7, <1>9
<1> QED
  BY <1>6, <1>7, <1>8, <1>9, <1>11, <1>12, <1>13

(***************************************************************************)
(* Quotients.                                                              *)
(***************************************************************************)
LEMMA QuotientPrecise ==
  ASSUME NEW n \in Nat, NEW d \in Nat \ {0}, NEW more \in Nat,
         more >= Digits + Width[d] - Width[n] + 1
  PROVE  Precise(n * Ten[more], d)
<1>1. PICK D \in Nat \ {0} : D = Digits
  BY DigitsAssumption
<1>2. PICK w \in Nat \ {0} : w = Width[n] /\ (n # 0 => Ten[w - 1] <= n)
  BY Widths
<1>3. PICK v \in Nat \ {0} : v = Width[d] /\ d < Ten[v]
  BY Widths
<1>4. PICK t \in Nat \ {0} : t = Ten[more]
  BY Powers
<1>5. n * t \in Nat
  OBVIOUS
<1>6. ASSUME n # 0 PROVE Width[(n * t) \div d] > Digits
  <2>1. w - 1 \in Nat /\ (w - 1) + more \in Nat /\ v + D \in Nat /\ v + D <= (w - 1) + more
    BY <1>1, <1>2, <1>3
  <2>2. PICK a \in Nat : a = Ten[w - 1] /\ Ten[(w - 1) + more] = a * t
    <3>1. Ten[(w - 1) + more] = Ten[w - 1] * Ten[more]
      BY <2>1, PowerAdd
    <3>2. Ten[w - 1] \in Nat
      BY <2>1, Powers
    <3> QED
      BY <1>4, <3>1, <3>2
  <2>3. PICK b \in Nat, c \in Nat : b = Ten[v] /\ c = Ten[D] /\ Ten[v + D] = b * c
    <3>1. Ten[v + D] = Ten[v] * Ten[D]
      BY PowerAdd
    <3>2. Ten[v] \in Nat /\ Ten[D] \in Nat
      BY Powers
    <3> QED
      BY <3>1, <3>2
  <2>4. b * c <= a * t
    BY <2>1, <2>2, <2>3, PowerOrder
  <2>5. a * t <= n * t
    BY <1>2, <1>6, <2>2, TimesOrder
  <2>6. d * c <= b * c
    BY <1>3, <2>3, TimesOrder
  <2>7. PICK q \in Nat, r \in Nat : q = (n * t) \div d /\ r < d /\ n * t = d * q + r
    BY <1>5, DivMod
  <2>8. c <= q
    <3> SUFFICES ASSUME q < c PROVE FALSE
      OBVIOUS
    <3>1. d * (q + 1) <= d * c
      BY TimesOrder
    <3>2. d * (q + 1) = d * q + d
      OBVIOUS
    <3>3. PICK p1 \in Nat, p2 \in Nat, p3 \in Nat, p4 \in Nat, p5 \in Nat :
             p1 = d * q /\ p2 = d * c /\ p3 = b * c /\ p4 = a * t /\ p5 = n * t
      OBVIOUS
    <3> QED
      BY <2>4, <2>5, <2>6, <2>7, <3>1, <3>2, <3>3
  <2>9. PICK u \in Nat : u = Width[q] /\ q < Ten[u]
    BY Widths
  <2>10. D < u
    <3> SUFFICES ASSUME u <= D PROVE FALSE
      OBVIOUS
    <3>1. Ten[u] <= Ten[D] /\ Ten[u] \in Nat
      BY PowerOrder, Powers
    <3> QED
      BY <2>3, <2>8, <2>9, <3>1
  <2> QED
    BY <1>1, <2>7, <2>9, <2>10
<1>7. n = 0 => n * t = 0
  OBVIOUS
<1> QED
  BY <1>4, <1>5, <1>6, <1>7 DEF Precise

\* A quotient of amounts is an amount, positive when they are, and at most 1 when the divisor
\* is not less than the dividend.
LEMMA QuotientOf ==
  ASSUME NEW x \in RawNat, NEW y \in RawNat, y.c > 0
  PROVE  /\ Amount(Quotient(x, y)) /\ Quotient(x, y).c >= 0
         /\ x.c > 0 => Quotient(x, y).c > 0
         /\ x \preceq y => Quotient(x, y) \preceq One
<1>1. PICK n \in Nat, d \in Nat \ {0}, i \in Int, j \in Int : x.c = n /\ y.c = d /\ x.e = i /\ y.e = j
  BY DEF RawNat
<1>2. PICK more \in Nat : /\ more >= Digits + Width[d] - Width[n] + 1
                          /\ Quotient(x, y) = Rounded(1, n * Ten[more], d, (i - j) - more)
  <2>1. Sign(x) = 1 /\ Sign(y) = 1 /\ Magnitude(x.c) = n /\ Magnitude(y.c) = d
    BY <1>1 DEF Sign, Magnitude
  <2>2. PICK shift \in Int : shift = Digits + Width[d] - Width[n] + 1
    <3>1. Width[d] \in Nat /\ Width[n] \in Nat /\ Digits \in Nat
      BY Widths, DigitsAssumption
    <3> QED
      BY <3>1
  <2>3. PICK more \in Nat : more = (IF shift > 0 THEN shift ELSE 0) /\ more >= shift
    OBVIOUS
  <2>4. Quotient(x, y) = Rounded(1 * 1, n * Ten[more], d, i - j - more)
    BY <1>1, <2>1, <2>2, <2>3 DEF Quotient
  <2> QED
    BY <2>2, <2>3, <2>4
<1>3. PICK t \in Nat \ {0} : t = Ten[more]
  BY Powers
<1>4. Precise(n * t, d)
  BY <1>2, <1>3, QuotientPrecise
<1>5. (i - j) - more \in Int
  OBVIOUS
<1>6. n > 0 => n * t # 0
  OBVIOUS
<1>7. /\ Amount(Quotient(x, y)) /\ Quotient(x, y).c >= 0
      /\ n > 0 => Quotient(x, y).c > 0
  BY <1>2, <1>3, <1>4, <1>5, <1>6, RoundedAmount
<1>8. ASSUME x \preceq y PROVE Quotient(x, y) \preceq One
  <2>1. Precise(1, 1)
    BY DEF Precise
  <2>2. Rounded(1, 1, 1, 0) = One
    <3>1. Near(One) = One
      BY NearFixed, ZeroOne
    <3> QED
      BY <3>1, ZeroOne DEF Near
  <2>3. [c |-> (n * t) * 1, e |-> (i - j) - more] \preceq [c |-> 1 * d, e |-> 0]
    <3>1. PICK f \in Int : f <= (i - j) - more /\ f <= i - j /\ f <= 0
      <4>1. CASE i - j <= 0
        <5>1. PICK f \in Int : f = (i - j) - more
          OBVIOUS
        <5>2. f <= (i - j) - more /\ f <= i - j /\ f <= 0
          BY <4>1, <5>1
        <5> QED
          BY <5>2
      <4>2. CASE 0 < i - j
        <5>1. 0 - more \in Int /\ 0 - more <= (i - j) - more /\ 0 - more <= i - j /\ 0 - more <= 0
          BY <4>2
        <5> QED
          BY <5>1
      <4> QED
        BY <4>1, <4>2
    <3>2. f + j <= i /\ f + j <= j /\ f + j \in Int
      BY <3>1
    <3>3. x \in Numeral /\ y \in Numeral
      BY DEF RawNat, Numeral
    <3>4. n * Ten[i - (f + j)] <= d * Ten[j - (f + j)]
      BY <1>1, <1>8, <3>2, <3>3, CompareAt DEF At10
    <3>5. j - (f + j) = 0 - f /\ i - (f + j) = more + (((i - j) - more) - f)
          /\ 0 - f \in Nat /\ ((i - j) - more) - f \in Nat
      BY <3>1
    <3>6. PICK s \in Nat : s = Ten[((i - j) - more) - f] /\ Ten[i - (f + j)] = t * s
      <4>1. PICK p \in Nat : p = ((i - j) - more) - f
        BY <3>5
      <4>2. Ten[more + p] = Ten[more] * Ten[p] /\ Ten[p] \in Nat
        BY PowerAdd, Powers
      <4>3. i - (f + j) = more + p
        BY <3>5, <4>1
      <4> QED
        BY <1>3, <4>1, <4>2, <4>3
    <3>7. PICK r \in Nat : r = Ten[0 - f]
      BY <3>5, Powers
    <3>8. ((n * t) * 1) * s = n * (t * s) /\ (1 * d) * r = d * r
      OBVIOUS
    <3>9. ((n * t) * 1) * Ten[((i - j) - more) - f] <= (1 * d) * Ten[0 - f]
      BY <3>4, <3>5, <3>6, <3>7, <3>8
    <3>10. [c |-> (n * t) * 1, e |-> (i - j) - more] \in Numeral /\ [c |-> 1 * d, e |-> 0] \in Numeral
      BY DEF Numeral
    <3> QED
      BY <3>1, <3>9, <3>10, CompareAt DEF At10
  <2>4. Rounded(1, n * t, d, (i - j) - more) \preceq Rounded(1, 1, 1, 0)
    BY <1>4, <1>5, <2>1, <2>3, NearOrder
  <2> QED
    BY <1>2, <1>3, <2>2, <2>4
<1> QED
  BY <1>1, <1>7, <1>8

(***************************************************************************)
(* A part of 1 and what it leaves make 1 again, although the difference is *)
(* rounded and the sum is rounded once more.                               *)
(***************************************************************************)
LEMMA WidthIs ==
  ASSUME NEW n \in Nat \ {0}, NEW w \in Nat \ {0}, Ten[w - 1] <= n, n < Ten[w]
  PROVE  Width[n] = w
<1>1. PICK v \in Nat \ {0} : v = Width[n] /\ n < Ten[v] /\ Ten[v - 1] <= n
  BY Widths
<1>2. v - 1 \in Nat /\ w - 1 \in Nat
  OBVIOUS
<1>3. Ten[v] \in Nat /\ Ten[w] \in Nat /\ Ten[v - 1] \in Nat /\ Ten[w - 1] \in Nat
  BY <1>2, Powers
<1>4. ~ (v <= w - 1)
  <2> SUFFICES ASSUME v <= w - 1 PROVE FALSE
    OBVIOUS
  <2>1. Ten[v] <= Ten[w - 1]
    BY <1>2, PowerOrder
  <2> QED
    BY <1>1, <1>3, <2>1
<1>5. ~ (w <= v - 1)
  <2> SUFFICES ASSUME w <= v - 1 PROVE FALSE
    OBVIOUS
  <2>1. Ten[w] <= Ten[v - 1]
    BY <1>2, PowerOrder
  <2> QED
    BY <1>1, <1>3, <2>1
<1> QED
  BY <1>1, <1>4, <1>5

\* What half to even misses by, and what it makes of a value within half of a whole number.
LEMMA HalfEvenError ==
  ASSUME NEW n \in Nat, NEW d \in Nat \ {0}
  PROVE  2 * (d * HalfEven(n, d) - n) <= d /\ 2 * (n - d * HalfEven(n, d)) <= d
<1>1. PICK q \in Nat, r \in Nat : q = n \div d /\ r = n % d /\ r < d /\ n = d * q + r
  BY DivMod
<1>2. PICK p \in Nat : p = d * q
  OBVIOUS
<1>3. CASE HalfEven(n, d) = q /\ 2 * r <= d
  BY <1>1, <1>2, <1>3
<1>4. CASE HalfEven(n, d) = q + 1 /\ 2 * r >= d
  <2>1. d * (q + 1) = p + d
    BY <1>2
  <2>2. d * HalfEven(n, d) - n = d - r
    BY <1>1, <1>2, <1>4, <2>1
  <2>3. n - d * HalfEven(n, d) = r - d
    BY <1>1, <1>2, <1>4, <2>1
  <2> QED
    BY <1>1, <1>4, <2>2, <2>3
<1>5. (HalfEven(n, d) = q /\ 2 * r <= d) \/ (HalfEven(n, d) = q + 1 /\ 2 * r >= d)
  BY <1>1 DEF HalfEven
<1> QED
  BY <1>3, <1>4, <1>5

LEMMA HalfEvenUp ==
  ASSUME NEW K \in Nat, NEW d \in Nat \ {0}, NEW a \in Nat, 2 * a < d
  PROVE  HalfEven(d * K + a, d) = K
<1>1. a < d
  OBVIOUS
<1>2. (d * K + a) \div d = K /\ (d * K + a) % d = a
  BY <1>1, DivUnique
<1> QED
  BY <1>2 DEF HalfEven

LEMMA HalfEvenDown ==
  ASSUME NEW K \in Nat \ {0}, K % 2 = 0, NEW d \in Nat \ {0}, NEW a \in Nat \ {0}, 2 * a <= d
  PROVE  HalfEven(d * K - a, d) = K
<1>1. PICK q \in Nat, r \in Nat : K = q + 1 /\ r = d - a /\ r < d /\ 2 * r >= d
  <2>1. K - 1 \in Nat /\ K = (K - 1) + 1 /\ d - a \in Nat /\ d - a < d /\ 2 * (d - a) >= d
    OBVIOUS
  <2> QED
    BY <2>1
<1>2. d * K - a = d * q + r
  <2>1. d * (q + 1) = d * q + d
    OBVIOUS
  <2> QED
    BY <1>1, <2>1
<1>3. (d * q + r) \div d = q /\ (d * q + r) % d = r
  BY <1>1, DivUnique
<1>4. q % 2 = 1
  BY <1>1
<1>5. HalfEven(d * q + r, d) = q + 1
  BY <1>1, <1>3, <1>4 DEF HalfEven
<1> QED
  BY <1>1, <1>2, <1>5

\* A number with the value of an amount is rounded to it.
LEMMA NearOf ==
  ASSUME NEW x \in RawNat, NEW y, Amount(y), y.c >= 0, x \preceq y, y \preceq x
  PROVE  Near(x) = y
<1>1. Near(x) \preceq y /\ y \preceq Near(x)
  BY NearBelow
<1>2. Normal(y) /\ Normal(Near(x))
  BY NearAmount, AmountNormal
<1> QED
  BY <1>1, <1>2, NormalUnique

\* Numbers of one value are rounded to one amount.
LEMMA NearSame ==
  ASSUME NEW x \in RawNat, NEW y \in RawNat, x \preceq y, y \preceq x
  PROVE  Near(x) = Near(y)
<1>1. Near(x) \preceq Near(y) /\ Near(y) \preceq Near(x)
  BY Monotone
<1>2. Normal(Near(x)) /\ Normal(Near(y))
  BY NearAmount, AmountNormal
<1> QED
  BY <1>1, <1>2, NormalUnique

\* Ten[k] is 1 at the exponent -k.
LEMMA TenOne ==
  ASSUME NEW k \in Nat
  PROVE  Dec(Ten[k], -k) = One
<1>1. PICK t \in Nat : t = Ten[k]
  BY Powers
<1>2. PICK p : p = Dec(t, -k)
  OBVIOUS
<1>3. -k \in Int
  OBVIOUS
<1>4. p \in Numeral /\ Normal(p) /\ \A f \in Int : f <= -k /\ f <= p.e => At10(p, f) = t * Ten[-k - f]
  <2>1. Normal(p) /\ \A f \in Int : f <= -k /\ f <= p.e => At10(p, f) = t * Ten[-k - f]
    BY <1>2, <1>3, DecOf
  <2> QED
    BY <2>1 DEF Normal
<1>5. PICK f \in Int : f <= -k /\ f <= p.e
  <2>1. p.e \in Int
    BY <1>4 DEF Numeral
  <2>2. p.e <= -k \/ -k <= p.e
    BY <2>1
  <2> QED
    BY <1>3, <2>1, <2>2
<1>6. At10(p, f) = At10(One, f)
  <2>1. PICK i \in Nat : i = -k - f
    BY <1>5
  <2>2. Ten[k + i] = t * Ten[i] /\ Ten[k + i] \in Nat
    <3>1. Ten[k + i] = Ten[k] * Ten[i]
      BY PowerAdd
    <3>2. k + i \in Nat
      OBVIOUS
    <3> QED
      BY <1>1, <3>1, <3>2, Powers
  <2>3. 0 - f = k + i
    BY <2>1
  <2>4. At10(One, f) = 1 * Ten[k + i]
    BY <2>3, ZeroOne DEF At10
  <2> QED
    BY <1>4, <1>5, <2>1, <2>2, <2>4
<1>7. f <= One.e /\ Amount(One) /\ One \in Numeral
  BY <1>5, ZeroOne
<1>8. At10(p, f) \in Int
  <2>1. p.e \in Int
    BY <1>4 DEF Numeral
  <2> QED
    BY <1>4, <1>5, <2>1, AtShift
<1>9. p \preceq One /\ One \preceq p
  BY <1>4, <1>5, <1>6, <1>7, <1>8, CompareAt
<1> QED
  BY <1>1, <1>2, <1>4, <1>7, <1>9, AmountNormal, NormalUnique

\* What misses 1 by half of what a difference from 1 was cut at is rounded to 1.
LEMMA NearOne ==
  ASSUME NEW k \in Nat, NEW x \in Nat, x > 0, Digits + x <= k,
         NEW m \in Nat, 2 * (m - Ten[k]) <= Ten[x], 2 * (Ten[k] - m) <= Ten[x]
  PROVE  Near([c |-> m, e |-> -k]) = One
<1>1. PICK D \in Nat \ {0} : D = Digits
  BY DigitsAssumption
<1>2. PICK h \in Nat \ {0}, j \in Nat \ {0} : h = Ten[k - 1] /\ j = Ten[x] /\ Ten[k] = 10 * h /\ j <= h
  <2>1. k - 1 \in Nat /\ (k - 1) + 1 = k /\ x <= k - 1
    BY <1>1
  <2> QED
    BY <2>1, Powers, PowerOrder
<1>3. m \div 1 = m /\ m % 1 = 0
  OBVIOUS
<1>4. CASE m >= 10 * h
  <2>1. PICK a \in Nat : m = 10 * h + a /\ 2 * a <= j
    <3>1. m - 10 * h \in Nat /\ m = 10 * h + (m - 10 * h) /\ 2 * (m - 10 * h) <= j
      BY <1>2, <1>4
    <3> QED
      BY <3>1
  <2>2. Ten[k + 1] = 10 * Ten[k]
    BY Powers
  <2>3. Width[m] = k + 1
    <3>1. m \in Nat \ {0} /\ k + 1 \in Nat \ {0} /\ (k + 1) - 1 = k
      BY <1>2, <1>4
    <3>2. Ten[k] <= m /\ m < Ten[k + 1]
      <4>1. 2 * a <= j /\ j <= h
        BY <1>2, <2>1
      <4>2. a <= h
        BY <4>1
      <4>3. 10 * h <= 10 * h + a /\ 10 * h + a < 10 * (10 * h)
        BY <4>2
      <4> QED
        BY <1>2, <2>1, <2>2, <4>3
    <3> QED
      BY <3>1, <3>2, WidthIs
  <2>4. PICK y \in Nat : y = (k + 1) - D /\ x < y /\ Excess(m, 1) = y
    <3>1. k + 1 > Digits /\ (k + 1) - Digits \in Nat /\ x < (k + 1) - Digits
      BY <1>1
    <3>2. Excess(m, 1) = (k + 1) - Digits
      <4>1. Width[m \div 1] = k + 1
        BY <1>3, <2>3, Zenon
      <4>2. Width[m \div 1] > Digits
        BY <3>1, <4>1, Zenon
      <4>3. Excess(m, 1) = Width[m \div 1] - Digits
        BY <4>2, Zenon DEF Excess
      <4> QED
        BY <4>1, <4>3, Zenon
    <3> QED
      BY <1>1, <3>1, <3>2
  <2>5. PICK u \in Nat \ {0} : u = Ten[y] /\ 10 * j <= u
    BY <1>2, <2>4, PowerOrder, Powers
  <2>6. PICK K \in Nat : K = Ten[D - 1] /\ u * K = 10 * h
    <3>1. D - 1 \in Nat /\ y + (D - 1) = k
      BY <2>4
    <3>2. Ten[y + (D - 1)] = Ten[y] * Ten[D - 1] /\ Ten[D - 1] \in Nat
      BY <3>1, PowerAdd, Powers
    <3> QED
      BY <1>2, <2>5, <3>1, <3>2
  <2>7. HalfEven(m, u) = K
    <3>1. 2 * a < u
      BY <2>1, <2>5
    <3>2. m = u * K + a
      BY <2>1, <2>6
    <3> QED
      BY <3>1, <3>2, HalfEvenUp
  <2>8. KeptDigits(m, 1) = K
    <3>1. 1 * u = u
      OBVIOUS
    <3> QED
      BY <2>4, <2>5, <2>7, <3>1 DEF KeptDigits
  <2>9. Rounded(1, m, 1, -k) = Dec(1 * K, -k + y)
    BY <2>4, <2>8, RoundedParts
  <2>10. 1 * K = K /\ -k + y = -(D - 1) /\ D - 1 \in Nat
    BY <2>4
  <2>11. Dec(K, -(D - 1)) = One
    BY <2>6, <2>10, TenOne
  <2> QED
    BY <2>9, <2>10, <2>11 DEF Near
<1>5. CASE m < 10 * h
  <2>1. PICK a \in Nat \ {0} : m = 10 * h - a /\ 2 * a <= j
    <3>1. 10 * h - m \in Nat \ {0} /\ m = 10 * h - (10 * h - m) /\ 2 * (10 * h - m) <= j
      BY <1>2, <1>5
    <3> QED
      BY <3>1
  <2>2. Width[m] = k
    <3>1. m \in Nat \ {0} /\ k \in Nat \ {0}
      <4>1. k > 0
        BY <1>1
      <4>2. 2 * a <= j /\ j <= h
        BY <1>2, <2>1
      <4>3. a <= h
        BY <4>2
      <4>4. 10 * h - a > 0
        BY <4>3
      <4> QED
        BY <2>1, <4>1, <4>4
    <3>2. Ten[k - 1] <= m /\ m < Ten[k]
      BY <1>2, <2>1
    <3> QED
      BY <3>1, <3>2, WidthIs
  <2>3. PICK y \in Nat : y = k - D /\ x <= y /\ Excess(m, 1) = y
    <3>1. k > Digits /\ k - Digits \in Nat /\ x <= k - Digits
      BY <1>1
    <3>2. Excess(m, 1) = k - Digits
      BY <1>3, <2>2, <3>1 DEF Excess
    <3> QED
      BY <1>1, <3>1, <3>2
  <2>4. PICK u \in Nat \ {0} : u = Ten[y] /\ j <= u
    BY <1>2, <2>3, PowerOrder, Powers
  <2>5. PICK K \in Nat \ {0} : K = Ten[D] /\ u * K = 10 * h
    <3>1. y + D = k
      BY <2>3
    <3>2. Ten[y + D] = Ten[y] * Ten[D] /\ Ten[D] \in Nat \ {0}
      BY PowerAdd, Powers
    <3> QED
      BY <1>2, <2>4, <3>1, <3>2
  <2>6. K % 2 = 0
    <3>1. PICK z \in Nat : z = Ten[D - 1] /\ K = 10 * z
      <4>1. D - 1 \in Nat /\ (D - 1) + 1 = D
        OBVIOUS
      <4> QED
        BY <2>5, <4>1, Powers
    <3> QED
      BY <3>1
  <2>7. HalfEven(m, u) = K
    <3>1. 2 * a <= u
      BY <1>2, <2>1, <2>4
    <3>2. m = u * K - a
      BY <2>1, <2>5
    <3> QED
      BY <2>6, <3>1, <3>2, HalfEvenDown
  <2>8. KeptDigits(m, 1) = K
    <3>1. 1 * u = u
      OBVIOUS
    <3> QED
      BY <2>3, <2>4, <2>7, <3>1 DEF KeptDigits
  <2>9. Rounded(1, m, 1, -k) = Dec(1 * K, -k + y)
    BY <2>3, <2>8, RoundedParts
  <2>10. 1 * K = K /\ -k + y = -D
    BY <2>3
  <2>11. Dec(K, -D) = One
    BY <2>5, TenOne
  <2> QED
    BY <2>9, <2>10, <2>11 DEF Near
<1> QED
  BY <1>2, <1>4, <1>5

\* The weight and the cash weight are exactly 1 together.
LEMMA AddBackOne ==
  ASSUME NEW w, Amount(w), w.c >= 0, w \preceq One
  PROVE  Plus(w, Difference(One, w)) = One
<1>1. PICK c \in Nat, e \in Int : w.c = c /\ w.e = e /\ w = [c |-> c, e |-> e] /\ w \in Numeral /\ w \in RawNat
  <2>1. w \in RawNat
    BY NearFixed
  <2> QED
    BY <2>1 DEF Numeral, RawNat
<1>2. One \in Numeral /\ One \in RawNat /\ One.e = 0 /\ One.c = 1 /\ Amount(One) /\ Amount(Zero) /\ Zero \in Numeral
      /\ Zero \in RawNat
  BY ZeroOne DEF RawNat
<1>3. PICK R : R = Difference(One, w) /\ Amount(R) /\ R.c >= 0 /\ R \in RawNat /\ R \in Numeral
  <2>1. Amount(Difference(One, w)) /\ Difference(One, w).c >= 0
    BY <1>1, <1>2, DifferenceSign
  <2>2. Difference(One, w) \in RawNat
    BY <2>1, NearFixed
  <2> QED
    BY <2>1, <2>2 DEF RawNat, Numeral
\* The sum is that of any number with the value w + R.
<1>4. ASSUME NEW f \in Int, f <= e, f <= R.e, NEW z \in RawNat, f <= z.e,
             At10(z, f) = At10(w, f) + At10(R, f)
      PROVE  Plus(w, R) = Near(z)
  <2>1. PICK T : T = RawSum(w, R)
    OBVIOUS
  <2>2. T \in Numeral /\ f <= T.e /\ At10(T, f) = At10(w, f) + At10(R, f)
        /\ At10(w, f) \in Int /\ At10(R, f) \in Int
    BY <1>1, <1>3, <1>4, <2>1, RawSumAt
  <2>3. z \in Numeral
    BY DEF Numeral, RawNat
  <2>4. T \preceq z /\ z \preceq T
    BY <1>4, <2>2, <2>3, CompareAt
  <2>5. T.c >= 0
    <3>1. z.c >= 0
      BY DEF RawNat
    <3>2. Zero \preceq z
      BY <2>3, <3>1, SignTells
    <3>3. Zero \preceq T
      BY <1>2, <2>2, <2>3, <2>4, <3>2, OrderTransitive
    <3> QED
      BY <2>2, <3>3, SignTells
  <2>6. Plus(w, R) = Near(T) /\ T \in RawNat
    BY <1>1, <1>3, <2>1, <2>5, PlusSum
  <2> QED
    BY <2>4, <2>6, NearSame
<1>5. CASE e >= 0
  <2>1. PICK t \in Nat \ {0} : t = Ten[e] /\ (e > 0 => t >= 10)
    <3>1. e \in Nat /\ Ten[0] = 1
      BY <1>5, Powers
    <3>2. e > 0 => 10 * Ten[0] <= Ten[e]
      BY <3>1, PowerOrder
    <3> QED
      BY <3>1, <3>2, Powers
  <2>2. c * t <= 1
    <3>1. 0 <= w.e /\ 0 <= One.e /\ 0 \in Int
      BY <1>1, <1>2, <1>5
    <3>2. At10(w, 0) <= At10(One, 0)
      BY <1>1, <1>2, <3>1, CompareAt
    <3>3. e - 0 = e /\ 0 - 0 = 0 /\ Ten[0] = 1
      BY Powers
    <3> QED
      BY <1>1, <1>2, <2>1, <3>2, <3>3 DEF At10
  <2>3. c = 0 \/ (c = 1 /\ t = 1)
    <3>1. c # 0 => c <= c * t /\ t <= c * t
      OBVIOUS
    <3> QED
      BY <2>2, <3>1
  <2>4. Normal(w) /\ 0 % 10 = 0 /\ Magnitude(0) = 0
    BY AmountNormal DEF Magnitude
  <2>5. w = Zero \/ w = One
    <3>1. CASE c = 0
      BY <1>1, <2>4, <3>1, ZeroOne DEF Normal
    <3>2. CASE c = 1 /\ t = 1
      <4>1. e = 0
        BY <1>5, <2>1, <3>2
      <4> QED
        BY <1>1, <3>2, <4>1, ZeroOne
    <3> QED
      BY <2>3, <3>1, <3>2
  <2>6. e = 0
    BY <1>1, <2>5, ZeroOne
  <2>7. ASSUME NEW a \in {Zero, One}, NEW b \in {Zero, One}
        PROVE  RawSum(a, b) = [c |-> a.c + b.c, e |-> 0]
               /\ RawSum(a, Minus(b)) = [c |-> a.c - b.c, e |-> 0]
    <3>1. a.e = 0 /\ b.e = 0 /\ a.c \in Int /\ b.c \in Int /\ a \in Numeral /\ b \in Numeral
      BY ZeroOne
    <3>2. Minus(b).c = - b.c /\ Minus(b).e = 0
      BY <3>1, MinusRaw
    <3>3. Smaller(0, 0) = 0 /\ Ten[0 - 0] = 1
      BY Powers DEF Smaller
    <3>4. At10(a, 0) = a.c /\ At10(b, 0) = b.c /\ At10(Minus(b), 0) = - b.c
      BY <3>1, <3>2, <3>3 DEF At10
    <3> QED
      BY <3>1, <3>2, <3>3, <3>4 DEF RawSum
  <2>8. CASE w = Zero
    <3>1. RawSum(One, Minus(w)) = One
      BY <2>7, <2>8, ZeroOne
    <3>2. Minus(w) \in Numeral
      BY <1>1, MinusRaw
    <3>3. R = Near(One)
      BY <1>2, <1>3, <3>1, <3>2, PlusSum DEF Difference
    <3>4. R = One
      BY <1>2, <3>3, NearFixed
    <3>5. RawSum(w, R) = One
      BY <2>7, <2>8, <3>4, ZeroOne
    <3>6. Plus(w, R) = Near(One)
      BY <1>1, <1>2, <1>3, <3>5, PlusSum
    <3> QED
      BY <1>2, <1>3, <3>6, NearFixed
  <2>9. CASE w = One
    <3>1. RawSum(One, Minus(w)).c = 0
      BY <2>7, <2>9, ZeroOne
    <3>2. Minus(w) \in Numeral
      BY <1>1, MinusRaw
    <3>3. R = Zero
      BY <1>2, <1>3, <3>1, <3>2, PlusSum DEF Difference
    <3>4. RawSum(w, R) = One
      BY <2>7, <2>9, <3>3, ZeroOne
    <3>5. Plus(w, R) = Near(One)
      BY <1>1, <1>2, <1>3, <3>4, PlusSum
    <3> QED
      BY <1>2, <1>3, <3>5, NearFixed
  <2> QED
    BY <2>5, <2>8, <2>9
<1>6. CASE e < 0
  <2>1. PICK k \in Nat \ {0} : k = -e /\ e = -k
    <3>1. -e \in Nat \ {0} /\ e = -(-e)
      BY <1>6
    <3> QED
      BY <3>1
  <2>2. PICK t \in Nat \ {0} : t = Ten[k]
    BY Powers
  <2>3. At10(w, e) = c /\ At10(One, e) = t
    <3>1. e - e = 0 /\ 0 - e = k /\ Ten[0] = 1
      BY <2>1, Powers
    <3> QED
      BY <1>1, <1>2, <2>2, <3>1 DEF At10
  <2>4. c <= t
    <3>1. e <= w.e /\ e <= One.e
      BY <1>1, <1>2, <1>6
    <3> QED
      BY <1>1, <1>2, <2>3, <3>1, CompareAt
  <2>5. PICK n \in Nat : n = t - c
    BY <2>4
  <2>6. R = Near([c |-> n, e |-> e])
    <3>1. Minus(w) \in Numeral /\ Minus(w).e = e /\ At10(Minus(w), e) = -c
      BY <1>1, <2>3, MinusRaw
    <3>2. Smaller(One.e, Minus(w).e) = e
      BY <1>2, <1>6, <3>1 DEF Smaller
    <3>3. RawSum(One, Minus(w)) = [c |-> n, e |-> e]
      BY <2>3, <2>5, <3>1, <3>2 DEF RawSum
    <3> QED
      BY <1>2, <1>3, <3>1, <3>3, PlusSum DEF Difference
  <2>7. Precise(n, 1)
    BY DEF Precise
  <2>8. PICK x \in Nat, H \in Nat : /\ x = Excess(n, 1) /\ H = KeptDigits(n, 1)
                                    /\ x = 0 => n = 1 * H
    BY <2>7, KeptRange
  <2>9. R = Dec(H, e + x)
    <3>1. 1 * H = H
      OBVIOUS
    <3>2. R = Rounded(1, n, 1, e)
      BY <2>6 DEF Near
    <3> QED
      BY <2>8, <3>1, <3>2, RoundedParts
  <2>10. PICK f \in Int : f <= e /\ f <= R.e
    BY <1>1, <1>3, Common
  <2>11. PICK v \in Nat \ {0} : v = Ten[e - f]
    BY <2>10, Powers
  <2>12. PICK j \in Nat \ {0} : j = Ten[x]
    BY Powers
  <2>13. At10(R, f) = H * (j * v)
    <3>1. f <= e + x /\ e + x \in Int /\ H \in Int
      BY <2>10
    <3>2. At10(R, f) = H * Ten[(e + x) - f]
      BY <2>9, <2>10, <3>1, DecOf
    <3>3. PICK i \in Nat : i = e - f
      BY <2>10
    <3>4. (e + x) - f = x + i
      BY <3>3
    <3>5. Ten[x + i] = Ten[x] * Ten[i]
      BY PowerAdd
    <3> QED
      BY <2>11, <2>12, <3>2, <3>3, <3>4, <3>5
  <2>14. PICK m \in Nat : m = c + H * j
    OBVIOUS
  <2>15. Plus(w, R) = Near([c |-> m, e |-> e])
    <3>1. PICK z : z = [c |-> m, e |-> e]
      OBVIOUS
    <3>2. z \in RawNat /\ f <= z.e
      BY <2>10, <3>1 DEF RawNat
    <3>3. At10(z, f) = m * v /\ At10(w, f) = c * v
      BY <1>1, <2>11, <3>1 DEF At10
    <3>4. (c + H * j) * v = c * v + H * (j * v)
      OBVIOUS
    <3>5. At10(z, f) = At10(w, f) + At10(R, f)
      BY <2>13, <2>14, <3>3, <3>4
    <3>6. Plus(w, R) = Near(z)
      BY <1>4, <2>10, <3>2, <3>5
    <3> QED
      BY <3>1, <3>6
  <2>16. CASE x = 0
    <3>1. m = Ten[k]
      BY <2>2, <2>5, <2>8, <2>12, <2>14, <2>16, Powers
    <3>2. Near([c |-> m, e |-> e]) = One
      <4>1. [c |-> m, e |-> e] \in RawNat
        BY DEF RawNat
      <4>2. Dec(m, e) = One /\ m \in Int
        BY <2>1, <3>1, TenOne
      <4>3. One \preceq [c |-> m, e |-> e] /\ [c |-> m, e |-> e] \preceq One
        BY <4>2, DecSame
      <4>4. One.c >= 0
        BY <1>2
      <4> QED
        BY <1>2, <4>1, <4>3, <4>4, NearOf
    <3> QED
      BY <1>3, <2>15, <3>2
  <2>17. CASE x # 0
    <3>1. n # 0
      <4> SUFFICES ASSUME n = 0 PROVE FALSE
        OBVIOUS
      <4>1. Width[n \div 1] = 1 /\ n \div 1 = 0
        BY Widths
      <4> QED
        BY <2>8, <2>17, <4>1, DigitsAssumption DEF Excess
    <3>2. PICK l \in Nat \ {0} : l > x /\ x = (IF l > Digits THEN l - Digits ELSE 0) /\ 1 * Ten[l - 1] <= n
      BY <2>7, <2>8, <3>1, KeptRange
    <3>3. l = Digits + x
      BY <2>17, <3>2, DigitsAssumption
    <3>4. l <= k
      <4> SUFFICES ASSUME k <= l - 1 PROVE FALSE
        OBVIOUS
      <4>1. l - 1 \in Nat
        OBVIOUS
      <4>2. Ten[k] <= Ten[l - 1] /\ Ten[l - 1] \in Nat
        BY <4>1, PowerOrder, Powers
      <4>3. n >= t
        BY <2>2, <3>2, <4>2
      <4>4. c = 0
        BY <2>5, <4>3
      \* Then w is zero, and its exponent too.
      <4>5. Normal(w) /\ 0 % 10 = 0 /\ Magnitude(0) = 0
        BY AmountNormal DEF Magnitude
      <4> QED
        BY <1>1, <1>6, <4>4, <4>5 DEF Normal
    <3>5. H = HalfEven(n, j)
      <4>1. 1 * j = j
        OBVIOUS
      <4> QED
        BY <2>8, <2>12, <4>1 DEF KeptDigits
    <3>6. 2 * (j * H - n) <= j /\ 2 * (n - j * H) <= j
      BY <3>5, HalfEvenError
    <3>7. 2 * (m - Ten[k]) <= Ten[x] /\ 2 * (Ten[k] - m) <= Ten[x]
      <4>1. PICK p \in Nat : p = H * j /\ p = j * H
        OBVIOUS
      <4>2. m = c + p /\ n = t - c /\ 2 * (p - n) <= j /\ 2 * (n - p) <= j
        BY <2>5, <2>14, <3>6, <4>1
      <4>3. 2 * (m - t) <= j /\ 2 * (t - m) <= j
        BY <4>2
      <4> QED
        BY <2>2, <2>12, <4>3
    <3>8. Near([c |-> m, e |-> -k]) = One
      <4>1. x > 0 /\ Digits + x <= k
        BY <2>17, <3>3, <3>4
      <4> QED
        BY <3>7, <4>1, NearOne
    <3> QED
      BY <1>3, <2>1, <2>15, <3>8
  <2> QED
    BY <2>16, <2>17
<1> QED
  BY <1>5, <1>6

(***************************************************************************)
(* How far an operation's result can be from the exact one: half a unit    *)
(* in the last of Digits digits, which is 5 parts in Ten[Digits] at most.  *)
(***************************************************************************)
LEMMA FiveParts ==
  ASSUME NEW t \in Int, NEW n \in Int, NEW m \in Int
  PROVE  /\ (t + 5) * n = t * n + 5 * n /\ (t - 5) * n = t * n - 5 * n
         /\ t * (2 * (m - n)) = 2 * (t * m) - 2 * (t * n)
         /\ t * (2 * (n - m)) = 2 * (t * n) - 2 * (t * m)
OBVIOUS

LEMMA KeptError ==
  ASSUME NEW n, NEW d, Precise(n, d), NEW T, T = Ten[Digits],
         NEW E, E = d * (KeptDigits(n, d) * Ten[Excess(n, d)])
  PROVE  T * E <= (T + 5) * n /\ (T - 5) * n <= T * E
<1>1. n \in Nat /\ d \in Nat \ {0} /\ Digits \in Nat /\ T \in Nat \ {0}
  BY Powers, DigitsAssumption DEF Precise
<1>2. PICK x \in Nat, K \in Nat : x = Excess(n, d) /\ K = KeptDigits(n, d)
  BY KeptRange
<1>3. PICK t \in Nat \ {0} : t = Ten[x]
  BY Powers
<1>4. E = d * (K * t)
  BY <1>2, <1>3
<1>5. PICK N \in Nat : N = T * n
  BY <1>1
<1>6. (T + 5) * n = N + 5 * n /\ (T - 5) * n = N - 5 * n
  <2>1. PICK a \in Int, b \in Int : a = T /\ b = n
    BY <1>1
  <2>2. (a + 5) * b = a * b + 5 * b /\ (a - 5) * b = a * b - 5 * b
    BY FiveParts
  <2> QED
    BY <1>5, <2>1, <2>2
<1>7. CASE x = 0
  <2>1. t = 1 /\ n = d * K
    BY <1>2, <1>3, <1>7, KeptRange, Powers
  <2>2. E = n
    BY <1>1, <1>4, <2>1
  <2> QED
    BY <1>1, <1>5, <1>6, <2>2
<1>8. CASE x # 0
  <2>1. n # 0
    <3> SUFFICES ASSUME n = 0 PROVE FALSE
      OBVIOUS
    <3>1. n \div d = 0
      BY <1>1, SMT
    <3>2. Width[0] = 1
      BY Widths
    <3>3. ~ (Width[n \div d] > Digits)
      BY <3>1, <3>2, DigitsAssumption
    <3> QED
      BY <1>2, <1>8, <3>3 DEF Excess
  <2>2. PICK w \in Nat \ {0} : x = (IF w > Digits THEN w - Digits ELSE 0) /\ d * Ten[w - 1] <= n
    BY <1>2, <2>1, KeptRange
  <2>3. w = Digits + x
    BY <1>1, <1>8, <2>2
  <2>4. w - 1 = (Digits - 1) + x /\ Digits - 1 \in Nat /\ w - 1 \in Nat /\ Digits = 1 + (Digits - 1)
    BY <2>3, DigitsAssumption
  <2>5. Ten[w - 1] = Ten[Digits - 1] * t
    BY <1>3, <2>4, PowerSum
  <2>6. T = 10 * Ten[Digits - 1]
    <3>1. Ten[(Digits - 1) + 1] = 10 * Ten[Digits - 1]
      BY <2>4, Powers
    <3>2. (Digits - 1) + 1 = Digits
      BY DigitsAssumption
    <3> QED
      BY <3>1, <3>2
  <2>7. PICK s \in Nat \ {0} : s = Ten[Digits - 1] /\ T = 10 * s /\ Ten[w - 1] = s * t
    BY <2>4, <2>5, <2>6, Powers
  <2>8. PICK u \in Nat \ {0} : u = d * t /\ KeptDigits(n, d) = HalfEven(n, u)
    <3>1. d * t \in Nat \ {0}
      BY <1>1
    <3> QED
      BY <1>2, <1>3, <3>1 DEF KeptDigits
  <2>9. E = u * K
    BY <1>1, <1>4, <2>8
  <2>10. 2 * (E - n) <= u /\ 2 * (n - E) <= u
    BY <1>1, <1>2, <2>8, <2>9, HalfEvenError
  <2>11. u * s <= n
    <3>1. d * (s * t) = u * s
      BY <1>1, <2>8
    <3> QED
      BY <2>2, <2>7, <3>1
  <2>12. PICK M \in Nat : M = E
    BY <2>9
  <2>13. T * (2 * (M - n)) <= 10 * n /\ T * (2 * (n - M)) <= 10 * n
    <3>1. u * T <= 10 * n
      BY <1>1, <2>7, <2>11
    <3>2. (2 * (M - n)) * T <= u * T /\ (2 * (n - M)) * T <= u * T
      <4>1. PICK i \in Int, j \in Int : i = 2 * (M - n) /\ j = 2 * (n - M) /\ i <= u /\ j <= u
        BY <1>1, <2>10, <2>12
      <4>2. i * T <= u * T /\ j * T <= u * T
        BY <1>1, <4>1, Cancel
      <4> QED
        BY <4>1, <4>2
    <3> QED
      BY <1>1, <3>1, <3>2
  <2>14. T * (2 * (M - n)) = 2 * (T * M) - 2 * N /\ T * (2 * (n - M)) = 2 * N - 2 * (T * M)
    <3>1. PICK a \in Int, b \in Int : a = T /\ b = n
      BY <1>1
    <3>2. a * (2 * (M - b)) = 2 * (a * M) - 2 * (a * b) /\ a * (2 * (b - M)) = 2 * (a * b) - 2 * (a * M)
      BY FiveParts
    <3> QED
      BY <1>5, <3>1, <3>2
  <2>15. PICK L \in Nat : L = T * M
    BY <1>1
  <2> QED
    BY <1>1, <1>6, <2>12, <2>13, <2>14, <2>15
<1> QED
  BY <1>7, <1>8

\* A rounded number and the number, both at the exponent f.
LEMMA NearError ==
  ASSUME NEW z \in RawNat, NEW f \in Int, f <= z.e, f <= Near(z).e,
         NEW T, T = Ten[Digits], NEW Z, Z = At10(z, f), NEW N, N = At10(Near(z), f)
  PROVE  /\ Z \in Nat /\ N \in Nat /\ T \in Nat \ {0}
         /\ T * N <= (T + 5) * Z /\ (T - 5) * Z <= T * N
<1>1. PICK n \in Nat, e \in Int : n = z.c /\ e = z.e
  BY DEF RawNat
<1>2. Precise(n, 1)
  BY DEF Precise
<1>3. PICK x \in Nat, K \in Nat : x = Excess(n, 1) /\ K = KeptDigits(n, 1)
  BY <1>2, KeptRange
<1>4. PICK t \in Nat \ {0}, u \in Nat \ {0} : t = Ten[x] /\ u = Ten[e - f]
  <2>1. e - f \in Nat
    BY <1>1
  <2> QED
    BY <2>1, Powers
<1>5. T \in Nat \ {0}
  BY Powers, DigitsAssumption
<1>6. Near(z) = Dec(K, e + x)
  <2>1. 1 * K = K /\ 1 \in Nat \ {0} /\ 1 \in {-1, 1}
    OBVIOUS
  <2>2. Rounded(1, n, 1, e) = Dec(1 * KeptDigits(n, 1), e + Excess(n, 1))
    BY <2>1, RoundedParts
  <2> QED
    BY <1>1, <1>3, <2>1, <2>2 DEF Near
<1>7. N = K * (t * u)
  <2>1. f <= e + x /\ e + x \in Int /\ f <= Dec(K, e + x).e
    BY <1>1, <1>6
  <2>2. N = K * Ten[(e + x) - f]
    BY <1>6, <2>1, DecOf
  <2>3. (e + x) - f = x + (e - f) /\ e - f \in Nat /\ (e + x) - f \in Nat
    BY <1>1
  <2>4. Ten[(e + x) - f] = t * u
    BY <1>4, <2>3, PowerSum
  <2> QED
    BY <2>2, <2>4
<1>8. Z = n * u
  BY <1>1, <1>4 DEF At10
<1>9. PICK E \in Nat : E = K * t
  OBVIOUS
<1>10. E = 1 * (K * t)
  BY <1>9
<1>11. T * E <= (T + 5) * n /\ (T - 5) * n <= T * E
  BY <1>2, <1>3, <1>4, <1>10, KeptError
<1>12. N = E * u
  BY <1>7, <1>9
<1>13. (T * E) * u <= ((T + 5) * n) * u /\ ((T - 5) * n) * u <= (T * E) * u
  <2>1. PICK a \in Int, b \in Int, c \in Int : a = T * E /\ b = (T + 5) * n /\ c = (T - 5) * n
    BY <1>5
  <2>2. a * u <= b * u /\ c * u <= a * u
    BY <1>11, <2>1, Cancel
  <2> QED
    BY <2>1, <2>2
<1>14. (T * E) * u = T * N /\ ((T + 5) * n) * u = (T + 5) * Z /\ ((T - 5) * n) * u = (T - 5) * Z
  BY <1>5, <1>8, <1>12
<1> QED
  BY <1>5, <1>8, <1>12, <1>13, <1>14

\* A rounded quotient times the divisor, and the dividend.
LEMMA QuotientError ==
  ASSUME NEW x \in RawNat, NEW y \in RawNat, y.c > 0, NEW q, q = Quotient(x, y),
         NEW f \in Int, f <= x.e, f <= RawTimes(q, y).e,
         NEW T, T = Ten[Digits], NEW X, X = At10(x, f), NEW Q, Q = At10(RawTimes(q, y), f)
  PROVE  /\ X \in Nat /\ Q \in Nat /\ T \in Nat \ {0} /\ RawTimes(q, y) \in RawNat
         /\ T * Q <= (T + 5) * X /\ (T - 5) * X <= T * Q
<1>1. PICK n \in Nat, d \in Nat \ {0}, i \in Int, j \in Int : x.c = n /\ y.c = d /\ x.e = i /\ y.e = j
  BY DEF RawNat
<1>2. PICK more \in Nat : /\ more >= Digits + Width[d] - Width[n] + 1
                          /\ q = Rounded(1, n * Ten[more], d, (i - j) - more)
  <2>1. Sign(x) = 1 /\ Sign(y) = 1 /\ Magnitude(x.c) = n /\ Magnitude(y.c) = d
    BY <1>1 DEF Sign, Magnitude
  <2>2. PICK shift \in Int : shift = Digits + Width[d] - Width[n] + 1
    <3>1. Width[d] \in Nat /\ Width[n] \in Nat /\ Digits \in Nat
      BY Widths, DigitsAssumption
    <3> QED
      BY <3>1
  <2>3. PICK more \in Nat : more = (IF shift > 0 THEN shift ELSE 0) /\ more >= shift
    OBVIOUS
  <2>4. q = Rounded(1 * 1, n * Ten[more], d, i - j - more)
    BY <1>1, <2>1, <2>2, <2>3 DEF Quotient
  <2> QED
    BY <2>2, <2>3, <2>4
<1>3. PICK r \in Nat \ {0} : r = Ten[more]
  BY Powers
<1>4. PICK m \in Nat : m = n * r /\ Precise(m, d)
  BY <1>2, <1>3, QuotientPrecise
<1>5. PICK g \in Int : g = (i - j) - more
  OBVIOUS
<1>6. PICK k \in Nat, K \in Nat : k = Excess(m, d) /\ K = KeptDigits(m, d)
  BY <1>4, KeptRange
<1>7. q = Dec(K, g + k)
  <2>1. 1 * K = K /\ 1 \in {-1, 1}
    OBVIOUS
  <2>2. Rounded(1, m, d, g) = Dec(1 * KeptDigits(m, d), g + Excess(m, d))
    BY <2>1, RoundedParts
  <2> QED
    BY <1>2, <1>3, <1>4, <1>5, <1>6, <2>1, <2>2
<1>8. PICK t \in Nat \ {0}, T0 \in Nat \ {0} : t = Ten[k] /\ T0 = T
  BY Powers, DigitsAssumption
<1>9. q \in RawNat
  BY QuotientOf, NearFixed
<1>10. PICK c \in Nat, e \in Int : q.c = c /\ q.e = e
  BY <1>9 DEF RawNat
\* The value of q * y at f.
<1>11. PICK h \in Int : h <= e /\ h <= g /\ h <= f - j
  <2>1. PICK l \in Int : l = f - j
    BY <1>1
  <2>2. CASE e <= g /\ e <= l
    BY <2>1, <2>2
  <2>3. CASE g <= e /\ g <= l
    BY <2>1, <2>3
  <2>4. CASE l <= e /\ l <= g
    <3>1. l \in Int /\ l <= e /\ l <= g /\ l <= l
      BY <2>4
    <3> QED
      BY <2>1, <3>1
  <2> QED
    BY <2>2, <2>3, <2>4
<1>12. PICK a \in Nat \ {0}, b \in Nat \ {0}, v \in Nat \ {0} : a = Ten[e - h] /\ b = Ten[g - h] /\ v = Ten[(f - j) - h]
  <2>1. e - h \in Nat /\ g - h \in Nat /\ (f - j) - h \in Nat
    BY <1>11
  <2> QED
    BY <2>1, Powers
<1>13. c * a = (K * t) * b
  <2>1. h <= g + k /\ g + k \in Int /\ h <= Dec(K, g + k).e
    BY <1>7, <1>10, <1>11
  <2>2. At10(q, h) = K * Ten[(g + k) - h]
    BY <1>7, <1>11, <2>1, DecOf
  <2>3. (g + k) - h = k + (g - h) /\ g - h \in Nat /\ (g + k) - h \in Nat
    BY <1>11
  <2>4. Ten[(g + k) - h] = t * b
    BY <1>8, <1>12, <2>3, PowerSum
  <2> QED
    BY <1>10, <1>12, <2>2, <2>4 DEF At10
<1>14. Q * v = (d * (K * t)) * b
  <2>1. f <= e + j
    BY <1>1, <1>10 DEF RawTimes
  <2>2. Q = (c * d) * Ten[(e + j) - f]
    BY <1>1, <1>10 DEF At10, RawTimes
  <2>3. e - h = ((e + j) - f) + ((f - j) - h) /\ (e + j) - f \in Nat /\ (f - j) - h \in Nat /\ e - h \in Nat
    BY <1>11, <2>1
  <2>4. a = Ten[(e + j) - f] * v
    BY <1>12, <2>3, PowerSum
  <2>5. PICK p \in Nat : p = Ten[(e + j) - f] /\ Q = (c * d) * p /\ a = p * v
    BY <2>2, <2>3, <2>4, Powers
  <2>6. Q * v = d * (c * a)
    BY <2>5
  <2> QED
    BY <1>13, <2>6
<1>15. X * v = m * b
  <2>1. i - f \in Nat
    BY <1>1
  <2>2. PICK p \in Nat : p = Ten[i - f] /\ X = n * p
    BY <1>1, <2>1, Powers DEF At10
  <2>3. (i - f) + ((f - j) - h) = more + (g - h) /\ (f - j) - h \in Nat /\ g - h \in Nat
    BY <1>5, <1>11
  <2>4. PICK l \in Nat : l = more + (g - h) /\ l = (i - f) + ((f - j) - h)
    BY <2>3
  <2>5. Ten[l] = p * v /\ Ten[l] = r * b
    <3>1. l \in Nat /\ more \in Nat
      BY <2>3, <2>4
    <3>2. Ten[l] = Ten[i - f] * Ten[(f - j) - h]
      BY <2>1, <2>3, <2>4, <3>1, PowerSum
    <3>3. Ten[l] = Ten[more] * Ten[g - h]
      BY <2>3, <2>4, <3>1, PowerSum
    <3> QED
      BY <1>3, <1>12, <2>2, <3>2, <3>3
  <2>6. X * v = n * (p * v) /\ m * b = n * (r * b)
    BY <1>4, <2>2
  <2> QED
    BY <2>5, <2>6
<1>16. PICK E \in Nat : E = d * (K * t)
  OBVIOUS
<1>17. T0 * E <= (T0 + 5) * m /\ (T0 - 5) * m <= T0 * E
  BY <1>4, <1>6, <1>8, <1>16, KeptError
<1>18. X \in Nat /\ Q \in Nat /\ RawTimes(q, y) \in RawNat
  <2>1. i - f \in Nat /\ (e + j) - f \in Nat
    BY <1>1, <1>10 DEF RawTimes
  <2>2. PICK p \in Nat, s \in Nat : p = Ten[i - f] /\ s = Ten[(e + j) - f]
    BY <2>1, Powers
  <2>3. X = n * p /\ Q = (c * d) * s
    BY <1>1, <1>10, <2>2 DEF At10, RawTimes
  <2>4. RawTimes(q, y) = [c |-> c * d, e |-> e + j]
    BY <1>1, <1>10 DEF RawTimes
  <2> QED
    BY <2>3, <2>4 DEF RawNat
<1>19. T0 * Q <= (T0 + 5) * X /\ (T0 - 5) * X <= T0 * Q
  <2>1. PICK A \in Int, B \in Int, C \in Int : A = T0 * E /\ B = (T0 + 5) * m /\ C = (T0 - 5) * m
    OBVIOUS
  <2>2. A * b <= B * b /\ C * b <= A * b
    BY <1>17, <2>1, Cancel
  <2>3. A * b = (T0 * Q) * v
    <3>1. A * b = T0 * (E * b) /\ (T0 * Q) * v = T0 * (Q * v)
      BY <1>18, <2>1
    <3> QED
      BY <1>14, <1>16, <3>1
  <2>4. B * b = ((T0 + 5) * X) * v /\ C * b = ((T0 - 5) * X) * v
    <3>1. B * b = (T0 + 5) * (m * b) /\ ((T0 + 5) * X) * v = (T0 + 5) * (X * v)
          /\ C * b = (T0 - 5) * (m * b) /\ ((T0 - 5) * X) * v = (T0 - 5) * (X * v)
      BY <1>18, <2>1
    <3> QED
      BY <1>15, <3>1
  <2>5. PICK L \in Int, M \in Int, N \in Int : L = T0 * Q /\ M = (T0 + 5) * X /\ N = (T0 - 5) * X
    BY <1>18
  <2>6. L * v <= M * v /\ N * v <= L * v
    BY <2>2, <2>3, <2>4, <2>5
  <2> QED
    BY <2>5, <2>6, Cancel
<1> QED
  BY <1>8, <1>18, <1>19

LEMMA Scale ==
  ASSUME NEW a \in Int, NEW b \in Int, NEW t \in Nat \ {0}
  PROVE  t * a <= t * b <=> a <= b
<1>1. a * t = t * a /\ b * t = t * b
  OBVIOUS
<1> QED
  BY <1>1, Cancel

\* Two errors one after the other.
LEMMA TwoErrors ==
  ASSUME NEW t \in Nat, t >= 100, NEW a \in Nat, NEW r \in Nat, NEW p \in Nat,
         t * r <= (t + 5) * a, (t - 5) * a <= t * r,
         t * p <= (t + 5) * r, (t - 5) * r <= t * p
  PROVE  /\ (t * t) * p <= (t * t) * a + (10 * (t * a) + 25 * a)
         /\ (t * t) * a - 10 * (t * a) <= (t * t) * p
<1>1. t * (t * p) <= t * ((t + 5) * r) /\ t * ((t - 5) * r) <= t * (t * p)
  <2>1. PICK x \in Int, y \in Int, z \in Int : x = t * p /\ y = (t + 5) * r /\ z = (t - 5) * r
    OBVIOUS
  <2>2. t * x <= t * y /\ t * z <= t * x
    BY <2>1, Scale
  <2> QED
    BY <2>1, <2>2
<1>2. (t + 5) * (t * r) <= (t + 5) * ((t + 5) * a) /\ (t - 5) * ((t - 5) * a) <= (t - 5) * (t * r)
  <2>1. PICK x \in Int, y \in Int, z \in Int : x = t * r /\ y = (t + 5) * a /\ z = (t - 5) * a
    OBVIOUS
  <2>2. PICK u \in Nat \ {0}, v \in Nat \ {0} : u = t + 5 /\ v = t - 5
    OBVIOUS
  <2>3. u * x <= u * y /\ v * z <= v * x
    BY <2>1, <2>2, Scale
  <2> QED
    BY <2>1, <2>2, <2>3
<1>3. t * ((t + 5) * r) = (t + 5) * (t * r) /\ t * ((t - 5) * r) = (t - 5) * (t * r)
  OBVIOUS
<1>4. /\ (t + 5) * ((t + 5) * a) = (t * t) * a + (10 * (t * a) + 25 * a)
      /\ (t - 5) * ((t - 5) * a) = (t * t) * a - 10 * (t * a) + 25 * a
      /\ t * (t * p) = (t * t) * p
  OBVIOUS
<1>5. PICK i \in Int, j \in Int, k \in Int, l \in Int, m \in Int, n \in Int :
        /\ i = (t * t) * p /\ j = (t * t) * a /\ k = t * a
        /\ l = (t + 5) * (t * r) /\ m = (t - 5) * (t * r) /\ n = t * p
  OBVIOUS
<1> QED
  BY <1>1, <1>2, <1>3, <1>4, <1>5

\* What twenty parts of a are worth after one more error.
LEMMA TwentyParts ==
  ASSUME NEW t \in Nat, t >= 100, NEW a \in Nat, NEW v \in Nat, NEW w \in Nat,
         20 * a <= t * v, (t - 5) * v <= t * w
  PROVE  20 * (t * a) - 100 * a <= (t * t) * w
<1>1. t * ((t - 5) * v) <= t * (t * w)
  <2>1. PICK x \in Int, y \in Int : x = (t - 5) * v /\ y = t * w
    OBVIOUS
  <2> QED
    BY <2>1, Scale
<1>2. (t - 5) * (20 * a) <= (t - 5) * (t * v)
  <2>1. PICK x \in Int, y \in Int : x = 20 * a /\ y = t * v
    OBVIOUS
  <2>2. PICK u \in Nat \ {0} : u = t - 5
    OBVIOUS
  <2>3. u * x <= u * y
    BY <2>1, <2>2, Scale
  <2> QED
    BY <2>1, <2>2, <2>3
<1>3. t * ((t - 5) * v) = (t - 5) * (t * v) /\ t * (t * w) = (t * t) * w
      /\ (t - 5) * (20 * a) = 20 * (t * a) - 100 * a
  OBVIOUS
<1>4. PICK i \in Int, j \in Int, k \in Int : i = (t - 5) * (t * v) /\ j = (t * t) * w /\ k = t * a
  OBVIOUS
<1> QED
  BY <1>1, <1>2, <1>3, <1>4

LEMMA PreservedNumbers ==
  ASSUME NEW t \in Nat, t >= 100, NEW a \in Nat, NEW r \in Nat, NEW p \in Nat, NEW v \in Nat, NEW w \in Nat,
         t * r <= (t + 5) * a, (t - 5) * a <= t * r,
         t * p <= (t + 5) * r, (t - 5) * r <= t * p,
         20 * a <= t * v, (t - 5) * v <= t * w
  PROVE  p - a <= w /\ a - p <= w
<1>1. /\ (t * t) * p <= (t * t) * a + (10 * (t * a) + 25 * a)
      /\ (t * t) * a - 10 * (t * a) <= (t * t) * p
  BY TwoErrors
<1>2. 20 * (t * a) - 100 * a <= (t * t) * w
  BY TwentyParts
<1>3. 100 * a <= t * a
  <2>1. a * 100 <= a * t
    BY TimesOrder
  <2> QED
    BY <2>1
<1>4. PICK s \in Nat \ {0} : s = t * t
  OBVIOUS
<1>5. PICK i \in Int, j \in Int, k \in Int, l \in Int : i = s * p /\ j = s * a /\ k = t * a /\ l = s * w
  OBVIOUS
<1>6. i - j <= l /\ j - i <= l
  BY <1>1, <1>2, <1>3, <1>4, <1>5
<1>7. s * (p - a) <= s * w /\ s * (a - p) <= s * w
  <2>1. s * (p - a) = i - j /\ s * (a - p) = j - i
    BY <1>5
  <2> QED
    BY <1>5, <1>6, <2>1
<1>8. p - a \in Int /\ a - p \in Int
  OBVIOUS
<1> QED
  BY <1>7, <1>8, Scale

\* n with its costs: p is what is ordered of n, s its slippage, k their sum.
LEMMA CostNumbers ==
  ASSUME NEW t \in Nat, t >= 100, NEW n \in Nat \ {0}, NEW a \in Nat, NEW p \in Nat, NEW z \in Nat, NEW s \in Nat, NEW k \in Nat,
         t * a <= (t + 5) * n, (t - 5) * n <= t * a,
         t * p <= (t + 5) * a, (t - 5) * a <= t * p,
         20 * n <= t * z, (t - 5) * z <= t * s,
         (t - 5) * (p + s) <= t * k
  PROVE  n < k
<1> SUFFICES ASSUME k <= n PROVE FALSE
  OBVIOUS
<1>1. (t * t) * n - 10 * (t * n) <= (t * t) * p
  BY TwoErrors
<1>2. 20 * (t * n) - 100 * n <= (t * t) * s
  BY TwentyParts
<1>3. (t - 5) * (p + s) <= t * n
  <2>1. t * k <= t * n
    BY Scale
  <2>2. PICK x \in Int, y \in Int, w \in Int : x = (t - 5) * (p + s) /\ y = t * k /\ w = t * n
    OBVIOUS
  <2> QED
    BY <2>1, <2>2
<1>4. PICK q \in Nat \ {0}, u \in Nat \ {0} : q = t * t /\ u = t - 5
  OBVIOUS
<1>5. (t * t) * n + 10 * (t * n) - 100 * n <= (t * t) * (p + s)
  <2>1. (t * t) * (p + s) = (t * t) * p + (t * t) * s
    OBVIOUS
  <2>2. PICK i \in Int, j \in Int, l \in Int, m \in Int : i = (t * t) * p /\ j = (t * t) * s /\ l = (t * t) * n /\ m = t * n
    OBVIOUS
  <2> QED
    BY <1>1, <1>2, <2>1, <2>2
<1>6. u * ((t * t) * n + 10 * (t * n) - 100 * n) <= q * (t * n)
  <2>1. PICK x \in Int, y \in Int : x = (t * t) * n + 10 * (t * n) - 100 * n /\ y = (t * t) * (p + s)
    OBVIOUS
  <2>2. u * x <= u * y
    BY <1>5, <2>1, Scale
  <2>3. u * y = q * (u * (p + s))
    BY <1>4, <2>1
  <2>4. q * (u * (p + s)) <= q * (t * n)
    <3>1. PICK i \in Int, j \in Int : i = u * (p + s) /\ j = t * n
      BY <1>4
    <3>2. i <= j
      BY <1>3, <1>4, <3>1
    <3> QED
      BY <3>1, <3>2, Scale
  <2>5. PICK i \in Int, j \in Int, l \in Int : i = u * x /\ j = u * y /\ l = q * (t * n)
    BY <1>4
  <2> QED
    BY <2>1, <2>2, <2>3, <2>4, <2>5
\* (t - 5) * (t * t + 10 * t - 100) = t * t * t + 5 * t * t - 150 * t + 500
<1>7. u * ((t * t) * n + 10 * (t * n) - 100 * n) = q * (t * n) + (5 * (t * (t * n)) - 150 * (t * n) + 500 * n)
  BY <1>4
<1>8. 100 * (t * n) <= t * (t * n) /\ 0 <= t * n
  <2>1. PICK m \in Nat : m = t * n
    OBVIOUS
  <2>2. m * 100 <= m * t
    BY TimesOrder
  <2>3. m * t = t * m
    OBVIOUS
  <2> QED
    BY <2>1, <2>2, <2>3
<1>9. PICK i \in Int, j \in Int, l \in Int : i = q * (t * n) /\ j = t * (t * n) /\ l = t * n
  BY <1>4
<1> QED
  BY <1>6, <1>7, <1>8, <1>9

\* An increase of a position: c is the cash, a what the position is worth, v the net asset value,
\* d what is to be bought; x and y bound the value and what the slippage of d is at least.
LEMMA AddNumbers ==
  ASSUME NEW t \in Nat, t >= 100, NEW c \in Nat, NEW a \in Nat, NEW v \in Nat \ {0}, NEW d \in Nat, a <= v, d <= v,
         (t - 5) * (c + a) <= t * v, (t - 5) * (v - a) <= t * d,
         NEW x \in Nat, NEW y \in Nat, NEW i \in Nat, NEW j \in Nat, x <= y,
         100 * v <= t * i, (t - 5) * i <= t * x, t * y <= (t + 5) * j,
         NEW z \in Nat, j <= z,
         NEW r \in Nat, NEW p \in Nat, NEW s \in Nat, NEW k \in Nat,
         t * r <= (t + 5) * d, (t - 5) * d <= t * r,
         t * p <= (t + 5) * r, (t - 5) * r <= t * p,
         (t - 5) * z <= t * s, (t - 5) * (p + s) <= t * k
  PROVE  c < k
<1>1. 90 * v <= t * z
  <2>1. (t - 5) * i <= (t + 5) * z
    <3>1. t * x <= t * y
      BY Scale
    <3>2. PICK u \in Nat \ {0} : u = t + 5
      OBVIOUS
    <3>3. u * j <= u * z
      BY Scale
    <3>4. PICK e \in Int, f \in Int, g \in Int, h \in Int, l \in Int :
            e = (t - 5) * i /\ f = t * x /\ g = t * y /\ h = u * j /\ l = u * z
      OBVIOUS
    <3> QED
      BY <3>1, <3>2, <3>3, <3>4
  <2>2. (t - 5) * (100 * v) <= (t + 5) * (t * z)
    <3>1. PICK u \in Nat \ {0} : u = t - 5
      OBVIOUS
    <3>2. u * (100 * v) <= u * (t * i)
      <4>1. PICK e \in Int, f \in Int : e = 100 * v /\ f = t * i
        OBVIOUS
      <4> QED
        BY <4>1, Scale
    <3>3. t * ((t - 5) * i) <= t * ((t + 5) * z)
      <4>1. PICK e \in Int, f \in Int : e = (t - 5) * i /\ f = (t + 5) * z
        OBVIOUS
      <4> QED
        BY <2>1, <4>1, Scale
    <3>4. u * (t * i) = t * ((t - 5) * i) /\ t * ((t + 5) * z) = (t + 5) * (t * z)
      BY <3>1
    <3>5. PICK e \in Int, f \in Int, g \in Int : e = u * (100 * v) /\ f = u * (t * i) /\ g = (t + 5) * (t * z)
      OBVIOUS
    <3> QED
      BY <3>1, <3>2, <3>3, <3>4, <3>5
  <2>3. (t + 5) * (90 * v) <= (t - 5) * (100 * v)
    <3>1. (t - 5) * (100 * v) - (t + 5) * (90 * v) = 10 * (t * v) - 950 * v
      OBVIOUS
    <3>2. 100 * v <= t * v
      <4>1. v * 100 <= v * t
        BY TimesOrder
      <4> QED
        BY <4>1
    <3>3. PICK e \in Int, f \in Int, g \in Int : e = (t - 5) * (100 * v) /\ f = (t + 5) * (90 * v) /\ g = t * v
      OBVIOUS
    <3> QED
      BY <3>1, <3>2, <3>3
  <2>4. PICK u \in Nat \ {0}, e \in Int, f \in Int, g \in Int :
          u = t + 5 /\ e = 90 * v /\ f = t * z /\ g = (t - 5) * (100 * v)
    OBVIOUS
  <2>5. u * e <= u * f
    <3>1. u * e <= g /\ g <= u * f
      BY <2>2, <2>3, <2>4
    <3>2. u * e \in Int /\ u * f \in Int
      OBVIOUS
    <3> QED
      BY <3>1, <3>2
  <2> QED
    BY <2>4, <2>5, Scale
<1>2. 85 * v <= t * s
  <2>1. (t - 5) * (90 * v) <= t * (t * s)
    <3>1. PICK u \in Nat \ {0} : u = t - 5
      OBVIOUS
    <3>2. u * (90 * v) <= u * (t * z)
      <4>1. PICK e \in Int, f \in Int : e = 90 * v /\ f = t * z
        OBVIOUS
      <4> QED
        BY <1>1, <4>1, Scale
    <3>3. t * ((t - 5) * z) <= t * (t * s)
      <4>1. PICK e \in Int, f \in Int : e = (t - 5) * z /\ f = t * s
        OBVIOUS
      <4> QED
        BY <4>1, Scale
    <3>4. u * (t * z) = t * ((t - 5) * z)
      BY <3>1
    <3>5. PICK e \in Int, f \in Int, g \in Int : e = u * (90 * v) /\ f = u * (t * z) /\ g = t * (t * s)
      OBVIOUS
    <3> QED
      BY <3>1, <3>2, <3>3, <3>4, <3>5
  <2>2. t * (85 * v) <= (t - 5) * (90 * v)
    <3>1. (t - 5) * (90 * v) - t * (85 * v) = 5 * (t * v) - 450 * v
      OBVIOUS
    <3>2. v * 100 <= v * t
      BY TimesOrder
    <3>3. PICK e \in Int, f \in Int, g \in Int : e = (t - 5) * (90 * v) /\ f = t * (85 * v) /\ g = t * v
      OBVIOUS
    <3> QED
      BY <3>1, <3>2, <3>3
  <2>3. PICK e \in Int, f \in Int, g \in Int : e = 85 * v /\ f = t * s /\ g = (t - 5) * (90 * v)
    OBVIOUS
  <2>4. t * e <= t * f
    <3>1. t * e <= g /\ g <= t * f
      BY <2>1, <2>2, <2>3
    <3>2. t * e \in Int /\ t * f \in Int
      OBVIOUS
    <3> QED
      BY <3>1, <3>2
  <2> QED
    BY <2>3, <2>4, Scale
<1>3. t * d - 10 * d <= t * p
  <2>1. (t * t) * d - 10 * (t * d) <= (t * t) * p
    BY TwoErrors
  <2>2. PICK e \in Int, f \in Int : e = t * d - 10 * d /\ f = t * p
    OBVIOUS
  <2>3. t * e = (t * t) * d - 10 * (t * d) /\ t * f = (t * t) * p
    BY <2>2
  <2> QED
    BY <2>1, <2>2, <2>3, Scale
<1>4. 95 * (c + a) <= 100 * v
  <2>1. 95 * t <= 100 * (t - 5)
    OBVIOUS
  <2>2. (95 * t) * (c + a) <= (100 * (t - 5)) * (c + a)
    <3>1. PICK e \in Nat, f \in Nat, g \in Nat : e = 95 * t /\ f = 100 * (t - 5) /\ g = c + a
      OBVIOUS
    <3> QED
      BY <2>1, <3>1, TimesOrder
  <2>3. (95 * t) * (c + a) = t * (95 * (c + a)) /\ (100 * (t - 5)) * (c + a) = 100 * ((t - 5) * (c + a))
        /\ 100 * (t * v) = t * (100 * v)
    OBVIOUS
  <2>4. PICK e \in Int, f \in Int, g \in Int, h \in Int :
          e = 95 * (c + a) /\ f = 100 * v /\ g = (t - 5) * (c + a) /\ h = t * v
    OBVIOUS
  <2>5. t * e <= t * f
    <3>1. t * e \in Int /\ t * f \in Int
      OBVIOUS
    <3> QED
      BY <2>2, <2>3, <2>4, <3>1
  <2> QED
    BY <2>4, <2>5, Scale
\* What is to be bought is the cash but for the errors.
<1>5. t * c - 11 * v <= t * d
  <2>1. (t - 5) * (c + a) = t * c + t * a - 5 * (c + a) /\ (t - 5) * (v - a) = t * v - t * a - 5 * (v - a)
    OBVIOUS
  <2>2. PICK e \in Int, f \in Int, g \in Int, h \in Int : e = t * c /\ f = t * a /\ g = t * v /\ h = t * d
    OBVIOUS
  <2>3. e + f - 5 * (c + a) <= g /\ g - f - 5 * (v - a) <= h
    BY <2>1, <2>2
  <2> QED
    BY <1>4, <2>2, <2>3
<1>6. t * c + 64 * v <= t * (p + s)
  <2>1. t * (p + s) = t * p + t * s
    OBVIOUS
  <2>2. PICK e \in Int, f \in Int, g \in Int, h \in Int : e = t * c /\ f = t * d /\ g = t * p /\ h = t * s
    OBVIOUS
  <2> QED
    BY <1>2, <1>3, <1>5, <2>1, <2>2
<1>7. (t - 5) * (t * c + 64 * v) <= t * (t * k)
  <2>1. PICK u \in Nat \ {0} : u = t - 5
    OBVIOUS
  <2>2. u * (t * c + 64 * v) <= u * (t * (p + s))
    <3>1. PICK e \in Int, f \in Int : e = t * c + 64 * v /\ f = t * (p + s)
      OBVIOUS
    <3> QED
      BY <1>6, <3>1, Scale
  <2>3. t * ((t - 5) * (p + s)) <= t * (t * k)
    <3>1. PICK e \in Int, f \in Int : e = (t - 5) * (p + s) /\ f = t * k
      OBVIOUS
    <3> QED
      BY <3>1, Scale
  <2>4. u * (t * (p + s)) = t * ((t - 5) * (p + s))
    BY <2>1
  <2>5. PICK e \in Int, f \in Int, g \in Int : e = u * (t * c + 64 * v) /\ f = u * (t * (p + s)) /\ g = t * (t * k)
    OBVIOUS
  <2> QED
    BY <2>1, <2>2, <2>3, <2>4, <2>5
<1>8. t * (t * c) < t * (t * k)
  <2>1. (t - 5) * (t * c + 64 * v) = t * (t * c) - 5 * (t * c) + 64 * (t * v) - 320 * v
    OBVIOUS
  <2>2. v * 100 <= v * t
    BY TimesOrder
  <2>3. c <= 2 * v
    BY <1>4
  <2>4. t * c <= t * (2 * v)
    <3>1. 2 * v \in Int
      OBVIOUS
    <3> QED
      BY <2>3, <3>1, Scale
  <2>5. PICK e \in Int, f \in Int, g \in Int, h \in Int : e = t * c /\ f = t * v /\ g = t * (t * c) /\ h = t * (t * k)
    OBVIOUS
  <2>6. e <= 2 * f /\ 100 * v <= f
    BY <2>2, <2>4, <2>5
  <2> QED
    BY <1>7, <2>1, <2>5, <2>6
<1> SUFFICES ASSUME k <= c PROVE FALSE
  OBVIOUS
<1>9. t * k <= t * c
  BY Scale
<1>10. t * (t * k) <= t * (t * c)
  <2>1. PICK e \in Int, f \in Int : e = t * k /\ f = t * c
    OBVIOUS
  <2> QED
    BY <1>9, <2>1, Scale
<1>11. PICK e \in Int, f \in Int : e = t * (t * k) /\ f = t * (t * c)
  OBVIOUS
<1> QED
  BY <1>8, <1>10, <1>11


(***************************************************************************)
(* Amounts that are not negative.                                          *)
(***************************************************************************)
NotNegative(x) == Amount(x) /\ x.c >= 0
IsPositive(x) == Amount(x) /\ x.c > 0
IsShare(x) == NotNegative(x) /\ x \preceq One

LEMMA AmountSigns ==
  ASSUME NEW x, Amount(x)
  PROVE  /\ x \in Numeral /\ x.c \in Int
         /\ NotNegative(x) <=> Zero \preceq x
         /\ IsPositive(x) <=> Zero \prec x
         /\ x \preceq Zero <=> x.c <= 0
         /\ x \prec Zero <=> x.c < 0
         /\ NotNegative(x) => x \in RawNat
         /\ x.c = 0 => x = Zero
<1>1. Normal(x) /\ x \in Numeral /\ x.c \in Int
  BY AmountNormal DEF Normal, Numeral
<1>2. NotNegative(x) => x \in RawNat
  BY NearFixed DEF NotNegative
<1>3. ASSUME x.c = 0 PROVE x = Zero
  <2>1. x.e = 0
    BY <1>1, <1>3 DEF Normal, Magnitude
  <2>2. x = [c |-> x.c, e |-> x.e]
    BY <1>1 DEF Numeral
  <2> QED
    BY <1>3, <2>1, <2>2, ZeroOne
<1> QED
  BY <1>1, <1>2, <1>3, SignTells DEF NotNegative, IsPositive

LEMMA PositiveToo ==
  ASSUME NEW x, IsPositive(x)
  PROVE  NotNegative(x) /\ Amount(x)
<1>1. Amount(x) /\ x.c > 0
  BY DEF IsPositive
<1>2. x.c \in Int
  BY <1>1, AmountSigns
<1> QED
  BY <1>1, <1>2 DEF NotNegative

LEMMA AmountOrder ==
  ASSUME NEW x, NEW y, NEW z, Amount(x), Amount(y), Amount(z)
  PROVE  /\ x \preceq x
         /\ x \preceq y /\ y \preceq z => x \preceq z
         /\ x \prec y /\ y \preceq z => x \prec z
         /\ x \preceq y /\ y \prec z => x \prec z
         /\ x \prec y => x \preceq y
         /\ x \preceq y \/ y \prec x
<1>1. x \in Numeral /\ y \in Numeral /\ z \in Numeral
  BY AmountSigns
<1>2. x \preceq y \/ y \prec x
  BY DEF \preceq
<1> QED
  BY <1>1, <1>2, OrderReflexive, OrderTransitive

LEMMA Sums ==
  ASSUME NEW x, NEW y, NotNegative(x), NotNegative(y)
  PROVE  /\ NotNegative(Plus(x, y)) /\ x \preceq Plus(x, y) /\ y \preceq Plus(x, y)
         /\ IsPositive(x) \/ IsPositive(y) => IsPositive(Plus(x, y))
<1>1. x \in RawNat /\ y \in RawNat /\ Amount(x) /\ Amount(y) /\ x.c >= 0 /\ y.c >= 0
      /\ x \in Numeral /\ y \in Numeral
  BY AmountSigns DEF NotNegative
<1>2. x \preceq Plus(x, y) /\ Amount(Plus(x, y)) /\ Plus(x, y).c >= 0 /\ (x.c > 0 => Plus(x, y).c > 0)
  BY <1>1, PlusAtLeast
<1>3. y \preceq Plus(y, x) /\ (y.c > 0 => Plus(y, x).c > 0)
  BY <1>1, PlusAtLeast
<1>4. Plus(x, y) = Plus(y, x)
  BY <1>1, PlusSymmetric
<1> QED
  BY <1>2, <1>3, <1>4 DEF NotNegative, IsPositive

LEMMA Products ==
  ASSUME NEW x, NEW y, NotNegative(x), NotNegative(y)
  PROVE  /\ NotNegative(Product(x, y))
         /\ IsPositive(x) /\ IsPositive(y) => IsPositive(Product(x, y))
         /\ IsShare(y) => Product(x, y) \preceq x
<1>1. x \in RawNat /\ y \in RawNat /\ Amount(x) /\ x.c >= 0
  BY AmountSigns DEF NotNegative
<1>2. Product(x, y).c >= 0 /\ Amount(Product(x, y)) /\ (x.c > 0 /\ y.c > 0 => Product(x, y).c > 0)
  BY <1>1, ProductSign
<1>3. y \preceq One => Product(x, y) \preceq x
  BY <1>1, ProductPart
<1> QED
  BY <1>2, <1>3 DEF NotNegative, IsPositive, IsShare

LEMMA ProductsOrder ==
  ASSUME NEW x, NEW y, NEW z, NotNegative(x), NotNegative(y), NotNegative(z), x \preceq y
  PROVE  Product(x, z) \preceq Product(y, z)
<1>1. x \in RawNat /\ y \in RawNat /\ z \in RawNat /\ z \preceq z
  BY AmountSigns, AmountOrder DEF NotNegative
<1> QED
  BY <1>1, ProductOrder

LEMMA Differences ==
  ASSUME NEW x, NEW y, Amount(x), Amount(y)
  PROVE  /\ Amount(Difference(x, y))
         /\ y \preceq x => NotNegative(Difference(x, y))
         /\ y \prec x => IsPositive(Difference(x, y))
         /\ x \prec y => Difference(x, y).c < 0
<1>1. x \in Numeral /\ y \in Numeral
  BY AmountSigns
<1> QED
  BY <1>1, DifferenceSign DEF NotNegative, IsPositive

LEMMA Quotients ==
  ASSUME NEW x, NEW y, NotNegative(x), IsPositive(y)
  PROVE  /\ NotNegative(Quotient(x, y))
         /\ IsPositive(x) => IsPositive(Quotient(x, y))
         /\ x \preceq y => IsShare(Quotient(x, y))
<1>1. x \in RawNat /\ y \in RawNat /\ y.c > 0
  <2>1. NotNegative(y)
    BY AmountSigns DEF NotNegative, IsPositive
  <2> QED
    BY <2>1, AmountSigns DEF NotNegative, IsPositive
<1> QED
  BY <1>1, QuotientOf DEF NotNegative, IsPositive, IsShare

\* The size of a sale is the negative of a negative difference.
LEMMA Negated ==
  ASSUME NEW x, Amount(x), x.c < 0
  PROVE  IsPositive(Minus(x))
<1>1. x \in Numeral /\ x.c \in Int /\ Normal(x)
  BY AmountSigns, AmountNormal
<1>2. Minus(x) \in Numeral /\ Minus(x).e = x.e /\ Minus(x).c = - x.c
  BY <1>1, MinusRaw
<1>3. Magnitude(- x.c) = Magnitude(x.c) /\ - x.c > 0
  BY <1>1 DEF Magnitude
<1>4. Normal(Minus(x)) /\ Magnitude(Minus(x).c) < Ten[Digits]
  BY <1>1, <1>2, <1>3, AmountNormal DEF Normal
<1> QED
  BY <1>2, <1>3, <1>4, AmountNormal DEF IsPositive

LEMMA LeastOf ==
  ASSUME NEW x, NEW y, Amount(x), Amount(y)
  PROVE  /\ Least(x, y) \in {x, y}
         /\ Least(x, y) \preceq x /\ Least(x, y) \preceq y
<1>1. x \preceq x /\ y \preceq y /\ (y \prec x => y \preceq x) /\ (x \preceq y \/ y \prec x)
  BY AmountOrder
<1> QED
  BY <1>1 DEF Least, \preceq

LEMMA QuotientAmount ==
  ASSUME NEW x, NEW y, Amount(x), IsPositive(y)
  PROVE  Amount(Quotient(x, y))
<1>1. PICK n \in Nat, d \in Nat \ {0}, i \in Int, j \in Int :
        n = Magnitude(x.c) /\ d = Magnitude(y.c) /\ x.e = i /\ y.e = j
  <2>1. x \in Numeral /\ y \in Numeral /\ y.c > 0
    BY AmountSigns DEF IsPositive
  <2>2. Magnitude(x.c) \in Nat /\ Magnitude(y.c) \in Nat \ {0} /\ x.e \in Int /\ y.e \in Int
    BY <2>1 DEF Magnitude, Numeral
  <2> QED
    BY <2>2
<1>2. Sign(x) * Sign(y) \in {-1, 1}
  BY DEF Sign
<1>3. PICK shift \in Int : shift = Digits + Width[d] - Width[n] + 1
  <2>1. Width[d] \in Nat /\ Width[n] \in Nat /\ Digits \in Nat
    BY Widths, DigitsAssumption
  <2> QED
    BY <2>1
<1>4. PICK more \in Nat : more = (IF shift > 0 THEN shift ELSE 0) /\ more >= shift
  OBVIOUS
<1>5. Precise(n * Ten[more], d) /\ i - j - more \in Int
  BY <1>3, <1>4, QuotientPrecise
<1>6. Quotient(x, y) = Rounded(Sign(x) * Sign(y), n * Ten[more], d, i - j - more)
  BY <1>1, <1>3, <1>4 DEF Quotient
<1> QED
  BY <1>2, <1>5, <1>6, RoundedAmount

(***************************************************************************)
(* Sequences of sets, and the net asset value.                             *)
(***************************************************************************)
\* A nonempty set of positions has a last one.
LEMMA LastPosition ==
  ASSUME NEW n \in Nat, NEW T \in SUBSET (1 .. n), T # {}
  PROVE  /\ Max(T) \in T
         /\ \A j \in T : Max(T) >= j
<1> DEFINE Back == {n - i : i \in T}
<1>1. \A i \in T : i \in 1 .. n
  OBVIOUS
<1>2. Back \subseteq Nat /\ Back # {}
  <2>1. \A i \in T : n - i \in Nat
    BY <1>1
  <2> QED
    BY <2>1, Zenon
<1>3. PICK x \in Back : \A y \in Back : x <= y
  <2> HIDE DEF Back
  <2> QED
    BY <1>2, LeastNumber
<1>5. PICK i \in T : x = n - i
  OBVIOUS
<1>6. \A j \in T : i >= j
  <2>1. ASSUME NEW j \in T
        PROVE  n - i <= n - j
    BY <1>3, <1>5
  <2> QED
    BY <1>1, <2>1
<1> HIDE DEF Back
<1> QED
  BY <1>6 DEF Max

\* A finite set in some order.
LEMMA SequenceOf ==
  ASSUME NEW S, IsFiniteSet(S)
  PROVE  /\ Cardinality(S) \in Nat
         /\ SetToSeq(S) \in [1 .. Cardinality(S) -> S]
         /\ SetToSeq(S) \in Seq(S) /\ Len(SetToSeq(S)) = Cardinality(S)
         /\ DOMAIN SetToSeq(S) = 1 .. Cardinality(S)
         /\ ToSet(SetToSeq(S)) = S
         /\ \A i, j \in 1 .. Cardinality(S) : SetToSeq(S)[i] = SetToSeq(S)[j] => i = j
<1>1. PICK n \in Nat : n = Cardinality(S)
  BY FS_CardinalityType
<1>2. ExistsBijection(1 .. n, S)
  <2>1. PICK m \in Nat : ExistsBijection(1 .. m, S)
    BY FS_NatBijection
  <2> QED
    BY <1>1, <2>1, FS_CountingElements
<1>3. PICK f \in [1 .. n -> S] : IsInjective(f)
  BY <1>2 DEF ExistsBijection, Bijection, Injection
<1>4. PICK q : q = SetToSeq(S) /\ q \in [1 .. n -> S] /\ IsInjective(q)
  BY <1>1, <1>3, Zenon DEF SetToSeq
<1>5. q \in Injection(1 .. n, S)
  BY <1>4 DEF Injection
<1>6. Cardinality(1 .. n) = n
  <2>1. 1 \in Int /\ n \in Int /\ (IF 1 > n THEN 0 ELSE n - 1 + 1) = n
    OBVIOUS
  <2> QED
    BY <2>1, FS_Interval
<1>7. q \in Surjection(1 .. n, S)
  BY <1>1, <1>5, <1>6, FS_Injection
<1>8. \A x \in S : \E i \in 1 .. n : q[i] = x
  BY <1>7 DEF Surjection
<1>9. ToSet(q) = S
  BY <1>4, <1>8 DEF ToSet
<1>10. q \in Seq(S) /\ Len(q) = n
  BY <1>4
<1>11. \A i, j \in 1 .. n : q[i] = q[j] => i = j
  BY <1>4 DEF IsInjective
<1> QED
  BY <1>1, <1>4, <1>9, <1>10, <1>11

\* What FoldLeft computes on the way: the value with the positions that have their places in s.
NavTurn(g, q, book, prices, s) ==
  IF s = {} THEN book.cash ELSE Plus(g[s \ {Max(s)}], Worth(book, prices, q[Max(s)]))

NavTurns(g, q, book, prices) ==
  g = [s \in SUBSET DOMAIN q |-> NavTurn(g, q, book, prices, s)]

LEMMA NavIs ==
  ASSUME NEW book, NEW prices, NEW q, q = SetToSeq(DOMAIN book.positions)
  PROVE  Nav(book, prices) = (CHOOSE g : NavTurns(g, q, book, prices))[DOMAIN q]
BY Zenon DEF Nav, FoldLeft, MapThenFoldSet, NavTurn, NavTurns

LEMMA NavTurnsExist ==
  ASSUME NEW R, NEW q \in Seq(R), NEW book, NEW prices
  PROVE  \E g : NavTurns(g, q, book, prices)
<1> DEFINE S == DOMAIN q
           T(g, s) == NavTurn(g, q, book, prices, s)
           Good(g, n) == \A s \in SUBSET S : Cardinality(s) < n => g[s] = T(g, s)
           Bad == {n \in Nat : ~\E g : Good(g, n)}
<1>1. S = 1 .. Len(q) /\ Len(q) \in Nat /\ IsFiniteSet(S)
  BY FS_Interval
<1>2. \A s \in SUBSET S : s # {} => Max(s) \in s
  BY <1>1, LastPosition
<1>3. /\ \A s \in SUBSET S : /\ IsFiniteSet(s) /\ Cardinality(s) \in Nat
                             /\ Cardinality(s) <= Cardinality(S)
                             /\ \A x \in s : Cardinality(s \ {x}) = Cardinality(s) - 1
      /\ Cardinality(S) \in Nat
  <2> HIDE DEF S
  <2> QED
    BY <1>1, FS_Subset, FS_CardinalityType, FS_RemoveElement
<1> HIDE DEF S
<1>4. ASSUME NEW g, NEW h, NEW s \in SUBSET S,
             s # {} => h[s \ {Max(s)}] = g[s \ {Max(s)}]
      PROVE  T(h, s) = T(g, s)
  BY <1>4, Zenon DEF NavTurn
<1> HIDE DEF T
<1>5. ASSUME NEW n \in Nat, NEW g, Good(g, n)
      PROVE  \E h : Good(h, n + 1)
  <2> DEFINE h == [s \in SUBSET S |-> T(g, s)]
  <2>1. ASSUME NEW s \in SUBSET S, Cardinality(s) < n + 1 PROVE h[s] = T(h, s)
    <3>1. ASSUME s # {} PROVE h[s \ {Max(s)}] = g[s \ {Max(s)}]
      <4>1. Max(s) \in s
        BY <1>2, <3>1
      <4>2. s \ {Max(s)} \in SUBSET S /\ Cardinality(s \ {Max(s)}) < n
        BY <1>3, <2>1, <4>1
      <4> QED
        BY <1>5, <4>2
    <3>2. T(h, s) = T(g, s)
      <4> HIDE DEF h
      <4> QED
        BY <1>4, <3>1
    <3> QED
      BY <3>2
  <2> QED
    BY <2>1
<1>6. Bad = {}
  <2> SUFFICES ASSUME Bad # {} PROVE FALSE
    OBVIOUS
  <2>1. PICK n \in Bad : \A m \in Bad : n <= m
    <3>1. Bad \subseteq Nat
      OBVIOUS
    <3> HIDE DEF Bad
    <3> QED
      BY <3>1, LeastNumber
  <2>2. n # 0
    <3>1. Good([s \in SUBSET S |-> 0], 0)
      BY <1>3
    <3> HIDE DEF Good
    <3> QED
      BY <3>1
  <2> HIDE DEF Good
  <2>3. n - 1 \in Nat /\ n - 1 \notin Bad /\ n = (n - 1) + 1
    BY <2>1, <2>2
  <2> QED
    BY <1>5, <2>1, <2>3
<1>7. PICK g : Good(g, Cardinality(S) + 1)
  <2>1. Cardinality(S) + 1 \in Nat
    BY <1>3
  <2> HIDE DEF Good
  <2> QED
    BY <1>6, <2>1
<1> DEFINE h == [s \in SUBSET S |-> T(g, s)]
<1>8. \A s \in SUBSET S : h[s] = g[s]
  BY <1>3, <1>7
<1>9. ASSUME NEW s \in SUBSET S PROVE T(h, s) = T(g, s)
  <2>1. s \ {Max(s)} \in SUBSET S
    OBVIOUS
  <2> HIDE DEF h
  <2> QED
    BY <1>4, <1>8, <2>1
<1>10. NavTurns(h, q, book, prices)
  <2>1. h = [s \in SUBSET S |-> T(h, s)]
    <3>1. [s \in SUBSET S |-> T(h, s)] = [s \in SUBSET S |-> T(g, s)]
      <4> HIDE DEF h
      <4> QED
        BY <1>9
    <3> QED
      BY <3>1
  <2> HIDE DEF h
  <2> QED
    BY <2>1 DEF NavTurns, S, T
<1> HIDE DEF h
<1> QED
  BY <1>10

\* From the cash to the value.
NavSteps(g, q, book, prices) ==
  /\ Nav(book, prices) = g[DOMAIN q] /\ g[{}] = book.cash
  /\ \A s \in SUBSET DOMAIN q : s # {} =>
       g[s] = Plus(g[s \ {Max(s)}], Worth(book, prices, q[Max(s)]))

LEMMA NavStepsExist ==
  ASSUME NEW book, NEW prices, IsFiniteSet(DOMAIN book.positions),
         NEW q, q = SetToSeq(DOMAIN book.positions)
  PROVE  \E g : NavSteps(g, q, book, prices)
<1>1. q \in Seq(DOMAIN book.positions)
  BY SequenceOf
<1>2. PICK g : NavTurns(g, q, book, prices) /\ Nav(book, prices) = g[DOMAIN q]
  <2>1. \E g : NavTurns(g, q, book, prices)
    BY <1>1, NavTurnsExist
  <2> QED
    BY <2>1, NavIs, Zenon
<1>3. g[{}] = book.cash
  <2>1. {} \in SUBSET DOMAIN q
    OBVIOUS
  <2> QED
    BY <1>2, <2>1, Zenon DEF NavTurns, NavTurn
<1>4. ASSUME NEW s \in SUBSET DOMAIN q, s # {}
      PROVE  g[s] = Plus(g[s \ {Max(s)}], Worth(book, prices, q[Max(s)]))
  BY <1>2, <1>4, Zenon DEF NavTurns, NavTurn
<1>5. NavSteps(g, q, book, prices)
  BY <1>2, <1>3, <1>4, Zenon DEF NavSteps
<1> QED
  BY <1>5

\* There is no smallest set of positions with which the value is not an amount.
LEMMA NavAmount ==
  ASSUME NEW book, NEW prices, IsFiniteSet(DOMAIN book.positions), Amount(book.cash),
         \A x \in DOMAIN book.positions : Amount(Worth(book, prices, x))
  PROVE  Amount(Nav(book, prices))
<1> DEFINE P == DOMAIN book.positions
<1>1. PICK q : q = SetToSeq(P)
  OBVIOUS
<1>2. PICK k \in Nat : DOMAIN q = 1 .. k /\ \A i \in 1 .. k : q[i] \in P
  <2>1. Cardinality(P) \in Nat /\ q \in [1 .. Cardinality(P) -> P]
    BY <1>1, SequenceOf
  <2> QED
    BY <2>1
<1>3. PICK g : NavSteps(g, q, book, prices)
  BY <1>1, NavStepsExist
<1> DEFINE D == DOMAIN q
<1>4. IsFiniteSet(D) /\ \A s \in SUBSET D : s # {} => Max(s) \in s
  <2>1. IsFiniteSet(1 .. k)
    BY FS_Interval
  <2>2. \A s \in SUBSET (1 .. k) : s # {} => Max(s) \in s
    BY LastPosition
  <2> QED
    BY <1>2, <2>1, <2>2, Zenon
<1>5. ASSUME NEW s \in SUBSET D, s # {}, Amount(g[s \ {Max(s)}])
      PROVE  Amount(g[s])
  <2>1. Max(s) \in s /\ g[s] = Plus(g[s \ {Max(s)}], Worth(book, prices, q[Max(s)]))
    BY <1>3, <1>4, <1>5 DEF NavSteps
  <2>2. PICK x \in P : x = q[Max(s)]
    BY <1>2, <2>1
  <2>3. PICK a, b : a = g[s \ {Max(s)}] /\ b = Worth(book, prices, x) /\ a \in Numeral /\ b \in Numeral
    BY <1>5, AmountSigns
  <2> QED
    BY <2>1, <2>2, <2>3, PlusSum
<1> HIDE DEF D
<1>6. \A s \in SUBSET D : Amount(g[s])
  <2> DEFINE Bad   == {s \in SUBSET D : ~Amount(g[s])}
             Sizes == {Cardinality(s) : s \in Bad}
  <2>1. \A s \in SUBSET D : /\ IsFiniteSet(s) /\ Cardinality(s) \in Nat
                            /\ \A x \in s : Cardinality(s \ {x}) = Cardinality(s) - 1
    BY <1>4, FS_Subset, FS_CardinalityType, FS_RemoveElement
  <2>2. ASSUME Bad # {} PROVE FALSE
    <3>1. Sizes \subseteq Nat /\ Sizes # {}
      BY <2>1, <2>2
    <3>2. PICK n \in Sizes : \A m \in Sizes : n <= m
      <4> HIDE DEF Sizes
      <4> QED
        BY <3>1, LeastNumber
    <3>3. PICK s \in Bad : Cardinality(s) = n
      OBVIOUS
    <3>4. s # {} /\ s \in SUBSET D /\ ~Amount(g[s])
      BY <1>3, <3>3 DEF NavSteps
    <3>5. Max(s) \in s
      BY <1>4, <3>4
    <3>6. s \ {Max(s)} \in Bad
      <4>1. s \ {Max(s)} \in SUBSET D
        BY <3>4
      <4> QED
        BY <1>5, <3>4, <4>1
    <3>7. n <= Cardinality(s \ {Max(s)})
      <4>1. Cardinality(s \ {Max(s)}) \in Sizes
        BY <3>6
      <4> HIDE DEF Sizes, Bad
      <4> QED
        BY <3>2, <4>1
    <3>8. Cardinality(s \ {Max(s)}) = n - 1 /\ n \in Nat
      <4> HIDE DEF Sizes, Bad
      <4> QED
        BY <2>1, <3>3, <3>4, <3>5
    <3> QED
      BY <3>7, <3>8
  <2> QED
    BY <2>2
<1> QED
  BY <1>3, <1>6 DEF D, NavSteps

\* The value of a book of at most one position.
LEMMA NavOfOne ==
  ASSUME NEW book, NEW prices, NEW x, DOMAIN book.positions \subseteq {x}
  PROVE  /\ DOMAIN book.positions = {} => Nav(book, prices) = book.cash
         /\ DOMAIN book.positions = {x} => Nav(book, prices) = Plus(book.cash, Worth(book, prices, x))
<1> DEFINE P == DOMAIN book.positions
<1>1. P = {} \/ P = {x}
  OBVIOUS
<1>2. IsFiniteSet(P) /\ (P = {} => Cardinality(P) = 0) /\ (P = {x} => Cardinality(P) = 1)
  <2> HIDE DEF P
  <2>1. IsFiniteSet({}) /\ Cardinality({}) = 0
    BY FS_EmptySet
  <2>2. IsFiniteSet({x}) /\ Cardinality({x}) = 1
    BY FS_Singleton
  <2> QED
    BY <1>1, <2>1, <2>2, Zenon
<1>3. PICK q : q = SetToSeq(P)
  OBVIOUS
<1>4. DOMAIN q = 1 .. Cardinality(P) /\ q \in [1 .. Cardinality(P) -> P]
  BY <1>2, <1>3, SequenceOf
<1>5. PICK g : NavSteps(g, q, book, prices)
  BY <1>2, <1>3, NavStepsExist
<1>6. ASSUME P = {} PROVE Nav(book, prices) = book.cash
  <2>1. DOMAIN q = {}
    BY <1>2, <1>4, <1>6
  <2> QED
    BY <1>5, <2>1, Zenon DEF NavSteps
<1>7. ASSUME P = {x} PROVE Nav(book, prices) = Plus(book.cash, Worth(book, prices, x))
  <2>1. DOMAIN q = {1} /\ q[1] = x
    BY <1>2, <1>4, <1>7
  <2>2. Max({1}) = 1 /\ {1} \ {1} = {}
    <3>1. {1} \in SUBSET (1 .. 1) /\ {1} # {}
      OBVIOUS
    <3>2. Max({1}) \in {1}
      BY <3>1, LastPosition
    <3> QED
      BY <3>2
  <2>3. {1} \in SUBSET DOMAIN q /\ {1} # {}
    BY <2>1
  <2>4. g[{1}] = Plus(g[{1} \ {Max({1})}], Worth(book, prices, q[Max({1})]))
    BY <1>5, <2>3, Zenon DEF NavSteps
  <2> QED
    BY <1>5, <2>1, <2>2, <2>4, Zenon DEF NavSteps
<1> QED
  BY <1>6, <1>7

LEMMA ProductOfZero ==
  ASSUME NEW y, Amount(y)
  PROVE  Product(Zero, y) = Zero /\ Product(y, Zero) = Zero
<1>1. Zero.c = 0 /\ Magnitude(0) = 0 /\ Zero.e = 0
  BY ZeroOne DEF Magnitude
<1>2. PICK m \in Nat : m = Magnitude(y.c)
  BY AmountSigns DEF Magnitude
<1>3. 0 * m = 0 /\ m * 0 = 0 /\ Precise(0, 1)
  BY DEF Precise
<1>4. Sign(Zero) * Sign(y) \in {-1, 1} /\ Sign(y) * Sign(Zero) \in {-1, 1}
      /\ Zero.e + y.e \in Int /\ y.e + Zero.e \in Int
  <2>1. y.e \in Int
    BY AmountSigns DEF Numeral
  <2> QED
    BY <1>1, <2>1 DEF Sign
<1>5. /\ Product(Zero, y) = Rounded(Sign(Zero) * Sign(y), 0, 1, Zero.e + y.e)
      /\ Product(y, Zero) = Rounded(Sign(y) * Sign(Zero), 0, 1, y.e + Zero.e)
  BY <1>1, <1>2, <1>3 DEF Product
<1> QED
  BY <1>3, <1>4, <1>5, RoundedAmount

(***************************************************************************)
(* From a target to the book after the fill.                               *)
(***************************************************************************)
\* What is held is held in positive quantities.
Holding(book) ==
  /\ IsFiniteSet(DOMAIN book.positions)
  /\ book.positions = [s \in DOMAIN book.positions |-> book.positions[s]]
  /\ \A s \in DOMAIN book.positions : IsPositive(book.positions[s])

\* What a fill needs to know of its order.
Fillable(p) ==
  /\ p.action \in {"BUY", "ADD", "REDUCE", "EXIT"}
  /\ IsPositive(p.price)
  /\ Opens(p) => NotNegative(p.quantity) /\ NotNegative(p.slippage)
  /\ p.action = "REDUCE" => IsShare(p.fraction)

LEMMA HeldOf ==
  ASSUME NEW book, Holding(book), NEW s
  PROVE  /\ NotNegative(Held(book, s))
         /\ s \in DOMAIN book.positions => IsPositive(Held(book, s))
         /\ s \notin DOMAIN book.positions => Held(book, s) = Zero
         /\ Zero \prec Held(book, s) <=> s \in DOMAIN book.positions
         /\ Held(book, s) = Zero <=> s \notin DOMAIN book.positions
<1>1. NotNegative(Zero) /\ ~IsPositive(Zero) /\ Amount(Zero)
  BY ZeroOne DEF NotNegative, IsPositive
<1>2. CASE s \in DOMAIN book.positions
  <2>1. IsPositive(Held(book, s))
    BY <1>2 DEF Held, Holding
  <2>2. NotNegative(Held(book, s)) /\ Zero \prec Held(book, s)
    BY <2>1, AmountSigns DEF NotNegative, IsPositive
  <2> QED
    BY <1>1, <1>2, <2>1, <2>2
<1>3. CASE s \notin DOMAIN book.positions
  <2>1. Held(book, s) = Zero
    BY <1>3 DEF Held
  <2>2. ~(Zero \prec Zero)
    BY <1>1, AmountSigns
  <2> QED
    BY <1>1, <1>3, <2>1, <2>2
<1> QED
  BY <1>2, <1>3

LEMMA WorthOf ==
  ASSUME NEW book, Holding(book), NEW prices, NEW s, IsPositive(prices[s])
  PROVE  /\ NotNegative(Worth(book, prices, s))
         /\ s \in DOMAIN book.positions => IsPositive(Worth(book, prices, s))
         /\ s \notin DOMAIN book.positions => Worth(book, prices, s) = Zero
<1>1. NotNegative(Held(book, s)) /\ NotNegative(prices[s])
  BY HeldOf, AmountSigns DEF IsPositive, NotNegative
<1>2. NotNegative(Worth(book, prices, s)) /\ (s \in DOMAIN book.positions => IsPositive(Worth(book, prices, s)))
  BY <1>1, HeldOf, Products DEF Worth
<1>3. ASSUME s \notin DOMAIN book.positions PROVE Worth(book, prices, s) = Zero
  <2>1. PICK h, r : h = Held(book, s) /\ r = prices[s] /\ h = Zero /\ NotNegative(r)
    BY <1>1, <1>3, HeldOf
  <2>2. Product(Zero, r) = Zero
    BY <2>1, ProductOfZero DEF NotNegative
  <2> QED
    BY <2>1, <2>2 DEF Worth
<1> QED
  BY <1>2, <1>3

\* The proposals of a book are consistent with it.
LEMMA ProposalFacts ==
  ASSUME NEW target, NEW book, NEW prices, NEW s,
         Holding(book), Amount(book.cash), Amount(Nav(book, prices)),
         NotNegative(Weight(target, s)), IsPositive(prices[s]),
         NEW p \in ProposalFor(target, book, prices, s)
  PROVE  /\ Fillable(p) /\ p.symbol = s /\ p.price = prices[s]
         /\ Opens(p) => p.notional = Product(p.quantity, p.price)
         /\ ~Opens(p) => /\ p.notional = Unset /\ s \in DOMAIN book.positions
                         /\ IsPositive(IntentQuantity(p, book))
                         /\ IntentQuantity(p, book) \preceq Held(book, s)
<1> DEFINE delta == DeltaNotional(target, book, prices, s)
           price == prices[s]
           held  == Held(book, s)
<1>1. NotNegative(held) /\ NotNegative(price) /\ Amount(price) /\ Amount(held)
      /\ (held # Zero => s \in DOMAIN book.positions)
      /\ (s \in DOMAIN book.positions => IsPositive(held))
  BY HeldOf, AmountSigns DEF IsPositive, NotNegative
<1>2. Amount(delta)
  <2>1. PICK a, b : a = Product(Nav(book, prices), Weight(target, s)) /\ b = Worth(book, prices, s)
    OBVIOUS
  <2>2. Amount(a)
    <3>1. Nav(book, prices) \in Numeral /\ Weight(target, s) \in Numeral
      BY AmountSigns DEF NotNegative
    <3> QED
      BY <2>1, <3>1, ProductAmount
  <2>3. Amount(b)
    BY <2>1, WorthOf DEF NotNegative
  <2> QED
    BY <2>1, <2>2, <2>3, Differences DEF DeltaNotional
<1>3. NotNegative(SlippageRate) /\ Amount(MinOrderNotional) /\ NotNegative(MinOrderNotional)
  BY SizingAssumption, AmountSigns
<1>4. Amount(Zero) /\ Amount(One) /\ IsPositive(One) /\ NotNegative(One)
  BY ZeroOne DEF IsPositive, NotNegative
<1>5. CASE p = Exit(book, prices, s) /\ FullExit(target, book, s)
  <2>1. p.action = "EXIT" /\ p.symbol = s /\ p.price = price /\ p.notional = Unset
    BY <1>5, Zenon DEF Exit, Proposal
  <2>2. IntentQuantity(p, book) = held
    BY <2>1 DEF IntentQuantity
  <2>3. s \in DOMAIN book.positions
    BY <1>5, HeldOf DEF FullExit
  <2>4. held \preceq held
    BY <1>1, AmountOrder
  <2> QED
    BY <1>1, <2>1, <2>2, <2>3, <2>4 DEF Fillable, Opens
<1>6. CASE p = Reduction(target, book, prices, s) /\ delta \prec Zero /\ held # Zero
  <2>1. IsPositive(held)
    BY <1>1, <1>6
  <2>2. PICK debt : debt = Minus(delta) /\ IsPositive(debt)
    <3>1. delta.c < 0
      BY <1>2, <1>6, AmountSigns
    <3> HIDE DEF delta
    <3> QED
      BY <1>2, <3>1, Negated
  <2>3. PICK excess : excess = Quotient(debt, price) /\ IsPositive(excess)
    <3>1. NotNegative(debt)
      BY <2>2, PositiveToo
    <3>2. PICK r : r = price /\ IsPositive(r)
      OBVIOUS
    <3>3. IsPositive(Quotient(debt, r))
      BY <2>2, <3>1, <3>2, Quotients
    <3> QED
      BY <3>2, <3>3
  <2>4. PICK quantity : quantity = Least(excess, held) /\ IsPositive(quantity) /\ quantity \preceq held
    <3>1. Amount(excess)
      BY <2>3 DEF IsPositive
    <3> HIDE DEF held
    <3> QED
      BY <1>1, <2>1, <2>3, <3>1, LeastOf
  <2>5. PICK fraction : fraction = Quotient(quantity, held) /\ IsPositive(fraction) /\ IsShare(fraction)
    <3>1. NotNegative(quantity)
      BY <2>4, PositiveToo
    <3> HIDE DEF held
    <3> QED
      BY <2>1, <2>4, <3>1, Quotients
  <2>6. p.action = "REDUCE" /\ p.symbol = s /\ p.price = price /\ p.notional = Unset /\ p.fraction = fraction
    BY <1>6, <2>2, <2>3, <2>4, <2>5, Zenon DEF Reduction, Proposal
  <2>7. IntentQuantity(p, book) = Product(held, fraction)
    BY <2>6 DEF IntentQuantity
  <2>8. IsPositive(Product(held, fraction)) /\ Product(held, fraction) \preceq held
    <3>1. NotNegative(fraction)
      BY <2>5 DEF IsShare
    <3> HIDE DEF held
    <3> QED
      BY <1>1, <2>1, <2>5, <3>1, Products
  <2>9. s \in DOMAIN book.positions
    BY <1>1, <1>6
  <2>10. Fillable(p) /\ ~Opens(p)
    BY <2>5, <2>6 DEF Fillable, Opens
  <2> QED
    BY <2>6, <2>7, <2>8, <2>9, <2>10, Zenon
<1>7. CASE /\ p = Purchase(target, book, prices, s)
           /\ ~(PurchaseNotional(target, book, prices, s) \prec MinOrderNotional)
  <2>1. PICK money : money = PurchaseNotional(target, book, prices, s)
    OBVIOUS
  <2>2. Amount(money)
    <3>1. Amount(Affordable(book.cash))
      <4>1. IsPositive(Plus(One, SlippageRate))
        BY <1>3, <1>4, Sums
      <4> QED
        BY <4>1, QuotientAmount DEF Affordable
    <3>2. Amount(Least(delta, Affordable(book.cash)))
      <4>1. PICK a, b : a = delta /\ b = Affordable(book.cash) /\ Amount(a) /\ Amount(b)
        BY <1>2, <3>1
      <4>2. Amount(Least(a, b))
        BY <4>1, LeastOf
      <4> QED
        BY <4>1, <4>2
    <3> QED
      BY <1>2, <2>1, <3>2 DEF PurchaseNotional
  <2>3. NotNegative(money)
    <3>1. MinOrderNotional \preceq money
      BY <1>7, <2>1 DEF \preceq
    <3>2. Zero \preceq MinOrderNotional
      BY SizingAssumption
    <3>3. Zero \preceq money
      BY <1>3, <1>4, <2>2, <3>1, <3>2, AmountOrder
    <3> QED
      BY <2>2, <3>3, AmountSigns
  <2>4. PICK quantity : quantity = Quotient(money, price) /\ NotNegative(quantity)
    <3> HIDE DEF price
    <3> QED
      BY <2>3, Quotients DEF price
  <2>5. NotNegative(Product(money, SlippageRate))
    BY <1>3, <2>3, Products
  <2>6. /\ p.action \in {"BUY", "ADD"} /\ p.symbol = s /\ p.price = price
        /\ p.quantity = quantity /\ p.notional = Product(quantity, price)
        /\ p.slippage = Product(money, SlippageRate)
    <3>1. PICK act \in {"BUY", "ADD"} : act = IF held = Zero THEN "BUY" ELSE "ADD"
      OBVIOUS
    <3>2. p = Proposal(act, s, quantity, Unset, Product(quantity, price), money, price)
      BY <1>7, <2>1, <2>4, <3>1, Zenon DEF Purchase
    <3> QED
      BY <3>2, Zenon DEF Proposal
  <2> QED
    BY <1>1, <2>4, <2>5, <2>6 DEF Fillable, Opens
<1>8. \/ p = Exit(book, prices, s) /\ FullExit(target, book, s)
      \/ p = Reduction(target, book, prices, s) /\ delta \prec Zero /\ held # Zero
      \/ /\ p = Purchase(target, book, prices, s)
         /\ ~(PurchaseNotional(target, book, prices, s) \prec MinOrderNotional)
  BY Zenon DEF ProposalFor
<1> QED
  BY <1>5, <1>6, <1>7, <1>8

\* A proposal is not refused for contradicting itself or for selling what is not there, and an
\* approved purchase is paid for with its slippage.
LEMMA JudgementFacts ==
  ASSUME NEW p, NEW book, NEW s, Holding(book), p.symbol = s, p.notional \in {Unset, Product(p.quantity, p.price)},
         ~Opens(p) => IsPositive(IntentQuantity(p, book)) /\ IntentQuantity(p, book) \preceq Held(book, s)
  PROVE  /\ Judgement(p, book) \in {"ORDER_NOTIONAL_LIMIT", "INSUFFICIENT_CASH", "APPROVED"}
         /\ Judgement(p, book) = "INSUFFICIENT_CASH" => Opens(p)
         /\ Judgement(p, book) = "APPROVED" /\ Opens(p) =>
              Plus(Product(p.quantity, p.price), p.slippage) \preceq book.cash
<1> DEFINE quantity == IntentQuantity(p, book)
<1>1. ~(p.notional # Unset /\ Product(p.quantity, p.price) # p.notional)
  OBVIOUS
<1>2. ~(~Opens(p) /\ (quantity \preceq Zero \/ Held(book, p.symbol) \prec quantity))
  <2> SUFFICES ASSUME ~Opens(p) PROVE ~(quantity \preceq Zero) /\ ~(Held(book, s) \prec quantity)
    OBVIOUS
  <2>1. ~(quantity \preceq Zero)
    BY AmountSigns DEF IsPositive
  <2>2. ~(Held(book, s) \prec quantity)
    BY DEF \preceq
  <2> QED
    BY <2>1, <2>2
<1>3. Opens(p) => quantity = p.quantity
  BY DEF Opens, IntentQuantity
<1> QED
  BY <1>1, <1>2, <1>3 DEF Judgement, \preceq

\* What an order is for: a sale, of no more than there is.
LEMMA IntentFacts ==
  ASSUME NEW p, NEW book, Holding(book), Fillable(p)
  PROVE  /\ NotNegative(IntentQuantity(p, book)) /\ NotNegative(Held(book, p.symbol))
         /\ ~Opens(p) => IntentQuantity(p, book) \preceq Held(book, p.symbol)
         /\ Opens(p) => IntentQuantity(p, book) = p.quantity
<1>1. PICK held, intent : held = Held(book, p.symbol) /\ NotNegative(held) /\ intent = IntentQuantity(p, book)
  BY HeldOf
<1>2. NotNegative(intent) /\ (~Opens(p) => intent \preceq held) /\ (Opens(p) => intent = p.quantity)
  <2>1. CASE Opens(p)
    BY <1>1, <2>1 DEF Opens, IntentQuantity, Fillable
  <2>2. CASE p.action = "REDUCE"
    <3>1. intent = Product(held, p.fraction)
      BY <1>1, <2>2 DEF IntentQuantity
    <3>2. NotNegative(p.fraction) /\ IsShare(p.fraction)
      BY <2>2 DEF Fillable, IsShare
    <3>3. NotNegative(Product(held, p.fraction)) /\ Product(held, p.fraction) \preceq held
      BY <1>1, <3>2, Products
    <3> QED
      BY <2>2, <3>1, <3>3 DEF Opens
  <2>3. CASE p.action = "EXIT"
    <3>1. intent = held
      BY <1>1, <2>3 DEF IntentQuantity
    <3>2. held \preceq held
      BY <1>1, AmountOrder DEF NotNegative
    <3> QED
      BY <1>1, <2>3, <3>1, <3>2 DEF Opens
  <2> QED
    BY <2>1, <2>2, <2>3 DEF Fillable, Opens
<1> QED
  BY <1>1, <1>2

\* A fill of no more than is held, or a purchase, leaves positive quantities, whatever it is for.
LEMMA FillFacts ==
  ASSUME NEW p, NEW book, NEW quantity, NEW gross, Holding(book), Amount(book.cash),
         NotNegative(quantity), NotNegative(gross),
         ~Opens(p) => quantity \preceq Held(book, p.symbol)
  PROVE  /\ Holding(AfterFill(book, p, quantity, gross)) /\ Amount(AfterFill(book, p, quantity, gross).cash)
         /\ DOMAIN AfterFill(book, p, quantity, gross).positions \subseteq DOMAIN book.positions \cup {p.symbol}
         /\ AfterFill(book, p, quantity, gross).cash
              = IF Opens(p) THEN Difference(book.cash, gross) ELSE Plus(book.cash, gross)
         /\ NotNegative(book.cash) /\ (Opens(p) => gross \preceq book.cash)
              => NotNegative(AfterFill(book, p, quantity, gross).cash)
         /\ Held(AfterFill(book, p, quantity, gross), p.symbol)
              = IF Opens(p) THEN Plus(Held(book, p.symbol), quantity) ELSE Difference(Held(book, p.symbol), quantity)
         /\ \A x : x # p.symbol => Held(AfterFill(book, p, quantity, gross), x) = Held(book, x)
<1> DEFINE held  == Held(book, p.symbol)
           kept  == IF Opens(p) THEN Plus(held, quantity) ELSE Difference(held, quantity)
           after == AfterFill(book, p, quantity, gross)
<1>1. NotNegative(held)
  BY HeldOf
<1> HIDE DEF held
<1>6. NotNegative(kept)
  <2>1. CASE Opens(p)
    BY <1>1, <2>1, Sums
  <2>2. CASE ~Opens(p)
    <3>1. quantity \preceq held
      BY <2>2 DEF held
    <3>2. NotNegative(Difference(held, quantity))
      BY <1>1, <3>1, Differences DEF NotNegative
    <3> QED
      BY <2>2, <3>2
  <2> QED
    BY <2>1, <2>2
<1> HIDE DEF kept
<1>7. /\ after.positions = WithPosition(book.positions, p.symbol, kept)
      /\ after.cash = IF Opens(p) THEN Difference(book.cash, gross) ELSE Plus(book.cash, gross)
  BY DEF AfterFill, held, kept
<1>8. /\ DOMAIN after.positions = (DOMAIN book.positions \ {p.symbol}) \cup (IF kept = Zero THEN {} ELSE {p.symbol})
      /\ \A x \in DOMAIN after.positions : after.positions[x] = IF x = p.symbol THEN kept ELSE book.positions[x]
      /\ after.positions = [x \in DOMAIN after.positions |-> after.positions[x]]
  BY <1>7 DEF WithPosition
<1> HIDE DEF after
<1>9. Holding(after)
  <2>1. kept # Zero => IsPositive(kept)
    <3>1. kept.c = 0 => kept = Zero
      BY <1>6, AmountSigns DEF NotNegative
    <3>2. kept.c \in Int
      BY <1>6, AmountSigns DEF NotNegative
    <3> QED
      BY <1>6, <3>1, <3>2 DEF NotNegative, IsPositive
  <2>2. IsFiniteSet(DOMAIN after.positions)
    <3>1. IsFiniteSet(DOMAIN book.positions \cup {p.symbol})
      BY FS_AddElement DEF Holding
    <3>2. DOMAIN after.positions \in SUBSET (DOMAIN book.positions \cup {p.symbol})
      BY <1>8
    <3> QED
      BY <3>1, <3>2, FS_Subset
  <2>3. ASSUME NEW x \in DOMAIN after.positions PROVE IsPositive(after.positions[x])
    BY <1>8, <2>1, <2>3 DEF Holding
  <2> QED
    BY <1>8, <2>2, <2>3 DEF Holding
<1>10. Amount(after.cash)
  <2>1. book.cash \in Numeral /\ gross \in Numeral /\ Amount(gross)
    BY AmountSigns DEF NotNegative
  <2>2. Amount(Difference(book.cash, gross)) /\ Amount(Plus(book.cash, gross))
    BY <2>1, Differences, PlusSum
  <2> QED
    BY <1>7, <2>2
<1>11. ASSUME NotNegative(book.cash), Opens(p) => gross \preceq book.cash
       PROVE  NotNegative(after.cash)
  <2>1. CASE Opens(p)
    BY <1>7, <1>11, <2>1, Differences DEF NotNegative
  <2>2. CASE ~Opens(p)
    BY <1>7, <1>11, <2>2, Sums
  <2> QED
    BY <2>1, <2>2
<1>12. DOMAIN after.positions \subseteq DOMAIN book.positions \cup {p.symbol}
  BY <1>8
<1>13. Held(after, p.symbol) = kept /\ \A x : x # p.symbol => Held(after, x) = Held(book, x)
  BY <1>8 DEF Held
<1> QED
  BY <1>7, <1>9, <1>10, <1>11, <1>12, <1>13 DEF after, held, kept

(***************************************************************************)
(* What the roundings of several operations add up to, against the sizes   *)
(* of the configuration.                                                   *)
(***************************************************************************)
LEMMA LowestOfFour ==
  ASSUME NEW a \in Int, NEW b \in Int, NEW c \in Int, NEW d \in Int
  PROVE  \E f \in Int : f <= a /\ f <= b /\ f <= c /\ f <= d
<1>1. PICK g \in Int : g <= a /\ g <= b
  <2>1. CASE a <= b
    BY <2>1
  <2>2. CASE b <= a
    BY <2>2
  <2> QED
    BY <2>1, <2>2
<1>2. PICK h \in Int : h <= c /\ h <= d
  <2>1. CASE c <= d
    BY <2>1
  <2>2. CASE d <= c
    BY <2>2
  <2> QED
    BY <2>1, <2>2
<1>3. CASE g <= h
  BY <1>1, <1>2, <1>3
<1>4. CASE h <= g
  BY <1>1, <1>2, <1>4
<1> QED
  BY <1>3, <1>4

\* c * 10^-k of x, before it is rounded.
LEMMA ExactPart ==
  ASSUME NEW x \in RawNat, NEW c \in 1 .. 9, NEW k \in Nat, NEW h \in Int, h = -k,
         NEW z, z = RawTimes(x, Dec(c, h)), NEW f \in Int, f <= z.e
  PROVE  /\ Dec(c, h) = [c |-> c, e |-> h] /\ Dec(c, h) \in RawNat
         /\ z \in RawNat /\ z.e = x.e - k
         /\ At10(z, f) \in Nat /\ At10(x, f) \in Nat
         /\ Ten[k] * At10(z, f) = c * At10(x, f)
<1>1. Dec(c, h) = [c |-> c, e |-> h]
  <2> DEFINE y == [c |-> c, e |-> h]
  <2>1. Normal(y)
    BY DEF Normal, Numeral, Magnitude
  <2>2. Dec(y.c, y.e) = y
    <3> HIDE DEF y
    <3> QED
      BY <2>1, NormalFixed
  <2> QED
    BY <2>2
<1>2. PICK n \in Nat, i \in Int : x.c = n /\ x.e = i
  BY DEF RawNat
<1>3. z = [c |-> n * c, e |-> i + h] /\ n * c \in Nat /\ i + h = i - k
  BY <1>1, <1>2 DEF RawTimes
<1>4. PICK g \in Nat : g = (i + h) - f
  BY <1>2, <1>3
<1>5. PICK t \in Nat, u \in Nat : t = Ten[g] /\ u = Ten[k]
  BY Powers
<1>6. At10(z, f) = (n * c) * t
  BY <1>3, <1>4, <1>5 DEF At10
<1>7. At10(x, f) = n * (t * u)
  <2>1. i - f = g + k
    BY <1>2, <1>4
  <2>2. Ten[g + k] = t * u
    BY <1>5, PowerAdd
  <2> QED
    BY <1>2, <2>1, <2>2 DEF At10
<1>8. u * ((n * c) * t) = c * (n * (t * u)) /\ (n * c) * t \in Nat /\ n * (t * u) \in Nat
  <2>1. c \in Nat
    OBVIOUS
  <2>2. PICK m \in Nat : m = n * t
    OBVIOUS
  <2>3. (n * c) * t = c * m /\ n * (t * u) = m * u
    BY <2>1, <2>2
  <2>4. u * (c * m) = c * (m * u)
    BY <2>1
  <2> QED
    BY <2>1, <2>3, <2>4
<1>9. [c |-> c, e |-> h] \in RawNat /\ z \in RawNat /\ z.e = x.e - k
  BY <1>2, <1>3 DEF RawNat
<1>10. PICK Z \in Nat, X \in Nat : Z = (n * c) * t /\ X = n * (t * u)
  BY <1>8
<1>11. u * Z = c * X /\ At10(z, f) = Z /\ At10(x, f) = X
  BY <1>6, <1>7, <1>8, <1>10
<1> QED
  BY <1>1, <1>5, <1>9, <1>10, <1>11

\* Two and ten units in the last of the digits of a number.
LEMMA LastPlaces ==
  ASSUME Digits > 1, NEW x \in RawNat, NEW T, T = Ten[Digits], NEW f \in Int
  PROVE  /\ T \in Nat /\ T >= 100
         /\ Dec(2, 1 - Digits) \in RawNat /\ Dec(1, 2 - Digits) \in RawNat
         /\ Amount(Dec(2, 1 - Digits)) /\ Amount(Dec(1, 2 - Digits))
         /\ LET z == RawTimes(x, Dec(2, 1 - Digits))
            IN  z \in RawNat /\ (f <= z.e => At10(z, f) \in Nat /\ T * At10(z, f) = 20 * At10(x, f))
         /\ LET z == RawTimes(x, Dec(1, 2 - Digits))
            IN  z \in RawNat /\ (f <= z.e => At10(z, f) \in Nat /\ T * At10(z, f) = 100 * At10(x, f))
<1>1. PICK k \in Nat, g \in Int, h \in Int :
        Digits = k + 2 /\ g = 1 - Digits /\ h = 2 - Digits /\ g = -(k + 1) /\ h = -k
  <2>1. PICK D \in Nat : D = Digits
    BY DigitsAssumption
  <2>2. PICK k \in Nat : k = D - 2
    BY <2>1
  <2>3. Digits = k + 2 /\ 1 - Digits \in Int /\ 2 - Digits \in Int
    BY <2>1, <2>2
  <2>4. 1 - Digits = -(k + 1) /\ 2 - Digits = -k
    BY <2>3
  <2> QED
    BY <2>3, <2>4, Zenon
<1>2. PICK u \in Nat \ {0} : u = Ten[k] /\ Ten[k + 1] = 10 * u /\ T = 100 * u
  <2>1. PICK m \in Nat : m = k + 1
    OBVIOUS
  <2>2. Ten[m + 1] = 10 * Ten[m]
    BY Powers
  <2>3. T = Ten[m + 1]
    BY <1>1, <2>1
  <2>4. Ten[m] = 10 * Ten[k] /\ Ten[k] \in Nat \ {0}
    BY <2>1, Powers
  <2> QED
    BY <2>1, <2>2, <2>3, <2>4
<1>3. T \in Nat /\ T >= 100
  BY <1>2
<1>4. PICK y, w : y = Dec(2, g) /\ w = Dec(1, h)
  OBVIOUS
<1>5. /\ y = [c |-> 2, e |-> g] /\ y \in RawNat
      /\ w = [c |-> 1, e |-> h] /\ w \in RawNat
      /\ RawTimes(x, y) \in RawNat /\ RawTimes(x, w) \in RawNat
  <2>1. 2 \in 1 .. 9 /\ 1 \in 1 .. 9 /\ k + 1 \in Nat
    OBVIOUS
  <2>2. PICK z, v : z = RawTimes(x, y) /\ v = RawTimes(x, w)
    OBVIOUS
  <2>3. y = [c |-> 2, e |-> g] /\ w = [c |-> 1, e |-> h]
    <3>1. Normal([c |-> 2, e |-> g]) /\ Normal([c |-> 1, e |-> h])
      BY DEF Normal, Numeral, Magnitude
    <3> QED
      BY <1>4, <3>1, NormalFixed
  <2>4. z \in RawNat /\ v \in RawNat
    BY <2>2, <2>3 DEF RawTimes, RawNat
  <2> QED
    BY <2>2, <2>3, <2>4 DEF RawNat
<1>6. Amount(y) /\ Amount(w)
  <2>1. Normal(y) /\ Normal(w)
    BY <1>5 DEF Normal, Numeral, Magnitude
  <2>2. Magnitude(y.c) < T /\ Magnitude(w.c) < T
    BY <1>3, <1>5 DEF Magnitude
  <2> QED
    BY <2>1, <2>2, AmountNormal
<1>7. ASSUME NEW z, z = RawTimes(x, y), f <= z.e PROVE At10(z, f) \in Nat /\ T * At10(z, f) = 20 * At10(x, f)
  <2>1. PICK l \in Nat, c \in 1 .. 9 : l = k + 1 /\ c = 2 /\ g = -l
    BY <1>1
  <2>2. At10(z, f) \in Nat /\ At10(x, f) \in Nat /\ Ten[l] * At10(z, f) = c * At10(x, f)
    BY <1>4, <1>7, <2>1, ExactPart
  <2>3. PICK Z \in Nat, X \in Nat : Z = At10(z, f) /\ X = At10(x, f)
    BY <2>2
  <2>4. (10 * u) * Z = 2 * X
    BY <1>2, <2>1, <2>2, <2>3
  <2>5. (100 * u) * Z = 10 * ((10 * u) * Z)
    OBVIOUS
  <2>6. T * Z = 20 * X
    BY <1>2, <2>4, <2>5
  <2> QED
    BY <2>2, <2>3, <2>6
<1>8. ASSUME NEW z, z = RawTimes(x, w), f <= z.e PROVE At10(z, f) \in Nat /\ T * At10(z, f) = 100 * At10(x, f)
  <2>1. PICK c \in 1 .. 9 : c = 1
    OBVIOUS
  <2>2. At10(z, f) \in Nat /\ At10(x, f) \in Nat /\ Ten[k] * At10(z, f) = c * At10(x, f)
    BY <1>1, <1>4, <1>8, <2>1, ExactPart
  <2>3. PICK Z \in Nat, X \in Nat : Z = At10(z, f) /\ X = At10(x, f)
    BY <2>2
  <2>4. u * Z = X
    BY <1>2, <2>1, <2>2, <2>3
  <2>5. (100 * u) * Z = 100 * (u * Z)
    OBVIOUS
  <2>6. T * Z = 100 * X
    BY <1>2, <2>4, <2>5
  <2> QED
    BY <2>2, <2>3, <2>6
<1> QED
  BY <1>1, <1>3, <1>4, <1>5, <1>6, <1>7, <1>8

\* The magnitude of a number with a sign.
LEMMA AbsDec ==
  ASSUME NEW H \in Nat, NEW e \in Int
  PROVE  Abs(Dec(-H, e)) = Dec(H, e) /\ Abs(Dec(H, e)) = Dec(H, e)
<1>1. CASE H = 0
  <2>1. H = 0 /\ -H = 0
    <3>1. H <= 0
      BY <1>1
    <3> QED
      BY <3>1
  <2>2. Dec(H, e) = [c |-> 0, e |-> 0] /\ Dec(-H, e) = [c |-> 0, e |-> 0]
    BY <2>1, Zenon DEF Dec
  <2> QED
    BY <2>2 DEF Abs, Magnitude
<1>2. CASE H # 0
  <2>1. H > 0 /\ -H < 0 /\ -H # 0 /\ Magnitude(H) = H /\ Magnitude(-H) = H /\ -H \in Int
    BY <1>2 DEF Magnitude
  <2>2. PICK z \in Nat, q \in Nat : z = Zeros(H) /\ q = H \div Ten[z]
    <3>1. Zeros(H) \in Nat
      BY <2>1, TrailingZeros
    <3>2. PICK z \in Nat, t \in Nat \ {0} : z = Zeros(H) /\ t = Ten[z]
      BY <3>1, Powers
    <3>3. H \div t \in Nat
      OBVIOUS
    <3> QED
      BY <3>2, <3>3
  <2>3. Dec(H, e) = [c |-> 1 * q, e |-> e + z]
    BY <2>1, <2>2 DEF Dec
  <2>4. Dec(-H, e) = [c |-> -1 * q, e |-> e + z]
    BY <2>1, <2>2 DEF Dec
  <2>5. Magnitude(1 * q) = 1 * q /\ Magnitude(-1 * q) = 1 * q
    BY DEF Magnitude
  <2> QED
    BY <2>3, <2>4, <2>5 DEF Abs
<1> QED
  BY <1>1, <1>2

\* A sum below zero has the magnitude of the opposite sum.
LEMMA AbsPlus ==
  ASSUME NEW x \in Numeral, NEW y \in Numeral, NEW S, S = RawSum(x, y), S.c < 0
  PROVE  LET R == [c |-> -S.c, e |-> S.e]
         IN  /\ R \in RawNat
             /\ Abs(Plus(x, y)) = Near(R)
<1>1. S \in Numeral
  BY PlusSum
<1>2. PICK c \in Int, e \in Int, n \in Nat : S.c = c /\ S.e = e /\ c < 0 /\ n = -c
  BY <1>1 DEF Numeral
<1>3. Magnitude(c) = n /\ Precise(n, 1)
  BY <1>2 DEF Magnitude, Precise
<1>4. Plus(x, y) = Rounded(-1, n, 1, e)
  BY <1>2, <1>3 DEF Plus, RawSum
<1>5. PICK k \in Nat, H \in Nat : k = Excess(n, 1) /\ H = KeptDigits(n, 1)
  BY <1>3, KeptRange
<1>6. PICK s \in {-1, 1}, o \in {-1, 1} : s = -1 /\ o = 1
  OBVIOUS
<1>7. Rounded(s, n, 1, e) = Dec(s * H, e + k) /\ Rounded(o, n, 1, e) = Dec(o * H, e + k)
  <2>1. PICK i \in Nat \ {0} : i = 1
    OBVIOUS
  <2>2. Rounded(s, n, i, e) = Dec(s * KeptDigits(n, i), e + Excess(n, i))
    BY <1>3, <2>1, RoundedParts
  <2>3. Rounded(o, n, i, e) = Dec(o * KeptDigits(n, i), e + Excess(n, i))
    BY <1>3, <2>1, RoundedParts
  <2> QED
    BY <1>5, <2>1, <2>2, <2>3
<1>8. s * H = -H /\ o * H = H /\ e + k \in Int
  BY <1>6
<1>9. Abs(Plus(x, y)) = Dec(H, e + k) /\ Near([c |-> n, e |-> e]) = Dec(H, e + k)
  BY <1>4, <1>6, <1>7, <1>8, AbsDec DEF Near
<1>10. [c |-> -S.c, e |-> S.e] = [c |-> n, e |-> e] /\ [c |-> n, e |-> e] \in RawNat
  BY <1>2 DEF RawNat
<1> QED
  BY <1>9, <1>10

\* What differs by no more than an amount differs by no more than it when rounded.
LEMMA SmallDifference ==
  ASSUME NEW x \in RawNat, NEW y \in RawNat, NEW m, Amount(m), m.c >= 0,
         NEW f \in Int, f <= x.e, f <= y.e, f <= m.e,
         NEW X, X = At10(x, f), NEW Y, Y = At10(y, f), NEW M, M = At10(m, f),
         X - Y <= M, Y - X <= M
  PROVE  /\ Abs(Difference(x, y)) \preceq m
         /\ Amount(Abs(Difference(x, y)))
<1>1. x \in Numeral /\ y \in Numeral /\ m \in Numeral
  BY NearFixed DEF RawNat, Numeral
<1>2. PICK w : w = Minus(y)
  OBVIOUS
<1>3. w \in Numeral /\ f <= w.e /\ At10(w, f) = -Y
  BY <1>1, <1>2, MinusRaw
<1>4. PICK S : S = RawSum(x, w) /\ S \in Numeral /\ f <= S.e /\ At10(S, f) = X + At10(w, f)
               /\ X \in Int /\ At10(w, f) \in Int
  BY <1>1, <1>3, RawSumAt
<1>5. Y \in Int /\ M \in Int
  <2>1. f <= y.e /\ f <= f
    OBVIOUS
  <2> QED
    BY <1>1, <2>1, AtShift
<1>6. At10(S, f) = X - Y
  BY <1>3, <1>4, <1>5
<1>7. PICK d : d = Difference(x, y) /\ d = Plus(x, w)
  BY <1>2 DEF Difference
<1>8. CASE S.c >= 0
  <2>1. d = Near(S) /\ S \in RawNat
    BY <1>1, <1>3, <1>4, <1>7, <1>8, PlusSum
  <2>2. S \preceq m
    BY <1>1, <1>4, <1>6, CompareAt
  <2>3. d \preceq m /\ Amount(d) /\ d.c >= 0
    BY <2>1, <2>2, NearBelow, NearAmount
  <2>4. Abs(d) = d
    BY <2>3 DEF Abs, Magnitude, Amount
  <2> QED
    BY <1>7, <2>3, <2>4
<1>9. CASE S.c < 0
  <2>1. PICK R : R = [c |-> -S.c, e |-> S.e] /\ R \in RawNat /\ Abs(d) = Near(R)
    <3>1. PICK R : R = [c |-> -S.c, e |-> S.e]
      OBVIOUS
    <3>2. R \in RawNat /\ Abs(Plus(x, w)) = Near(R)
      BY <1>1, <1>3, <1>4, <1>9, <3>1, AbsPlus
    <3> QED
      BY <1>7, <3>1, <3>2
  <2>2. R = Minus(S)
    <3>1. S = [c |-> S.c, e |-> S.e]
      BY <1>4 DEF Numeral
    <3> QED
      BY <2>1, <3>1 DEF Minus
  <2>3. R \in Numeral /\ f <= R.e /\ At10(R, f) = -(X - Y)
    BY <1>4, <1>6, <2>2, MinusRaw
  <2>4. -(X - Y) <= M
    BY <1>4, <1>5
  <2>5. R \preceq m
    BY <1>1, <2>3, <2>4, CompareAt
  <2>6. Abs(d) \preceq m /\ Amount(Abs(d))
    BY <2>1, <2>5, NearBelow, NearAmount
  <2> QED
    BY <1>7, <2>6
<1> QED
  BY <1>4, <1>8, <1>9 DEF Numeral

\* The error of a rounded product.
LEMMA ProductError ==
  ASSUME NEW x \in RawNat, NEW y \in RawNat, NEW z, z = RawTimes(x, y), NEW p, p = Product(x, y),
         NEW f \in Int, f <= z.e, f <= p.e,
         NEW T, T = Ten[Digits], NEW Z, Z = At10(z, f), NEW P, P = At10(p, f)
  PROVE  /\ Z \in Nat /\ P \in Nat
         /\ T * P <= (T + 5) * Z /\ (T - 5) * Z <= T * P
<1>1. p = Near(z) /\ z \in RawNat
  BY ProductNear
<1> QED
  BY <1>1, NearError

\* The error of a rounded sum.
LEMMA SumError ==
  ASSUME NEW x \in RawNat, NEW y \in RawNat, NEW s, s = Plus(x, y),
         NEW f \in Int, f <= x.e, f <= y.e, f <= s.e,
         NEW T, T = Ten[Digits], NEW X, X = At10(x, f), NEW Y, Y = At10(y, f), NEW S, S = At10(s, f)
  PROVE  /\ X \in Nat /\ Y \in Nat /\ S \in Nat
         /\ T * S <= (T + 5) * (X + Y) /\ (T - 5) * (X + Y) <= T * S
<1>1. x \in Numeral /\ y \in Numeral
  BY DEF RawNat, Numeral
<1>2. X \in Nat /\ Y \in Nat
  <2>1. PICK i \in Nat, j \in Nat : i = x.e - f /\ j = y.e - f
    BY DEF RawNat
  <2>2. PICK t \in Nat, u \in Nat : t = Ten[i] /\ u = Ten[j]
    BY Powers
  <2>3. PICK c \in Nat, d \in Nat : c = x.c /\ d = y.c
    BY DEF RawNat
  <2>4. c * t \in Nat /\ d * u \in Nat
    OBVIOUS
  <2> QED
    BY <2>1, <2>2, <2>3, <2>4 DEF At10
<1>3. PICK z : z = RawSum(x, y) /\ z \in Numeral /\ f <= z.e /\ At10(z, f) = X + Y
  BY <1>1, RawSumAt
<1>4. z.c >= 0
  <2>1. PICK i \in Nat : i = z.e - f
    BY <1>3 DEF Numeral
  <2>2. PICK t \in Nat \ {0} : t = Ten[i]
    BY <2>1, Powers
  <2>3. PICK c \in Int : c = z.c
    BY <1>3 DEF Numeral
  <2>4. c * t >= 0
    BY <1>2, <1>3, <2>1, <2>2, <2>3 DEF At10
  <2>5. c >= 0
    BY <2>4
  <2> QED
    BY <2>3, <2>5
<1>5. s = Near(z) /\ z \in RawNat
  BY <1>1, <1>3, <1>4, PlusSum
<1>6. PICK Z : Z = At10(z, f)
  OBVIOUS
<1>7. S \in Nat /\ T * S <= (T + 5) * Z /\ (T - 5) * Z <= T * S
  BY <1>3, <1>5, <1>6, NearError
<1> QED
  BY <1>2, <1>3, <1>6, <1>7

\* Valued as a weight and back, a position is off by less than two units in its last digit.
LEMMA Preserved ==
  ASSUME Digits > 1, NEW n, IsPositive(n), NEW a, NotNegative(a),
         NEW m, m = Product(a, Dec(2, 1 - Digits))
  PROVE  LET d == Abs(Difference(Product(n, Quotient(a, n)), a))
         IN  Amount(d) /\ d \preceq m
<1>1. /\ n \in RawNat /\ a \in RawNat /\ n.c > 0
  BY PositiveToo, AmountSigns DEF IsPositive, NotNegative
<1>2. PICK u : u = Dec(2, 1 - Digits) /\ u \in RawNat /\ Amount(u)
  BY <1>1, LastPlaces
<1>3. PICK q : q = Quotient(a, n) /\ Amount(q) /\ q.c >= 0 /\ q \in RawNat
  BY <1>1, QuotientOf, NearFixed
<1>4. PICK r : r = RawTimes(q, n) /\ r \in RawNat /\ r = RawTimes(n, q)
  <2>1. RawTimes(q, n) \in RawNat /\ RawTimes(n, q) = RawTimes(q, n)
    <3>1. PICK b \in Nat, c \in Nat, i \in Int, j \in Int : q.c = b /\ n.c = c /\ q.e = i /\ n.e = j
      BY <1>1, <1>3 DEF RawNat
    <3>2. b * c = c * b /\ i + j = j + i /\ b * c \in Nat
      OBVIOUS
    <3> QED
      BY <3>1, <3>2 DEF RawTimes, RawNat
  <2> QED
    BY <2>1
<1>5. PICK p : p = Product(n, q) /\ p \in RawNat
  BY <1>1, <1>3, ProductSign
<1>6. PICK v : v = RawTimes(a, u) /\ v \in RawNat
  BY <1>1, <1>2, ProductNear
<1>7. m \in RawNat /\ Amount(m) /\ m.c >= 0
  BY <1>1, <1>2, ProductSign
<1>8. PICK f \in Int : f <= a.e /\ f <= r.e /\ f <= p.e /\ f <= v.e /\ f <= m.e
  <2>1. PICK g \in Int : g <= a.e /\ g <= r.e /\ g <= p.e /\ g <= v.e
    BY <1>1, <1>4, <1>5, <1>6, LowestOfFour DEF RawNat
  <2>2. PICK f \in Int : f <= g /\ f <= m.e
    BY <1>7, LowestOfFour DEF RawNat
  <2> QED
    BY <1>1, <1>4, <1>5, <1>6, <2>1, <2>2 DEF RawNat
<1>9. PICK T, A, R, P, V, M : /\ T = Ten[Digits] /\ A = At10(a, f) /\ R = At10(r, f) /\ P = At10(p, f)
                              /\ V = At10(v, f) /\ M = At10(m, f)
  OBVIOUS
<1>10. A \in Nat /\ R \in Nat /\ T * R <= (T + 5) * A /\ (T - 5) * A <= T * R
  BY <1>1, <1>3, <1>4, <1>8, <1>9, QuotientError
<1>11. P \in Nat /\ T * P <= (T + 5) * R /\ (T - 5) * R <= T * P
  BY <1>1, <1>3, <1>4, <1>5, <1>8, <1>9, ProductError
<1>12. V \in Nat /\ T * V = 20 * A /\ T \in Nat /\ T >= 100
  BY <1>1, <1>2, <1>6, <1>8, <1>9, LastPlaces
<1>13. M \in Nat /\ (T - 5) * V <= T * M
  BY <1>1, <1>2, <1>6, <1>7, <1>8, <1>9, ProductError
<1>14. P - A <= M /\ A - P <= M
  <2>1. 20 * A <= T * V
    BY <1>10, <1>12
  <2> QED
    BY <1>10, <1>11, <1>12, <1>13, <2>1, PreservedNumbers
<1>15. Amount(Abs(Difference(p, a))) /\ Abs(Difference(p, a)) \preceq m
  BY <1>1, <1>5, <1>7, <1>8, <1>9, <1>14, SmallDifference
<1> QED
  BY <1>3, <1>5, <1>15

\* The error of a rounded difference.
LEMMA DifferenceError ==
  ASSUME NEW x \in RawNat, NEW y \in RawNat, y \preceq x, NEW s, s = Difference(x, y),
         NEW f \in Int, f <= x.e, f <= y.e, f <= s.e,
         NEW T, T = Ten[Digits], NEW X, X = At10(x, f), NEW Y, Y = At10(y, f), NEW S, S = At10(s, f)
  PROVE  /\ S \in Nat /\ X \in Int /\ Y \in Int /\ Y <= X
         /\ T * S <= (T + 5) * (X - Y) /\ (T - 5) * (X - Y) <= T * S
<1>1. x \in Numeral /\ y \in Numeral
  BY DEF RawNat, Numeral
<1>2. PICK w : w = Minus(y) /\ w \in Numeral /\ f <= w.e /\ At10(w, f) = -Y
  BY <1>1, MinusRaw
<1>3. PICK z : z = RawSum(x, w) /\ z \in Numeral /\ f <= z.e /\ At10(z, f) = X + At10(w, f)
               /\ X \in Int
  BY <1>1, <1>2, RawSumAt
<1>4. Y \in Int /\ Y <= X
  <2>1. f <= y.e /\ f <= f
    OBVIOUS
  <2>2. Y \in Int
    BY <1>1, <2>1, AtShift
  <2> QED
    BY <1>1, <2>2, CompareAt
<1>5. At10(z, f) = X - Y /\ X - Y >= 0
  BY <1>2, <1>3, <1>4
<1>6. z.c >= 0
  <2>1. PICK i \in Nat : i = z.e - f
    BY <1>3 DEF Numeral
  <2>2. PICK t \in Nat \ {0} : t = Ten[i]
    BY <2>1, Powers
  <2>3. PICK c \in Int : c = z.c
    BY <1>3 DEF Numeral
  <2>4. c * t >= 0
    BY <1>5, <2>1, <2>2, <2>3 DEF At10
  <2>5. c >= 0
    BY <2>4
  <2> QED
    BY <2>3, <2>5
<1>7. s = Near(z) /\ z \in RawNat
  BY <1>1, <1>2, <1>3, <1>6, PlusSum DEF Difference
<1>8. PICK Z : Z = At10(z, f)
  OBVIOUS
<1>9. S \in Nat /\ T * S <= (T + 5) * Z /\ (T - 5) * Z <= T * S
  BY <1>3, <1>7, <1>8, NearError
<1> QED
  BY <1>3, <1>4, <1>5, <1>8, <1>9

\* What a purchase of n at this price comes to, with its slippage.
Cost(n, price, rate) == Plus(Product(Quotient(n, price), price), Product(n, rate))

\* The slippage is more than what the roundings of the size may save.
LEMMA CostExceeds ==
  ASSUME Digits > 1, NEW n, IsPositive(n), NEW price, IsPositive(price),
         NEW rate, NotNegative(rate), Dec(2, 1 - Digits) \preceq rate
  PROVE  n \prec Cost(n, price, rate)
<1>1. /\ n \in RawNat /\ n.c > 0 /\ price \in RawNat /\ price.c > 0 /\ rate \in RawNat
  BY PositiveToo, AmountSigns DEF IsPositive, NotNegative
<1>2. PICK u : u = Dec(2, 1 - Digits) /\ u \in RawNat
  BY <1>1, LastPlaces
<1>3. PICK q : q = Quotient(n, price) /\ Amount(q) /\ q.c >= 0 /\ q \in RawNat
  BY <1>1, QuotientOf, NearFixed
<1>4. PICK a : a = RawTimes(q, price) /\ a \in RawNat
  BY <1>1, <1>3, ProductNear
<1>5. PICK p : p = Product(q, price) /\ p \in RawNat
  BY <1>1, <1>3, ProductSign
<1>6. PICK z, v : z = RawTimes(n, rate) /\ z \in RawNat /\ v = RawTimes(n, u) /\ v \in RawNat /\ v \preceq z
  <2>1. n \preceq n
    BY <1>1, OrderReflexive DEF RawNat, Numeral
  <2> QED
    BY <1>1, <1>2, <2>1, RawTimesOrder
<1>7. PICK s : s = Product(n, rate) /\ s \in RawNat
  BY <1>1, ProductSign
<1>8. PICK k : k = Plus(p, s) /\ k \in Numeral
  BY <1>5, <1>7, PlusSum, AmountNormal DEF RawNat, Numeral, Normal
<1>9. PICK f \in Int : f <= n.e /\ f <= a.e /\ f <= p.e /\ f <= z.e /\ f <= v.e /\ f <= s.e /\ f <= k.e
  <2>1. PICK g \in Int : g <= n.e /\ g <= a.e /\ g <= p.e /\ g <= z.e
    BY <1>1, <1>4, <1>5, <1>6, LowestOfFour DEF RawNat
  <2>2. PICK f \in Int : f <= g /\ f <= v.e /\ f <= s.e /\ f <= k.e
    BY <1>6, <1>7, <1>8, LowestOfFour DEF RawNat, Numeral
  <2> QED
    BY <1>1, <1>4, <1>5, <1>6, <2>1, <2>2 DEF RawNat
<1>10. PICK T, N, A, P, Z, V, S, K :
         /\ T = Ten[Digits] /\ N = At10(n, f) /\ A = At10(a, f) /\ P = At10(p, f)
         /\ Z = At10(z, f) /\ V = At10(v, f) /\ S = At10(s, f) /\ K = At10(k, f)
  OBVIOUS
<1>11. N \in Nat /\ A \in Nat /\ T * A <= (T + 5) * N /\ (T - 5) * N <= T * A
  BY <1>1, <1>3, <1>4, <1>9, <1>10, QuotientError
<1>12. P \in Nat /\ T * P <= (T + 5) * A /\ (T - 5) * A <= T * P
  BY <1>1, <1>3, <1>4, <1>5, <1>9, <1>10, ProductError
<1>13. V \in Nat /\ T * V = 20 * N /\ T \in Nat /\ T >= 100
  BY <1>1, <1>2, <1>6, <1>9, <1>10, LastPlaces
<1>14. Z \in Nat /\ S \in Nat /\ (T - 5) * Z <= T * S
  BY <1>1, <1>6, <1>7, <1>9, <1>10, ProductError
<1>15. V <= Z
  BY <1>6, <1>9, <1>10, CompareAt DEF RawNat, Numeral
<1>16. 20 * N <= T * Z
  <2>1. T * V <= T * Z
    BY <1>13, <1>14, <1>15, Scale
  <2> QED
    BY <1>13, <2>1
<1>17. K \in Nat /\ (T - 5) * (P + S) <= T * K
  BY <1>5, <1>7, <1>8, <1>9, <1>10, SumError
<1>18. N # 0
  <2>1. PICK i \in Nat : i = n.e - f
    BY <1>1, <1>9 DEF RawNat
  <2>2. PICK t \in Nat \ {0}, c \in Nat \ {0} : t = Ten[i] /\ c = n.c
    BY <1>1, <2>1, Powers DEF RawNat
  <2>3. c * t # 0
    OBVIOUS
  <2> QED
    BY <1>10, <2>1, <2>2, <2>3 DEF At10
<1>19. N < K
  BY <1>11, <1>12, <1>13, <1>14, <1>16, <1>17, <1>18, CostNumbers
<1>20. n \prec k
  BY <1>1, <1>8, <1>9, <1>10, <1>19, CompareAt DEF RawNat, Numeral
<1> QED
  BY <1>3, <1>5, <1>7, <1>8, <1>20 DEF Cost

\* What is missing of a position cannot be bought of the cash, where its slippage is above the
\* roundings of the net asset value.
LEMMA AddExceeds ==
  ASSUME Digits > 1, NEW c, NotNegative(c), NEW a, NotNegative(a), NEW v, v = Plus(c, a), IsPositive(v),
         NEW d, d = Difference(v, a), NEW price, IsPositive(price),
         NEW m, NotNegative(m), m \preceq d, NEW rate, NotNegative(rate),
         Product(v, Dec(1, 2 - Digits)) \preceq Product(m, rate)
  PROVE  c \prec Cost(d, price, rate)
<1>1. /\ c \in RawNat /\ a \in RawNat /\ v \in RawNat /\ v.c > 0 /\ price \in RawNat /\ price.c > 0
      /\ m \in RawNat /\ rate \in RawNat
  BY PositiveToo, AmountSigns DEF IsPositive, NotNegative
<1>2. a \preceq v
  BY Sums
<1>3. d \preceq v /\ d \in RawNat /\ Amount(d)
  <2>1. v \in Numeral /\ a \in Numeral /\ Amount(v) /\ v.c >= 0 /\ a.c >= 0
    BY <1>1, PositiveToo DEF RawNat, Numeral, IsPositive, NotNegative
  <2>2. Amount(d) /\ d.c >= 0 /\ d \preceq v
    BY <1>2, <2>1, DifferenceSign
  <2> QED
    BY <2>2, NearFixed
<1>4. PICK u : u = Dec(1, 2 - Digits) /\ u \in RawNat
  BY <1>1, LastPlaces
<1>5. PICK q : q = Quotient(d, price) /\ Amount(q) /\ q.c >= 0 /\ q \in RawNat
  BY <1>1, <1>3, QuotientOf, NearFixed
<1>6. PICK r : r = RawTimes(q, price) /\ r \in RawNat
  BY <1>1, <1>5, ProductNear
<1>7. PICK p : p = Product(q, price) /\ p \in RawNat
  BY <1>1, <1>5, ProductSign
<1>8. PICK i, x : i = RawTimes(v, u) /\ i \in RawNat /\ x = Product(v, u) /\ x \in RawNat
  BY <1>1, <1>4, ProductNear, ProductSign
<1>9. PICK j, y : j = RawTimes(m, rate) /\ j \in RawNat /\ y = Product(m, rate) /\ y \in RawNat
  BY <1>1, ProductNear, ProductSign
<1>10. x \preceq y
  BY <1>4, <1>8, <1>9
<1>11. PICK z, s : z = RawTimes(d, rate) /\ z \in RawNat /\ s = Product(d, rate) /\ s \in RawNat /\ j \preceq z
  <2>1. rate \preceq rate
    BY <1>1, OrderReflexive DEF RawNat, Numeral
  <2> QED
    BY <1>1, <1>3, <1>9, <2>1, RawTimesOrder, ProductSign
<1>12. PICK k : k = Plus(p, s) /\ k \in Numeral
  BY <1>7, <1>11, PlusSum, AmountNormal DEF RawNat, Numeral, Normal
<1>13. PICK f \in Int :
         /\ f <= c.e /\ f <= a.e /\ f <= v.e /\ f <= d.e /\ f <= r.e /\ f <= p.e /\ f <= i.e /\ f <= x.e
         /\ f <= j.e /\ f <= y.e /\ f <= z.e /\ f <= s.e /\ f <= k.e
  <2>1. PICK g \in Int : g <= c.e /\ g <= a.e /\ g <= v.e /\ g <= d.e
    BY <1>1, <1>3, LowestOfFour DEF RawNat
  <2>2. PICK h \in Int : h <= r.e /\ h <= p.e /\ h <= i.e /\ h <= x.e
    BY <1>6, <1>7, <1>8, LowestOfFour DEF RawNat
  <2>3. PICK l \in Int : l <= j.e /\ l <= y.e /\ l <= z.e /\ l <= s.e
    BY <1>9, <1>11, LowestOfFour DEF RawNat
  <2>4. PICK f \in Int : f <= g /\ f <= h /\ f <= l /\ f <= k.e
    BY <1>12, LowestOfFour DEF Numeral
  <2>5. f <= c.e /\ f <= a.e /\ f <= v.e /\ f <= d.e
    BY <1>1, <1>3, <2>1, <2>4 DEF RawNat
  <2>6. f <= r.e /\ f <= p.e /\ f <= i.e /\ f <= x.e
    BY <1>6, <1>7, <1>8, <2>2, <2>4 DEF RawNat
  <2>7. f <= j.e /\ f <= y.e /\ f <= z.e /\ f <= s.e
    BY <1>9, <1>11, <2>3, <2>4 DEF RawNat
  <2> QED
    BY <2>4, <2>5, <2>6, <2>7
<1>14. PICK T, C, A, V, D, R, P :
         /\ T = Ten[Digits] /\ C = At10(c, f) /\ A = At10(a, f) /\ V = At10(v, f)
         /\ D = At10(d, f) /\ R = At10(r, f) /\ P = At10(p, f)
  OBVIOUS
<1>15. PICK I, X, J, Y, Z, S, K :
         /\ I = At10(i, f) /\ X = At10(x, f) /\ J = At10(j, f) /\ Y = At10(y, f)
         /\ Z = At10(z, f) /\ S = At10(s, f) /\ K = At10(k, f)
  OBVIOUS
<1>16. C \in Nat /\ A \in Nat /\ V \in Nat /\ (T - 5) * (C + A) <= T * V
  BY <1>1, <1>13, <1>14, SumError
<1>17. D \in Nat /\ A <= V /\ (T - 5) * (V - A) <= T * D
  BY <1>1, <1>2, <1>3, <1>13, <1>14, DifferenceError
<1>18. D <= V
  BY <1>1, <1>3, <1>13, <1>14, CompareAt DEF RawNat, Numeral
<1>19. R \in Nat /\ T * R <= (T + 5) * D /\ (T - 5) * D <= T * R
  BY <1>1, <1>3, <1>5, <1>6, <1>13, <1>14, QuotientError
<1>20. P \in Nat /\ T * P <= (T + 5) * R /\ (T - 5) * R <= T * P
  BY <1>1, <1>5, <1>6, <1>7, <1>13, <1>14, ProductError
<1>21. I \in Nat /\ T * I = 100 * V /\ T \in Nat /\ T >= 100
  BY <1>1, <1>4, <1>8, <1>13, <1>14, <1>15, LastPlaces
<1>22. X \in Nat /\ (T - 5) * I <= T * X
  BY <1>1, <1>4, <1>8, <1>13, <1>14, <1>15, ProductError
<1>23. J \in Nat /\ Y \in Nat /\ T * Y <= (T + 5) * J
  BY <1>1, <1>9, <1>13, <1>14, <1>15, ProductError
<1>24. X <= Y
  BY <1>8, <1>9, <1>10, <1>13, <1>15, CompareAt DEF RawNat, Numeral
<1>25. Z \in Nat /\ S \in Nat /\ (T - 5) * Z <= T * S
  BY <1>1, <1>3, <1>11, <1>13, <1>14, <1>15, ProductError
<1>26. J <= Z
  BY <1>9, <1>11, <1>13, <1>15, CompareAt DEF RawNat, Numeral
<1>27. K \in Nat /\ (T - 5) * (P + S) <= T * K
  BY <1>7, <1>11, <1>12, <1>13, <1>14, <1>15, SumError
<1>28. V # 0
  <2>1. PICK l \in Nat : l = v.e - f
    BY <1>1, <1>13 DEF RawNat
  <2>2. PICK t \in Nat \ {0} : t = Ten[l]
    BY <2>1, Powers
  <2>3. PICK b \in Nat \ {0} : b = v.c
    BY <1>1 DEF RawNat
  <2>4. b * t # 0
    OBVIOUS
  <2> QED
    BY <1>14, <2>1, <2>2, <2>3, <2>4 DEF At10
<1>29. C < K
  <2>1. 100 * V <= T * I
    BY <1>16, <1>21
  <2> QED
    BY <1>16, <1>17, <1>18, <1>19, <1>20, <1>21, <1>22, <1>23, <1>24, <1>25, <1>26, <1>27, <1>28, <2>1,
       AddNumbers
<1>30. c \prec k
  BY <1>1, <1>12, <1>13, <1>14, <1>15, <1>29, CompareAt DEF RawNat, Numeral
<1> QED
  BY <1>5, <1>7, <1>11, <1>12, <1>30 DEF Cost
(***************************************************************************)
(* What an order takes from the cash and brings to it.                     *)
(***************************************************************************)
LEMMA SumsOrder ==
  ASSUME NEW x, NEW y, NEW z, NotNegative(x), NotNegative(y), NotNegative(z), y \preceq z
  PROVE  Plus(x, y) \preceq Plus(x, z)
<1>1. /\ x \in RawNat /\ y \in RawNat /\ z \in RawNat
      /\ x \in Numeral /\ y \in Numeral /\ z \in Numeral
  BY AmountSigns DEF NotNegative
<1>2. PICK f \in Int : f <= x.e /\ f <= y.e /\ f <= z.e
  BY <1>1, Common
<1>3. PICK a, b : a = RawSum(x, y) /\ b = RawSum(x, z)
  OBVIOUS
<1>4. /\ a \in Numeral /\ f <= a.e /\ At10(a, f) = At10(x, f) + At10(y, f)
      /\ At10(x, f) \in Int /\ At10(y, f) \in Int
  BY <1>1, <1>2, <1>3, RawSumAt
<1>5. b \in Numeral /\ f <= b.e /\ At10(b, f) = At10(x, f) + At10(z, f) /\ At10(z, f) \in Int
  BY <1>1, <1>2, <1>3, RawSumAt
<1>6. At10(y, f) <= At10(z, f)
  BY <1>1, <1>2, CompareAt
<1>7. a \preceq b
  BY <1>4, <1>5, <1>6, CompareAt
<1>8. a.c >= 0 /\ b.c >= 0
  <2>1. Amount(Plus(x, y)) /\ Amount(Plus(x, z)) /\ ~(Plus(x, y).c < 0) /\ ~(Plus(x, z).c < 0)
    <3>1. NotNegative(Plus(x, y)) /\ NotNegative(Plus(x, z))
      BY Sums
    <3>2. \A u : NotNegative(u) => Amount(u) /\ u.c \in Int /\ u.c >= 0
      BY AmountSigns DEF NotNegative
    <3> QED
      BY <3>1, <3>2
  <2>2. ~(a.c < 0) /\ ~(b.c < 0)
    BY <1>1, <1>3, <2>1, PlusSum
  <2>3. a.c \in Int /\ b.c \in Int
    BY <1>4, <1>5 DEF Numeral
  <2> QED
    BY <2>2, <2>3
<1>9. Plus(x, y) = Near(a) /\ a \in RawNat /\ Plus(x, z) = Near(b) /\ b \in RawNat
  BY <1>1, <1>3, <1>8, PlusSum
<1> QED
  BY <1>7, <1>9, Monotone

\* The whole of an amount, and an amount less nothing.
LEMMA Identities ==
  ASSUME NEW x, NotNegative(x)
  PROVE  Product(x, One) = x /\ Difference(x, Zero) = x /\ Difference(x, x) = Zero
<1>1. /\ x \in RawNat /\ x \in Numeral /\ Amount(x) /\ x.c >= 0
      /\ Zero = [c |-> 0, e |-> 0] /\ One = [c |-> 1, e |-> 0] /\ Zero \in Numeral /\ One \in RawNat
  BY AmountSigns, ZeroOne DEF NotNegative, RawNat
<1>2. Product(x, One) = x
  <2>1. RawTimes(x, One) = x
    BY <1>1 DEF RawTimes, RawNat
  <2>2. Near(x) = x
    BY <1>1, NearFixed
  <2> QED
    BY <1>1, <2>1, <2>2, ProductNear
<1>3. Difference(x, Zero) = x
  <2>1. Minus(Zero) = Zero
    BY <1>1 DEF Minus
  <2>2. PICK f \in Int : f <= x.e /\ f <= Zero.e
    BY <1>1, Common
  <2>3. PICK a : a = RawSum(x, Zero)
    OBVIOUS
  <2>4. /\ a \in Numeral /\ f <= a.e /\ At10(a, f) = At10(x, f) + At10(Zero, f)
        /\ At10(x, f) \in Int /\ At10(Zero, f) \in Int
    BY <1>1, <2>2, <2>3, RawSumAt
  <2>5. At10(Zero, f) = 0
    <3>1. PICK i \in Nat : i = 0 - f
      BY <1>1, <2>2
    <3>2. PICK t \in Nat : t = Ten[i]
      BY Powers
    <3> QED
      BY <1>1, <3>1, <3>2 DEF At10
  <2>6. a \preceq x /\ x \preceq a
    BY <1>1, <2>2, <2>4, <2>5, CompareAt
  <2>7. a.c >= 0
    <3>1. Zero \preceq x
      BY <1>1, SignTells
    <3>2. Zero \preceq a
      BY <1>1, <2>4, <2>6, <3>1, OrderTransitive
    <3> QED
      BY <2>4, <3>2, SignTells
  <2>8. Plus(x, Zero) = Near(a) /\ a \in RawNat
    BY <1>1, <2>3, <2>7, PlusSum
  <2>9. Near(a) = x
    BY <1>1, <2>6, <2>8, NearOf
  <2> QED
    BY <2>1, <2>8, <2>9 DEF Difference
<1>4. Difference(x, x) = Zero
  BY <1>1, DifferenceSign
<1> QED
  BY <1>2, <1>3, <1>4

LEMMA DifferencesOrder ==
  ASSUME NEW x, NEW y, NEW z, Amount(x), Amount(y), Amount(z), z \preceq x, x \preceq y
  PROVE  Difference(x, z) \preceq Difference(y, z)
<1>1. x \in Numeral /\ y \in Numeral /\ z \in Numeral /\ z \preceq y
  BY AmountSigns, AmountOrder
<1>2. PICK f \in Int : f <= x.e /\ f <= y.e /\ f <= z.e
  BY <1>1, Common
<1>3. PICK m : m = Minus(z) /\ m \in Numeral /\ f <= m.e
  BY <1>1, <1>2, MinusRaw
<1>4. PICK a, b : a = RawSum(x, m) /\ b = RawSum(y, m)
  OBVIOUS
<1>5. /\ a \in Numeral /\ f <= a.e /\ At10(a, f) = At10(x, f) + At10(m, f)
      /\ At10(x, f) \in Int /\ At10(m, f) \in Int
  BY <1>1, <1>2, <1>3, <1>4, RawSumAt
<1>6. b \in Numeral /\ f <= b.e /\ At10(b, f) = At10(y, f) + At10(m, f) /\ At10(y, f) \in Int
  BY <1>1, <1>2, <1>3, <1>4, RawSumAt
<1>7. At10(x, f) <= At10(y, f)
  BY <1>1, <1>2, CompareAt
<1>8. a \preceq b
  BY <1>5, <1>6, <1>7, CompareAt
<1>9. /\ Difference(x, z) = Plus(x, m) /\ Difference(y, z) = Plus(y, m)
      /\ NotNegative(Difference(x, z)) /\ NotNegative(Difference(y, z))
  BY <1>1, <1>3, Differences DEF Difference
<1>10. a.c >= 0 /\ b.c >= 0
  <2>1. ~(Plus(x, m).c < 0) /\ ~(Plus(y, m).c < 0)
    <3>1. \A u : NotNegative(u) => u.c \in Int /\ u.c >= 0
      BY AmountSigns DEF NotNegative
    <3>2. Difference(x, z).c \in Int /\ Difference(x, z).c >= 0
          /\ Difference(y, z).c \in Int /\ Difference(y, z).c >= 0
      BY <1>9, <3>1
    <3> QED
      BY <1>9, <3>2
  <2>2. ~(a.c < 0) /\ ~(b.c < 0)
    BY <1>1, <1>3, <1>4, <2>1, PlusSum
  <2>3. a.c \in Int /\ b.c \in Int
    BY <1>5, <1>6 DEF Numeral
  <2> QED
    BY <2>2, <2>3
<1>11. Plus(x, m) = Near(a) /\ a \in RawNat /\ Plus(y, m) = Near(b) /\ b \in RawNat
  BY <1>1, <1>3, <1>4, <1>10, PlusSum
<1> QED
  BY <1>8, <1>9, <1>11, Monotone

\* An approved purchase is paid for with its slippage.
LEMMA ApprovedPays ==
  ASSUME NEW p, NEW book, Opens(p), Judgement(p, book) = "APPROVED"
  PROVE  Plus(Product(p.quantity, p.price), p.slippage) \preceq book.cash
<1>1. IntentQuantity(p, book) = p.quantity
  BY DEF Opens, IntentQuantity
<1> QED
  BY <1>1 DEF Judgement, \preceq

=============================================================================
