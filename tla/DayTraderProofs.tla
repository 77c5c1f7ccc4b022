--------------------------- MODULE DayTraderProofs ---------------------------
(***************************************************************************)
(* Theorems about DayTrader, for every universe, market, number of digits, *)
(* part the exchange may fill and price it may fill it at: the scanner's   *)
(* ranking always has one best candidate, holdings stay positive and only  *)
(* a fill dearer than its reserve makes a debt, a forced exit offers all   *)
(* of the book for sale and nothing else, a position whose signal          *)
(* qualifies is sold for a better one only, and a purchase is approved     *)
(* into an empty book only.                                                *)
(***************************************************************************)
EXTENDS DayTrader, SizingProofs

(***************************************************************************)
(* The ranking of the candidates.                                          *)
(***************************************************************************)
LEMMA UniverseFinite == IsFiniteSet(Universe)
<1>1. DOMAIN Symbols = 1 .. Len(Symbols) /\ Len(Symbols) \in Nat
  BY DayAssumption
<1>2. Symbols \in Surjection(1 .. Len(Symbols), Universe)
  BY <1>1, DayAssumption DEF Surjection, Universe, ToSet
<1> QED
  BY <1>1, <1>2, FS_Interval, FS_Surjection

LEMMA PositionOf ==
  ASSUME NEW s \in Universe
  PROVE  Position(s) \in Nat /\ Symbols[Position(s)] = s
<1> DEFINE I == {i \in 1 .. Len(Symbols) : Symbols[i] = s}
<1>1. DOMAIN Symbols = 1 .. Len(Symbols) /\ Len(Symbols) \in Nat
  BY DayAssumption
<1>2. I \subseteq Nat /\ I # {}
  BY <1>1 DEF Universe, ToSet
<1>3. Min(I) \in I
  <2>1. \E i \in I : \A j \in I : i <= j
    <3> HIDE DEF I
    <3> QED
      BY <1>2, LeastNumber
  <2> HIDE DEF I
  <2> QED
    BY <2>1 DEF Min
<1>4. Position(s) = Min(I)
  BY <1>2 DEF Position, SelectInSeq
<1> QED
  BY <1>2, <1>3, <1>4

LEMMA GreatestOfFour ==
  ASSUME NEW a \in Int, NEW b \in Int, NEW X, NEW c \in Int, NEW Y, NEW d \in Int,
         X \in {{}, {c}}, Y \in {{}, {d}}
  PROVE  Max({a, b} \cup X \cup Y) \in {a, b} \cup X \cup Y
<1> DEFINE S == {a, b} \cup X \cup Y
           x == IF a >= b THEN a ELSE b
           y == IF X # {} /\ c >= x THEN c ELSE x
           z == IF Y # {} /\ d >= y THEN d ELSE y
<1>1. z \in S /\ S \subseteq Int
  OBVIOUS
<1>2. \A n \in S : z >= n
  OBVIOUS
<1> HIDE DEF S, z
<1>3. \E m \in S : \A n \in S : m >= n
  BY <1>1, <1>2
<1>4. Max(S) \in S
  BY <1>3 DEF Max
<1> QED
  BY <1>4 DEF S

LEMMA PositivePart ==
  ASSUME NEW n \in Int
  PROVE  Positive(n) \in Nat
BY DEF Positive

LEMMA EdgeNumbers ==
  ASSUME NEW m \in Markets, m.benchmark # NoHistory, NEW s \in Universe, m.features[s] # NoHistory
  PROVE  /\ GrossEdge(m.features[s], m.benchmark) \in Int
         /\ Denominator(m.features[s]) \in Nat \ {0}
<1> DEFINE f == m.features[s]
           w == m.benchmark
<1>1. {f.short, f.medium, f.breakout, f.volatility} \subseteq Int /\ w.medium \in Int
  BY DayAssumption
<1> HIDE DEF f, w
<1>2. PICK h \in Int, n \in Int, o \in Int, v \in Int, b \in Int :
        f.short = h /\ f.medium = n /\ f.breakout = o /\ f.volatility = v /\ w.medium = b
  BY <1>1
<1>3. PICK r \in Int : r = n - b
  OBVIOUS
<1>4. PICK hp \in Nat, op \in Nat, rp \in Nat : hp = Positive(h) /\ op = Positive(o) /\ rp = Positive(r)
  BY PositivePart
<1> DEFINE x == 35 * h + 35 * n + 20 * r + 10 * op
           y == 50 * op + 30 * hp + 20 * rp
           c == -55 * h + 25 * n + 20 * rp
           d == 45 * n + 45 * rp + 10 * hp
           X == IF n > 0 /\ h < 0 THEN {c} ELSE {}
           Y == IF b < 0 /\ n > 0 THEN {d} ELSE {}
<1>5. Families(f, w) = {x, y} \cup X \cup Y
  BY <1>2, <1>3, <1>4 DEF Families
<1>6. x \in Int /\ y \in Int /\ c \in Int /\ d \in Int
  OBVIOUS
<1>7. X \in {{}, {c}} /\ Y \in {{}, {d}}
  OBVIOUS
<1> HIDE DEF x, y, c, d, X, Y
<1>8. Max({x, y} \cup X \cup Y) \in {x, y} \cup X \cup Y
  BY <1>6, <1>7, GreatestOfFour
<1>9. GrossEdge(f, w) \in Int
  BY <1>5, <1>6, <1>7, <1>8 DEF GrossEdge
<1>10. Denominator(f) \in Nat \ {0}
  <2>1. Denominator(f) = Max({v, 5})
    BY <1>2 DEF Denominator, VolatilityFloor
  <2>2. \E i \in {v, 5} : \A j \in {v, 5} : i >= j
    OBVIOUS
  <2>3. Max({v, 5}) \in {v, 5} /\ Max({v, 5}) >= 5
    BY <2>2 DEF Max
  <2> QED
    BY <2>1, <2>3
<1> QED
  BY <1>9, <1>10 DEF f, w

LEMMA ScoreOrder ==
  ASSUME NEW a \in Int, NEW b \in Int, NEW c \in Int,
         NEW x \in Nat \ {0}, NEW y \in Nat \ {0}, NEW z \in Nat \ {0},
         b * x <= a * y, c * y <= b * z
  PROVE  /\ c * x <= a * z
         /\ c * x = a * z => b * x = a * y /\ c * y = b * z
<1>1. (b * x) * z <= (a * y) * z /\ (c * y) * x <= (b * z) * x
  <2>1. PICK i \in Int, j \in Int, k \in Int, l \in Int : i = b * x /\ j = a * y /\ k = c * y /\ l = b * z
    OBVIOUS
  <2>2. i * z <= j * z /\ k * x <= l * x
    BY <2>1, Cancel
  <2> QED
    BY <2>1, <2>2
<1>2. /\ (b * x) * z = (b * z) * x /\ (a * y) * z = (a * z) * y /\ (c * y) * x = (c * x) * y
  OBVIOUS
<1>3. PICK u \in Int, v \in Int, w \in Int, i \in Int, j \in Int, k \in Int, l \in Int :
        u = c * x /\ v = a * z /\ w = (b * z) * x /\ i = b * x /\ j = a * y /\ k = c * y /\ l = b * z
  OBVIOUS
<1>4. u * y <= w /\ w <= v * y /\ i * z = w /\ l * x = w /\ j * z = v * y /\ k * x = u * y
  BY <1>1, <1>2, <1>3
<1>5. u <= v
  <2>1. u * y \in Int /\ v * y \in Int
    OBVIOUS
  <2>2. u * y <= v * y
    BY <1>4, <2>1
  <2> QED
    BY <2>2, Cancel
<1>6. ASSUME u = v PROVE i = j /\ k = l
  <2>1. i * z = j * z /\ k * x = l * x
    <3>1. u * y \in Int
      OBVIOUS
    <3> QED
      BY <1>4, <1>6, <3>1
  <2>2. i * z <= j * z /\ j * z <= i * z /\ k * x <= l * x /\ l * x <= k * x
    <3>1. i * z \in Int /\ k * x \in Int
      OBVIOUS
    <3> QED
      BY <2>1, <3>1
  <2>3. i <= j /\ j <= i /\ k <= l /\ l <= k
    BY <2>2, Cancel
  <2> QED
    BY <2>3
<1> QED
  BY <1>3, <1>5, <1>6

LEMMA CandidateNumbers ==
  ASSUME NEW m \in Markets, NEW s \in Candidates(m)
  PROVE  /\ s \in Universe
         /\ GrossEdge(m.features[s], m.benchmark) \in Int
         /\ Denominator(m.features[s]) \in Nat \ {0}
         /\ Position(s) \in Nat /\ Symbols[Position(s)] = s
<1>1. s \in Universe /\ m.benchmark # NoHistory /\ m.features[s] # NoHistory
  BY DEF Candidates, Qualifies
<1> QED
  BY <1>1, EdgeNumbers, PositionOf

LEMMA HigherOrder ==
  ASSUME NEW m \in Markets, NEW s \in Candidates(m), NEW t \in Candidates(m)
  PROVE  /\ ~ScoresHigher(m, s, s)
         /\ s # t => ScoresHigher(m, s, t) \/ ScoresHigher(m, t, s)
         /\ \A r \in Candidates(m) :
              ScoresHigher(m, r, s) /\ ScoresHigher(m, s, t) => ScoresHigher(m, r, t)
<1> DEFINE edge(u) == GrossEdge(m.features[u], m.benchmark)
           denominator(u) == Denominator(m.features[u])
<1>1. \A u \in Candidates(m) : /\ edge(u) \in Int /\ denominator(u) \in Nat \ {0}
                              /\ Position(u) \in Nat /\ Symbols[Position(u)] = u
  BY CandidateNumbers
<1>2. \A u, v \in Candidates(m) :
        ScoresHigher(m, u, v) <=>
          \/ edge(u) * denominator(v) > edge(v) * denominator(u)
          \/ edge(u) * denominator(v) = edge(v) * denominator(u) /\ Position(u) < Position(v)
  BY Zenon DEF ScoresHigher
<1> HIDE DEF edge, denominator
<1>3. PICK a \in Int, x \in Nat \ {0}, b \in Int, y \in Nat \ {0} :
        a = edge(s) /\ x = denominator(s) /\ b = edge(t) /\ y = denominator(t)
  BY <1>1
<1>4. ~ScoresHigher(m, s, s)
  <2>1. a * x \in Int
    OBVIOUS
  <2> QED
    BY <1>1, <1>2, <1>3, <2>1
<1>5. ASSUME s # t PROVE ScoresHigher(m, s, t) \/ ScoresHigher(m, t, s)
  <2>1. Position(s) # Position(t)
    BY <1>1, <1>5
  <2>2. PICK i \in Int, j \in Int : i = a * y /\ j = b * x
    OBVIOUS
  <2>3. i > j \/ j > i \/ (i = j /\ (Position(s) < Position(t) \/ Position(t) < Position(s)))
    BY <1>1, <2>1
  <2>4. /\ ScoresHigher(m, s, t) <=> i > j \/ (i = j /\ Position(s) < Position(t))
        /\ ScoresHigher(m, t, s) <=> j > i \/ (j = i /\ Position(t) < Position(s))
    BY <1>2, <1>3, <2>2, Zenon
  <2> QED
    BY <2>3, <2>4
<1>6. ASSUME NEW r \in Candidates(m), ScoresHigher(m, r, s), ScoresHigher(m, s, t)
      PROVE  ScoresHigher(m, r, t)
  <2>1. PICK c \in Int, z \in Nat \ {0} : c = edge(r) /\ z = denominator(r)
    BY <1>1
  <2>2. PICK cx \in Int, az \in Int, ay \in Int, bx \in Int, cy \in Int, bz \in Int :
          cx = c * x /\ az = a * z /\ ay = a * y /\ bx = b * x /\ cy = c * y /\ bz = b * z
    OBVIOUS
  <2>3. /\ cx > az \/ (cx = az /\ Position(r) < Position(s))
        /\ ay > bx \/ (ay = bx /\ Position(s) < Position(t))
        /\ ScoresHigher(m, r, t) <=> cy > bz \/ (cy = bz /\ Position(r) < Position(t))
    BY <1>2, <1>3, <1>6, <2>1, <2>2, Zenon
  <2>4. a * z <= c * x /\ b * x <= a * y
    BY <2>2, <2>3
  <2>5. b * z <= c * y /\ (b * z = c * y => a * z = c * x /\ b * x = a * y)
    BY <2>4, ScoreOrder
  <2>6. bz <= cy /\ (bz = cy => az = cx /\ bx = ay)
    BY <2>2, <2>5
  <2> QED
    BY <1>1, <2>3, <2>6
<1> QED
  BY <1>4, <1>5, <1>6

\* scan's ranking of whatever qualifies has exactly one first candidate, whatever scores are equal
\* (strategies/m11.py sorts by score, ties by the symbol).
THEOREM OneBest ==
  ASSUME NEW m \in Markets, Candidates(m) # {}
  PROVE  /\ Best(m) \in Candidates(m)
         /\ \A t \in Candidates(m) \ {Best(m)} : ScoresHigher(m, Best(m), t)
         /\ \A s \in Candidates(m) \ {Best(m)} : ~ScoresHigher(m, s, Best(m))
<1> DEFINE C == Candidates(m)
           ahead(s) == {t \in C : ScoresHigher(m, t, s)}
           N == {Cardinality(ahead(s)) : s \in C}
<1>1. IsFiniteSet(C)
  <2>1. C \subseteq Universe
    BY DEF Candidates
  <2> QED
    BY <2>1, UniverseFinite, FS_Subset
<1>2. \A s \in C : ahead(s) \subseteq C /\ IsFiniteSet(ahead(s)) /\ Cardinality(ahead(s)) \in Nat
  <2>1. \A s \in C : ahead(s) \subseteq C
    OBVIOUS
  <2> HIDE DEF ahead, C
  <2> QED
    BY <1>1, <2>1, FS_Subset, FS_CardinalityType
<1>3. PICK s \in C : \A t \in C : Cardinality(ahead(s)) <= Cardinality(ahead(t))
  <2>1. N \subseteq Nat /\ N # {}
    BY <1>2
  <2>2. PICK n \in N : \A k \in N : n <= k
    <3> HIDE DEF N
    <3> QED
      BY <2>1, LeastNumber
  <2> HIDE DEF ahead
  <2> QED
    BY <2>2
<1>4. ASSUME NEW t \in C \ {s} PROVE ScoresHigher(m, s, t)
  <2>1. SUFFICES ASSUME ScoresHigher(m, t, s) PROVE FALSE
    BY HigherOrder
  <2>2. ahead(t) \subseteq ahead(s) /\ t \in ahead(s) /\ t \notin ahead(t)
    BY <2>1, HigherOrder
  <2> HIDE DEF ahead
  <2>3. Cardinality(ahead(t)) <= Cardinality(ahead(s)) /\ Cardinality(ahead(t)) # Cardinality(ahead(s))
    BY <1>2, <2>2, FS_Subset
  <2> QED
    BY <1>2, <1>3, <2>3
<1>5. Best(m) \in C /\ \A t \in C \ {Best(m)} : ScoresHigher(m, Best(m), t)
  BY <1>4, Zenon DEF Best
<1>6. ASSUME NEW t \in C \ {Best(m)} PROVE ~ScoresHigher(m, t, Best(m))
  BY <1>5, HigherOrder
<1> QED
  BY <1>5, <1>6

(***************************************************************************)
(* The invariant.                                                          *)
(***************************************************************************)
\* A proposal that a fill can be computed for, of something with quotes.
Sane(p) ==
  /\ Fillable(p) /\ p.symbol \in Tradable
  /\ Opens(p) => p.notional = Product(p.quantity, p.price)

\* An order of which the exchange can still fill no more than is held, if it is a sale.
Placed(o) ==
  /\ Sane(o.proposal)
  /\ NotNegative(o.size) /\ NotNegative(o.quantity) /\ NotNegative(o.gross)
  /\ o.quantity \preceq o.size
  /\ ~Opens(o.proposal) =>
       Difference(o.size, o.quantity) \preceq Held(book, o.proposal.symbol)

\* No two proposals or orders of a cycle are of one symbol.
Apart ==
  /\ \A i, j \in 1 .. Len(queue) : queue[i].symbol = queue[j].symbol => i = j
  /\ \A o \in working : \A p \in ToSet(queue) : o.proposal.symbol # p.symbol
  /\ \A o, w \in working : o.proposal.symbol = w.proposal.symbol => o = w

\* What holds between the steps: holdings are positive, and whatever is queued or working was
\* sized by the proposal builder.
DaySound ==
  /\ Holding(book) /\ Amount(book.cash) /\ DOMAIN book.positions \subseteq Tradable
  /\ queue \in Seq(ToSet(queue))
  /\ \A p \in ToSet(queue) : Sane(p)
  /\ \A o \in working : Placed(o)
  /\ Apart
  /\ dear \in BOOLEAN

LEMMA QuotedPrices ==
  ASSUME NEW m \in Markets, NEW s \in Tradable
  PROVE  IsPositive(m.quotes[s])
BY DayAssumption, AmountSigns

LEMMA NavIsAmount ==
  ASSUME DaySound, NEW m \in Markets
  PROVE  Amount(Nav(book, m.quotes))
<1>1. Holding(book) /\ Amount(book.cash) /\ DOMAIN book.positions \subseteq Tradable
  BY DEF DaySound
<1>2. \A s \in DOMAIN book.positions : Amount(Worth(book, m.quotes, s))
  <2> SUFFICES ASSUME NEW s \in DOMAIN book.positions PROVE Amount(Worth(book, m.quotes, s))
    OBVIOUS
  <2>1. IsPositive(m.quotes[s])
    BY <1>1, QuotedPrices
  <2> QED
    BY <1>1, <2>1, WorthOf DEF NotNegative
<1> QED
  BY <1>1, <1>2, NavAmount DEF Holding

\* A weight of the scanner's targets, and of the position it keeps.
Allowed(target) ==
  /\ IsFiniteSet(DOMAIN target) /\ DOMAIN target \subseteq Tradable
  /\ \A s : NotNegative(Weight(target, s))

LEMMA OneWeight ==
  ASSUME NEW s \in Tradable, NEW w, NotNegative(w), NEW target, target = [x \in {s} |-> w]
  PROVE  Allowed(target)
<1>1. DOMAIN target = {s} /\ target[s] = w
  OBVIOUS
<1>2. NotNegative(Zero)
  BY ZeroOne DEF NotNegative
<1>3. IsFiniteSet({s})
  BY FS_Singleton
<1>4. \A x : Weight(target, x) \in {w, Zero}
  BY <1>1 DEF Weight
<1> QED
  BY <1>1, <1>2, <1>3, <1>4 DEF Allowed

LEMMA NothingWanted == Allowed(InCash) /\ \A s : Weight(InCash, s) = Zero
<1>1. NotNegative(Zero)
  BY ZeroOne DEF NotNegative
<1>2. DOMAIN InCash = {}
  BY DEF InCash
<1> QED
  BY <1>1, <1>2, FS_EmptySet DEF Allowed, Weight

LEMMA TargetAllowed ==
  ASSUME DaySound, NEW m \in Markets
  PROVE  Allowed(GenerateTarget(m))
<1>1. NotNegative(One) /\ Amount(One)
  BY ZeroOne DEF NotNegative
<1>2. HeldSymbols \subseteq Tradable /\ Candidates(m) \subseteq Tradable
  BY DEF DaySound, HeldSymbols, Candidates, Tradable
<1>3. ASSUME Candidates(m) # {} PROVE Allowed(AllIn(SelectWithIncumbency(m)))
  <2>1. Best(m) \in Candidates(m)
    BY <1>3, OneBest
  <2>2. SelectWithIncumbency(m) \in Candidates(m)
    BY <2>1, Zenon DEF SelectWithIncumbency
  <2> QED
    BY <1>1, <1>2, <2>2, OneWeight DEF AllIn
<1>4. ASSUME NEW s \in HeldSymbols PROVE Allowed(HoldCurrentPosition(s, m))
  <2>1. CASE Nav(book, m.quotes) \preceq Zero
    BY <2>1, NothingWanted DEF HoldCurrentPosition
  <2>2. CASE ~(Nav(book, m.quotes) \preceq Zero)
    <3>1. PICK nav : nav = Nav(book, m.quotes) /\ IsPositive(nav)
      <4>1. Zero \prec Nav(book, m.quotes)
        BY <2>2 DEF \preceq
      <4> QED
        BY <4>1, NavIsAmount, AmountSigns
    <3>2. PICK worth : worth = Worth(book, m.quotes, s) /\ NotNegative(worth)
      BY <1>2, QuotedPrices, WorthOf DEF DaySound
    <3>3. NotNegative(Quotient(worth, nav))
      BY <3>1, <3>2, Quotients
    <3>4. NotNegative(Least(One, Quotient(worth, nav)))
      <4>1. Least(One, Quotient(worth, nav)) \in {One, Quotient(worth, nav)}
        BY <1>1, <3>3, LeastOf DEF NotNegative
      <4> QED
        BY <1>1, <3>3, <4>1
    <3>5. HoldCurrentPosition(s, m) = [x \in {s} |-> Least(One, Quotient(worth, nav))]
      BY <2>2, <3>1, <3>2 DEF HoldCurrentPosition
    <3> QED
      BY <1>2, <3>4, <3>5, OneWeight
  <2> QED
    BY <2>1, <2>2
<1>5. Allowed(InCash)
  BY NothingWanted
<1> QED
  BY <1>3, <1>4, <1>5, Zenon DEF GenerateTarget

(***************************************************************************)
(* The proposals of a cycle and their queue.                               *)
(***************************************************************************)
LEMMA CycleProposals ==
  ASSUME DaySound, NEW m \in Markets,
         NEW P, P = Proposals(GenerateTarget(m), book, m.quotes, FALSE)
  PROVE  /\ IsFiniteSet(P) /\ \A p \in P : Sane(p)
         /\ \A p, r \in P : p.symbol = r.symbol => p = r
<1>1. PICK target : target = GenerateTarget(m) /\ Allowed(target)
  BY TargetAllowed
<1>2. Holding(book) /\ Amount(book.cash) /\ DOMAIN book.positions \subseteq Tradable
  BY DEF DaySound
<1> DEFINE S == DOMAIN book.positions \cup DOMAIN target
           of(s) == ProposalFor(target, book, m.quotes, s)
           T == {s \in S : of(s) # {}}
           first == [s \in T |-> CHOOSE p : p \in of(s)]
<1>3. P = UNION {of(s) : s \in S}
  BY <1>1, Zenon DEF Proposals
<1>4. \A s : \E p : of(s) \in {{}, {p}}
  BY Zenon DEF ProposalFor
<1>5. \A s \in S : \A p \in of(s) : Sane(p) /\ p.symbol = s
  <2> SUFFICES ASSUME NEW s \in S, NEW p \in of(s) PROVE Sane(p) /\ p.symbol = s
    OBVIOUS
  <2>1. s \in Tradable /\ NotNegative(Weight(target, s))
    BY <1>1, <1>2 DEF Allowed
  <2>2. IsPositive(m.quotes[s]) /\ Amount(Nav(book, m.quotes))
    BY <2>1, QuotedPrices, NavIsAmount
  <2>3. Fillable(p) /\ p.symbol = s /\ (Opens(p) => p.notional = Product(p.quantity, p.price))
    BY <1>2, <2>1, <2>2, ProposalFacts
  <2> QED
    BY <2>1, <2>3 DEF Sane
<1>6. IsFiniteSet(S)
  BY <1>1, <1>2, FS_Union DEF Allowed, Holding
<1> HIDE DEF S, of
<1>7. IsFiniteSet(T)
  BY <1>6, FS_Subset
<1>8. first \in Surjection(T, P)
  <2>1. \A s \in T : first[s] \in of(s) /\ of(s) = {first[s]}
    BY <1>4
  <2>2. first \in [T -> P]
    BY <1>3, <2>1
  <2>3. ASSUME NEW p \in P PROVE \E s \in T : first[s] = p
    <3>1. PICK s \in S : p \in of(s)
      BY <1>3
    <3>2. s \in T
      BY <3>1
    <3> HIDE DEF first, T
    <3> QED
      BY <2>1, <3>1, <3>2
  <2> QED
    BY <2>2, <2>3 DEF Surjection
<1>9. IsFiniteSet(P)
  <2> HIDE DEF first, T
  <2> QED
    BY <1>7, <1>8, FS_Surjection
<1>10. ASSUME NEW p \in P, NEW r \in P, p.symbol = r.symbol PROVE p = r
  <2>1. PICK s \in S, u \in S : p \in of(s) /\ r \in of(u)
    BY <1>3
  <2>2. s = u
    BY <1>5, <1>10, <2>1
  <2> QED
    BY <1>4, <2>1, <2>2
<1>11. ASSUME NEW p \in P PROVE Sane(p)
  <2>1. PICK s \in S : p \in of(s)
    BY <1>3
  <2> QED
    BY <1>5, <2>1
<1> QED
  BY <1>9, <1>10, <1>11

LEMMA SortedFacts ==
  ASSUME NEW P, IsFiniteSet(P)
  PROVE  /\ Sorted(P) \in Seq(P) /\ ToSet(Sorted(P)) = P
         /\ \A i, j \in 1 .. Len(Sorted(P)) : Sorted(P)[i] = Sorted(P)[j] => i = j
<1>1. PICK a, b : a = SetToSeq({p \in P : ~Opens(p)}) /\ b = SetToSeq({p \in P : Opens(p)})
  OBVIOUS
<1>2. /\ a \in Seq({p \in P : ~Opens(p)}) /\ ToSet(a) = {p \in P : ~Opens(p)}
      /\ b \in Seq({p \in P : Opens(p)}) /\ ToSet(b) = {p \in P : Opens(p)}
      /\ \A i, j \in 1 .. Len(a) : a[i] = a[j] => i = j
      /\ \A i, j \in 1 .. Len(b) : b[i] = b[j] => i = j
  <2>1. IsFiniteSet({p \in P : ~Opens(p)}) /\ IsFiniteSet({p \in P : Opens(p)})
    BY FS_Subset
  <2> QED
    BY <1>1, <2>1, SequenceOf
<1>3. a \in Seq(P) /\ b \in Seq(P)
  BY <1>2
<1>4. PICK c : c = a \o b /\ c \in Seq(P) /\ Len(c) = Len(a) + Len(b)
  <2>1. a \o b \in Seq(P) /\ Len(a \o b) = Len(a) + Len(b)
    BY <1>3
  <2> QED
    BY <2>1
<1>5. /\ \A i \in 1 .. Len(a) : c[i] = a[i]
      /\ \A i \in 1 .. Len(b) : c[Len(a) + i] = b[i]
  BY <1>3, <1>4
<1>6. ASSUME NEW p \in P PROVE p \in ToSet(c)
  <2>1. p \in ToSet(a) \/ p \in ToSet(b)
    BY <1>2
  <2>2. CASE p \in ToSet(a)
    <3>1. PICK i \in 1 .. Len(a) : a[i] = p
      BY <1>3, <2>2 DEF ToSet
    <3>2. i \in 1 .. Len(c) /\ c[i] = p
      BY <1>3, <1>4, <1>5, <3>1
    <3> QED
      BY <1>4, <3>2 DEF ToSet
  <2>3. CASE p \in ToSet(b)
    <3>1. PICK i \in 1 .. Len(b) : b[i] = p
      BY <1>3, <2>3 DEF ToSet
    <3>2. PICK j : j = Len(a) + i /\ j \in 1 .. Len(c) /\ c[j] = p
      <4>1. Len(a) + i \in 1 .. Len(c) /\ c[Len(a) + i] = p
        BY <1>3, <1>4, <1>5, <3>1
      <4> QED
        BY <4>1
    <3>3. DOMAIN c = 1 .. Len(c)
      BY <1>4
    <3> QED
      BY <3>2, <3>3, Zenon DEF ToSet
  <2> QED
    BY <2>1, <2>2, <2>3
<1>7. ToSet(c) \subseteq P
  BY <1>4 DEF ToSet
<1>8. ASSUME NEW i \in 1 .. Len(c), NEW j \in 1 .. Len(c), c[i] = c[j] PROVE i = j
  <2>1. PICK la \in Nat, lb \in Nat : la = Len(a) /\ lb = Len(b) /\ Len(c) = la + lb
    BY <1>3, <1>4
  <2>2. \A k \in 1 .. la : c[k] = a[k] /\ ~Opens(c[k])
    BY <1>2, <1>5, <2>1
  <2>3. \A k \in 1 .. lb : c[la + k] = b[k] /\ Opens(c[la + k])
    BY <1>2, <1>5, <2>1
  <2>4. \A k \in 1 .. Len(c) : k \in 1 .. la \/ (k - la \in 1 .. lb /\ k = la + (k - la))
    BY <2>1
  <2>5. CASE i \in 1 .. la /\ j \in 1 .. la
    BY <1>2, <1>8, <2>1, <2>2, <2>5
  <2>6. CASE i - la \in 1 .. lb /\ j - la \in 1 .. lb
    <3>1. b[i - la] = b[j - la]
      BY <1>8, <2>1, <2>3, <2>4, <2>6
    <3>2. i - la = j - la
      BY <1>2, <2>1, <2>6, <3>1
    <3> QED
      BY <2>1, <3>2
  <2>7. ASSUME NEW k \in 1 .. Len(c), k - la \in 1 .. lb PROVE Opens(c[k])
    <3>1. k = la + (k - la)
      BY <2>1
    <3> QED
      BY <2>3, <2>7, <3>1
  <2>8. CASE i \in 1 .. la /\ j - la \in 1 .. lb
    BY <1>8, <2>2, <2>7, <2>8
  <2>9. CASE j \in 1 .. la /\ i - la \in 1 .. lb
    BY <1>8, <2>2, <2>7, <2>9
  <2> QED
    BY <2>4, <2>5, <2>6, <2>8, <2>9
<1> QED
  BY <1>1, <1>4, <1>6, <1>7, <1>8 DEF Sorted

LEMMA QueueFacts ==
  ASSUME NEW R, NEW q \in Seq(R)
  PROVE  /\ q \in Seq(ToSet(q)) /\ ToSet(q) \subseteq R
         /\ q # <<>> => /\ Head(q) \in ToSet(q)
                        /\ Tail(q) \in Seq(ToSet(Tail(q))) /\ ToSet(Tail(q)) \subseteq ToSet(q)
<1>1. ASSUME NEW U, NEW r \in Seq(U) PROVE r \in Seq(ToSet(r)) /\ ToSet(r) \subseteq U
  <2>1. Len(r) \in Nat /\ DOMAIN r = 1 .. Len(r) /\ r = [i \in 1 .. Len(r) |-> r[i]]
    OBVIOUS
  <2>2. \A i \in 1 .. Len(r) : r[i] \in ToSet(r) /\ r[i] \in U
    BY <2>1 DEF ToSet
  <2>3. r \in [1 .. Len(r) -> ToSet(r)]
    BY <2>1, <2>2
  <2>4. r \in Seq(ToSet(r))
    BY <2>1, <2>3
  <2> QED
    BY <2>1, <2>2, <2>4 DEF ToSet
<1>2. q \in Seq(ToSet(q)) /\ ToSet(q) \subseteq R
  BY <1>1
<1>3. ASSUME q # <<>>
      PROVE  /\ Head(q) \in ToSet(q)
             /\ Tail(q) \in Seq(ToSet(Tail(q))) /\ ToSet(Tail(q)) \subseteq ToSet(q)
  <2>1. Head(q) \in ToSet(q) /\ Tail(q) \in Seq(ToSet(q))
    BY <1>2, <1>3
  <2> QED
    BY <1>1, <2>1
<1> QED
  BY <1>2, <1>3

(***************************************************************************)
(* The steps.                                                              *)
(***************************************************************************)
LEMMA InitSound == Init => DaySound
<1> SUFFICES ASSUME Init PROVE DaySound
  OBVIOUS
<1>1. PICK b \in Books : book = b.book
  BY DEF Init
<1>2. Holding(b.book) /\ Amount(b.book.cash)
  BY DayAssumption, AmountSigns DEF Holding
<1>3. DOMAIN b.book.positions \subseteq Tradable
  BY DEF Tradable
<1>4. queue = <<>> /\ ToSet(queue) = {} /\ working = {} /\ dear = FALSE /\ Len(queue) = 0
  BY DEF Init, ToSet
<1>5. Apart
  BY <1>4 DEF Apart
<1>6. queue \in Seq(ToSet(queue))
  BY <1>4
<1>7. Holding(book) /\ Amount(book.cash) /\ DOMAIN book.positions \subseteq Tradable
  BY <1>1, <1>2, <1>3
<1> QED
  BY <1>4, <1>5, <1>6, <1>7 DEF DaySound

\* What a completed cycle leaves in the queue.
LEMMA CycleQueue ==
  ASSUME DaySound, NEW m \in Markets, RunCycle(m)
  PROVE  /\ ToSet(queue') = Proposals(GenerateTarget(m), book, m.quotes, FALSE)
         /\ queue' \in Seq(ToSet(queue'))
         /\ \A p \in ToSet(queue') : Sane(p)
         /\ \A i, j \in 1 .. Len(queue') : queue'[i].symbol = queue'[j].symbol => i = j
<1>1. PICK P : P = Proposals(GenerateTarget(m), book, m.quotes, FALSE)
  OBVIOUS
<1>2. IsFiniteSet(P) /\ (\A p \in P : Sane(p)) /\ \A p, r \in P : p.symbol = r.symbol => p = r
  BY <1>1, CycleProposals
<1>3. PICK q : q = queue' /\ q = Sorted(P)
  BY <1>1 DEF RunCycle
<1>4. q \in Seq(P) /\ ToSet(q) = P /\ \A i, j \in 1 .. Len(q) : q[i] = q[j] => i = j
  BY <1>2, <1>3, SortedFacts
<1>5. \A i, j \in 1 .. Len(q) : q[i].symbol = q[j].symbol => i = j
  <2>1. \A i \in 1 .. Len(q) : q[i] \in P
    BY <1>4
  <2> QED
    BY <1>2, <1>4, <2>1
<1> QED
  BY <1>1, <1>2, <1>3, <1>4, <1>5

\* What a report of an order leaves.
LEMMA Reported ==
  ASSUME DaySound, NEW o, Placed(o), NEW quantity, NEW gross, NotNegative(quantity), NotNegative(gross),
         o.quantity \preceq quantity, quantity \preceq o.size, o.gross \preceq gross,
         Report(o, quantity, gross)
  PROVE  /\ Holding(book') /\ Amount(book'.cash) /\ DOMAIN book'.positions \subseteq Tradable
         /\ dear' \in BOOLEAN
         /\ NotNegative(Difference(gross, o.gross))
         /\ quantity = o.quantity => book' = book
         /\ quantity # o.quantity =>
              book'.cash = IF Opens(o.proposal) THEN Difference(book.cash, Difference(gross, o.gross))
                           ELSE Plus(book.cash, Difference(gross, o.gross))
         /\ \A x : x # o.proposal.symbol => Held(book', x) = Held(book, x)
         /\ quantity # o.quantity =>
              Held(book', o.proposal.symbol)
                = IF Opens(o.proposal)
                  THEN Plus(Held(book, o.proposal.symbol), Difference(quantity, o.quantity))
                  ELSE Difference(Held(book, o.proposal.symbol), Difference(quantity, o.quantity))
<1>1. PICK p : p = o.proposal /\ Sane(p)
  BY DEF Placed
<1>2. PICK more, paid, after : /\ more = Difference(quantity, o.quantity) /\ paid = Difference(gross, o.gross)
                               /\ after = AfterFill(book, p, more, paid)
  OBVIOUS
<1>3. NotNegative(more) /\ NotNegative(paid)
  BY <1>2, Differences DEF Placed, NotNegative
<1>4. Holding(book) /\ Amount(book.cash) /\ DOMAIN book.positions \subseteq Tradable /\ dear \in BOOLEAN
  BY DEF DaySound
<1>5. ASSUME ~Opens(p) PROVE more \preceq Held(book, p.symbol)
  <2>1. PICK rest, held : /\ rest = Difference(o.size, o.quantity) /\ held = Held(book, p.symbol)
                          /\ rest \preceq held /\ NotNegative(held)
    BY <1>1, <1>4, <1>5, HeldOf DEF Placed
  <2>2. more \preceq rest /\ Amount(rest)
    BY <1>2, <2>1, Differences, DifferencesOrder DEF Placed, NotNegative
  <2> QED
    BY <1>3, <2>1, <2>2, AmountOrder DEF NotNegative
<1>6. /\ Holding(after) /\ Amount(after.cash)
      /\ DOMAIN after.positions \subseteq DOMAIN book.positions \cup {p.symbol}
      /\ after.cash = IF Opens(p) THEN Difference(book.cash, paid) ELSE Plus(book.cash, paid)
      /\ Held(after, p.symbol)
           = IF Opens(p) THEN Plus(Held(book, p.symbol), more) ELSE Difference(Held(book, p.symbol), more)
      /\ \A x : x # p.symbol => Held(after, x) = Held(book, x)
  BY <1>2, <1>3, <1>4, <1>5, FillFacts
<1>7. book' = IF quantity = o.quantity THEN book ELSE after
  BY <1>1, <1>2 DEF Report
<1>8. DOMAIN after.positions \subseteq Tradable
  BY <1>1, <1>4, <1>6 DEF Sane
<1>9. dear' \in BOOLEAN
  BY <1>4 DEF Report
<1> QED
  BY <1>1, <1>2, <1>3, <1>4, <1>6, <1>7, <1>8, <1>9

LEMMA OrderFields ==
  ASSUME NEW p, NEW size, NEW quantity, NEW gross
  PROVE  /\ Order(p, size, quantity, gross).proposal = p /\ Order(p, size, quantity, gross).size = size
         /\ Order(p, size, quantity, gross).quantity = quantity /\ Order(p, size, quantity, gross).gross = gross
BY DEF Order

\* What the reply to a request can report.
LEMMA Replied ==
  ASSUME Holding(book), NEW p, Sane(p), NEW part \in FilledParts, NEW move \in Moves,
         NEW size, size = IntentQuantity(p, book),
         NEW quantity, quantity = Product(size, part),
         NEW gross, gross = Product(quantity, Product(p.price, move))
  PROVE  /\ Placed(Order(p, size, Zero, Zero))
         /\ NotNegative(size) /\ NotNegative(quantity) /\ NotNegative(gross)
         /\ Zero \preceq quantity /\ quantity \preceq size /\ Zero \preceq gross
         /\ ~Opens(p) => size \preceq Held(book, p.symbol)
<1>1. NotNegative(part) /\ IsShare(part) /\ NotNegative(move) /\ NotNegative(p.price) /\ NotNegative(Zero)
  BY DayAssumption, AmountSigns, PositiveToo, ZeroOne DEF IsShare, NotNegative, Sane, Fillable
<1>2. NotNegative(size) /\ (~Opens(p) => size \preceq Held(book, p.symbol))
  BY IntentFacts DEF Sane
<1>3. NotNegative(quantity) /\ quantity \preceq size
  BY <1>1, <1>2, Products
<1>4. NotNegative(gross)
  <2>1. NotNegative(Product(p.price, move))
    BY <1>1, Products
  <2> QED
    BY <1>3, <2>1, Products
<1>5. Zero \preceq quantity /\ Zero \preceq gross /\ Zero \preceq size
  BY <1>2, <1>3, <1>4, AmountSigns DEF NotNegative
<1>6. Placed(Order(p, size, Zero, Zero))
  <2>1. PICK o : /\ o = Order(p, size, Zero, Zero) /\ o.proposal = p
                 /\ o.size = size /\ o.quantity = Zero /\ o.gross = Zero
    BY OrderFields
  <2>2. Difference(size, Zero) = size
    BY <1>2, Identities
  <2> QED
    BY <1>1, <1>2, <1>5, <2>1, <2>2 DEF Placed
<1> QED
  BY <1>2, <1>3, <1>4, <1>5, <1>6

\* What handling a proposal does to the book and the orders.
LEMMA Handles ==
  ASSUME DaySound, NEW part \in FilledParts, NEW move \in Moves, HandleNext(part, move),
         NEW p, p = Head(queue)
  PROVE  /\ queue # <<>> /\ queue' = Tail(queue) /\ Sane(p) /\ p \in ToSet(queue)
         /\ \/ UNCHANGED <<book, working, dear>>
            \/ /\ Judgement(p, book) = "APPROVED"
               /\ \E size, quantity, gross :
                    /\ size = IntentQuantity(p, book) /\ quantity = Product(size, part)
                    /\ gross = Product(quantity, Product(p.price, move))
                    /\ Report(Order(p, size, Zero, Zero), quantity, gross)
                    /\ working' = IF part = One THEN working ELSE working \cup {Order(p, size, quantity, gross)}
<1>1. queue # <<>> /\ queue' = Tail(queue)
  BY DEF HandleNext
<1>2. PICK q, R : q = queue /\ q # <<>> /\ R = ToSet(q) /\ q \in Seq(R)
  BY <1>1 DEF DaySound
<1>3. p \in ToSet(queue)
  <2>1. Head(q) \in R
    BY <1>2
  <2> QED
    BY <1>2, <2>1
<1> QED
  BY <1>1, <1>3 DEF HandleNext, DaySound

LEMMA TailApart ==
  ASSUME NEW R, NEW q \in Seq(R), q # <<>>, \A i, j \in 1 .. Len(q) : q[i].symbol = q[j].symbol => i = j
  PROVE  /\ \A i, j \in 1 .. Len(Tail(q)) : Tail(q)[i].symbol = Tail(q)[j].symbol => i = j
         /\ \A p \in ToSet(Tail(q)) : p.symbol # Head(q).symbol
<1>1. PICK n \in Nat : n = Len(q) /\ n > 0 /\ Head(q) = q[1]
  OBVIOUS
<1>2. PICK t : t = Tail(q) /\ t \in Seq(R) /\ Len(t) = n - 1 /\ \A i \in 1 .. n - 1 : t[i] = q[i + 1]
  <2>1. Tail(q) \in Seq(R) /\ Len(Tail(q)) = n - 1 /\ \A i \in 1 .. n - 1 : Tail(q)[i] = q[i + 1]
    BY <1>1
  <2> QED
    BY <2>1
<1>3. \A i \in 1 .. n - 1 : i + 1 \in 1 .. n /\ i + 1 # 1
  BY <1>1
<1>4. \A i, j \in 1 .. n - 1 : t[i].symbol = t[j].symbol => i = j
  BY <1>1, <1>2, <1>3
<1>5. \A p \in ToSet(t) : \E i \in 1 .. n - 1 : p = t[i]
  BY <1>2 DEF ToSet
<1>6. 1 \in 1 .. n
  BY <1>1
<1>7. \A p \in ToSet(t) : p.symbol # Head(q).symbol
  BY <1>1, <1>2, <1>3, <1>5, <1>6
<1> QED
  BY <1>2, <1>4, <1>7

LEMMA HandleSound ==
  ASSUME DaySound, NEW part \in FilledParts, NEW move \in Moves, HandleNext(part, move)
  PROVE  DaySound'
<1>1. PICK p : /\ p = Head(queue) /\ queue # <<>> /\ queue' = Tail(queue) /\ Sane(p) /\ p \in ToSet(queue)
  BY Handles
<1>2. PICK q, R : q = queue /\ q # <<>> /\ R = ToSet(q) /\ q \in Seq(R)
  BY <1>1 DEF DaySound
<1>3. /\ Tail(q) \in Seq(ToSet(Tail(q))) /\ ToSet(Tail(q)) \subseteq ToSet(q)
      /\ \A i, j \in 1 .. Len(Tail(q)) : Tail(q)[i].symbol = Tail(q)[j].symbol => i = j
      /\ \A r \in ToSet(Tail(q)) : r.symbol # p.symbol
  BY <1>1, <1>2, QueueFacts, TailApart DEF DaySound, Apart
<1>4. /\ queue' \in Seq(ToSet(queue')) /\ ToSet(queue') \subseteq ToSet(queue)
      /\ \A i, j \in 1 .. Len(queue') : queue'[i].symbol = queue'[j].symbol => i = j
      /\ \A r \in ToSet(queue') : Sane(r) /\ r.symbol # p.symbol
  BY <1>1, <1>2, <1>3 DEF DaySound
<1>5. \A o \in working : Placed(o) /\ o.proposal.symbol # p.symbol /\ \A r \in ToSet(queue') : o.proposal.symbol # r.symbol
  BY <1>1, <1>4 DEF DaySound, Apart
<1>6. CASE UNCHANGED <<book, working, dear>>
  BY <1>4, <1>5, <1>6 DEF DaySound, Placed, Apart
<1>7. ASSUME NEW size, NEW quantity, NEW gross,
             size = IntentQuantity(p, book), quantity = Product(size, part),
             gross = Product(quantity, Product(p.price, move)),
             Report(Order(p, size, Zero, Zero), quantity, gross),
             working' = IF part = One THEN working ELSE working \cup {Order(p, size, quantity, gross)}
      PROVE  DaySound'
  <2>1. PICK o : /\ o = Order(p, size, Zero, Zero) /\ o.proposal = p
                 /\ o.size = size /\ o.quantity = Zero /\ o.gross = Zero
    BY OrderFields
  <2>2. PICK w : w = Order(p, size, quantity, gross) /\ w.proposal = p /\ w.size = size /\ w.quantity = quantity /\ w.gross = gross
    BY OrderFields
  <2>3. /\ Holding(book) /\ Placed(o)
        /\ NotNegative(size) /\ NotNegative(quantity) /\ NotNegative(gross)
        /\ Zero \preceq quantity /\ quantity \preceq size /\ Zero \preceq gross
        /\ ~Opens(p) => size \preceq Held(book, p.symbol)
    BY <1>1, <1>7, <2>1, Replied DEF DaySound
  <2>4. /\ Holding(book') /\ Amount(book'.cash) /\ DOMAIN book'.positions \subseteq Tradable
        /\ dear' \in BOOLEAN
        /\ quantity = Zero => book' = book
        /\ \A x : x # p.symbol => Held(book', x) = Held(book, x)
        /\ quantity # Zero /\ ~Opens(p) =>
             Held(book', p.symbol) = Difference(Held(book, p.symbol), Difference(quantity, Zero))
    BY <1>7, <2>1, <2>3, Reported
  <2>5. ASSUME ~Opens(p) PROVE Difference(size, quantity) \preceq Held(book', p.symbol)
    <3>1. PICK held : held = Held(book, p.symbol) /\ Amount(held) /\ size \preceq held
      BY <2>3, <2>5, HeldOf DEF NotNegative
    <3>2. Difference(quantity, Zero) = quantity /\ Difference(size, Zero) = size
      BY <2>3, Identities
    <3>3. Difference(size, quantity) \preceq Difference(held, quantity)
      BY <2>3, <3>1, DifferencesOrder DEF NotNegative
    <3>4. CASE quantity = Zero
      BY <2>4, <3>1, <3>2, <3>4
    <3>5. CASE quantity # Zero
      BY <2>4, <2>5, <3>1, <3>2, <3>3, <3>5
    <3> QED
      BY <3>4, <3>5
  <2>6. \A x \in working : ~Opens(x.proposal) =>
          Difference(x.size, x.quantity) \preceq Held(book', x.proposal.symbol)
    BY <1>5, <2>4 DEF Placed
  <2>7. working' \subseteq working \cup {w}
    BY <1>7, <2>2
  <2>8. \A x \in working' :
          /\ Sane(x.proposal)
          /\ NotNegative(x.size) /\ NotNegative(x.quantity) /\ NotNegative(x.gross)
          /\ x.quantity \preceq x.size
          /\ ~Opens(x.proposal) => Difference(x.size, x.quantity) \preceq Held(book', x.proposal.symbol)
    BY <1>1, <1>5, <2>2, <2>3, <2>5, <2>6, <2>7 DEF Placed
  <2>9. /\ \A x \in working' : \A r \in ToSet(queue') : x.proposal.symbol # r.symbol
        /\ \A x, y \in working' : x.proposal.symbol = y.proposal.symbol => x = y
    BY <1>4, <1>5, <2>2, <2>7 DEF DaySound, Apart
  <2>10. Apart'
    BY <1>4, <2>9 DEF Apart
  <2>11. (\A x \in working : Placed(x))'
    BY <2>8 DEF Placed
  <2> QED
    BY <1>4, <2>4, <2>10, <2>11 DEF DaySound
<1> QED
  BY <1>1, <1>6, <1>7, Handles

LEMMA Closed ==
  ASSUME DaySound, NEW o \in working, NEW part \in FilledParts, NEW move \in Moves, CloseOrder(o, part, move)
  PROVE  /\ Placed(o) /\ queue = <<>> /\ queue' = queue /\ working' = working \ {o}
         /\ \E quantity, gross :
              /\ NotNegative(quantity) /\ NotNegative(gross)
              /\ o.quantity \preceq quantity /\ quantity \preceq o.size /\ o.gross \preceq gross
              /\ Report(o, quantity, gross)
<1>1. Placed(o)
  BY DEF DaySound
<1>2. NotNegative(part) /\ IsShare(part) /\ NotNegative(move) /\ NotNegative(o.proposal.price)
  BY <1>1, DayAssumption, AmountSigns, PositiveToo DEF IsShare, Placed, Sane, Fillable
<1>3. PICK quantity, gross :
        /\ quantity = Product(o.size, part)
        /\ gross = IF quantity = o.quantity THEN o.gross
                   ELSE Product(quantity, Product(o.proposal.price, move))
        /\ o.quantity \preceq quantity /\ o.gross \preceq gross /\ Report(o, quantity, gross)
  BY DEF CloseOrder
<1>4. NotNegative(quantity) /\ quantity \preceq o.size
  BY <1>1, <1>2, <1>3, Products DEF Placed
<1>5. NotNegative(gross)
  <2>1. NotNegative(Product(o.proposal.price, move))
    BY <1>2, Products
  <2>2. NotNegative(Product(quantity, Product(o.proposal.price, move)))
    BY <1>4, <2>1, Products
  <2> QED
    BY <1>1, <1>3, <2>2 DEF Placed
<1> QED
  BY <1>1, <1>3, <1>4, <1>5 DEF CloseOrder

LEMMA CloseSound ==
  ASSUME DaySound, NEW o \in working, NEW part \in FilledParts, NEW move \in Moves, CloseOrder(o, part, move)
  PROVE  DaySound'
<1>1. /\ Placed(o) /\ queue' = queue /\ working' = working \ {o}
      /\ Holding(book') /\ Amount(book'.cash) /\ DOMAIN book'.positions \subseteq Tradable
      /\ dear' \in BOOLEAN
      /\ \A x : x # o.proposal.symbol => Held(book', x) = Held(book, x)
  BY Closed, Reported
<1>2. \A x \in working' : /\ x \in working /\ Placed(x) /\ x.proposal.symbol # o.proposal.symbol
                          /\ Held(book', x.proposal.symbol) = Held(book, x.proposal.symbol)
  BY <1>1 DEF DaySound, Apart
<1>3. (\A x \in working : Placed(x))'
  BY <1>2 DEF Placed
<1>4. Apart'
  BY <1>1, <1>2 DEF DaySound, Apart
<1> QED
  BY <1>1, <1>3, <1>4 DEF DaySound

LEMMA NextSound ==
  ASSUME DaySound, [Next]_vars
  PROVE  DaySound'
<1>1. CASE CompleteBar
  BY <1>1 DEF CompleteBar, DaySound, Placed, Apart
<1>2. ASSUME NEW m \in Markets, RunCycle(m) PROVE DaySound'
  <2>1. book' = book /\ working' = {} /\ working = {} /\ dear' = dear
    BY <1>2 DEF RunCycle
  <2>2. /\ queue' \in Seq(ToSet(queue')) /\ \A p \in ToSet(queue') : Sane(p)
        /\ \A i, j \in 1 .. Len(queue') : queue'[i].symbol = queue'[j].symbol => i = j
    BY <1>2, CycleQueue
  <2>3. Apart'
    BY <2>1, <2>2 DEF Apart
  <2> QED
    BY <2>1, <2>2, <2>3 DEF DaySound
<1>3. CASE UNCHANGED vars
  BY <1>3 DEF vars, DaySound, Placed, Apart
<1> QED
  BY <1>1, <1>2, <1>3, HandleSound, CloseSound DEF Next

\* Whatever the exchange fills of whatever orders, in whatever roundings: holdings stay positive,
\* nothing is sold below zero, and all that is queued or working can be filled.
THEOREM DayHoldings == Spec => []DaySound
<1>1. Init => DaySound
  BY InitSound
<1>2. DaySound /\ [Next]_vars => DaySound'
  BY NextSound
<1> QED
  BY <1>1, <1>2, PTL DEF Spec

\* Without a weight for anything, what is held is offered whole, and nothing else.
LEMMA ExitsOnly ==
  ASSUME Holding(book), NEW prices, NEW P, P = Proposals(InCash, book, prices, FALSE)
  PROVE  {<<p.action, p.symbol>> : p \in P} = {"EXIT"} \X HeldSymbols
<1>1. \A s \in HeldSymbols : ProposalFor(InCash, book, prices, s) = {Exit(book, prices, s)}
  <2> SUFFICES ASSUME NEW s \in HeldSymbols
               PROVE  ProposalFor(InCash, book, prices, s) = {Exit(book, prices, s)}
    OBVIOUS
  <2>1. FullExit(InCash, book, s)
    BY NothingWanted, HeldOf DEF FullExit, HeldSymbols
  <2> QED
    BY <2>1, Zenon DEF ProposalFor
<1>2. DOMAIN InCash = {}
  BY DEF InCash
<1>3. P = UNION {ProposalFor(InCash, book, prices, s) : s \in HeldSymbols}
  BY <1>2 DEF Proposals, HeldSymbols
<1>4. \A p : p \in P <=> \E s \in HeldSymbols : p = Exit(book, prices, s)
  <2> DEFINE of(s) == ProposalFor(InCash, book, prices, s)
             exit(s) == Exit(book, prices, s)
  <2>1. \A s \in HeldSymbols : of(s) = {exit(s)}
    BY <1>1
  <2>2. P = UNION {of(s) : s \in HeldSymbols}
    BY <1>3
  <2> HIDE DEF of, exit
  <2>3. \A p : p \in P <=> \E s \in HeldSymbols : p = exit(s)
    BY <2>1, <2>2
  <2> QED
    BY <2>3 DEF exit
<1>5. \A s : Exit(book, prices, s).action = "EXIT" /\ Exit(book, prices, s).symbol = s
  BY DEF Exit, Proposal
<1>6. \A p \in P : p.action = "EXIT" /\ p.symbol \in HeldSymbols
  BY <1>4, <1>5
<1>7. \A s \in HeldSymbols : \E p \in P : p.action = "EXIT" /\ p.symbol = s
  <2> SUFFICES ASSUME NEW s \in HeldSymbols PROVE \E p \in P : p.action = "EXIT" /\ p.symbol = s
    OBVIOUS
  <2>1. Exit(book, prices, s) \in P
    BY <1>4
  <2> QED
    BY <1>5, <2>1
<1>8. \A p \in P : <<p.action, p.symbol>> \in {"EXIT"} \X HeldSymbols
  BY <1>6
<1>9. ASSUME NEW x \in {"EXIT"} \X HeldSymbols PROVE \E p \in P : x = <<p.action, p.symbol>>
  <2>1. PICK s \in HeldSymbols : x = <<"EXIT", s>>
    OBVIOUS
  <2>2. PICK p \in P : p.action = "EXIT" /\ p.symbol = s
    BY <1>7
  <2> QED
    BY <2>1, <2>2
<1> QED
  BY <1>8, <1>9, Zenon

\* Near the close, at a stop or a profit target and with two positions, a cycle offers all that is
\* held for sale, however small it is, and nothing else (strategies/m11.py generate_target).
THEOREM ForcedExits == Spec => ForcedExitsAreWhole
<1>1. ASSUME DaySound, Next, Decides, ForcedExit(market')
      PROVE  {<<p.action, p.symbol>> : p \in ToSet(queue')} = {"EXIT"} \X HeldSymbols
  <2>1. PICK m \in Markets : RunCycle(m)
    BY <1>1 DEF Next, Decides, CompleteBar, HandleNext, CloseOrder
  <2>2. market' = m
    BY <2>1 DEF RunCycle
  <2>3. GenerateTarget(m) = InCash
    BY <1>1, <2>2, Zenon DEF GenerateTarget
  <2>4. ToSet(queue') = Proposals(InCash, book, m.quotes, FALSE)
    BY <1>1, <2>1, <2>3, CycleQueue
  <2>5. Holding(book)
    BY <1>1 DEF DaySound
  <2> QED
    BY <2>4, <2>5, ExitsOnly
<1>2. DaySound /\ [Next]_vars =>
        [Decides /\ ForcedExit(market') =>
           {<<p.action, p.symbol>> : p \in ToSet(queue')} = {"EXIT"} \X HeldSymbols]_vars
  BY <1>1
<1> QED
  BY <1>2, DayHoldings, PTL DEF ForcedExitsAreWhole, Spec
(***************************************************************************)
(* What a cycle's proposals are.                                           *)
(***************************************************************************)
\* What the order is charged when it is judged.
CostOf(p) == Plus(Product(p.quantity, p.price), p.slippage)

LEMMA ProposalsAre ==
  ASSUME NEW target, NEW m, NEW P, P = Proposals(target, book, m.quotes, FALSE), NEW p
  PROVE  p \in P <=> \E x \in HeldSymbols \cup DOMAIN target : p \in ProposalFor(target, book, m.quotes, x)
<1> DEFINE of(x) == ProposalFor(target, book, m.quotes, x)
           S == HeldSymbols \cup DOMAIN target
<1>1. P = UNION {of(x) : x \in S}
  BY Zenon DEF Proposals, HeldSymbols
<1> HIDE DEF of, S
<1>2. \A q : q \in P <=> \E x \in S : q \in of(x)
  BY <1>1, Zenon
<1> QED
  BY <1>2, Zenon DEF of, S

LEMMA TargetOfOne ==
  ASSUME NEW m
  PROVE  \E t : DOMAIN GenerateTarget(m) \subseteq {t}
<1>1. \E t : DOMAIN InCash \subseteq {t}
  BY DEF InCash
<1>2. \A s : \E t : DOMAIN AllIn(s) \subseteq {t}
  BY DEF AllIn
<1>3. \A s : \E t : DOMAIN HoldCurrentPosition(s, m) \subseteq {t}
  <2> SUFFICES ASSUME NEW s PROVE \E t : DOMAIN HoldCurrentPosition(s, m) \subseteq {t}
    OBVIOUS
  <2>1. PICK w : HoldCurrentPosition(s, m) \in {InCash, [x \in {s} |-> w]}
    BY Zenon DEF HoldCurrentPosition
  <2>2. DOMAIN [x \in {s} |-> w] \subseteq {s}
    OBVIOUS
  <2> QED
    BY <1>1, <2>1, <2>2
<1> QED
  BY <1>1, <1>2, <1>3, Zenon DEF GenerateTarget

\* A purchase is of what is wanted, and the only one.
LEMMA OpensWanted ==
  ASSUME DaySound, NEW target, NEW m, NEW x \in HeldSymbols \cup DOMAIN target,
         NEW p \in ProposalFor(target, book, m.quotes, x), Opens(p)
  PROVE  /\ x \in DOMAIN target /\ ~FullExit(target, book, x)
         /\ p = Purchase(target, book, m.quotes, x)
         /\ ~(DeltaNotional(target, book, m.quotes, x) \prec Zero)
         /\ ~(Abs(DeltaNotional(target, book, m.quotes, x)) \prec MinOrderNotional)
<1>1. ~Opens(Exit(book, m.quotes, x)) /\ ~Opens(Reduction(target, book, m.quotes, x))
  BY DEF Exit, Reduction, Proposal, Opens
<1>2. /\ ~FullExit(target, book, x)
      /\ p = Purchase(target, book, m.quotes, x)
      /\ ~(DeltaNotional(target, book, m.quotes, x) \prec Zero)
      /\ ~(Abs(DeltaNotional(target, book, m.quotes, x)) \prec MinOrderNotional)
  BY <1>1, Zenon DEF ProposalFor
<1>3. ASSUME x \notin DOMAIN target PROVE FALSE
  <2>1. x \in HeldSymbols /\ Weight(target, x) = Zero
    BY <1>3 DEF Weight
  <2>2. Zero \prec Held(book, x)
    BY <2>1, HeldOf DEF DaySound, HeldSymbols
  <2> QED
    BY <1>2, <2>1, <2>2 DEF FullExit
<1> QED
  BY <1>2, <1>3

LEMMA OpensOnce ==
  ASSUME DaySound, NEW m, NEW P, P = Proposals(GenerateTarget(m), book, m.quotes, FALSE),
         NEW p \in P, NEW r \in P, Opens(p), Opens(r)
  PROVE  p = r
<1>1. PICK target : target = GenerateTarget(m)
  OBVIOUS
<1>2. PICK t : DOMAIN target \subseteq {t}
  BY <1>1, TargetOfOne
<1>3. ASSUME NEW q \in P, Opens(q) PROVE q = Purchase(target, book, m.quotes, t)
  <2>1. PICK x \in HeldSymbols \cup DOMAIN target : q \in ProposalFor(target, book, m.quotes, x)
    BY <1>1, ProposalsAre
  <2>2. x \in DOMAIN target /\ q = Purchase(target, book, m.quotes, x)
    BY <1>3, <2>1, OpensWanted
  <2> QED
    BY <1>2, <2>2
<1> QED
  BY <1>3

\* A purchase is handled last.
Ordered(q) == \A i \in 1 .. Len(q) : Opens(q[i]) => i = Len(q)

LEMMA SequenceOfOne ==
  ASSUME NEW p, NEW q
  PROVE  /\ q = SetToSeq({p}) => q \in Seq({p}) /\ Len(q) = 1 /\ q[1] = p
         /\ q = SetToSeq({}) => q = <<>>
<1>1. /\ IsFiniteSet({p}) /\ Cardinality({p}) = 1
      /\ IsFiniteSet({}) /\ Cardinality({}) = 0
  BY FS_Singleton, FS_EmptySet
<1>2. ASSUME q = SetToSeq({p}) PROVE q \in Seq({p}) /\ Len(q) = 1 /\ q[1] = p
  <2>1. q \in Seq({p}) /\ Len(q) = 1
    BY <1>1, <1>2, SequenceOf
  <2> QED
    BY <2>1
<1>3. ASSUME q = SetToSeq({}) PROVE q = <<>>
  <2>1. q \in Seq({}) /\ Len(q) = 0
    BY <1>1, <1>3, SequenceOf
  <2> QED
    BY <2>1
<1> QED
  BY <1>2, <1>3

LEMMA SortedExact ==
  ASSUME NEW r, NEW p, Opens(p)
  PROVE  Sorted({p}) = <<p>> /\ (~Opens(r) => Sorted({r, p}) = <<r, p>>)
<1>1. /\ {x \in {p} : ~Opens(x)} = {} /\ {x \in {p} : Opens(x)} = {p}
      /\ ~Opens(r) => {x \in {r, p} : ~Opens(x)} = {r} /\ {x \in {r, p} : Opens(x)} = {p}
  OBVIOUS
<1>2. PICK none, a, b : none = SetToSeq({}) /\ a = SetToSeq({r}) /\ b = SetToSeq({p})
  OBVIOUS
<1>3. /\ none = <<>>
      /\ a \in Seq({r}) /\ Len(a) = 1 /\ a[1] = r
      /\ b \in Seq({p}) /\ Len(b) = 1 /\ b[1] = p
  BY <1>2, SequenceOfOne
<1>4. Sorted({p}) = none \o b /\ (~Opens(r) => Sorted({r, p}) = a \o b)
  BY <1>1, <1>2 DEF Sorted
<1>5. a = <<r>> /\ b = <<p>>
  BY <1>3
<1>6. <<>> \o <<p>> = <<p>> /\ <<r>> \o <<p>> = <<r, p>>
  <2>1. /\ <<>> \in Seq({r, p}) /\ Len(<<>>) = 0
        /\ <<r>> \in Seq({r, p}) /\ Len(<<r>>) = 1 /\ <<p>> \in Seq({r, p}) /\ Len(<<p>>) = 1
    OBVIOUS
  <2>2. <<>> \o <<p>> = <<p>>
    BY <2>1
  <2>3. <<r>> \o <<p>> \in Seq({r, p}) /\ Len(<<r>> \o <<p>>) = 2
    BY <2>1
  <2>4. PICK c : c = <<r>> \o <<p>> /\ c \in Seq({r, p}) /\ Len(c) = 2
    BY <2>3
  <2>5. c[1] = r /\ c[2] = p
    BY <2>1, <2>4, <2>3
  <2>6. c = [i \in 1 .. 2 |-> c[i]] /\ <<r, p>> = [i \in 1 .. 2 |-> IF i = 1 THEN r ELSE p]
    BY <2>4
  <2>7. c = <<r, p>>
    BY <2>5, <2>6
  <2> QED
    BY <2>2, <2>4, <2>7
<1> QED
  BY <1>3, <1>4, <1>5, <1>6, Zenon

LEMMA SortedOrder ==
  ASSUME NEW P, IsFiniteSet(P), \A p, r \in P : Opens(p) /\ Opens(r) => p = r
  PROVE  Ordered(Sorted(P))
<1>1. PICK A, B : A = {p \in P : ~Opens(p)} /\ B = {p \in P : Opens(p)}
  OBVIOUS
<1>2. PICK a, b : a = SetToSeq(A) /\ b = SetToSeq(B)
  OBVIOUS
<1>3. a \in Seq(A) /\ b \in Seq(B) /\ Len(b) = Cardinality(B)
  <2>1. IsFiniteSet(A) /\ IsFiniteSet(B)
    BY <1>1, FS_Subset
  <2> QED
    BY <1>2, <2>1, SequenceOf
<1>4. Len(b) \in {0, 1}
  <2>1. CASE B = {}
    BY <1>3, <2>1, FS_EmptySet
  <2>2. CASE B # {}
    <3>1. PICK p : B = {p}
      BY <1>1, <2>2
    <3> QED
      BY <1>3, <3>1, FS_Singleton
  <2> QED
    BY <2>1, <2>2
<1>5. PICK c : c = Sorted(P) /\ c = a \o b
  BY <1>1, <1>2 DEF Sorted
<1>6. ASSUME NEW i \in 1 .. Len(c), Opens(c[i]) PROVE i = Len(c)
  <2>1. PICK la \in Nat, lb \in Nat : la = Len(a) /\ lb = Len(b)
    BY <1>3
  <2>2. Len(c) = la + lb
    <3>1. A \subseteq P /\ B \subseteq P
      BY <1>1
    <3>2. a \in Seq(P) /\ b \in Seq(P)
      BY <1>3, <3>1
    <3> QED
      BY <1>5, <2>1, <3>2
  <2>3. \A j \in 1 .. la : c[j] = a[j] /\ ~Opens(a[j])
    BY <1>1, <1>3, <1>5, <2>1
  <2>4. ~(i \in 1 .. la)
    BY <1>6, <2>3
  <2> QED
    BY <1>4, <2>1, <2>2, <2>4
<1> QED
  BY <1>5, <1>6 DEF Ordered

(***************************************************************************)
(* The cash.                                                               *)
(***************************************************************************)
\* A purchase that works has something left of its reserve that the cash covers.
Paid(o) ==
  /\ o.gross \preceq Reserve(o.proposal)
  /\ Difference(Reserve(o.proposal), o.gross) \preceq book.cash

\* No debt but by a dear fill; a purchase that works is the only one, is paid for, and nothing is
\* queued.
Solvent ==
  /\ dear \/ NotNegative(book.cash)
  /\ Ordered(queue)
  /\ \A o \in working : Opens(o.proposal) =>
       /\ queue = <<>>
       /\ dear \/ Paid(o)
       /\ \A w \in working : Opens(w.proposal) => w = o

LEMMA ReserveAmount ==
  ASSUME NEW p, Sane(p), Opens(p)
  PROVE  NotNegative(Reserve(p)) /\ Reserve(p) = CostOf(p)
<1>1. NotNegative(p.quantity) /\ NotNegative(p.price) /\ NotNegative(p.slippage)
  BY PositiveToo DEF Sane, Fillable
<1>2. PICK cost : cost = Product(p.quantity, p.price) /\ NotNegative(cost) /\ p.notional = cost
  BY <1>1, Products DEF Sane
<1>3. NotNegative(Plus(cost, p.slippage))
  BY <1>1, <1>2, Sums
<1> QED
  BY <1>2, <1>3 DEF Reserve, CostOf

LEMMA InitSolvent == Init => Solvent
<1> SUFFICES ASSUME Init PROVE Solvent
  OBVIOUS
<1>1. NotNegative(book.cash) /\ queue = <<>> /\ working = {}
  BY DayAssumption, AmountSigns DEF Init
<1>2. Len(queue) = 0
  BY <1>1
<1>3. Ordered(queue)
  BY <1>2 DEF Ordered
<1> QED
  BY <1>1, <1>3 DEF Solvent

\* What handling the first of the queue leaves of it.
LEMMA Handled ==
  ASSUME DaySound, Solvent, queue # <<>>
  PROVE  /\ Ordered(Tail(queue))
         /\ Opens(Head(queue)) => Tail(queue) = <<>>
         /\ \A o \in working : ~Opens(o.proposal)
<1>1. PICK q : q = queue /\ q \in Seq(ToSet(queue)) /\ q # <<>>
  BY DEF DaySound
<1>2. PICK n \in Nat : n = Len(q) /\ n > 0
  BY <1>1
<1>3. \A i \in 1 .. n : Opens(q[i]) => i = n
  BY <1>1, <1>2 DEF Solvent, Ordered
<1>4. PICK t : t = Tail(q) /\ t \in Seq(ToSet(queue)) /\ Len(t) = n - 1 /\ \A i \in 1 .. n - 1 : t[i] = q[i + 1]
  <2>1. PICK R : q \in Seq(R) /\ R = ToSet(queue)
    BY <1>1
  <2>2. Tail(q) \in Seq(R) /\ Len(Tail(q)) = n - 1 /\ \A i \in 1 .. n - 1 : Tail(q)[i] = q[i + 1]
    BY <1>1, <1>2, <2>1
  <2> QED
    BY <2>1, <2>2
<1>5. Ordered(t)
  <2> SUFFICES ASSUME NEW i \in 1 .. n - 1, Opens(t[i]) PROVE i = n - 1
    BY <1>4 DEF Ordered
  <2>1. i + 1 \in 1 .. n /\ Opens(q[i + 1])
    BY <1>2, <1>4
  <2>2. i + 1 = n
    BY <1>3, <2>1
  <2> QED
    BY <1>2, <2>2
<1>6. ASSUME Opens(Head(q)) PROVE t = <<>>
  <2>1. 1 \in 1 .. n /\ Head(q) = q[1]
    BY <1>1, <1>2
  <2>2. n = 1
    BY <1>3, <1>6, <2>1
  <2> QED
    BY <1>4, <2>2
<1> QED
  BY <1>1, <1>4, <1>5, <1>6 DEF Solvent

LEMMA CycleSolvent ==
  ASSUME DaySound, Solvent, NEW m \in Markets, RunCycle(m)
  PROVE  Solvent'
<1>1. PICK P : P = Proposals(GenerateTarget(m), book, m.quotes, FALSE)
  OBVIOUS
<1>2. IsFiniteSet(P)
  BY <1>1, CycleProposals
<1>3. ASSUME NEW p \in P, NEW r \in P, Opens(p), Opens(r) PROVE p = r
  BY <1>1, <1>3, OpensOnce, Zenon
<1>4. Ordered(Sorted(P))
  BY <1>2, <1>3, SortedOrder
<1>5. queue' = Sorted(P) /\ working' = {} /\ book' = book /\ dear' = dear
  BY <1>1 DEF RunCycle
<1>6. (dear \/ NotNegative(book.cash))'
  BY <1>5 DEF Solvent, NotNegative
<1> QED
  BY <1>4, <1>5, <1>6 DEF Solvent, Ordered

\* What an approved purchase leaves, whatever the reply reports of it.
LEMMA BoughtSolvent ==
  ASSUME Amount(book.cash), NEW p, Sane(p), Opens(p), CostOf(p) \preceq book.cash,
         NEW gross, NotNegative(gross), NEW cash,
         cash \in {book.cash, Difference(book.cash, Difference(gross, Zero))},
         cash = book.cash => gross = Zero \/ cash = Difference(book.cash, Difference(gross, Zero)),
         ~(Reserve(p) \prec gross)
  PROVE  /\ NotNegative(cash) /\ gross \preceq Reserve(p)
         /\ Difference(Reserve(p), gross) \preceq cash
<1>1. PICK reserve : reserve = Reserve(p) /\ NotNegative(reserve) /\ reserve \preceq book.cash
  BY ReserveAmount
<1>2. gross \preceq reserve /\ gross \preceq book.cash /\ Amount(gross) /\ Amount(reserve)
  BY <1>1, AmountOrder DEF NotNegative, \preceq
<1>3. NotNegative(book.cash)
  BY <1>1, AmountOrder, AmountSigns, ZeroOne DEF NotNegative
<1>4. Difference(gross, Zero) = gross /\ Difference(reserve, Zero) = reserve
  BY <1>1, Identities
<1>5. CASE cash = Difference(book.cash, gross)
  <2>1. NotNegative(cash)
    BY <1>2, <1>5, Differences
  <2>2. Difference(reserve, gross) \preceq cash
    BY <1>1, <1>2, <1>5, DifferencesOrder
  <2> QED
    BY <1>1, <1>2, <2>1, <2>2
<1>6. CASE cash = book.cash /\ gross = Zero
  BY <1>1, <1>2, <1>3, <1>4, <1>6
<1> QED
  BY <1>4, <1>5, <1>6

LEMMA HandleSolvent ==
  ASSUME DaySound, Solvent, NEW part \in FilledParts, NEW move \in Moves, HandleNext(part, move)
  PROVE  Solvent'
<1>1. PICK p : p = Head(queue) /\ queue # <<>> /\ queue' = Tail(queue) /\ Sane(p)
  BY Handles
<1>2. Ordered(queue') /\ (Opens(p) => queue' = <<>>) /\ \A o \in working : ~Opens(o.proposal)
  BY <1>1, Handled
<1>3. CASE UNCHANGED <<book, working, dear>>
  <2>1. (dear \/ NotNegative(book.cash))'
    BY <1>3 DEF Solvent, NotNegative
  <2> QED
    BY <1>2, <1>3, <2>1 DEF Solvent, Ordered
<1>4. ASSUME Judgement(p, book) = "APPROVED", NEW size, NEW quantity, NEW gross,
             size = IntentQuantity(p, book), quantity = Product(size, part),
             gross = Product(quantity, Product(p.price, move)),
             Report(Order(p, size, Zero, Zero), quantity, gross),
             working' = IF part = One THEN working ELSE working \cup {Order(p, size, quantity, gross)}
      PROVE  Solvent'
  <2>1. PICK o : /\ o = Order(p, size, Zero, Zero) /\ o.proposal = p
                 /\ o.size = size /\ o.quantity = Zero /\ o.gross = Zero
    BY OrderFields
  <2>2. PICK w : w = Order(p, size, quantity, gross) /\ w.proposal = p /\ w.gross = gross
    BY OrderFields
  <2>3. /\ Placed(o) /\ Amount(book.cash)
        /\ NotNegative(size) /\ NotNegative(quantity) /\ NotNegative(gross)
        /\ Zero \preceq quantity /\ quantity \preceq size /\ Zero \preceq gross
    BY <1>1, <1>4, <2>1, Replied DEF DaySound
  <2>4. /\ NotNegative(Difference(gross, Zero))
        /\ quantity = Zero => book' = book
        /\ quantity # Zero =>
             book'.cash = IF Opens(p) THEN Difference(book.cash, Difference(gross, Zero))
                          ELSE Plus(book.cash, Difference(gross, Zero))
    BY <1>4, <2>1, <2>3, Reported
  <2>5. dear' = (dear \/ (Opens(p) /\ Reserve(p) \prec gross))
    BY <1>4, <2>1 DEF Report
  <2>6. working' \subseteq working \cup {w}
    BY <1>4, <2>2
  <2>7. quantity = Zero => gross = Zero
    <3>1. Amount(Product(p.price, move))
      BY <1>1, DayAssumption, AmountSigns, PositiveToo, Products DEF Sane, Fillable, NotNegative
    <3> QED
      BY <1>4, <3>1, ProductOfZero
  <2>8. CASE ~Opens(p)
    <3>1. dear' = dear
      BY <2>5, <2>8 DEF DaySound
    <3>2. dear \/ NotNegative(book'.cash)
      BY <2>4, <2>8, Sums DEF Solvent
    <3>3. \A x \in working' : ~Opens(x.proposal)
      BY <1>2, <2>2, <2>6, <2>8
    <3>4. (dear \/ NotNegative(book.cash))'
      BY <3>1, <3>2 DEF NotNegative
    <3> QED
      BY <1>2, <3>3, <3>4 DEF Solvent, Ordered
  <2>9. CASE Opens(p)
    <3>1. CostOf(p) \preceq book.cash
      BY <1>4, <2>9, ApprovedPays DEF CostOf
    <3>2. dear' \/ (/\ NotNegative(book'.cash) /\ gross \preceq Reserve(p)
                    /\ Difference(Reserve(p), gross) \preceq book'.cash)
      <4>1. PICK cash : cash = book'.cash
        OBVIOUS
      <4>2. /\ cash \in {book.cash, Difference(book.cash, Difference(gross, Zero))}
            /\ cash = book.cash => gross = Zero \/ cash = Difference(book.cash, Difference(gross, Zero))
        BY <2>4, <2>7, <2>9, <4>1
      <4> QED
        BY <1>1, <2>3, <2>5, <2>9, <3>1, <4>1, <4>2, BoughtSolvent
    <3>3. (dear \/ NotNegative(book.cash))'
      BY <3>2 DEF NotNegative
    <3>4. \A x \in working' : Opens(x.proposal) => x = w
      BY <1>2, <2>6
    <3>5. (dear \/ Paid(w))'
      BY <2>2, <3>2 DEF Paid, Reserve
    <3> QED
      BY <1>2, <2>9, <3>3, <3>4, <3>5 DEF Solvent, Ordered
  <2> QED
    BY <2>8, <2>9
<1> QED
  BY <1>1, <1>3, <1>4, Handles

LEMMA CloseSolvent ==
  ASSUME DaySound, Solvent, NEW o \in working, NEW part \in FilledParts, NEW move \in Moves,
         CloseOrder(o, part, move)
  PROVE  Solvent'
<1>1. PICK quantity, gross :
        /\ Placed(o) /\ queue' = queue /\ working' = working \ {o}
        /\ NotNegative(quantity) /\ NotNegative(gross)
        /\ o.quantity \preceq quantity /\ quantity \preceq o.size /\ o.gross \preceq gross
        /\ Report(o, quantity, gross)
  BY Closed
<1>2. PICK paid : /\ paid = Difference(gross, o.gross) /\ NotNegative(paid)
                  /\ quantity = o.quantity => book' = book
                  /\ quantity # o.quantity =>
                       book'.cash = IF Opens(o.proposal) THEN Difference(book.cash, paid)
                                    ELSE Plus(book.cash, paid)
                  /\ Amount(book'.cash)
  BY <1>1, Reported
<1>3. dear' = (dear \/ (Opens(o.proposal) /\ Reserve(o.proposal) \prec gross))
  BY <1>1 DEF Report
<1>4. Ordered(queue')
  BY <1>1 DEF Solvent
<1>5. CASE dear
  <2>1. dear'
    BY <1>3, <1>5
  <2> QED
    BY <1>1, <1>4, <2>1 DEF Solvent, Ordered
<1>6. CASE ~dear /\ ~Opens(o.proposal)
  <2>1. NotNegative(book.cash) /\ NotNegative(book'.cash) /\ book.cash \preceq book'.cash
    <3>1. NotNegative(book.cash)
      BY <1>6 DEF Solvent
    <3>2. book.cash \preceq book.cash
      BY <3>1, AmountOrder DEF NotNegative
    <3> QED
      BY <1>2, <1>6, <3>1, <3>2, Sums
  <2>2. ASSUME NEW x \in working', Opens(x.proposal) PROVE Difference(Reserve(x.proposal), x.gross) \preceq book'.cash
    <3>1. x \in working /\ Paid(x) /\ Placed(x)
      BY <1>1, <1>6, <2>2 DEF Solvent, DaySound
    <3>2. PICK rest : rest = Difference(Reserve(x.proposal), x.gross) /\ Amount(rest) /\ rest \preceq book.cash
      BY <2>2, <3>1, ReserveAmount, Differences DEF Placed, Paid, NotNegative
    <3> QED
      BY <2>1, <3>2, AmountOrder DEF NotNegative
  <2>3. \A x \in working' : Opens(x.proposal) =>
          /\ queue' = <<>> /\ x.gross \preceq Reserve(x.proposal)
          /\ Difference(Reserve(x.proposal), x.gross) \preceq book'.cash
          /\ \A w \in working' : Opens(w.proposal) => w = x
    BY <1>1, <1>6, <2>2 DEF Solvent, Paid
  <2>4. (dear \/ NotNegative(book.cash))'
    BY <2>1 DEF NotNegative
  <2> QED
    BY <1>4, <2>3, <2>4 DEF Solvent, Ordered, Paid, Reserve, Opens
<1>7. CASE ~dear /\ Opens(o.proposal)
  <2>1. \A x \in working' : ~Opens(x.proposal)
    BY <1>1, <1>7 DEF Solvent
  <2>2. dear' \/ NotNegative(book'.cash)
    <3> SUFFICES ASSUME ~dear' PROVE NotNegative(book'.cash)
      OBVIOUS
    <3>1. PICK reserve : reserve = Reserve(o.proposal) /\ NotNegative(reserve) /\ gross \preceq reserve
      BY <1>1, <1>3, <1>7, ReserveAmount DEF Placed, \preceq
    <3>2. PICK rest : rest = Difference(reserve, o.gross) /\ rest \preceq book.cash /\ NotNegative(book.cash)
      BY <1>7, <3>1 DEF Solvent, Paid
    <3>3. paid \preceq rest /\ Amount(rest)
      BY <1>1, <1>2, <3>1, <3>2, Differences, DifferencesOrder DEF Placed, NotNegative
    <3>4. paid \preceq book.cash
      BY <1>2, <3>2, <3>3, AmountOrder DEF NotNegative
    <3>5. NotNegative(Difference(book.cash, paid))
      BY <1>2, <3>2, <3>4, Differences DEF NotNegative
    <3> QED
      BY <1>2, <1>7, <3>2, <3>5
  <2>3. (dear \/ NotNegative(book.cash))'
    BY <2>2 DEF NotNegative
  <2> QED
    BY <1>4, <2>1, <2>3 DEF Solvent, Ordered, Opens
<1> QED
  BY <1>5, <1>6, <1>7

LEMMA NextSolvent ==
  ASSUME DaySound, Solvent, [Next]_vars
  PROVE  Solvent'
<1>1. CASE CompleteBar
  BY <1>1 DEF CompleteBar, Solvent, Ordered, Opens, Paid, Reserve, NotNegative
<1>2. CASE UNCHANGED vars
  BY <1>2 DEF vars, Solvent, Ordered, Opens, Paid, Reserve, NotNegative
<1> QED
  BY <1>1, <1>2, CycleSolvent, HandleSolvent, CloseSolvent DEF Next

\* The replayed cash goes negative only by a fill of a purchase for more than its notional and its
\* slippage, whatever sales are filled in part beside it and at whatever prices: a purchase is judged
\* with nothing queued behind it, and what works beside it only sells (RiskEngine.evaluate,
\* ProposalBuilder.build's sales before purchases).
THEOREM NeverOverdrawn == Spec => []OverdrawnOnlyIfDear
<1>1. Init => DaySound /\ Solvent
  BY InitSound, InitSolvent
<1>2. DaySound /\ Solvent /\ [Next]_vars => DaySound' /\ Solvent'
  BY NextSound, NextSolvent
<1>3. DaySound /\ Solvent => OverdrawnOnlyIfDear
  BY AmountSigns DEF DaySound, Solvent, OverdrawnOnlyIfDear
<1> QED
  BY <1>1, <1>2, <1>3, PTL DEF Spec

(***************************************************************************)
(* Rotations.                                                              *)
(***************************************************************************)
\* Two units in the last digit of a position's worth are less than the smallest order, in
\* whatever market.
DayFine ==
  /\ Digits > 1
  /\ \A m \in Markets : \A s \in HeldSymbols :
       Product(Worth(book, m.quotes, s), Dec(2, 1 - Digits)) \prec MinOrderNotional

LEMMA HeldAlone ==
  ASSUME DaySound, NEW m, ~ForcedExit(m), NEW s \in HeldSymbols
  PROVE  HeldSymbols = {s} /\ Cardinality(HeldSymbols) = 1
<1>1. IsFiniteSet(HeldSymbols)
  BY DEF DaySound, Holding, HeldSymbols
<1>2. ~(Cardinality(HeldSymbols) > 1) /\ Cardinality(HeldSymbols) \in Nat
  BY <1>1, FS_CardinalityType DEF ForcedExit
<1>3. Cardinality(HeldSymbols) # 0
  BY <1>1, FS_EmptySet
<1>4. Cardinality(HeldSymbols) = 1
  BY <1>2, <1>3
<1>5. \E x : HeldSymbols = {x}
  BY <1>1, <1>4, FS_Singleton
<1> QED
  BY <1>4, <1>5

\* The value of an account with one position.
LEMMA OnePosition ==
  ASSUME DaySound, Zero \preceq book.cash, NEW m \in Markets, NEW s, HeldSymbols = {s},
         NEW worth, worth = Worth(book, m.quotes, s), NEW nav, nav = Nav(book, m.quotes)
  PROVE  /\ NotNegative(book.cash) /\ s \in Tradable /\ IsPositive(m.quotes[s])
         /\ IsPositive(worth) /\ NotNegative(worth)
         /\ nav = Plus(book.cash, worth) /\ IsPositive(nav) /\ NotNegative(nav) /\ worth \preceq nav
<1>1. NotNegative(book.cash) /\ s \in Tradable /\ Holding(book) /\ DOMAIN book.positions = {s}
  BY AmountSigns DEF DaySound, HeldSymbols
<1>2. IsPositive(m.quotes[s])
  BY <1>1, QuotedPrices
<1>3. IsPositive(worth) /\ NotNegative(worth)
  BY <1>1, <1>2, WorthOf
<1>4. nav = Plus(book.cash, worth)
  BY <1>1, NavOfOne
<1>5. IsPositive(nav) /\ NotNegative(nav) /\ worth \preceq nav
  BY <1>1, <1>3, <1>4, Sums
<1> QED
  BY <1>1, <1>2, <1>3, <1>4, <1>5

\* What the position is kept at past the cutoff: its share of the account, and no order.
LEMMA KeptPosition ==
  ASSUME DaySound, Zero \preceq book.cash, DayFine, NEW m \in Markets, NEW s, HeldSymbols = {s},
         NEW target, target = HoldCurrentPosition(s, m)
  PROVE  \A x \in HeldSymbols \cup DOMAIN target : ProposalFor(target, book, m.quotes, x) = {}
<1>1. PICK worth, nav : worth = Worth(book, m.quotes, s) /\ nav = Nav(book, m.quotes)
  OBVIOUS
<1>2. IsPositive(worth) /\ NotNegative(worth) /\ IsPositive(nav) /\ NotNegative(nav) /\ worth \preceq nav
  BY <1>1, OnePosition
<1>3. PICK share : share = Quotient(worth, nav) /\ IsShare(share) /\ IsPositive(share)
  BY <1>2, Quotients
<1>4. Least(One, share) = share
  <2>1. Amount(share) /\ Amount(One) /\ share \preceq One
    BY <1>3, ZeroOne DEF IsShare, NotNegative
  <2>2. ASSUME ~(share \prec One) PROVE share = One
    BY <2>1, <2>2, AmountNormal, NormalUnique DEF \preceq
  <2> QED
    BY <2>2 DEF Least
<1>5. ~(nav \preceq Zero)
  BY <1>2, AmountSigns DEF NotNegative, IsPositive
<1>6. target = [x \in {s} |-> share]
  BY <1>1, <1>3, <1>4, <1>5, Zenon DEF HoldCurrentPosition
<1>7. DOMAIN target = {s} /\ Weight(target, s) = share
  BY <1>6 DEF Weight
<1>8. ~FullExit(target, book, s)
  <2>1. ~IsPositive(Zero)
    BY ZeroOne DEF IsPositive
  <2> QED
    BY <1>3, <1>7, <2>1 DEF FullExit
<1>9. Abs(DeltaNotional(target, book, m.quotes, s)) \prec MinOrderNotional
  <2>1. PICK delta, unit : /\ delta = Difference(Product(nav, Quotient(worth, nav)), worth)
                           /\ unit = Product(worth, Dec(2, 1 - Digits)) /\ unit \prec MinOrderNotional
    BY <1>1 DEF DayFine
  <2>2. Amount(Abs(delta)) /\ Abs(delta) \preceq unit
    BY <1>2, <2>1, Preserved DEF DayFine
  <2>3. Amount(unit) /\ Amount(MinOrderNotional)
    <3>1. worth \in Numeral /\ Dec(2, 1 - Digits) \in Numeral
      BY <1>2, LastPlaces, AmountSigns DEF DayFine, RawNat, Numeral, NotNegative
    <3> QED
      BY <2>1, <3>1, ProductAmount, SizingAssumption
  <2>4. Abs(delta) \prec MinOrderNotional
    BY <2>1, <2>2, <2>3, AmountOrder
  <2> QED
    BY <1>1, <1>3, <1>7, <2>1, <2>4 DEF DeltaNotional
<1>10. ProposalFor(target, book, m.quotes, s) = {}
  BY <1>8, <1>9, Zenon DEF ProposalFor
<1> QED
  BY <1>7, <1>10

\* All in what is held already is never a sale.
LEMMA WantedIsNotSold ==
  ASSUME DaySound, Zero \preceq book.cash, NEW m \in Markets, NEW s, HeldSymbols = {s},
         NEW p \in ProposalFor(AllIn(s), book, m.quotes, s)
  PROVE  Opens(p)
<1>1. PICK target : target = AllIn(s)
  OBVIOUS
<1>2. Weight(target, s) = One
  BY <1>1 DEF AllIn, Weight
<1>3. PICK worth, nav : worth = Worth(book, m.quotes, s) /\ nav = Nav(book, m.quotes)
  OBVIOUS
<1>4. NotNegative(worth) /\ NotNegative(nav) /\ worth \preceq nav
  BY <1>3, OnePosition
<1>5. DeltaNotional(target, book, m.quotes, s) = Difference(nav, worth)
  BY <1>2, <1>3, <1>4, Identities DEF DeltaNotional
<1>6. ~(Difference(nav, worth) \prec Zero)
  <2>1. NotNegative(Difference(nav, worth))
    BY <1>4, Differences DEF NotNegative
  <2> QED
    BY <2>1, AmountSigns DEF NotNegative
<1>7. ~FullExit(target, book, s)
  BY <1>2, ZeroOne DEF FullExit
<1>8. p = Purchase(target, book, m.quotes, s)
  BY <1>1, <1>5, <1>6, <1>7, Zenon DEF ProposalFor
<1> QED
  BY <1>8 DEF Purchase, Proposal, Opens

LEMMA ProposedSymbol ==
  ASSUME NEW target, NEW m, NEW x, NEW p \in ProposalFor(target, book, m.quotes, x)
  PROVE  p.symbol = x
<1>1. /\ Exit(book, m.quotes, x).symbol = x
      /\ Reduction(target, book, m.quotes, x).symbol = x
      /\ Purchase(target, book, m.quotes, x).symbol = x
  BY DEF Exit, Reduction, Purchase, Proposal
<1>2. p \in {Exit(book, m.quotes, x), Reduction(target, book, m.quotes, x), Purchase(target, book, m.quotes, x)}
  BY Zenon DEF ProposalFor
<1> QED
  BY <1>1, <1>2

LEMMA NetNumbers ==
  ASSUME NEW m \in Markets, NEW s \in Candidates(m)
  PROVE  NetEdge(m.features[s], m.benchmark) \in Int
<1>1. PICK g \in Int : g = GrossEdge(m.features[s], m.benchmark)
  BY CandidateNumbers
<1> QED
  BY <1>1 DEF NetEdge, RoundTripFriction

LEMMA RotationStep ==
  ASSUME DaySound, Zero \preceq book.cash, DayFine, NEW m \in Markets, RunCycle(m), ~ForcedExit(m),
         NEW s \in HeldSymbols \cap Candidates(m),
         NEW p \in ToSet(queue'), p.symbol = s, ~Opens(p)
  PROVE  /\ ~EntryCutoffWindow
         /\ NetEdge(m.features[Best(m)], m.benchmark)
              >= NetEdge(m.features[s], m.benchmark) + 100 * RotationBuffer
<1>1. HeldSymbols = {s} /\ Cardinality(HeldSymbols) = 1
  BY HeldAlone
<1>2. PICK target : target = GenerateTarget(m)
  OBVIOUS
<1>3. p \in ProposalFor(target, book, m.quotes, s)
  <2>1. PICK P : P = Proposals(target, book, m.quotes, FALSE) /\ p \in P
    BY <1>2, CycleQueue
  <2>2. PICK x \in HeldSymbols \cup DOMAIN target : p \in ProposalFor(target, book, m.quotes, x)
    BY <2>1, ProposalsAre
  <2>3. x = s
    BY <2>2, ProposedSymbol
  <2> QED
    BY <2>2, <2>3
<1>4. ~EntryCutoffWindow
  <2> SUFFICES ASSUME EntryCutoffWindow PROVE FALSE
    OBVIOUS
  <2>1. HeldSymbols # {} /\ HeldSymbols \subseteq Candidates(m)
    BY <1>1
  <2>2. target = HoldCurrentPosition(CHOOSE x \in HeldSymbols : TRUE, m)
    BY <1>2, <2>1, Zenon DEF GenerateTarget
  <2>3. (CHOOSE x \in HeldSymbols : TRUE) = s
    BY <1>1
  <2>4. target = HoldCurrentPosition(s, m)
    BY <2>2, <2>3
  <2>5. ProposalFor(target, book, m.quotes, s) = {}
    BY <1>1, <2>4, KeptPosition
  <2> QED
    BY <1>3, <2>5
<1>5. PICK w : w = SelectWithIncumbency(m) /\ target = AllIn(w)
  <2>1. Candidates(m) # {}
    OBVIOUS
  <2> QED
    BY <1>2, <1>4, <2>1, Zenon DEF GenerateTarget
<1>6. w # s
  BY <1>1, <1>3, <1>5, WantedIsNotSold
<1>7. ~(NetEdge(m.features[Best(m)], m.benchmark)
          < NetEdge(m.features[s], m.benchmark) + 100 * RotationBuffer)
  <2>1. HeldSymbols \cap Candidates(m) = {s}
    BY <1>1
  <2>2. ASSUME NetEdge(m.features[Best(m)], m.benchmark)
                 < NetEdge(m.features[s], m.benchmark) + 100 * RotationBuffer
        PROVE  SelectWithIncumbency(m) \in HeldSymbols \cap Candidates(m)
    BY <1>1, <2>1, <2>2, Zenon DEF SelectWithIncumbency
  <2> QED
    BY <1>5, <1>6, <2>1, <2>2
<1>8. PICK b \in Int, h \in Int : /\ b = NetEdge(m.features[Best(m)], m.benchmark)
                                  /\ h = NetEdge(m.features[s], m.benchmark)
  <2>1. Best(m) \in Candidates(m)
    BY OneBest
  <2> QED
    BY <2>1, NetNumbers
<1> QED
  BY <1>4, <1>7, <1>8 DEF RotationBuffer

\* A position whose signal qualifies is sold only for an edge better by the rotation buffer, and
\* never past the entry cutoff, where rounding its weight leaves less than the smallest order
\* (strategies/m11.py _select_with_incumbency, _hold_current_position).
THEOREM Rotations == Spec /\ []DayFine => RotationsPay
<1>1. Init => DaySound
  BY InitSound
<1>2. DaySound /\ [Next]_vars => DaySound'
  BY NextSound
<1>3. ASSUME DaySound, DayFine, Next, Decides, ~ForcedExit(market'),
             NEW s \in HeldSymbols \cap Candidates(market'),
             NEW p \in ToSet(queue'), p.symbol = s, ~Opens(p)
      PROVE  /\ ~EntryCutoffWindow
             /\ NetEdge(market'.features[Best(market')], market'.benchmark)
                  >= NetEdge(market'.features[s], market'.benchmark) + 100 * RotationBuffer
  <2>1. PICK m \in Markets : RunCycle(m)
    BY <1>3 DEF Next, Decides, CompleteBar, HandleNext, CloseOrder
  <2>2. market' = m
    BY <2>1 DEF RunCycle
  <2>3. ~ForcedExit(m) /\ s \in HeldSymbols \cap Candidates(m)
    BY <1>3, <2>2
  <2>4. /\ ~EntryCutoffWindow
        /\ NetEdge(m.features[Best(m)], m.benchmark)
             >= NetEdge(m.features[s], m.benchmark) + 100 * RotationBuffer
    BY <1>3, <2>1, <2>3, RotationStep DEF RunCycle
  <2> QED
    BY <2>2, <2>4
<1>4. DaySound /\ DayFine /\ [Next]_vars =>
        [Decides /\ ~ForcedExit(market') =>
           \A s \in HeldSymbols \cap Candidates(market') :
             (\E p \in ToSet(queue') : p.symbol = s /\ ~Opens(p)) =>
               /\ ~EntryCutoffWindow
               /\ NetEdge(market'.features[Best(market')], market'.benchmark)
                    >= NetEdge(market'.features[s], market'.benchmark) + 100 * RotationBuffer]_vars
  BY <1>3
<1> QED
  BY <1>1, <1>2, <1>4, PTL DEF RotationsPay, Spec

(***************************************************************************)
(* Purchases.                                                              *)
(***************************************************************************)
\* What a sale of all of a position at the quote brings the cash to.
Proceeds(b, r) == Plus(b.cash, Product(Held(b, r.symbol), r.price))

\* An order has brought more than all of it is worth at the quote.
Better(o) == Product(o.size, o.proposal.price) \prec o.gross

\* A queued purchase p is of an empty book and alone, or it costs more than the cash with no sale to
\* come, or more than the sale of the whole book that comes first brings the cash to at the quote, or
\* more than the cash beside what is still open of that sale, unless that has brought more than the
\* quote already.
FundedIn(b, q, w, p) ==
  \/ DOMAIN b.positions = {} /\ q = <<p>> /\ w = {}
  \/ b.cash \prec CostOf(p) /\ q = <<p>> /\ w = {}
  \/ \E r \in ToSet(q) :
       /\ r.action = "EXIT" /\ DOMAIN b.positions = {r.symbol} /\ NotNegative(b.cash)
       /\ Proceeds(b, r) \prec CostOf(p)
       /\ q = <<r, p>> /\ w = {}
  \/ \E o \in w :
       /\ ~Opens(o.proposal)
       /\ Better(o) \/ b.cash \prec CostOf(p)
       /\ q = <<p>> /\ w = {o}

Funded == \A p \in ToSet(queue) : Opens(p) => FundedIn(book, queue, working, p)

\* The roundings of an order are less than its slippage: two units in the last digit of a rate of
\* one, and a hundred in that of the account for the smallest order.
BuyFine ==
  /\ DayFine
  /\ Dec(2, 1 - Digits) \preceq SlippageRate
  /\ \A m \in Markets :
       Product(Nav(book, m.quotes), Dec(1, 2 - Digits)) \preceq Product(MinOrderNotional, SlippageRate)

LEMMA PurchaseCost ==
  ASSUME NEW target, HeldSymbols # {}, NEW prices, NEW x, NEW delta,
         delta = DeltaNotional(target, book, prices, x),
         NEW p, p = Purchase(target, book, prices, x)
  PROVE  CostOf(p) = Cost(delta, prices[x], SlippageRate)
<1>1. PurchaseNotional(target, book, prices, x) = delta
  BY DEF PurchaseNotional, HeldSymbols
<1>2. /\ p.quantity = Quotient(delta, prices[x]) /\ p.price = prices[x]
      /\ p.slippage = Product(delta, SlippageRate)
  BY <1>1 DEF Purchase, Proposal
<1> QED
  BY <1>2 DEF CostOf, Cost

\* One symbol, one proposal.
LEMMA OneProposal ==
  ASSUME NEW target, NEW m, NEW x, NEW p \in ProposalFor(target, book, m.quotes, x)
  PROVE  ProposalFor(target, book, m.quotes, x) = {p}
<1>1. \E q : ProposalFor(target, book, m.quotes, x) \in {{}, {q}}
  BY Zenon DEF ProposalFor
<1> QED
  BY <1>1

\* A purchase of more of what is held costs more than the cash.
LEMMA AddUnpaid ==
  ASSUME DaySound, Zero \preceq book.cash, BuyFine, NEW m \in Markets, NEW s, HeldSymbols = {s},
         NEW p \in ProposalFor(AllIn(s), book, m.quotes, s), Opens(p)
  PROVE  book.cash \prec CostOf(p)
<1>1. PICK target : target = AllIn(s)
  OBVIOUS
<1>2. Weight(target, s) = One
  BY <1>1 DEF AllIn, Weight
<1>3. PICK worth, nav : worth = Worth(book, m.quotes, s) /\ nav = Nav(book, m.quotes)
  OBVIOUS
<1>4. PICK cash, price :
        /\ cash = book.cash /\ price = m.quotes[s]
        /\ NotNegative(cash) /\ IsPositive(price) /\ NotNegative(worth)
        /\ nav = Plus(cash, worth) /\ IsPositive(nav) /\ NotNegative(nav) /\ worth \preceq nav
  BY <1>3, OnePosition
<1>5. PICK delta : /\ delta = DeltaNotional(target, book, m.quotes, s)
                   /\ delta = Difference(nav, worth) /\ NotNegative(delta)
  BY <1>2, <1>3, <1>4, Identities, Differences DEF DeltaNotional, NotNegative
<1>6. p = Purchase(target, book, m.quotes, s) /\ ~(Abs(delta) \prec MinOrderNotional)
  BY <1>1, <1>5, OpensWanted
<1>7. MinOrderNotional \preceq delta
  <2>1. delta \in [c : Int, e : Int] /\ delta.c >= 0
    BY <1>5 DEF NotNegative, Amount
  <2>2. Abs(delta) = delta
    BY <2>1 DEF Abs, Magnitude
  <2> QED
    BY <1>6, <2>2 DEF \preceq
<1>8. CostOf(p) = Cost(delta, price, SlippageRate)
  <2>1. HeldSymbols # {}
    OBVIOUS
  <2>2. PICK prices : prices = m.quotes
    OBVIOUS
  <2>3. delta = DeltaNotional(target, book, prices, s) /\ p = Purchase(target, book, prices, s)
    BY <1>5, <1>6, <2>2
  <2>4. CostOf(p) = Cost(delta, prices[s], SlippageRate)
    BY <2>1, <2>3, PurchaseCost
  <2> QED
    BY <1>4, <2>2, <2>4
<1>9. cash \prec Cost(delta, price, SlippageRate)
  <2>1. PICK least, rate : /\ least = MinOrderNotional /\ rate = SlippageRate
                           /\ NotNegative(least) /\ NotNegative(rate)
    BY SizingAssumption, AmountSigns
  <2>2. Digits > 1 /\ Product(nav, Dec(1, 2 - Digits)) \preceq Product(least, rate)
    BY <1>3, <2>1 DEF BuyFine, DayFine
  <2>3. cash \prec Cost(delta, price, rate)
    BY <1>4, <1>5, <1>7, <2>1, <2>2, AddExceeds
  <2> QED
    BY <2>1, <2>3
<1> QED
  BY <1>4, <1>8, <1>9

\* A rotation's purchase costs more than its sale can bring the cash to.
LEMMA RotationUnpaid ==
  ASSUME DaySound, Zero \preceq book.cash, BuyFine, NEW m \in Markets, NEW s, HeldSymbols = {s},
         NEW t \in Tradable, t # s,
         NEW p \in ProposalFor(AllIn(t), book, m.quotes, t), Opens(p)
  PROVE  Proceeds(book, Exit(book, m.quotes, s)) \prec CostOf(p)
<1>1. PICK target : target = AllIn(t)
  OBVIOUS
<1>2. Weight(target, t) = One /\ t \in HeldSymbols \cup DOMAIN target
  BY <1>1 DEF AllIn, Weight
<1>3. PICK worth, nav : worth = Worth(book, m.quotes, s) /\ nav = Nav(book, m.quotes)
  OBVIOUS
<1>4. IsPositive(nav) /\ NotNegative(nav) /\ nav = Plus(book.cash, worth)
  BY <1>3, OnePosition
<1>5. PICK price : price = m.quotes[t] /\ IsPositive(price)
  BY QuotedPrices
<1>6. DeltaNotional(target, book, m.quotes, t) = nav
  <2>1. Worth(book, m.quotes, t) = Zero
    BY <1>5, WorthOf DEF DaySound, HeldSymbols
  <2> QED
    BY <1>2, <1>3, <1>4, <2>1, Identities DEF DeltaNotional
<1>7. p = Purchase(target, book, m.quotes, t)
  BY <1>1, <1>2, OpensWanted
<1>8. CostOf(p) = Cost(nav, price, SlippageRate)
  BY <1>5, <1>6, <1>7, PurchaseCost
<1>9. nav \prec Cost(nav, price, SlippageRate)
  <2>1. PICK rate : rate = SlippageRate /\ NotNegative(rate) /\ Dec(2, 1 - Digits) \preceq rate /\ Digits > 1
    BY SizingAssumption, AmountSigns DEF BuyFine, DayFine
  <2>2. nav \prec Cost(nav, price, rate)
    BY <1>4, <1>5, <2>1, CostExceeds
  <2> QED
    BY <2>1, <2>2
<1>10. Proceeds(book, Exit(book, m.quotes, s)) = nav
  BY <1>3, <1>4 DEF Proceeds, Exit, Proposal, Worth
<1> QED
  BY <1>8, <1>9, <1>10

LEMMA ExitOfHeld ==
  ASSUME DaySound, NEW m, NEW target, NEW s \in HeldSymbols, s \notin DOMAIN target
  PROVE  ProposalFor(target, book, m.quotes, s) = {Exit(book, m.quotes, s)}
<1>1. Weight(target, s) = Zero /\ Zero \prec Held(book, s)
  BY HeldOf DEF Weight, DaySound, HeldSymbols
<1>2. FullExit(target, book, s)
  BY <1>1 DEF FullExit
<1> QED
  BY <1>2, Zenon DEF ProposalFor

LEMMA CycleFunded ==
  ASSUME DaySound, Zero \preceq book.cash, BuyFine, NEW m \in Markets, RunCycle(m),
         NEW p \in ToSet(queue'), Opens(p)
  PROVE  FundedIn(book, queue', {}, p)
<1>1. PICK target, P : /\ target = GenerateTarget(m) /\ P = Proposals(target, book, m.quotes, FALSE)
                       /\ queue' = Sorted(P) /\ p \in P
  BY CycleQueue DEF RunCycle
<1>2. PICK t \in HeldSymbols \cup DOMAIN target : p \in ProposalFor(target, book, m.quotes, t)
  BY <1>1, ProposalsAre
<1>3. t \in DOMAIN target /\ DOMAIN target = {t}
  <2>1. t \in DOMAIN target
    BY <1>2, OpensWanted
  <2>2. \E x : DOMAIN target \subseteq {x}
    BY <1>1, TargetOfOne
  <2> QED
    BY <2>1, <2>2
<1>4. ProposalFor(target, book, m.quotes, t) = {p}
  BY <1>2, OneProposal
<1>5. \A q : q \in P <=> \E x \in HeldSymbols \cup {t} : q \in ProposalFor(target, book, m.quotes, x)
  <2> SUFFICES ASSUME NEW q
               PROVE  q \in P <=> \E x \in HeldSymbols \cup {t} : q \in ProposalFor(target, book, m.quotes, x)
    OBVIOUS
  <2>1. q \in P <=> \E x \in HeldSymbols \cup DOMAIN target : q \in ProposalFor(target, book, m.quotes, x)
    BY <1>1, ProposalsAre
  <2> QED
    BY <1>3, <2>1
<1>6. ASSUME HeldSymbols \subseteq {t} PROVE queue' = <<p>>
  <2>1. P = {p}
    BY <1>4, <1>5, <1>6
  <2> QED
    BY <1>1, <2>1, SortedExact
<1>7. DOMAIN InCash = {}
  BY DEF InCash
<1>8. ~ForcedExit(m)
  BY <1>1, <1>3, <1>7, Zenon DEF GenerateTarget
<1>9. CASE HeldSymbols = {}
  BY <1>6, <1>9 DEF FundedIn, HeldSymbols
<1>10. ASSUME NEW s \in HeldSymbols PROVE FundedIn(book, queue', {}, p)
  <2>1. HeldSymbols = {s}
    BY <1>8, HeldAlone
  <2>2. ~EntryCutoffWindow
    <3> SUFFICES ASSUME EntryCutoffWindow PROVE FALSE
      OBVIOUS
    <3>1. target = HoldCurrentPosition(CHOOSE x \in HeldSymbols : TRUE, m)
      BY <1>1, <1>3, <1>7, <1>8, Zenon DEF GenerateTarget
    <3>2. target = HoldCurrentPosition(s, m)
      BY <2>1, <3>1
    <3>3. ProposalFor(target, book, m.quotes, t) = {}
      BY <1>2, <2>1, <3>2, KeptPosition DEF BuyFine
    <3> QED
      BY <1>2, <3>3
  <2>3. Candidates(m) # {} /\ target = AllIn(SelectWithIncumbency(m))
    BY <1>1, <1>3, <1>7, <1>8, <2>2, Zenon DEF GenerateTarget
  <2>4. target = AllIn(t) /\ t \in Tradable
    <3>1. PICK w : w = SelectWithIncumbency(m)
      OBVIOUS
    <3>2. DOMAIN AllIn(w) = {w}
      BY DEF AllIn
    <3>3. Best(m) \in Candidates(m)
      BY <2>3, OneBest
    <3>4. w \in Candidates(m)
      BY <3>1, <3>3, Zenon DEF SelectWithIncumbency
    <3> QED
      BY <1>3, <2>3, <3>1, <3>2, <3>4 DEF Candidates, Tradable
  <2>5. CASE t = s
    <3>1. book.cash \prec CostOf(p)
      BY <1>2, <2>1, <2>4, <2>5, AddUnpaid
    <3>2. queue' = <<p>>
      BY <1>6, <2>1, <2>5
    <3> QED
      BY <3>1, <3>2 DEF FundedIn
  <2>6. CASE t # s
    <3>1. PICK r : r = Exit(book, m.quotes, s)
      OBVIOUS
    <3>2. r.action = "EXIT" /\ ~Opens(r)
      BY <3>1 DEF Exit, Proposal, Opens
    <3>3. ProposalFor(target, book, m.quotes, s) = {r}
      BY <1>3, <2>6, <3>1, ExitOfHeld
    <3>4. P = {r, p}
      BY <1>4, <1>5, <2>1, <3>3
    <3>5. queue' = <<r, p>>
      BY <1>1, <3>2, <3>4, SortedExact
    <3>6. Proceeds(book, r) \prec CostOf(p)
      BY <1>2, <2>1, <2>4, <2>6, <3>1, RotationUnpaid
    <3>7. r \in ToSet(queue')
      BY <3>5 DEF ToSet
    <3>8. DOMAIN book.positions = {r.symbol}
      BY <2>1, <3>1 DEF HeldSymbols, Exit, Proposal
    <3>9. NotNegative(book.cash)
      BY AmountSigns DEF DaySound
    <3> QED
      BY <3>2, <3>5, <3>6, <3>7, <3>8, <3>9 DEF FundedIn
  <2> QED
    BY <2>5, <2>6
<1> QED
  BY <1>9, <1>10

LEMMA CostAmount ==
  ASSUME NEW p, Fillable(p), Opens(p)
  PROVE  Amount(CostOf(p))
<1>1. NotNegative(p.quantity) /\ NotNegative(p.price) /\ NotNegative(p.slippage)
  BY PositiveToo DEF Fillable
<1>2. NotNegative(Product(p.quantity, p.price))
  BY <1>1, Products
<1> QED
  BY <1>1, <1>2, Sums DEF CostOf, NotNegative

\* What a sale can bring the cash to is no less than the cash.
LEMMA ProceedsAdd ==
  ASSUME Holding(book), NotNegative(book.cash), NEW r, Fillable(r)
  PROVE  NotNegative(Proceeds(book, r)) /\ book.cash \preceq Proceeds(book, r)
<1>1. PICK cash, whole : /\ cash = book.cash /\ whole = Product(Held(book, r.symbol), r.price)
                         /\ NotNegative(cash) /\ NotNegative(whole)
  <2>1. NotNegative(Held(book, r.symbol)) /\ NotNegative(r.price)
    BY HeldOf, PositiveToo DEF Fillable
  <2> QED
    BY <2>1, Products
<1>2. cash \preceq Plus(cash, whole) /\ NotNegative(Plus(cash, whole))
  BY <1>1, Sums
<1> QED
  BY <1>1, <1>2 DEF Proceeds

\* An approved sale of the first of two leaves the second to be judged beside its rest, or in an
\* empty book; a refused one, alone.
LEMMA HandleFunded ==
  ASSUME DaySound, Funded, NEW part \in FilledParts, NEW move \in Moves, HandleNext(part, move),
         NEW p \in ToSet(queue'), Opens(p)
  PROVE  FundedIn(book', queue', working', p)
<1>1. queue' = Tail(queue) /\ queue # <<>>
  BY DEF HandleNext
<1>2. p \in ToSet(queue)
  <2>1. PICK q, R : q = queue /\ q # <<>> /\ R = ToSet(q) /\ q \in Seq(R)
    BY <1>1 DEF DaySound
  <2>2. ToSet(Tail(q)) \subseteq ToSet(q)
    BY <2>1, QueueFacts
  <2> QED
    BY <1>1, <2>1, <2>2
<1>3. FundedIn(book, queue, working, p)
  BY <1>2 DEF Funded
<1>4. queue # <<p>>
  <2> SUFFICES ASSUME queue = <<p>> PROVE FALSE
    OBVIOUS
  <2>1. queue' = <<>>
    BY <1>1
  <2> QED
    BY <2>1 DEF ToSet
<1>5. PICK r : /\ r.action = "EXIT" /\ DOMAIN book.positions = {r.symbol} /\ NotNegative(book.cash)
               /\ Proceeds(book, r) \prec CostOf(p) /\ queue = <<r, p>> /\ working = {}
  BY <1>3, <1>4 DEF FundedIn
<1>6. queue' = <<p>> /\ Head(queue) = r /\ ~Opens(r) /\ Sane(r) /\ Sane(p)
  <2>1. queue' = <<p>> /\ Head(queue) = r /\ ~Opens(r)
    BY <1>1, <1>5 DEF Opens
  <2>2. Sane(r)
    BY <2>1, Handles
  <2> QED
    BY <1>2, <2>1, <2>2 DEF DaySound
<1>7. PICK most, cost : /\ most = Proceeds(book, r) /\ cost = CostOf(p)
                        /\ Amount(most) /\ Amount(cost) /\ book.cash \preceq most /\ most \prec cost
  BY <1>5, <1>6, ProceedsAdd, CostAmount DEF Sane, DaySound, NotNegative
<1>8. book.cash \prec cost
  BY <1>5, <1>7, AmountOrder DEF NotNegative
<1>9. CASE UNCHANGED <<book, working, dear>>
  BY <1>5, <1>6, <1>7, <1>8, <1>9 DEF FundedIn
<1>10. ASSUME NEW size, NEW quantity, NEW gross,
              size = IntentQuantity(r, book), quantity = Product(size, part),
              gross = Product(quantity, Product(r.price, move)),
              Report(Order(r, size, Zero, Zero), quantity, gross),
              working' = IF part = One THEN working ELSE working \cup {Order(r, size, quantity, gross)}
       PROVE  FundedIn(book', queue', working', p)
  <2>1. PICK o : /\ o = Order(r, size, Zero, Zero) /\ o.proposal = r
                 /\ o.size = size /\ o.quantity = Zero /\ o.gross = Zero
    BY OrderFields
  <2>2. PICK w : w = Order(r, size, quantity, gross) /\ w.proposal = r /\ w.size = size /\ w.gross = gross
    BY OrderFields
  <2>3. /\ Placed(o) /\ Holding(book)
        /\ NotNegative(size) /\ NotNegative(quantity) /\ NotNegative(gross)
        /\ Zero \preceq quantity /\ quantity \preceq size /\ Zero \preceq gross
    BY <1>6, <1>10, <2>1, Replied DEF DaySound
  <2>4. /\ Holding(book') /\ (quantity = Zero => book' = book)
        /\ quantity # Zero => book'.cash = Plus(book.cash, Difference(gross, Zero))
        /\ quantity # Zero => Held(book', r.symbol) = Difference(Held(book, r.symbol), Difference(quantity, Zero))
        /\ \A x : x # r.symbol => Held(book', x) = Held(book, x)
    BY <1>6, <1>10, <2>1, <2>3, Reported
  <2>5. size = Held(book, r.symbol) /\ Difference(gross, Zero) = gross /\ Difference(quantity, Zero) = quantity
    BY <1>5, <1>10, <2>3, Identities DEF IntentQuantity
  <2>6. CASE part = One
    <3>1. quantity = size /\ quantity # Zero
      BY <1>5, <1>10, <2>3, <2>5, <2>6, Identities, HeldOf
    <3>2. Held(book', r.symbol) = Zero
      BY <2>3, <2>4, <2>5, <3>1, Identities
    <3>3. DOMAIN book'.positions = {}
      <4>1. \A x : x # r.symbol => Held(book, x) = Zero
        BY <1>5, <2>3, HeldOf
      <4>2. \A x : Held(book', x) = Zero
        BY <2>4, <3>2, <4>1
      <4>3. \A x : x \notin DOMAIN book'.positions
        BY <2>4, <4>2, HeldOf
      <4> QED
        BY <4>3
    <3> QED
      BY <1>5, <1>6, <1>10, <2>6, <3>3 DEF FundedIn
  <2>7. CASE part # One
    <3>1. working' = {w} /\ ~Opens(w.proposal)
      BY <1>5, <1>6, <1>10, <2>2, <2>7
    <3>2. Better(w) \/ book'.cash \prec cost
      <4> SUFFICES ASSUME ~Better(w) PROVE book'.cash \prec cost
        OBVIOUS
      <4>1. CASE quantity = Zero
        BY <1>8, <2>4, <4>1
      <4>2. CASE quantity # Zero
        <5>1. PICK whole : whole = Product(size, r.price) /\ NotNegative(whole) /\ gross \preceq whole
                           /\ most = Plus(book.cash, whole)
          <6>1. NotNegative(r.price)
            BY <1>6, PositiveToo DEF Sane, Fillable
          <6>2. NotNegative(Product(size, r.price))
            BY <2>3, <6>1, Products
          <6> QED
            BY <1>7, <2>2, <2>5, <6>2 DEF Better, \preceq, Proceeds
        <5>2. PICK cash : cash = Plus(book.cash, gross) /\ NotNegative(cash)
          BY <1>5, <2>3, Sums
        <5>3. cash \preceq most
          BY <1>5, <2>3, <5>1, <5>2, SumsOrder
        <5>4. cash \prec cost
          BY <1>7, <5>2, <5>3, AmountOrder DEF NotNegative
        <5> QED
          BY <2>4, <2>5, <4>2, <5>2, <5>4
      <4> QED
        BY <4>1, <4>2
    <3> QED
      BY <1>6, <1>7, <3>1, <3>2 DEF FundedIn
  <2> QED
    BY <2>6, <2>7
<1> QED
  BY <1>6, <1>9, <1>10, Handles

LEMMA NextFunded ==
  ASSUME DaySound, Funded, BuyFine, [Next]_vars
  PROVE  Funded'
<1>1. SUFFICES ASSUME NEW p \in ToSet(queue'), Opens(p)
               PROVE  FundedIn(book', queue', working', p)
  BY DEF Funded, FundedIn, Better, CostOf, Proceeds, Held, NotNegative, Opens
<1>2. CASE CompleteBar
  BY <1>1, <1>2 DEF CompleteBar, Funded
<1>3. ASSUME NEW m \in Markets, RunCycle(m) PROVE FundedIn(book', queue', working', p)
  <2>1. FundedIn(book, queue', {}, p)
    BY <1>1, <1>3, CycleFunded DEF RunCycle
  <2>2. book' = book /\ working' = {}
    BY <1>3 DEF RunCycle
  <2> QED
    BY <2>1, <2>2
<1>4. ASSUME NEW part \in FilledParts, NEW move \in Moves, HandleNext(part, move)
      PROVE  FundedIn(book', queue', working', p)
  BY <1>1, <1>4, HandleFunded
<1>5. ASSUME NEW o \in working, NEW part \in FilledParts, NEW move \in Moves, CloseOrder(o, part, move)
      PROVE  FundedIn(book', queue', working', p)
  <2>1. queue' = <<>>
    BY <1>5 DEF CloseOrder
  <2> QED
    BY <1>1, <2>1 DEF ToSet
<1>6. CASE UNCHANGED vars
  BY <1>1, <1>6 DEF vars, Funded
<1> QED
  BY <1>2, <1>3, <1>4, <1>5, <1>6 DEF Next

\* The kernel approves a purchase only into an empty book with nothing else open: a rotation's is
\* refused while its sale is open, unless that has brought more than all of it was worth, and an
\* increase always, whatever the exchange fills at whatever prices, as long as roundings are less than
\* the slippage an order is charged.
THEOREM Purchases == Spec /\ []BuyFine => []BuysOnlyInCash
<1>1. Init => DaySound /\ Funded
  BY InitSound DEF Init, Funded, ToSet
<1>2. DaySound /\ Funded /\ BuyFine /\ [Next]_vars => DaySound' /\ Funded'
  BY NextSound, NextFunded
<1>3. ASSUME DaySound, Funded, queue # <<>>, NEW p, p = Head(queue), Opens(p), Judgement(p, book) = "APPROVED"
      PROVE  \/ HeldSymbols = {} /\ working = {}
             \/ \E o \in working : ~Opens(o.proposal) /\ Product(o.size, o.proposal.price) \prec o.gross
  <2>1. p \in ToSet(queue)
    <3>1. PICK q, R : q = queue /\ q # <<>> /\ R = ToSet(q) /\ q \in Seq(R)
      BY <1>3 DEF DaySound
    <3>2. Head(q) \in R
      BY <3>1
    <3> QED
      BY <1>3, <3>1, <3>2
  <2>2. FundedIn(book, queue, working, p)
    BY <1>3, <2>1 DEF Funded
  <2>3. ~(book.cash \prec CostOf(p))
    BY <1>3, ApprovedPays DEF CostOf, \preceq
  <2>4. ASSUME NEW r, r.action = "EXIT", queue = <<r, p>> PROVE FALSE
    BY <1>3, <2>4 DEF Opens
  <2> QED
    BY <2>2, <2>3, <2>4 DEF FundedIn, HeldSymbols, Better
<1>4. DaySound /\ Funded => BuysOnlyInCash
  BY <1>3 DEF BuysOnlyInCash
<1> QED
  BY <1>1, <1>2, <1>4, PTL DEF Spec

=============================================================================
