----------------------------- MODULE RegimesProofs -----------------------------
(***************************************************************************)
(* Version 4.0.0's regime, computed from the history in every process, is  *)
(* the regime of a machine that is never restarted, whatever number of     *)
(* bars confirms an increase and whatever the bars look like (Persistence).*)
(* Positions are turned over for causes that lasted (Causes), and a        *)
(* decision that is repeated on its own outcome takes nothing back         *)
(* (AtRest), for every universe, every score and every number of places.   *)
(*                                                                         *)
(* The rotation is a fold over the challengers.  What holds of it is       *)
(* proved by a set of good turns that has no smallest exception            *)
(* (RotationInduction): Accounted for Causes, Settled for AtRest.          *)
(***************************************************************************)
EXTENDS Regimes, SizingProofs, FiniteSetTheorems, SequenceTheorems

(***************************************************************************)
(* The inductive invariant: the window of raw regimes.                     *)
(***************************************************************************)
Raw == {"RISK_ON", "NEUTRAL", "RISK_OFF", "SHOCK"}

Calm == {"RISK_ON", "NEUTRAL"}

\* A history too short to confirm anything is neutral throughout.
HistoryInv ==
  /\ regimes \in Seq(Raw)
  /\ Len(regimes) <= RegimeBars
  /\ Len(regimes) < RegimeBars => \A i \in 1 .. Len(regimes) : regimes[i] = "NEUTRAL"

(***************************************************************************)
(* Trailing.                                                               *)
(***************************************************************************)
\* The last n elements of q are in S, and no more.
EndsWith(q, S, n) ==
  /\ n \in 0 .. Len(q)
  /\ \A i \in 1 .. Len(q) : i > Len(q) - n => q[i] \in S
  /\ n < Len(q) => q[Len(q) - n] \notin S

\* Trailing counts what it says,
LEMMA TrailingEnds ==
  ASSUME NEW R, NEW q \in Seq(R), NEW S
  PROVE  EndsWith(q, S, Trailing(q, S))
<1> DEFINE others == {i \in DOMAIN q : q[i] \notin S}
<1>1. DOMAIN q = 1 .. Len(q) /\ Len(q) \in Nat
  OBVIOUS
<1>2. CASE others = {}
  BY <1>1, <1>2 DEF Trailing, EndsWith
<1>3. CASE others # {}
  <2> DEFINE m == Max(others)
  <2>1. m \in others /\ \A j \in others : m >= j
    BY <1>1, <1>3, LastPosition
  <2>2. m \in 1 .. Len(q) /\ q[m] \notin S /\ Trailing(q, S) = Len(q) - m
    BY <1>1, <1>3, <2>1 DEF Trailing
  <2> HIDE DEF m
  <2>3. ASSUME NEW j \in 1 .. Len(q), j > m
        PROVE  q[j] \in S
    <3>1. j \notin others
      <4>1. ~ (m >= j)
        BY <2>2, <2>3
      <4> QED
        BY <2>1, <4>1, Zenon
    <3> QED
      BY <1>1, <3>1
  <2> HIDE DEF others
  <2> QED
    BY <1>1, <2>2, <2>3 DEF EndsWith
<1> QED
  BY <1>2, <1>3

\* ... and nothing else does.
LEMMA EndsUnique ==
  ASSUME NEW R, NEW q \in Seq(R), NEW S, NEW m, NEW n,
         EndsWith(q, S, m), EndsWith(q, S, n)
  PROVE  m = n
<1>1. Len(q) \in Nat /\ m \in 0 .. Len(q) /\ n \in 0 .. Len(q)
  BY DEF EndsWith
<1>2. ~ (m < n)
  BY <1>1 DEF EndsWith
<1>3. ~ (n < m)
  BY <1>1 DEF EndsWith
<1> QED
  BY <1>1, <1>2, <1>3

\* A bar more: the window moves on once it is full.
LEMMA WindowStep ==
  ASSUME NEW q \in Seq(Raw), NEW raw \in Raw, NEW N \in Nat \ {0}, Len(q) <= N
  PROVE  LET r == Window(q, raw, N)
             from == IF Len(q) < N THEN 1 ELSE 2
         IN  /\ r \in Seq(Raw)
             /\ Len(r) \in Nat /\ Len(r) = IF Len(q) < N THEN Len(q) + 1 ELSE N
             /\ r[Len(r)] = raw
             /\ \A i \in 1 .. Len(r) - 1 : r[i] = q[from + i - 1]
<1> DEFINE a == Append(q, raw)
           from == IF Len(q) < N THEN 1 ELSE 2
           r == Window(q, raw, N)
<1>1. /\ a \in Seq(Raw) /\ Len(a) = Len(q) + 1 /\ Len(q) \in Nat
      /\ \A i \in 1 .. Len(q) : a[i] = q[i]
      /\ a[Len(q) + 1] = raw
  BY AppendProperties
<1>2. r = SubSeq(a, from, Len(a))
  BY <1>1 DEF Window
<1>3. /\ from \in 1 .. 2 /\ from <= Len(a)
      /\ \A i \in from .. Len(a) : a[i] \in Raw
  BY <1>1, ElementOfSeq
<1>4. /\ r \in Seq(Raw)
      /\ Len(r) = Len(a) - from + 1
      /\ \A i \in 1 .. Len(a) - from + 1 : r[i] = a[from + i - 1]
  <2> HIDE DEF a, r, from
  <2>1. from \in Int /\ Len(a) \in Int
    BY <1>1, <1>3
  <2>2. /\ SubSeq(a, from, Len(a)) \in Seq(Raw)
        /\ Len(SubSeq(a, from, Len(a))) = IF from <= Len(a) THEN Len(a) - from + 1 ELSE 0
        /\ \A i \in 1 .. Len(a) - from + 1 :
             SubSeq(a, from, Len(a))[i] = a[from + i - 1]
    <3>1. /\ SubSeq(a, from, Len(a)) \in Seq(Raw)
          /\ Len(SubSeq(a, from, Len(a))) = IF from <= Len(a) THEN Len(a) - from + 1 ELSE 0
      BY <1>1, <1>3, <2>1, SubSeqProperties
    <3>2. ASSUME NEW i \in 1 .. Len(a) - from + 1
          PROVE  SubSeq(a, from, Len(a))[i] = a[from + i - 1]
      BY <1>1, <1>3, <2>1
    <3> QED
      BY <3>1, <3>2
  <2> QED
    BY <1>2, <1>3, <2>2, Zenon
<1>5. Len(r) \in Nat /\ Len(r) = IF Len(q) < N THEN Len(q) + 1 ELSE N
  BY <1>1, <1>4
<1>6. r[Len(r)] = raw
  BY <1>1, <1>4
<1>7. ASSUME NEW i \in 1 .. Len(r) - 1
      PROVE  r[i] = q[from + i - 1]
  <2>1. from + i - 1 \in 1 .. Len(q) /\ i \in 1 .. Len(a) - from + 1
    BY <1>1, <1>3, <1>4, <1>5
  <2> QED
    BY <1>1, <1>4, <2>1
<1> QED
  BY <1>4, <1>5, <1>6, <1>7

\* The trailing bars grow to the window's length and begin again with another bar.
LEMMA TrailingStep ==
  ASSUME NEW q \in Seq(Raw), NEW raw \in Raw, NEW S, NEW N \in Nat \ {0}, Len(q) <= N
  PROVE  LET t == Trailing(q, S)
         IN  /\ t \in 0 .. Len(q)
             /\ Trailing(Window(q, raw, N), S) =
                  IF raw \notin S THEN 0 ELSE IF t < N THEN t + 1 ELSE N
<1> DEFINE from == IF Len(q) < N THEN 1 ELSE 2
           r == Window(q, raw, N)
           t == Trailing(q, S)
           u == IF raw \notin S THEN 0 ELSE IF t < N THEN t + 1 ELSE N
<1>1. /\ r \in Seq(Raw)
      /\ \A i \in 1 .. Len(r) - 1 : r[i] = q[from + i - 1]
  BY WindowStep
<1>2. EndsWith(q, S, t)
  BY TrailingEnds
<1>3. Len(r) \in Nat /\ Len(r) = IF Len(q) < N THEN Len(q) + 1 ELSE N
  BY WindowStep
<1>4. r[Len(r)] = raw
  BY WindowStep
<1>5. Len(q) \in Nat /\ from \in Nat /\ from + Len(r) = Len(q) + 2
  BY <1>3
<1>6. t \in 0 .. Len(q)
  BY <1>2 DEF EndsWith
<1>7. EndsWith(r, S, u)
  <2> HIDE DEF r, t
  <2>1. u \in 0 .. Len(r)
    BY <1>5, <1>3, <1>6
  <2>2. ASSUME NEW i \in 1 .. Len(r), i > Len(r) - u
        PROVE  r[i] \in S
    <3>1. raw \in S
      BY <1>5, <1>3, <2>2
    <3>2. CASE i = Len(r)
      BY <1>4, <3>1, <3>2
    <3>3. CASE i # Len(r)
      <4>1. from + i - 1 \in 1 .. Len(q) /\ r[i] = q[from + i - 1]
        <5>1. from + i - 1 \in 1 .. Len(q) /\ i \in 1 .. Len(r) - 1
          BY <1>3, <1>5, <3>3
        <5> QED
          BY <1>1, <5>1
      <4>2. from + i - 1 > Len(q) - t
        <5>1. u \in Nat /\ u <= t + 1 /\ t \in Nat
          BY <1>5, <1>6, <3>1
        <5> HIDE DEF u, from
        <5> QED
          BY <1>3, <1>5, <2>2, <5>1
      <4> QED
        BY <1>2, <4>1, <4>2 DEF EndsWith
    <3> QED
      BY <3>2, <3>3
  <2>3. ASSUME u < Len(r)
        PROVE  r[Len(r) - u] \notin S
    <3>1. CASE raw \notin S
      BY <1>5, <1>3, <1>4, <3>1
    <3>2. CASE raw \in S
      <4>1. t < Len(q) /\ u = t + 1
        BY <1>5, <1>3, <1>6, <2>3, <3>2
      <4>2. Len(r) - u \in 1 .. Len(r) - 1
        <5> HIDE DEF u
        <5> QED
          BY <1>5, <1>3, <1>6, <2>3, <4>1
      <4>3. r[Len(r) - u] = q[Len(q) - t]
        <5>1. from + (Len(r) - u) - 1 = Len(q) - t
          <6> HIDE DEF u, from
          <6> QED
            BY <1>3, <1>5, <1>6, <4>1
        <5> HIDE DEF u, from
        <5> QED
          BY <1>1, <4>2, <5>1
      <4> QED
        BY <1>2, <4>1, <4>3 DEF EndsWith
    <3> QED
      BY <3>1, <3>2
  <2> QED
    BY <2>1, <2>2, <2>3 DEF EndsWith
<1>8. Trailing(r, S) = u
  BY <1>1, <1>7, TrailingEnds, EndsUnique
<1> QED
  BY <1>1, <1>3, <1>4, <1>5, <1>6, <1>8

(***************************************************************************)
(* The refinement.                                                         *)
(***************************************************************************)
\* Before the first bar the two machines agree.
LEMMA InitRefines == Init => HistoryInv /\ Latch!LatchInit
<1> SUFFICES ASSUME Init
             PROVE  HistoryInv /\ Latch!LatchInit
  OBVIOUS
<1>1. regimes = <<>> /\ regimes \in Seq(Raw) /\ Len(regimes) = 0
  BY DEF Init
<1>2. ASSUME NEW S
      PROVE  Trailing(regimes, S) = 0
  <2>1. EndsWith(regimes, S, Trailing(regimes, S))
    BY <1>1, TrailingEnds
  <2> QED
    BY <1>1, <2>1 DEF EndsWith
<1>3. HistoryInv
  BY <1>1, RegimeBarsAssumption DEF HistoryInv
<1>4. Latch!LatchInit
  BY <1>1, <1>2 DEF Latch!LatchInit, CalmBars, Persistent
<1> QED
  BY <1>3, <1>4

\* A completed bar is an observation of its raw regime.
LEMMA BarRefines ==
  ASSUME HistoryInv, CompleteBar
  PROVE  HistoryInv' /\ Latch!LatchNext
<1>1. PICK bar \in Bars :
        /\ Len(regimes) < RegimeBars => RawRegime(bar.benchmark) = "NEUTRAL"
        /\ regimes' = Window(regimes, RawRegime(bar.benchmark), RegimeBars)
  BY DEF CompleteBar
<1> DEFINE raw == RawRegime(bar.benchmark)
           calm == CalmBars
           on == Trailing(regimes, {"RISK_ON"})
<1>2. raw \in Raw
  BY DEF RawRegime, Raw
<1>3. /\ regimes \in Seq(Raw) /\ Len(regimes) \in Nat /\ Len(regimes) <= RegimeBars
      /\ Len(regimes) < RegimeBars => \A i \in 1 .. Len(regimes) : regimes[i] = "NEUTRAL"
      /\ RegimeBars \in Nat \ {0}
  BY RegimeBarsAssumption DEF HistoryInv
<1>4. /\ regimes' \in Seq(Raw)
      /\ Len(regimes') = IF Len(regimes) < RegimeBars THEN Len(regimes) + 1 ELSE RegimeBars
      /\ regimes'[Len(regimes')] = raw
  BY <1>1, <1>2, <1>3, WindowStep
<1>5. /\ calm \in 0 .. Len(regimes)
      /\ calm' = IF raw \notin Calm THEN 0 ELSE IF calm < RegimeBars THEN calm + 1 ELSE RegimeBars
  BY <1>1, <1>2, <1>3, TrailingStep DEF CalmBars, Calm
<1>6. /\ on \in 0 .. Len(regimes)
      /\ on' = IF raw # "RISK_ON" THEN 0 ELSE IF on < RegimeBars THEN on + 1 ELSE RegimeBars
  BY <1>1, <1>2, <1>3, TrailingStep
<1>7. EndsWith(regimes, Calm, calm)
  BY <1>3, TrailingEnds DEF CalmBars, Calm
<1>8. EndsWith(regimes', Calm, calm') /\ EndsWith(regimes', {"RISK_ON"}, on')
  BY <1>4, TrailingEnds DEF CalmBars, Calm
<1>9. Len(regimes) < RegimeBars => raw = "NEUTRAL" /\ calm = Len(regimes)
  <2>1. Len(regimes) < RegimeBars /\ calm < Len(regimes) => regimes[Len(regimes) - calm] \in Calm
    BY <1>3, <1>5 DEF Calm
  <2> QED
    BY <1>1, <1>3, <1>5, <1>7, <2>1 DEF EndsWith
<1> HIDE DEF raw, calm, on
<1>10. HistoryInv'
  <2>1. Len(regimes') \in Nat /\ Len(regimes') <= RegimeBars
    BY <1>3, <1>4
  <2>2. ASSUME Len(regimes') < RegimeBars, NEW i \in 1 .. Len(regimes')
        PROVE  regimes'[i] = "NEUTRAL"
    <3>1. Len(regimes) < RegimeBars /\ Len(regimes') = Len(regimes) + 1
      BY <1>3, <1>4, <2>2
    <3>2. \A k \in 1 .. Len(regimes') - 1 : regimes'[k] = regimes[1 + k - 1]
      BY <1>1, <1>2, <1>3, <3>1, WindowStep DEF raw
    <3> QED
      BY <1>3, <1>4, <1>9, <3>1, <3>2
  <2> QED
    BY <1>4, <2>1, <2>2 DEF HistoryInv
<1> DEFINE c == IF calm = Len(regimes) THEN RegimeBars ELSE calm
<1>11. c' = IF raw \notin Calm THEN 0 ELSE IF c < RegimeBars THEN c + 1 ELSE RegimeBars
  BY <1>3, <1>4, <1>5, <1>9 DEF Calm
<1>12. /\ DOMAIN regimes' = 1 .. Len(regimes') /\ Len(regimes') \in Nat \ {0}
       /\ \A i \in 1 .. Len(regimes') : regimes'[i] \in Raw
       /\ on' \in 0 .. Len(regimes') /\ calm' \in 0 .. Len(regimes')
  BY <1>3, <1>4, <1>8, ElementOfSeq DEF EndsWith
<1>13. ToSet(regimes') = {"RISK_ON"} <=> on' = Len(regimes')
  <2>1. CASE on' = Len(regimes')
    <3>1. \A i \in 1 .. Len(regimes') : regimes'[i] = "RISK_ON"
      BY <1>8, <1>12, <2>1 DEF EndsWith
    <3> QED
      BY <1>12, <2>1, <3>1 DEF ToSet
  <2>2. CASE on' # Len(regimes')
    <3>1. /\ Len(regimes') - on' \in 1 .. Len(regimes')
          /\ regimes'[Len(regimes') - on'] # "RISK_ON"
      BY <1>8, <1>12, <2>2 DEF EndsWith
    <3> QED
      BY <1>12, <2>2, <3>1 DEF ToSet
  <2> QED
    BY <2>1, <2>2
<1>14. ToSet(regimes') \cap {"SHOCK", "RISK_OFF"} # {} <=> calm' < Len(regimes')
  <2>1. CASE calm' = Len(regimes')
    <3>1. \A i \in 1 .. Len(regimes') : regimes'[i] \in Calm
      BY <1>8, <1>12, <2>1 DEF EndsWith
    <3> QED
      BY <1>12, <2>1, <3>1 DEF ToSet, Calm
  <2>2. CASE calm' # Len(regimes')
    <3>1. /\ Len(regimes') - calm' \in 1 .. Len(regimes')
          /\ regimes'[Len(regimes') - calm'] \notin Calm
      BY <1>8, <1>12, <2>2 DEF EndsWith
    <3>2. regimes'[Len(regimes') - calm'] \in {"SHOCK", "RISK_OFF"}
      BY <1>12, <3>1 DEF Calm, Raw
    <3>3. regimes'[Len(regimes') - calm'] \in ToSet(regimes')
      BY <1>12, <3>1 DEF ToSet
    <3> QED
      BY <1>12, <2>2, <3>2, <3>3
  <2> QED
    BY <1>12, <2>1, <2>2
<1>15. Persistent' = IF raw \notin Calm THEN raw
                     ELSE IF on' = RegimeBars THEN "RISK_ON"
                     ELSE IF c' < RegimeBars THEN "RISK_OFF"
                     ELSE "NEUTRAL"
  <2>1. regimes' # <<>> /\ Last(regimes') = raw /\ (raw \in {"SHOCK", "RISK_OFF"} <=> raw \notin Calm)
    BY <1>2, <1>4, <1>12 DEF Last, Raw, Calm
  <2>2. CASE raw \notin Calm
    BY <2>1, <2>2 DEF Persistent
  <2>3. CASE raw \in Calm /\ Len(regimes') < RegimeBars
    <3>1. Persistent' = "NEUTRAL"
      BY <2>1, <2>3 DEF Persistent
    <3>2. on' # RegimeBars
      BY <1>3, <1>12, <2>3
    <3>3. ~ (c' < RegimeBars)
      BY <1>3, <1>4, <1>9, <1>11, <2>3
    <3> QED
      BY <2>3, <3>1, <3>2, <3>3, Zenon
  <2>4. CASE raw \in Calm /\ Len(regimes') = RegimeBars
    <3>1. Persistent' = IF on' = RegimeBars THEN "RISK_ON"
                        ELSE IF calm' < RegimeBars THEN "RISK_OFF" ELSE "NEUTRAL"
      BY <1>3, <1>13, <1>14, <2>1, <2>4 DEF Persistent
    <3>2. c' < RegimeBars <=> calm' < RegimeBars
      BY <1>3, <1>12, <2>4
    <3> QED
      BY <2>4, <3>1, <3>2, Zenon
  <2> QED
    BY <1>3, <1>4, <2>2, <2>3, <2>4
<1>16. Latch!Observe(raw)
  <2>1. c' = IF raw \in Latch!Adverse THEN 0 ELSE Latch!Raised(c)
    BY <1>2, <1>3, <1>5, <1>11 DEF Latch!Adverse, Latch!Raised, Raw, Calm
  <2>2. on' = IF raw = "RISK_ON" THEN Latch!Raised(on) ELSE 0
    BY <1>3, <1>6 DEF Latch!Raised
  <2>3. raw \in Latch!Adverse <=> raw \notin Calm
    BY <1>2 DEF Latch!Adverse, Raw, Calm
  <2> QED
    BY <1>15, <2>1, <2>2, <2>3 DEF Latch!Observe, calm, on
<1> QED
  BY <1>2, <1>10, <1>16 DEF Latch!LatchNext, Latch!Adverse, Raw

\* A decision moves neither machine.
LEMMA DecisionStutters ==
  ASSUME HistoryInv, UNCHANGED regimes
  PROVE  HistoryInv' /\ UNCHANGED Latch!latchVars
  BY DEF HistoryInv, Latch!latchVars, CalmBars, Trailing, Persistent

\* However often a process is restarted between two bars, the regime it computes is the latch's.
THEOREM Persistence == Spec => RegimePersists
<1>1. Init => HistoryInv /\ Latch!LatchInit
  BY InitRefines
<1>2. ASSUME HistoryInv, [Next]_vars
      PROVE  HistoryInv' /\ [Latch!LatchNext]_(Latch!latchVars)
  <2>1. CASE CompleteBar
    BY <1>2, <2>1, BarRefines
  <2>2. ASSUME NEW context \in Contexts, Decide(context)
        PROVE  HistoryInv' /\ UNCHANGED Latch!latchVars
    BY <1>2, <2>2, DecisionStutters DEF Decide
  <2>3. CASE UNCHANGED vars
    BY <1>2, <2>3, DecisionStutters DEF vars
  <2> QED
    BY <1>2, <2>1, <2>2, <2>3 DEF Next
<1> QED
  BY <1>1, <1>2, PTL DEF Spec, RegimePersists, Latch!LatchSpec

(***************************************************************************)
(* The ranking: a strict linear order, and with it every symbol once.      *)
(***************************************************************************)
LEMMA UniverseFinite == IsFiniteSet(Universe)
<1>1. DOMAIN Symbols = 1 .. Len(Symbols) /\ Len(Symbols) \in Nat
  BY SelectionAssumption
<1>2. Symbols \in Surjection(1 .. Len(Symbols), Universe)
  BY <1>1, SelectionAssumption DEF Surjection, Universe, ToSet
<1> QED
  BY <1>1, <1>2, FS_Interval, FS_Surjection

LEMMA PositionOf ==
  ASSUME NEW s \in Universe
  PROVE  Position(s) \in Nat /\ Symbols[Position(s)] = s
<1> DEFINE I == {i \in 1 .. Len(Symbols) : Symbols[i] = s}
<1>1. DOMAIN Symbols = 1 .. Len(Symbols) /\ Len(Symbols) \in Nat
  BY SelectionAssumption
<1>2. I \subseteq Nat /\ I # {}
  BY <1>1 DEF Universe, ToSet
<1>3. Min(I) \in I
  <2>1. \E i \in I : \A j \in I : i <= j
    <3> HIDE DEF I
    <3> QED
      BY <1>2, LeastNumber
  <2> HIDE DEF I
  <2> QED
    BY <2>1 DEF Min
<1>4. Position(s) = Min(I)
  BY <1>2 DEF Position, SelectInSeq
<1> QED
  BY <1>2, <1>3, <1>4

\* The symbols of S can be ranked.
Scored(S, missing) == \A s \in S : s \in Universe /\ Standing(s, missing) \in Int

LEMMA AheadOrder ==
  ASSUME NEW S, NEW missing, Scored(S, missing), NEW s \in S, NEW t \in S
  PROVE  /\ ~ Ahead(s, s, missing)
         /\ s # t => Ahead(s, t, missing) \/ Ahead(t, s, missing)
         /\ \A r \in S : Ahead(r, s, missing) /\ Ahead(s, t, missing) => Ahead(r, t, missing)
<1>1. \A x \in S : /\ x \in Universe /\ Standing(x, missing) \in Int
                   /\ Position(x) \in Nat /\ Symbols[Position(x)] = x
  BY PositionOf DEF Scored
<1>2. s # t => Position(s) # Position(t)
  BY <1>1
<1> QED
  BY <1>1, <1>2 DEF Ahead

\* The number of symbols ahead is an injection into as many numbers as there are symbols.
LEMMA RankedAll ==
  ASSUME NEW S, NEW missing, Scored(S, missing)
  PROVE  /\ IsFiniteSet(S)
         /\ Ranked(S, missing) \in Seq(S)
         /\ Len(Ranked(S, missing)) = Cardinality(S)
         /\ ToSet(Ranked(S, missing)) = S
         /\ \A n, m \in 1 .. Cardinality(S) :
              n < m => Ahead(Ranked(S, missing)[n], Ranked(S, missing)[m], missing)
<1> DEFINE N     == Cardinality(S)
           up(s) == {t \in S : Ahead(t, s, missing)}
           ahead == [s \in S |-> Cardinality(up(s))]
           at(n) == CHOOSE s \in S : ahead[s] = n - 1
           r     == Ranked(S, missing)
<1>1. IsFiniteSet(S) /\ N \in Nat
  <2>1. S \subseteq Universe
    BY DEF Scored
  <2> QED
    BY <2>1, UniverseFinite, FS_Subset, FS_CardinalityType
<1>2. IsFiniteSet(0 .. N - 1) /\ Cardinality(0 .. N - 1) = N
  <2> HIDE DEF N
  <2>1. N - 1 \in Int /\ (IF 0 > N - 1 THEN 0 ELSE N - 1 - 0 + 1) = N
    BY <1>1
  <2> QED
    BY <2>1, FS_Interval
<1>3. ASSUME NEW s \in S
      PROVE  IsFiniteSet(up(s)) /\ Cardinality(up(s)) \in 0 .. N - 1
  <2>1. up(s) \in SUBSET S /\ up(s) # S
    BY AheadOrder
  <2>2. IsFiniteSet(up(s)) /\ Cardinality(up(s)) <= N /\ Cardinality(up(s)) # N
    <3> HIDE DEF up
    <3> QED
      BY <1>1, <2>1, FS_Subset
  <2> QED
    BY <1>1, <2>2, FS_CardinalityType
<1>4. ASSUME NEW s \in S, NEW t \in S, Ahead(s, t, missing)
      PROVE  Cardinality(up(s)) < Cardinality(up(t))
  <2>1. up(s) \in SUBSET up(t) /\ up(s) # up(t)
    <3>1. s \in up(t) /\ s \notin up(s)
      BY <1>4, AheadOrder
    <3>2. ASSUME NEW x \in up(s) PROVE x \in up(t)
      BY <1>4, AheadOrder
    <3> QED
      BY <3>1, <3>2
  <2>2. IsFiniteSet(up(t)) /\ Cardinality(up(s)) \in Int /\ Cardinality(up(t)) \in Int
    <3> HIDE DEF up, N
    <3> QED
      BY <1>1, <1>3
  <2> HIDE DEF up
  <2>3. Cardinality(up(s)) <= Cardinality(up(t)) /\ Cardinality(up(s)) # Cardinality(up(t))
    BY <2>1, <2>2, FS_Subset
  <2> QED
    BY <2>2, <2>3
<1>5. ahead \in Surjection(S, 0 .. N - 1)
  <2>1. ahead \in [S -> 0 .. N - 1]
    BY <1>3
  <2>2. ASSUME NEW s \in S, NEW t \in S, ahead[s] = ahead[t] PROVE s = t
    <3>1. Cardinality(up(s)) = Cardinality(up(t)) /\ Cardinality(up(s)) \in Int
      <4>1. Cardinality(up(s)) = Cardinality(up(t))
        BY <2>2
      <4> HIDE DEF up, N
      <4> QED
        BY <1>1, <1>3, <4>1
    <3>2. ~ Ahead(s, t, missing) /\ ~ Ahead(t, s, missing)
      <4> HIDE DEF up
      <4> QED
        BY <1>4, <3>1
    <3> QED
      BY <3>2, AheadOrder
  <2>3. ahead \in Injection(S, 0 .. N - 1)
    BY <2>1, <2>2 DEF Injection, IsInjective
  <2> QED
    BY <1>1, <1>2, <2>3, FS_Injection
<1>6. r = [n \in 1 .. N |-> at(n)]
  BY DEF Ranked
<1>7. ASSUME NEW n \in 1 .. N PROVE at(n) \in S /\ ahead[at(n)] = n - 1
  <2>1. n - 1 \in 0 .. N - 1
    BY <1>1
  <2>2. \E s \in S : ahead[s] = n - 1
    <3> HIDE DEF ahead, N
    <3> QED
      BY <1>5, <2>1 DEF Surjection
  <2> HIDE DEF ahead
  <2> QED
    BY <2>2
<1>8. ASSUME NEW s \in S PROVE \E n \in 1 .. N : at(n) = s
  <2>1. ahead[s] + 1 \in 1 .. N /\ (ahead[s] + 1) - 1 = ahead[s]
    <3>1. ahead[s] \in 0 .. N - 1
      BY <1>3
    <3> HIDE DEF ahead
    <3> QED
      BY <1>1, <3>1
  <2>2. ahead[at(ahead[s] + 1)] = ahead[s] /\ at(ahead[s] + 1) \in S
    <3> HIDE DEF ahead, at
    <3> QED
      BY <1>7, <2>1
  <2>3. \A x, y \in S : ahead[x] = ahead[y] => x = y
    <3>1. ahead \in Injection(S, 0 .. N - 1)
      <4> HIDE DEF ahead
      <4> QED
        BY <1>1, <1>2, <1>5, FS_Surjection DEF Bijection
    <3> QED
      BY <3>1 DEF Injection, IsInjective
  <2> HIDE DEF ahead, at
  <2> QED
    BY <2>1, <2>2, <2>3
<1> HIDE DEF at, r
<1>9. r \in [1 .. N -> S]
  BY <1>6, <1>7
<1>10. r \in Seq(S) /\ DOMAIN r = 1 .. N
  BY <1>1, <1>9, SeqDef
<1>11. Len(r) = N
  <2>1. Len(r) \in Nat /\ 1 .. Len(r) = 1 .. N
    BY <1>10, LenProperties
  <2> QED
    BY <1>1, <2>1
<1>12. ToSet(r) = S
  BY <1>6, <1>7, <1>8, <1>10 DEF ToSet
<1>13. ASSUME NEW n \in 1 .. N, NEW m \in 1 .. N, n < m
       PROVE  Ahead(r[n], r[m], missing)
  <2>1. PICK x \in S : x = r[n] /\ Cardinality(up(x)) = n - 1
    <3>1. at(n) \in S /\ ahead[at(n)] = n - 1
      BY <1>7
    <3> HIDE DEF up
    <3> QED
      BY <1>6, <3>1
  <2>2. PICK y \in S : y = r[m] /\ Cardinality(up(y)) = m - 1
    <3>1. at(m) \in S /\ ahead[at(m)] = m - 1
      BY <1>7
    <3> HIDE DEF up
    <3> QED
      BY <1>6, <3>1
  <2>3. ~ Ahead(y, x, missing) /\ x # y
    <3>1. ASSUME Ahead(y, x, missing) PROVE Cardinality(up(y)) < Cardinality(up(x))
      BY <1>4, <3>1
    <3> HIDE DEF up, N
    <3> QED
      BY <1>1, <1>13, <2>1, <2>2, <3>1
  <2> QED
    BY <2>1, <2>2, <2>3, AheadOrder
<1> QED
  BY <1>1, <1>10, <1>11, <1>12, <1>13 DEF r

\* What First leaves of a sequence.
LEMMA FirstOf ==
  ASSUME NEW R, NEW q \in Seq(R), NEW n \in Nat
  PROVE  /\ ToSet(First(q, n)) \subseteq ToSet(q)
         /\ Len(q) <= n => ToSet(First(q, n)) = ToSet(q)
         /\ IsFiniteSet(ToSet(First(q, n))) /\ Cardinality(ToSet(First(q, n))) <= n
<1> DEFINE f == First(q, n)
<1>1. PICK k \in Nat : k = Len(q)
  OBVIOUS
<1>2. PICK m \in Nat : /\ m <= n /\ m <= k /\ (k <= n => m = k)
                       /\ f = SubSeq(q, 1, m)
  <2>1. CASE n < k
    BY <1>1, <2>1 DEF First
  <2>2. CASE ~ (n < k)
    BY <1>1, <2>2 DEF First
  <2> QED
    BY <2>1, <2>2
<1> HIDE DEF f
<1>3. ASSUME NEW i \in 1 .. m
      PROVE  i \in 1 .. k /\ q[i] \in R
  <2>1. i \in 1 .. k
    BY <1>2
  <2> QED
    BY <1>1, <2>1, ElementOfSeq
<1>4. f \in Seq(R) /\ Len(f) = m /\ \A i \in 1 .. m : f[i] = q[i]
  <2>1. /\ f \in Seq(R) /\ Len(f) = IF 1 <= m THEN m - 1 + 1 ELSE 0
        /\ \A i \in 1 .. m - 1 + 1 : f[i] = q[1 + i - 1]
    BY <1>2, <1>3, SubSeqProperties, 1 \in Int, m \in Int
  <2>2. Len(f) = m
    BY <2>1
  <2>3. ASSUME NEW i \in 1 .. m PROVE f[i] = q[i]
    <3>1. i \in 1 .. m - 1 + 1 /\ 1 + i - 1 = i
      OBVIOUS
    <3> QED
      BY <2>1, <3>1
  <2> QED
    BY <2>1, <2>2, <2>3
<1>5. DOMAIN f = 1 .. m /\ DOMAIN q = 1 .. k
  BY <1>1, <1>4
<1>6. ToSet(f) \subseteq ToSet(q) /\ (m = k => ToSet(f) = ToSet(q))
  <2>1. \A i \in 1 .. m : f[i] = q[i] /\ i \in 1 .. k
    BY <1>3, <1>4
  <2> QED
    BY <1>5, <2>1, Zenon DEF ToSet
<1>7. f \in Surjection(1 .. m, ToSet(f))
  BY <1>4, <1>5 DEF Surjection, ToSet
<1>8. IsFiniteSet(1 .. m) /\ Cardinality(1 .. m) = m
  <2>1. 1 \in Int /\ m \in Int /\ (IF 1 > m THEN 0 ELSE m - 1 + 1) = m
    OBVIOUS
  <2> QED
    BY <2>1, FS_Interval
<1>9. IsFiniteSet(ToSet(f)) /\ Cardinality(ToSet(f)) <= m
  BY <1>7, <1>8, FS_Surjection
<1>10. Cardinality(ToSet(f)) <= n
  <2>1. Cardinality(ToSet(f)) \in Nat
    BY <1>9, FS_CardinalityType
  <2> QED
    BY <1>2, <1>9, <2>1
<1> QED
  BY <1>1, <1>2, <1>6, <1>9, <1>10 DEF f

(***************************************************************************)
(* The rotation: challengers one after the other.                          *)
(***************************************************************************)
\* What FoldLeft computes on the way: the selection after the challengers with numbers in s.
Turn(g, q, base, missing, aligned, s) ==
  IF s = {} THEN base
  ELSE Challenged(g[s \ {Max(s)}], q[Max(s)], missing, aligned)

Rotates(g, q, base, missing, aligned) ==
  g = [s \in SUBSET DOMAIN q |-> Turn(g, q, base, missing, aligned, s)]

Rotated(q, base, missing, aligned) ==
  FoldLeft(LAMBDA selected, c : Challenged(selected, c, missing, aligned), base, q)

LEMMA RotatedIs ==
  ASSUME NEW q, NEW base, NEW missing, NEW aligned
  PROVE  Rotated(q, base, missing, aligned) =
           (CHOOSE g : Rotates(g, q, base, missing, aligned))[DOMAIN q]
BY Zenon DEF Rotated, FoldLeft, MapThenFoldSet, Turn, Rotates

\* It exists.
LEMMA RotationExists ==
  ASSUME NEW R, NEW q \in Seq(R), NEW base, NEW missing, NEW aligned
  PROVE  \E g : Rotates(g, q, base, missing, aligned)
<1> DEFINE S == DOMAIN q
           T(g, s) == Turn(g, q, base, missing, aligned, s)
           Good(g, n) == \A s \in SUBSET S : Cardinality(s) < n => g[s] = T(g, s)
           Bad == {n \in Nat : ~\E g : Good(g, n)}
<1>1. S = 1 .. Len(q) /\ Len(q) \in Nat /\ IsFiniteSet(S)
  BY FS_Interval
<1>2. \A s \in SUBSET S : s # {} => Max(s) \in s
  BY <1>1, LastPosition
<1>3. /\ \A s \in SUBSET S : /\ IsFiniteSet(s) /\ Cardinality(s) \in Nat
                             /\ Cardinality(s) <= Cardinality(S)
                             /\ \A x \in s : Cardinality(s \ {x}) = Cardinality(s) - 1
      /\ Cardinality(S) \in Nat
  <2> HIDE DEF S
  <2> QED
    BY <1>1, FS_Subset, FS_CardinalityType, FS_RemoveElement
<1> HIDE DEF S
<1>4. ASSUME NEW g, NEW h, NEW s \in SUBSET S,
             s # {} => h[s \ {Max(s)}] = g[s \ {Max(s)}]
      PROVE  T(h, s) = T(g, s)
  BY <1>4, Zenon DEF Turn
<1> HIDE DEF T
<1>5. ASSUME NEW n \in Nat, NEW g, Good(g, n)
      PROVE  \E h : Good(h, n + 1)
  <2> DEFINE h == [s \in SUBSET S |-> T(g, s)]
  <2>1. ASSUME NEW s \in SUBSET S, Cardinality(s) < n + 1 PROVE h[s] = T(h, s)
    <3>1. ASSUME s # {} PROVE h[s \ {Max(s)}] = g[s \ {Max(s)}]
      <4>1. Max(s) \in s
        BY <1>2, <3>1
      <4>2. s \ {Max(s)} \in SUBSET S /\ Cardinality(s \ {Max(s)}) < n
        BY <1>3, <2>1, <4>1
      <4> QED
        BY <1>5, <4>2
    <3>2. T(h, s) = T(g, s)
      <4> HIDE DEF h
      <4> QED
        BY <1>4, <3>1
    <3> QED
      BY <3>2
  <2> QED
    BY <2>1
<1>6. Bad = {}
  <2> SUFFICES ASSUME Bad # {} PROVE FALSE
    OBVIOUS
  <2>1. PICK n \in Bad : \A m \in Bad : n <= m
    <3>1. Bad \subseteq Nat
      OBVIOUS
    <3> HIDE DEF Bad
    <3> QED
      BY <3>1, LeastNumber
  <2>2. n # 0
    <3>1. Good([s \in SUBSET S |-> 0], 0)
      BY <1>3
    <3> HIDE DEF Good
    <3> QED
      BY <3>1
  <2> HIDE DEF Good
  <2>3. n - 1 \in Nat /\ n - 1 \notin Bad /\ n = (n - 1) + 1
    BY <2>1, <2>2
  <2> QED
    BY <1>5, <2>1, <2>3
<1>7. PICK g : Good(g, Cardinality(S) + 1)
  <2>1. Cardinality(S) + 1 \in Nat
    BY <1>3
  <2> HIDE DEF Good
  <2> QED
    BY <1>6, <2>1
<1> DEFINE h == [s \in SUBSET S |-> T(g, s)]
<1>8. \A s \in SUBSET S : h[s] = g[s]
  BY <1>3, <1>7
<1>9. ASSUME NEW s \in SUBSET S PROVE T(h, s) = T(g, s)
  <2>1. s \ {Max(s)} \in SUBSET S
    OBVIOUS
  <2> HIDE DEF h
  <2> QED
    BY <1>4, <1>8, <2>1
<1>10. Rotates(h, q, base, missing, aligned)
  <2>1. h = [s \in SUBSET S |-> T(h, s)]
    <3>1. [s \in SUBSET S |-> T(h, s)] = [s \in SUBSET S |-> T(g, s)]
      <4> HIDE DEF h
      <4> QED
        BY <1>9
    <3> QED
      BY <3>1
  <2> HIDE DEF h
  <2> QED
    BY <2>1 DEF Rotates, S, T
<1> HIDE DEF h
<1> QED
  BY <1>10

\* Every turn keeps what is good: sets of turns, each with the selection after them.
TurnsKeep(Good, q, missing, aligned) ==
  \A s \in SUBSET DOMAIN q : \A selected :
    s # {} /\ Max(s) \in s /\ <<s \ {Max(s)}, selected>> \in Good =>
      <<s, Challenged(selected, q[Max(s)], missing, aligned)>> \in Good

\* Then the outcome is good: there is no smallest set of turns after which the selection is not.
LEMMA RotationInduction ==
  ASSUME NEW R, NEW q \in Seq(R), NEW base, NEW missing, NEW aligned, NEW Good,
         <<{}, base>> \in Good, TurnsKeep(Good, q, missing, aligned)
  PROVE  <<DOMAIN q, Rotated(q, base, missing, aligned)>> \in Good
<1> DEFINE D == DOMAIN q
<1>1. D = 1 .. Len(q) /\ Len(q) \in Nat /\ IsFiniteSet(D)
  BY FS_Interval
<1>2. \A s \in SUBSET D : s # {} => Max(s) \in s
  BY <1>1, LastPosition
<1>3. PICK g : Rotates(g, q, base, missing, aligned) /\ Rotated(q, base, missing, aligned) = g[D]
  <2>1. \E g : Rotates(g, q, base, missing, aligned)
    BY RotationExists
  <2> QED
    BY <2>1, RotatedIs, Zenon
<1>4. g[{}] = base
  <2>1. {} \in SUBSET DOMAIN q
    OBVIOUS
  <2> QED
    BY <1>3, <2>1, Zenon DEF Rotates, Turn
<1>5. ASSUME NEW s \in SUBSET D, s # {}, <<s \ {Max(s)}, g[s \ {Max(s)}]>> \in Good
      PROVE  <<s, g[s]>> \in Good
  <2>1. g[s] = Challenged(g[s \ {Max(s)}], q[Max(s)], missing, aligned)
    BY <1>3, <1>5, Zenon DEF Rotates, Turn
  <2> QED
    BY <1>2, <1>5, <2>1, Zenon DEF TurnsKeep
<1> HIDE DEF D
<1>6. \A s \in SUBSET D : <<s, g[s]>> \in Good
  <2> DEFINE Bad   == {s \in SUBSET D : <<s, g[s]>> \notin Good}
             Sizes == {Cardinality(s) : s \in Bad}
  <2>1. \A s \in SUBSET D : /\ IsFiniteSet(s) /\ Cardinality(s) \in Nat
                            /\ \A x \in s : Cardinality(s \ {x}) = Cardinality(s) - 1
    BY <1>1, FS_Subset, FS_CardinalityType, FS_RemoveElement
  <2>2. ASSUME Bad # {} PROVE FALSE
    <3>1. Sizes \subseteq Nat /\ Sizes # {}
      BY <2>1, <2>2
    <3>2. PICK n \in Sizes : \A k \in Sizes : n <= k
      <4> HIDE DEF Sizes
      <4> QED
        BY <3>1, LeastNumber
    <3>3. PICK s \in Bad : Cardinality(s) = n
      OBVIOUS
    <3>4. s # {} /\ s \in SUBSET D /\ <<s, g[s]>> \notin Good
      BY <1>4, <3>3
    <3>5. Max(s) \in s
      BY <1>2, <3>4
    <3>6. s \ {Max(s)} \in Bad
      <4>1. s \ {Max(s)} \in SUBSET D
        BY <3>4
      <4> QED
        BY <1>5, <3>4, <4>1
    <3>7. n <= Cardinality(s \ {Max(s)})
      <4>1. Cardinality(s \ {Max(s)}) \in Sizes
        BY <3>6
      <4> HIDE DEF Sizes, Bad
      <4> QED
        BY <3>2, <4>1
    <3>8. Cardinality(s \ {Max(s)}) = n - 1 /\ n \in Nat
      <4> HIDE DEF Sizes, Bad
      <4> QED
        BY <2>1, <3>3, <3>4, <3>5
    <3> QED
      BY <3>7, <3>8
  <2> QED
    BY <2>2
<1> QED
  BY <1>3, <1>6 DEF D

\* The incumbents that are kept before places run out, and the challengers.
Kept(S, missing) ==
  IF version = "2.0.0" THEN {s \in S \ missing : Score(s) >= RetentionScore}
  ELSE {s \in S : s \in missing \/ Score(s) >= RetentionScore \/ ~ExitConfirmed(s)}

Qualified(S, missing) ==
  IF version = "2.0.0"
  THEN {s \in Universe \ (missing \cup Retained(S, missing)) : Score(s) >= EntryScore}
  ELSE {s \in Universe \ (missing \cup S) : AtLeast(s, EntryBars, EntryScore)}

Outbid(s, selected, S, missing, aligned) ==
  \E c \in selected \ S : Outbids(c, s) /\ {c, s} \cap missing = {} /\ aligned

\* Every retained symbol is selected or outbid by a newcomer that is.
Accounted(selected, S, missing, aligned) ==
  /\ selected \subseteq Retained(S, missing) \cup Qualified(S, missing)
  /\ \A s \in Retained(S, missing) : s \in selected \/ Outbid(s, selected, S, missing, aligned)

\* There are scores to compare.
ScoresInv == scores \in [Universe -> Seq(Int)]

\* Who outbids one that outbids another outbids that one too: the margins add up.
LEMMA OutbidsTransitive ==
  ASSUME ScoresInv, NEW x \in Universe, NEW y \in Universe, NEW z \in Universe,
         Outbids(x, y), Outbids(y, z)
  PROVE  Outbids(x, z)
<1>1. ReplacementBars \in Nat \ {0}
  BY SelectionAssumption
<1>2. ASSUME NEW s \in Universe, Len(scores[s]) >= ReplacementBars,
             NEW i \in 0 .. ReplacementBars - 1
      PROVE  scores[s][Len(scores[s]) - i] \in Int
  <2>1. PICK q \in Seq(Int) : q = scores[s]
    BY DEF ScoresInv
  <2>2. PICK n \in Nat : n = Len(q)
    BY <2>1
  <2>3. n - i \in 1 .. n
    BY <1>1, <1>2, <2>1, <2>2
  <2> QED
    BY <2>1, <2>2, <2>3, ElementOfSeq
<1>3. ASSUME NEW i \in 0 .. ReplacementBars - 1
      PROVE  scores[x][Len(scores[x]) - i] >= scores[z][Len(scores[z]) - i] + ReplacementMargin
  <2>1. PICK a \in Int : a = scores[x][Len(scores[x]) - i]
    BY <1>2 DEF Outbids
  <2>2. PICK b \in Int : b = scores[y][Len(scores[y]) - i]
    BY <1>2 DEF Outbids
  <2>3. PICK c \in Int : c = scores[z][Len(scores[z]) - i]
    BY <1>2 DEF Outbids
  <2>4. a >= b + ReplacementMargin /\ b >= c + ReplacementMargin
    BY <2>1, <2>2, <2>3 DEF Outbids
  <2>5. a >= c + ReplacementMargin
    BY <2>4 DEF ReplacementMargin
  <2> QED
    BY <2>1, <2>3, <2>5
<1> QED
  BY <1>3 DEF Outbids

\* A challenger that takes a place accounts for whom it takes it from, and for whom that one had.
LEMMA ChallengeAccounted ==
  ASSUME ScoresInv, version \in {"3.0.0", "4.0.0"}, NEW S, S \subseteq Universe,
         NEW missing, NEW aligned, NEW selected, Accounted(selected, S, missing, aligned),
         Retained(S, missing) \subseteq S, NEW c \in Qualified(S, missing)
  PROVE  Accounted(Challenged(selected, c, missing, aligned), S, missing, aligned)
<1> DEFINE w     == Weakest(selected, missing)
           after == (selected \ {w}) \cup {c}
           R     == Retained(S, missing)
           Q     == Qualified(S, missing)
<1>1. CASE ~ (selected # {} /\ Replaces(c, w, missing, aligned))
  BY <1>1 DEF Challenged
<1>2. CASE selected # {} /\ Replaces(c, w, missing, aligned)
  <2>1. Challenged(selected, c, missing, aligned) = after
    BY <1>2 DEF Challenged
  <2>2. aligned /\ w \notin missing /\ Outbids(c, w)
    BY <1>2 DEF Replaces
  <2>3. c \in Universe /\ c \notin missing /\ c \notin S
    BY DEF Qualified
  <2> HIDE DEF w
  <2>4. after \subseteq R \cup Q
    BY DEF Accounted
  <2>5. ASSUME NEW s \in R
        PROVE  s \in after \/ Outbid(s, after, S, missing, aligned)
    <3>1. CASE s = w
      BY <2>2, <2>3, <3>1 DEF Outbid
    <3>2. CASE s # w /\ s \in selected
      BY <3>2
    <3>3. CASE s \notin selected
      <4>1. PICK d \in selected \ S : Outbids(d, s) /\ {d, s} \cap missing = {} /\ aligned
        BY <3>3 DEF Accounted, Outbid
      <4>2. CASE d # w
        BY <4>1, <4>2 DEF Outbid
      <4>3. CASE d = w
        <5>1. d \in Universe /\ s \in Universe
          BY <4>1 DEF Accounted, Qualified
        <5>2. Outbids(c, s)
          BY <2>2, <2>3, <4>1, <4>3, <5>1, OutbidsTransitive
        <5> QED
          BY <2>3, <4>1, <5>2 DEF Outbid
      <4> QED
        BY <4>2, <4>3
    <3> QED
      BY <3>1, <3>2, <3>3
  <2> QED
    BY <2>1, <2>4, <2>5 DEF Accounted
<1> QED
  BY <1>1, <1>2

\* ... and so do all of them, one after the other.
LEMMA RotationAccounted ==
  ASSUME ScoresInv, version \in {"3.0.0", "4.0.0"}, NEW S, S \subseteq Universe,
         NEW missing, NEW aligned, NEW base, Accounted(base, S, missing, aligned),
         Retained(S, missing) \subseteq S, NEW q \in Seq(Qualified(S, missing))
  PROVE  Accounted(Rotated(q, base, missing, aligned), S, missing, aligned)
<1> DEFINE D    == DOMAIN q
           Good == {turn \in (SUBSET D) \X SUBSET (Retained(S, missing) \cup Qualified(S, missing)) :
                      Accounted(turn[2], S, missing, aligned)}
<1>1. \A i \in D : q[i] \in Qualified(S, missing)
  BY ElementOfSeq
<1> HIDE DEF D
<1>2. <<{}, base>> \in Good
  BY DEF Accounted
<1>3. ASSUME NEW s \in SUBSET D, s # {}, NEW selected, <<s \ {Max(s)}, selected>> \in Good,
             Max(s) \in s
      PROVE  <<s, Challenged(selected, q[Max(s)], missing, aligned)>> \in Good
  <2>1. Accounted(selected, S, missing, aligned) /\ q[Max(s)] \in Qualified(S, missing)
    BY <1>1, <1>3
  <2>2. Accounted(Challenged(selected, q[Max(s)], missing, aligned), S, missing, aligned)
    BY <2>1, ChallengeAccounted
  <2> QED
    BY <2>2 DEF Accounted
<1> HIDE DEF Good
<1>4. TurnsKeep(Good, q, missing, aligned)
  BY <1>3, Zenon DEF TurnsKeep, D
<1>5. <<D, Rotated(q, base, missing, aligned)>> \in Good
  BY <1>2, <1>4, RotationInduction DEF D
<1> QED
  BY <1>5 DEF Good

(***************************************************************************)
(* The selection.                                                          *)
(***************************************************************************)
\* The inductive invariant: from the first bar on every symbol has a score.
SelectionInv ==
  /\ ScoresInv
  /\ slots \in Nat
  /\ regimes # <<>> => \A s \in Universe : Len(scores[s]) >= 1
  /\ held \subseteq Universe

LEMMA ScoreType ==
  ASSUME NEW bar \in Bars, NEW s \in Universe
  PROVE  ScoreOf(bar.components[s]) \in Int
<1> DEFINE c == bar.components[s]
           composite == 28 * c.trend + 18 * c.short + 22 * c.medium + 10 * c.reversion
                        + 12 * c.breakout + 10 * c.volume * SignOf(c.medium) - 12 * c.volatility
<1>1. /\ c.trend \in Int /\ c.short \in Int /\ c.medium \in Int /\ c.reversion \in Int
      /\ c.breakout \in Int /\ c.volume \in Int /\ c.volatility \in Int
  BY SelectionAssumption DEF Universe
<1> HIDE DEF c
<1>2. SignOf(c.medium) \in Int
  BY DEF SignOf
<1>3. composite \in Int
  BY <1>1, <1>2
<1>4. ASSUME NEW n \in Int PROVE Max({n, -100}) \in Int
  <2>1. \E x \in {n, -100} : \A y \in {n, -100} : x >= y
    OBVIOUS
  <2>2. Max({n, -100}) \in {n, -100}
    BY <2>1 DEF Max
  <2> QED
    BY <2>2
<1> HIDE DEF composite
<1>5. Max({composite, -100}) \in Int
  BY <1>3, <1>4
<1> QED
  BY <1>5 DEF ScoreOf, composite, c

LEMMA ScoreWindow ==
  ASSUME NEW q \in Seq(Int), NEW x \in Int, NEW n \in Nat \ {0}
  PROVE  Window(q, x, n) \in Seq(Int) /\ Len(Window(q, x, n)) >= 1
<1>1. PICK a \in Seq(Int) : a = Append(q, x) /\ Len(a) = Len(q) + 1
  BY AppendProperties
<1>2. PICK m \in Nat \ {0} : m = Len(a) /\ m = Len(q) + 1
  BY <1>1
<1>3. PICK from \in {1, 2} : from = (IF Len(q) < n THEN 1 ELSE 2) /\ from <= m
  BY <1>2
<1>4. \A i \in from .. m : a[i] \in Int
  <2>1. \A i \in from .. m : i \in 1 .. m
    BY <1>3
  <2> QED
    BY <1>2, <2>1, ElementOfSeq
<1>5. SubSeq(a, from, m) \in Seq(Int) /\ Len(SubSeq(a, from, m)) = m - from + 1
  <2>1. from \in Int /\ m \in Int
    BY <1>2, <1>3
  <2> QED
    BY <1>3, <1>4, <2>1, SubSeqProperties
<1>6. Window(q, x, n) = SubSeq(a, from, m)
  BY <1>1, <1>2, <1>3, Zenon DEF Window
<1> QED
  BY <1>3, <1>5, <1>6

\* A ranking is divided into the first n and the rest.
LEMMA Divided ==
  ASSUME NEW R, NEW q \in Seq(R), NEW n \in Nat
  PROVE  LET first == ToSet(First(q, n))
             rest  == SubSeq(q, n + 1, Len(q))
         IN  /\ rest \in Seq(R)
             /\ first \cup ToSet(rest) = ToSet(q)
             /\ \A x \in first : \E i \in 1 .. Len(q) : i <= n /\ x = q[i]
             /\ \A i \in DOMAIN rest : rest[i] = q[n + i] /\ n + i \in 1 .. Len(q)
             /\ Len(q) <= n => DOMAIN rest = {}
             /\ n <= Len(q) => \A i \in 1 .. n : q[i] \in first
<1> DEFINE f     == First(q, n)
           first == ToSet(f)
           rest  == SubSeq(q, n + 1, Len(q))
<1>1. PICK k \in Nat : k = Len(q) /\ DOMAIN q = 1 .. k
  OBVIOUS
<1>2. PICK m \in Nat : /\ m <= n /\ m <= k /\ (k <= n => m = k) /\ (n <= k => m = n)
                       /\ f = SubSeq(q, 1, m)
  <2>1. CASE n < k
    BY <1>1, <2>1 DEF First
  <2>2. CASE ~ (n < k)
    BY <1>1, <2>2 DEF First
  <2> QED
    BY <2>1, <2>2
<1> HIDE DEF f
<1>3. \A i \in 1 .. k : q[i] \in R
  BY <1>1, ElementOfSeq
<1>4. f \in Seq(R) /\ DOMAIN f = 1 .. m /\ \A i \in 1 .. m : f[i] = q[i]
  <2>1. \A i \in 1 .. m : q[i] \in R
    BY <1>2, <1>3
  <2>2. /\ f \in Seq(R) /\ Len(f) = IF 1 <= m THEN m - 1 + 1 ELSE 0
        /\ \A i \in 1 .. m - 1 + 1 : f[i] = q[1 + i - 1]
    BY <1>2, <2>1, SubSeqProperties, 1 \in Int, m \in Int
  <2>3. Len(f) = m
    BY <2>2
  <2>4. \A i \in 1 .. m : i \in 1 .. m - 1 + 1 /\ 1 + i - 1 = i
    OBVIOUS
  <2> QED
    BY <2>2, <2>3, <2>4
<1>5. /\ rest \in Seq(R) /\ Len(rest) = IF n + 1 <= k THEN k - (n + 1) + 1 ELSE 0
      /\ \A i \in 1 .. k - (n + 1) + 1 : rest[i] = q[(n + 1) + i - 1]
  <2>1. \A i \in n + 1 .. k : q[i] \in R
    BY <1>3
  <2>2. n + 1 \in Int /\ k \in Int
    OBVIOUS
  <2> QED
    BY <1>1, <2>1, <2>2, SubSeqProperties
<1>6. PICK l \in Nat : /\ l = Len(rest) /\ l = (IF n < k THEN k - n ELSE 0)
                       /\ DOMAIN rest = 1 .. l
  <2>1. Len(rest) = IF n < k THEN k - n ELSE 0
    BY <1>5
  <2>2. DOMAIN rest = 1 .. Len(rest)
    BY <1>5
  <2>3. (IF n < k THEN k - n ELSE 0) \in Nat
    OBVIOUS
  <2> HIDE DEF rest
  <2> QED
    BY <2>1, <2>2, <2>3, Zenon
<1> HIDE DEF rest
<1>7. ASSUME NEW i \in 1 .. l PROVE rest[i] = q[n + i] /\ n + i \in 1 .. k
  <2>1. i \in 1 .. k - (n + 1) + 1 /\ (n + 1) + i - 1 = n + i /\ n + i \in 1 .. k
    BY <1>6
  <2> QED
    BY <1>5, <2>1
<1>8. ASSUME NEW j \in 1 .. k PROVE \/ j \in 1 .. m
                                    \/ \E i \in 1 .. l : j = n + i
  <2>1. CASE j <= n
    BY <1>2, <2>1
  <2>2. CASE ~ (j <= n)
    <3>1. j - n \in 1 .. l /\ j = n + (j - n)
      BY <1>6, <2>2
    <3> QED
      BY <3>1
  <2> QED
    BY <2>1, <2>2
<1>9. first \cup ToSet(rest) = ToSet(q)
  <2>1. ToSet(q) = {q[j] : j \in 1 .. k} /\ first = {f[i] : i \in 1 .. m}
        /\ ToSet(rest) = {rest[i] : i \in 1 .. l}
    BY <1>1, <1>4, <1>6, Zenon DEF ToSet
  <2>2. \A i \in 1 .. m : i \in 1 .. k
    BY <1>2
  <2>3. ASSUME NEW j \in 1 .. k PROVE q[j] \in first \/ q[j] \in ToSet(rest)
    <3>1. ASSUME j \in 1 .. m PROVE q[j] \in first
      BY <1>4, <2>1, <3>1
    <3>2. ASSUME NEW i \in 1 .. l, j = n + i PROVE q[j] \in ToSet(rest)
      BY <1>7, <2>1, <3>2
    <3> QED
      BY <1>8, <3>1, <3>2
  <2>4. (\A i \in 1 .. m : f[i] \in ToSet(q)) /\ \A i \in 1 .. l : rest[i] \in ToSet(q)
    BY <1>4, <1>7, <2>1, <2>2
  <2> HIDE DEF first
  <2> QED
    BY <2>1, <2>3, <2>4
<1>10. \A x \in first : \E i \in 1 .. k : i <= n /\ x = q[i]
  <2>1. \A i \in 1 .. m : i \in 1 .. k /\ i <= n
    BY <1>2
  <2> QED
    BY <1>4, <2>1 DEF ToSet
<1>11. n <= k => \A i \in 1 .. n : q[i] \in first
  <2>1. n <= k => \A i \in 1 .. n : i \in 1 .. m
    BY <1>2
  <2> QED
    BY <1>4, <2>1 DEF ToSet
<1>12. k <= n => DOMAIN rest = {}
  BY <1>6
<1> QED
  BY <1>1, <1>5, <1>6, <1>7, <1>9, <1>10, <1>11, <1>12 DEF f, rest

(***************************************************************************)
(* What the selection is made of.                                          *)
(***************************************************************************)
Free(S, missing) == slots - Cardinality(Retained(S, missing))

\* The selection before any challenger has its turn, and the challengers that have one.
Base(S, missing) ==
  Retained(S, missing) \cup ToSet(First(Challengers(S, missing), Free(S, missing)))

Rest(S, missing) ==
  SubSeq(Challengers(S, missing), Free(S, missing) + 1, Len(Challengers(S, missing)))

LEMMA SelectedIs ==
  ASSUME version # "1.0.0", NEW S, NEW missing, NEW aligned
  PROVE  Selected(S, missing, aligned) = Rotated(Rest(S, missing), Base(S, missing), missing, aligned)
BY Zenon DEF Selected, Rotated, Rest, Base, Free

LEMMA StandingType ==
  ASSUME SelectionInv, regimes # <<>>, NEW missing, NEW s \in Universe
  PROVE  Score(s) \in Int /\ Standing(s, missing) \in Int
<1>1. PICK q \in Seq(Int) : q = scores[s] /\ Len(q) >= 1
  BY DEF SelectionInv, ScoresInv
<1>2. Last(q) \in Int
  BY <1>1 DEF Last
<1> QED
  BY <1>1, <1>2 DEF Standing, Score, RetentionScore

\* Who is retained: all that are kept if there are places for them.
LEMMA RetainedOf ==
  ASSUME SelectionInv, regimes # <<>>, NEW S, S \subseteq Universe, NEW missing
  PROVE  LET K == Kept(S, missing)
             R == Retained(S, missing)
         IN  /\ Scored(K, missing) /\ IsFiniteSet(K)
             /\ R \subseteq K
             /\ Cardinality(K) <= slots => R = K
             /\ IsFiniteSet(R) /\ Cardinality(R) \in Nat /\ Cardinality(R) <= slots
             /\ Free(S, missing) \in Nat /\ slots \in Nat
<1> DEFINE K == Kept(S, missing)
           R == Retained(S, missing)
<1>1. slots \in Nat
  BY DEF SelectionInv
<1>2. Scored(K, missing)
  BY StandingType DEF Scored, Kept
<1>3. R = ToSet(First(Ranked(K, missing), slots))
  BY DEF Retained, Kept
<1>4. /\ Ranked(K, missing) \in Seq(K) /\ ToSet(Ranked(K, missing)) = K /\ IsFiniteSet(K)
      /\ Len(Ranked(K, missing)) = Cardinality(K)
  BY <1>2, RankedAll
<1> HIDE DEF K, R
<1>5. /\ R \subseteq K
      /\ Cardinality(K) <= slots => R = K
      /\ IsFiniteSet(R) /\ Cardinality(R) <= slots
  BY <1>1, <1>3, <1>4, FirstOf
<1>6. Cardinality(R) \in Nat
  BY <1>5, FS_CardinalityType
<1>7. Free(S, missing) \in Nat
  BY <1>1, <1>5, <1>6 DEF Free, R
<1> QED
  BY <1>1, <1>2, <1>4, <1>5, <1>6, <1>7 DEF K, R

\* Who has a turn: the challengers there is no place for.
LEMMA ChallengersOf ==
  ASSUME SelectionInv, regimes # <<>>, NEW S, S \subseteq Universe, NEW missing
  PROVE  LET Q == Qualified(S, missing)
             c == Challengers(S, missing)
         IN  /\ Q \subseteq Universe /\ Q \cap missing = {} /\ Q \cap Retained(S, missing) = {}
             /\ Scored(Q, missing) /\ IsFiniteSet(Q)
             /\ c \in Seq(Q) /\ ToSet(c) = Q /\ Len(c) = Cardinality(Q)
             /\ \A n, m \in 1 .. Len(c) : n < m => Ahead(c[n], c[m], missing)
             /\ Rest(S, missing) \in Seq(Q)
             /\ ToSet(First(c, Free(S, missing))) \subseteq Q
<1> DEFINE Q == Qualified(S, missing)
           c == Challengers(S, missing)
           f == Free(S, missing)
<1>1. Q \subseteq Universe /\ Q \cap missing = {} /\ Q \cap Retained(S, missing) = {}
  <2>1. Retained(S, missing) \subseteq S
    BY RetainedOf DEF Kept
  <2> QED
    BY <2>1 DEF Qualified
<1>2. Scored(Q, missing)
  BY <1>1, StandingType DEF Scored
<1>3. c = Ranked(Q, missing)
  BY DEF Challengers, Qualified
<1>4. f \in Nat
  BY RetainedOf
<1> HIDE DEF Q, c
<1>5. /\ c \in Seq(Q) /\ ToSet(c) = Q /\ Len(c) = Cardinality(Q) /\ IsFiniteSet(Q)
      /\ \A n, m \in 1 .. Len(c) : n < m => Ahead(c[n], c[m], missing)
  BY <1>2, <1>3, RankedAll
<1>6. SubSeq(c, f + 1, Len(c)) \in Seq(Q) /\ ToSet(First(c, f)) \subseteq Q
  <2> HIDE DEF f
  <2> QED
    BY <1>4, <1>5, Divided
<1> QED
  BY <1>1, <1>2, <1>5, <1>6 DEF Q, c, Rest

\* With a place for each of the symbols held, they go for a cause; only confirmed ones come.
LEMMA SelectedForCause ==
  ASSUME SelectionInv, regimes # <<>>, version \in {"3.0.0", "4.0.0"},
         NEW S, S \subseteq Universe, NEW missing, NEW aligned
  PROVE  LET selected == Selected(S, missing, aligned)
         IN  /\ \A s \in S \ selected :
                  \/ Cardinality(S) > slots
                  \/ s \notin missing /\ Below(s, ExitBars, RetentionScore)
                  \/ Outbid(s, selected, S, missing, aligned)
             /\ \A c \in selected \ S : AtLeast(c, EntryBars, EntryScore)
<1> DEFINE K        == Kept(S, missing)
           Q        == Qualified(S, missing)
           retained == Retained(S, missing)
           base     == Base(S, missing)
           rest     == Rest(S, missing)
           selected == Selected(S, missing, aligned)
<1>1. /\ retained \subseteq K /\ K \subseteq S
      /\ Cardinality(K) <= slots => retained = K
  BY RetainedOf DEF Kept
<1>2. rest \in Seq(Q) /\ base \subseteq retained \cup Q /\ retained \subseteq base
  BY ChallengersOf DEF Base
<1>3. Accounted(selected, S, missing, aligned)
  <2>1. Accounted(base, S, missing, aligned) /\ retained \subseteq S
    <3> HIDE DEF base
    <3> QED
      BY <1>1, <1>2 DEF Accounted
  <2>2. selected = Rotated(rest, base, missing, aligned)
    BY SelectedIs
  <2> HIDE DEF base, rest, selected
  <2> QED
    BY <1>2, <2>1, <2>2, RotationAccounted DEF SelectionInv
<1> HIDE DEF selected, retained
<1>4. selected \subseteq K \cup Q
  BY <1>1, <1>3 DEF Accounted, retained
<1>5. ASSUME NEW s \in S \ selected, ~ (Cardinality(S) > slots)
      PROVE  \/ s \notin missing /\ Below(s, ExitBars, RetentionScore)
             \/ Outbid(s, selected, S, missing, aligned)
  <2>1. CASE s \notin K
    BY <2>1 DEF Kept, ExitConfirmed
  <2>2. CASE s \in K
    <3>1. Cardinality(K) <= slots
      <4>1. IsFiniteSet(S) /\ K \in SUBSET S
        BY <1>1, UniverseFinite, FS_Subset
      <4>2. /\ Cardinality(K) <= Cardinality(S) /\ Cardinality(S) \in Nat
            /\ Cardinality(K) \in Nat /\ slots \in Nat
        <5>1. slots \in Nat
          BY DEF SelectionInv
        <5> HIDE DEF K
        <5> QED
          BY <4>1, <5>1, FS_Subset, FS_CardinalityType
      <4> HIDE DEF K
      <4> QED
        BY <1>5, <4>2
    <3>2. s \in retained
      BY <1>1, <2>2, <3>1
    <3> QED
      BY <1>3, <3>2 DEF Accounted, retained
  <2> QED
    BY <2>1, <2>2
<1>6. \A c \in selected \ S : AtLeast(c, EntryBars, EntryScore)
  BY <1>1, <1>4 DEF Qualified
<1> QED
  BY <1>5, <1>6 DEF selected

(***************************************************************************)
(* A decision that is repeated.                                            *)
(***************************************************************************)
\* As many come first as are counted.
LEMMA FirstCount ==
  ASSUME NEW R, NEW q \in Seq(R), NEW n \in Nat, n <= Len(q),
         \A i, j \in 1 .. Len(q) : q[i] = q[j] => i = j
  PROVE  Cardinality(ToSet(First(q, n))) = n
<1> DEFINE first == ToSet(First(q, n))
           turn  == [i \in 1 .. n |-> q[i]]
<1>1. PICK k \in Nat : k = Len(q) /\ n <= k
  OBVIOUS
<1>2. /\ \A x \in first : \E i \in 1 .. k : i <= n /\ x = q[i]
      /\ \A i \in 1 .. n : q[i] \in first
  BY <1>1, Divided
<1> HIDE DEF first
<1>3. turn \in Surjection(1 .. n, first)
  <2>1. \A x \in first : \E i \in 1 .. n : turn[i] = x
    BY <1>2
  <2> QED
    BY <1>2, <2>1 DEF Surjection
<1>4. \A i, j \in 1 .. n : turn[i] = turn[j] => i = j
  <2>1. \A i \in 1 .. n : i \in 1 .. k
    BY <1>1
  <2> QED
    BY <1>1, <2>1
<1> HIDE DEF turn
<1>5. turn \in Injection(1 .. n, first)
  BY <1>3, <1>4 DEF Injection, Surjection, IsInjective
<1>6. IsFiniteSet(1 .. n) /\ Cardinality(1 .. n) = n
  <2>1. 1 \in Int /\ n \in Int /\ (IF 1 > n THEN 0 ELSE n - 1 + 1) = n
    OBVIOUS
  <2> QED
    BY <2>1, FS_Interval
<1>7. Cardinality(first) = Cardinality(1 .. n)
  BY <1>3, <1>5, <1>6, FS_Surjection
<1> QED
  BY <1>6, <1>7 DEF first

\* A ranking has every symbol once, and no later one stands higher.
LEMMA RankingOrder ==
  ASSUME NEW S, NEW missing, Scored(S, missing), NEW q, q = Ranked(S, missing)
  PROVE  /\ \A i, j \in 1 .. Len(q) : q[i] = q[j] => i = j
         /\ \A i, j \in 1 .. Len(q) :
              i < j => Standing(q[i], missing) >= Standing(q[j], missing)
<1>1. PICK k \in Nat : k = Len(q) /\ k = Cardinality(S)
  BY RankedAll, FS_CardinalityType
<1>2. \A i \in 1 .. k : q[i] \in S
  BY <1>1, RankedAll, ElementOfSeq
<1>3. \A i, j \in 1 .. k : i < j => Ahead(q[i], q[j], missing)
  BY <1>1, RankedAll
<1>4. ASSUME NEW i \in 1 .. k, NEW j \in 1 .. k, q[i] = q[j] PROVE i = j
  <2>1. ~ Ahead(q[i], q[j], missing) /\ ~ Ahead(q[j], q[i], missing)
    BY <1>2, <1>4, AheadOrder
  <2> QED
    BY <1>3, <2>1
<1>5. ASSUME NEW i \in 1 .. k, NEW j \in 1 .. k, i < j
      PROVE  Standing(q[i], missing) >= Standing(q[j], missing)
  <2>1. Standing(q[i], missing) \in Int /\ Standing(q[j], missing) \in Int
    BY <1>2 DEF Scored
  <2> QED
    BY <1>3, <1>5, <2>1 DEF Ahead
<1> QED
  BY <1>1, <1>4, <1>5

\* The weakest one exists.
LEMMA WeakestOf ==
  ASSUME NEW T, NEW missing, Scored(T, missing), T # {}
  PROVE  /\ Weakest(T, missing) \in T
         /\ \A t \in T : Standing(Weakest(T, missing), missing) <= Standing(t, missing)
<1> DEFINE q == Ranked(T, missing)
<1>1. PICK k \in Nat : k = Len(q) /\ k = Cardinality(T)
  BY RankedAll, FS_CardinalityType
<1>2. q \in Seq(T) /\ ToSet(q) = T
  BY RankedAll
<1> HIDE DEF q
<1>3. DOMAIN q = 1 .. k /\ \A i \in 1 .. k : q[i] \in T
  <2>1. DOMAIN q = 1 .. Len(q) /\ \A i \in 1 .. Len(q) : q[i] \in T
    BY <1>2, LenProperties, ElementOfSeq
  <2> QED
    BY <1>1, <2>1
<1>4. k # 0
  BY <1>2, <1>3 DEF ToSet
<1> DEFINE least == Standing(q[k], missing)
<1>5. ASSUME NEW t \in T PROVE Standing(t, missing) >= least
  <2>1. PICK i \in 1 .. k : t = q[i]
    BY <1>2, <1>3 DEF ToSet
  <2>2. i < k => Standing(q[i], missing) >= Standing(q[k], missing)
    <3>1. \A a, b \in 1 .. Len(q) : a < b => Standing(q[a], missing) >= Standing(q[b], missing)
      BY RankingOrder, Zenon DEF q
    <3>2. k \in 1 .. k
      BY <1>4
    <3> QED
      BY <1>1, <3>1, <3>2
  <2>3. Standing(q[k], missing) \in Int /\ Standing(q[i], missing) \in Int
    BY <1>3, <1>4 DEF Scored
  <2> QED
    BY <2>1, <2>2, <2>3
<1>6. q[k] \in T /\ least \in Int
  BY <1>3, <1>4 DEF Scored
<1> DEFINE Low == {t \in T : Standing(t, missing) = least}
           Positions == {Position(t) : t \in Low}
<1>7. \A t \in T : /\ t \in Universe /\ Standing(t, missing) \in Int
                   /\ Position(t) \in Nat /\ Symbols[Position(t)] = t
  BY PositionOf DEF Scored
<1>8. Positions \subseteq Nat /\ Positions # {}
  BY <1>6, <1>7
<1>9. PICK p \in Positions : \A o \in Positions : p <= o
  <2> HIDE DEF Positions
  <2> QED
    BY <1>8, LeastNumber
<1>10. PICK w \in Low : Position(w) = p
  OBVIOUS
<1>11. \A t \in T \ {w} : \/ Standing(w, missing) < Standing(t, missing)
                          \/ /\ Standing(w, missing) = Standing(t, missing)
                             /\ Position(w) < Position(t)
  <2> SUFFICES ASSUME NEW t \in T \ {w}, ~ (Standing(w, missing) < Standing(t, missing))
               PROVE  /\ Standing(w, missing) = Standing(t, missing)
                      /\ Position(w) < Position(t)
    OBVIOUS
  <2>1. t \in Low
    <3> HIDE DEF least
    <3> QED
      BY <1>5, <1>6, <1>7
  <2>2. p <= Position(t)
    BY <1>9, <2>1
  <2>3. Position(w) # Position(t)
    BY <1>7, <1>10
  <2> QED
    BY <1>7, <1>10, <2>1, <2>2, <2>3
<1>12. PICK v : /\ v = Weakest(T, missing) /\ v \in T
                /\ \A t \in T \ {v} : \/ Standing(v, missing) < Standing(t, missing)
                                      \/ /\ Standing(v, missing) = Standing(t, missing)
                                         /\ Position(v) < Position(t)
  <2>1. w \in T
    OBVIOUS
  <2> HIDE DEF Low
  <2> QED
    BY <1>11, <2>1, Zenon DEF Weakest
<1> HIDE DEF Low, Positions
<1>13. ASSUME NEW t \in T PROVE Standing(v, missing) <= Standing(t, missing)
  BY <1>7, <1>12
<1> QED
  BY <1>12, <1>13

\* Who replaces another stands higher by the margin, and could replace whoever that one could.
LEMMA ReplacesBetter ==
  ASSUME SelectionInv, regimes # <<>>, NEW missing, NEW aligned,
         NEW c \in Universe, NEW w \in Universe, Replaces(c, w, missing, aligned)
  PROVE  Score(c) >= Standing(w, missing) + ReplacementMargin
<1>1. CASE version = "2.0.0"
  BY <1>1 DEF Replaces
<1>2. CASE version # "2.0.0"
  <2>1. w \notin missing /\ Outbids(c, w)
    BY <1>2 DEF Replaces
  <2>2. 0 \in 0 .. ReplacementBars - 1
    BY SelectionAssumption
  <2>3. ASSUME NEW s \in Universe PROVE scores[s][Len(scores[s]) - 0] = Score(s)
    <3>1. PICK q \in Seq(Int) : q = scores[s]
      BY DEF SelectionInv, ScoresInv
    <3>2. Len(q) - 0 = Len(q)
      BY <3>1
    <3> QED
      BY <3>1, <3>2 DEF Score, Last
  <2>4. scores[c][Len(scores[c]) - 0] >= scores[w][Len(scores[w]) - 0] + ReplacementMargin
    BY <2>1, <2>2, Zenon DEF Outbids
  <2>5. Score(c) >= Score(w) + ReplacementMargin
    BY <2>3, <2>4, Zenon
  <2> QED
    BY <2>1, <2>5 DEF Standing
<1> QED
  BY <1>1, <1>2

LEMMA ReplacesTransitive ==
  ASSUME SelectionInv, regimes # <<>>, NEW missing, NEW aligned,
         NEW d \in Universe, NEW c \in Universe, NEW w \in Universe, c \notin missing,
         Replaces(d, c, missing, aligned), Replaces(c, w, missing, aligned)
  PROVE  Replaces(d, w, missing, aligned)
<1>1. CASE version = "2.0.0"
  <2>1. /\ Score(d) \in Int /\ Score(c) \in Int /\ Standing(w, missing) \in Int
        /\ Standing(c, missing) = Score(c)
    BY StandingType DEF Standing
  <2>2. /\ Score(d) >= Standing(c, missing) + ReplacementMargin
        /\ Score(c) >= Standing(w, missing) + ReplacementMargin
    BY <1>1 DEF Replaces
  <2>3. Score(d) >= Standing(w, missing) + ReplacementMargin
    BY <2>1, <2>2 DEF ReplacementMargin
  <2> QED
    BY <1>1, <2>3 DEF Replaces
<1>2. CASE version # "2.0.0"
  BY <1>2, OutbidsTransitive DEF Replaces, SelectionInv
<1> QED
  BY <1>1, <1>2

\* The selection before the turns: it is full if somebody has a turn or somebody was cut, and who
\* was cut stands no higher than who was not.
LEMMA BaseOf ==
  ASSUME SelectionInv, regimes # <<>>, NEW S, S \subseteq Universe, NEW missing
  PROVE  LET K == Kept(S, missing)
             Q == Qualified(S, missing)
             B == Base(S, missing)
             r == Rest(S, missing)
         IN  /\ B \subseteq K \cup Q /\ IsFiniteSet(B) /\ Cardinality(B) <= slots
             /\ Cardinality(B) \in Nat
             /\ DOMAIN r # {} => Cardinality(B) = slots
             /\ Q \subseteq B \cup ToSet(r)
             /\ \A i \in DOMAIN r : r[i] \notin B
             /\ \A i, j \in DOMAIN r : r[i] = r[j] => i = j
             /\ K \subseteq B \/ Cardinality(B) = slots
             /\ \A h \in K \ B : \A x \in B : Standing(x, missing) >= Standing(h, missing)
<1> DEFINE K     == Kept(S, missing)
           Q     == Qualified(S, missing)
           R     == Retained(S, missing)
           B     == Base(S, missing)
           r     == Rest(S, missing)
           c     == Challengers(S, missing)
           first == ToSet(First(c, Free(S, missing)))
<1>1. /\ Scored(K, missing) /\ IsFiniteSet(K) /\ R \subseteq K
      /\ Cardinality(K) <= slots => R = K
      /\ IsFiniteSet(R) /\ Cardinality(R) \in Nat /\ Cardinality(R) <= slots /\ slots \in Nat
  BY RetainedOf
<1>2. PICK f \in Nat : f = Free(S, missing) /\ f = slots - Cardinality(R)
  BY RetainedOf DEF Free
<1>3. /\ Scored(Q, missing) /\ IsFiniteSet(Q) /\ Q \cap R = {}
      /\ c \in Seq(Q) /\ ToSet(c) = Q /\ Len(c) = Cardinality(Q)
      /\ c = Ranked(Q, missing) /\ first \subseteq Q
  BY ChallengersOf DEF Challengers, Qualified
<1>4. B = R \cup first /\ r = SubSeq(c, f + 1, Len(c)) /\ first = ToSet(First(c, f))
  BY <1>2 DEF Base, Rest
<1>5. \A i, j \in 1 .. Len(c) : c[i] = c[j] => i = j
  <2> HIDE DEF c, Q
  <2> QED
    BY <1>3, RankingOrder
<1>6. PICK k \in Nat : k = Len(c)
  BY <1>3
<1> HIDE DEF c, r, B, first
<1>7. /\ first \cup ToSet(r) = Q
      /\ \A x \in first : \E i \in 1 .. k : i <= f /\ x = c[i]
      /\ \A i \in DOMAIN r : r[i] = c[f + i] /\ f + i \in 1 .. k
      /\ k <= f => DOMAIN r = {}
      /\ r \in Seq(Q)
  <2> HIDE DEF Q
  <2> QED
    BY <1>3, <1>4, <1>6, Divided
<1>8. IsFiniteSet(first) /\ Cardinality(first) <= f /\ Cardinality(first) \in Nat
  <2>1. IsFiniteSet(first) /\ Cardinality(first) <= f
    <3> HIDE DEF Q
    <3> QED
      BY <1>3, <1>4, FirstOf
  <2> QED
    BY <2>1, FS_CardinalityType
<1>9. f <= k => Cardinality(first) = f
  <2> HIDE DEF Q
  <2> QED
    BY <1>3, <1>4, <1>5, <1>6, FirstCount
<1>10. /\ IsFiniteSet(B) /\ Cardinality(B) \in Nat
       /\ Cardinality(B) = Cardinality(R) + Cardinality(first)
  <2>1. R \cap first = {} /\ Cardinality({}) = 0
    BY <1>3, FS_EmptySet
  <2>2. /\ IsFiniteSet(B)
        /\ Cardinality(B) = Cardinality(R) + Cardinality(first) - Cardinality(R \cap first)
    <3> HIDE DEF R
    <3> QED
      BY <1>1, <1>4, <1>8, FS_Union
  <2>3. Cardinality(B) = Cardinality(R) + Cardinality(first)
    <3>1. Cardinality(R \cap first) = 0
      BY <2>1
    <3> HIDE DEF R
    <3> QED
      BY <1>1, <1>8, <2>2, <3>1
  <2> HIDE DEF R
  <2> QED
    BY <1>1, <1>8, <2>2, <2>3
<1>11. Cardinality(B) <= slots
  BY <1>1, <1>2, <1>8, <1>10
<1>12. DOMAIN r # {} => Cardinality(B) = slots
  <2>1. DOMAIN r # {} => f <= k
    BY <1>7
  <2> HIDE DEF R
  <2> QED
    BY <1>1, <1>2, <1>9, <1>10, <2>1
<1>13. DOMAIN r = 1 .. Len(r) /\ Len(r) \in Nat
  BY <1>7
<1>14. ASSUME NEW i \in DOMAIN r PROVE r[i] \notin B
  <2>1. r[i] \in Q /\ r[i] \notin R
    BY <1>3, <1>7, <1>13, ElementOfSeq
  <2>2. ASSUME r[i] \in first PROVE FALSE
    <3>1. PICK j \in 1 .. k : j <= f /\ r[i] = c[j]
      BY <1>7, <2>2
    <3>2. r[i] = c[f + i] /\ f + i \in 1 .. k
      BY <1>7
    <3>3. j = f + i
      BY <1>5, <1>6, <3>1, <3>2
    <3> QED
      BY <1>13, <3>1, <3>3
  <2> QED
    BY <1>4, <2>1, <2>2
<1>15. ASSUME NEW i \in DOMAIN r, NEW j \in DOMAIN r, r[i] = r[j] PROVE i = j
  <2>1. c[f + i] = c[f + j] /\ f + i \in 1 .. k /\ f + j \in 1 .. k
    BY <1>7, <1>15
  <2>2. f + i = f + j
    BY <1>5, <1>6, <2>1
  <2> QED
    BY <1>13, <2>2
<1>16. ASSUME ~ (K \subseteq B)
       PROVE  /\ Cardinality(B) = slots
              /\ \A h \in K \ B : \A x \in B : Standing(x, missing) >= Standing(h, missing)
  <2>1. PICK m \in Nat : m = Cardinality(K) /\ m > slots
    <3>1. Cardinality(K) \in Nat /\ ~ (Cardinality(K) <= slots)
      <4>1. R # K
        BY <1>4, <1>16
      <4>2. Cardinality(K) \in Nat
        <5> HIDE DEF K
        <5> QED
          BY <1>1, FS_CardinalityType
      <4> QED
        BY <1>1, <4>1, <4>2
    <3> HIDE DEF K
    <3> QED
      BY <1>1, <3>1
  <2> DEFINE q == Ranked(K, missing)
  <2>2. q \in Seq(K) /\ Len(q) = m /\ ToSet(q) = K
    <3> HIDE DEF K
    <3> QED
      BY <1>1, <2>1, RankedAll
  <2>3. /\ \A i, j \in 1 .. m : q[i] = q[j] => i = j
        /\ \A i, j \in 1 .. m : i < j => Standing(q[i], missing) >= Standing(q[j], missing)
    <3> HIDE DEF K
    <3> QED
      BY <1>1, <2>2, RankingOrder
  <2>4. R = ToSet(First(q, slots))
    BY DEF Retained, Kept
  <2> HIDE DEF q, K, R
  <2>5. Cardinality(R) = slots
    BY <1>1, <2>1, <2>2, <2>3, <2>4, FirstCount
  <2>6. f = 0 /\ Cardinality(B) = slots /\ first = {}
    <3>1. f = 0
      BY <1>1, <1>2, <2>5
    <3>2. Cardinality(first) = 0
      BY <1>8, <3>1
    <3>3. first = {}
      BY <1>8, <3>2, FS_EmptySet
    <3> QED
      BY <1>1, <1>10, <2>5, <3>1, <3>2, <3>3
  <2>7. /\ \A x \in R : \E i \in 1 .. m : i <= slots /\ x = q[i]
        /\ \A i \in 1 .. slots : q[i] \in R
    BY <1>1, <2>1, <2>2, <2>4, Divided
  <2>8. ASSUME NEW h \in K \ B, NEW x \in B
        PROVE  Standing(x, missing) >= Standing(h, missing)
    <3>1. x \in R /\ h \notin R
      BY <1>4, <2>6
    <3>2. PICK i \in 1 .. m : i <= slots /\ x = q[i]
      BY <2>7, <3>1
    <3>3. DOMAIN q = 1 .. m
      BY <2>2
    <3>4. PICK j \in 1 .. m : h = q[j]
      BY <2>2, <3>3 DEF ToSet
    <3>5. j > slots
      BY <1>1, <2>7, <3>1, <3>4
    <3>6. i < j
      BY <1>1, <3>2, <3>5
    <3> QED
      BY <2>3, <3>2, <3>4, <3>6
  <2> QED
    BY <2>6, <2>8
<1>17. B \subseteq K \cup Q /\ Q \subseteq B \cup ToSet(r)
  BY <1>1, <1>3, <1>4, <1>7
<1> HIDE DEF K, Q, R
<1>18. K \subseteq B => K \ B = {}
  OBVIOUS
<1> QED
  BY <1>10, <1>11, <1>12, <1>14, <1>15, <1>16, <1>17, <1>18 DEF K, Q, B, r

\* One score decides, or there is one place.
Decisive == version = "2.0.0" \/ slots = 1

\* The selection after the turns of some of the challengers, and what it has seen: who was kept
\* once and is no longer selected stands no higher than any that is, and, if this is decisive,
\* nobody seen could replace any that is.
Settled(seen, selected, S, missing, aligned) ==
  /\ selected \subseteq seen
  /\ Cardinality(selected) = Cardinality(Base(S, missing))
  /\ \A h \in Kept(S, missing) \ selected : \A x \in selected :
       Standing(x, missing) >= Standing(h, missing)
  /\ Decisive => \A d \in seen \ selected : \A x \in selected : ~ Replaces(d, x, missing, aligned)

LEMMA ChallengeSettled ==
  ASSUME SelectionInv, regimes # <<>>, NEW S, S \subseteq Universe, NEW missing, NEW aligned,
         NEW seen, seen \subseteq Kept(S, missing) \cup Qualified(S, missing), IsFiniteSet(seen),
         NEW selected, Settled(seen, selected, S, missing, aligned),
         NEW c \in Qualified(S, missing), c \notin seen
  PROVE  Settled(seen \cup {c}, Challenged(selected, c, missing, aligned), S, missing, aligned)
<1> DEFINE w     == Weakest(selected, missing)
           after == (selected \ {w}) \cup {c}
           K     == Kept(S, missing)
           Q     == Qualified(S, missing)
           B     == Base(S, missing)
<1>1. /\ K \subseteq Universe /\ Q \subseteq Universe
      /\ \A x \in Universe : Score(x) \in Int /\ Standing(x, missing) \in Int
  BY ChallengersOf, StandingType DEF Kept
<1>2. c \in Universe /\ c \notin missing /\ Standing(c, missing) = Score(c)
  BY <1>1, ChallengersOf DEF Standing
<1>3. /\ selected \subseteq seen /\ Cardinality(selected) = Cardinality(B)
      /\ \A h \in K \ selected : \A x \in selected : Standing(x, missing) >= Standing(h, missing)
      /\ Decisive => \A d \in seen \ selected : \A x \in selected : ~ Replaces(d, x, missing, aligned)
  BY DEF Settled
<1>4. IsFiniteSet(selected) /\ Cardinality(selected) \in Nat /\ selected \subseteq Universe
  BY <1>1, <1>3, FS_Subset, FS_CardinalityType
<1>5. Cardinality(B) <= slots
  BY BaseOf
<1> HIDE DEF K, Q, B
<1>6. ASSUME selected # {}
      PROVE  w \in selected /\ \A x \in selected : Standing(w, missing) <= Standing(x, missing)
  <2>1. Scored(selected, missing)
    BY <1>1, <1>4 DEF Scored
  <2> QED
    BY <1>6, <2>1, WeakestOf
<1> HIDE DEF w
<1>7. CASE ~ (selected # {} /\ Replaces(c, w, missing, aligned))
  <2>1. Challenged(selected, c, missing, aligned) = selected
    BY <1>7 DEF Challenged, w
  <2>2. ASSUME Decisive, NEW x \in selected PROVE ~ Replaces(c, x, missing, aligned)
    <3>1. w \in selected /\ ~ Replaces(c, w, missing, aligned)
      BY <1>6, <1>7
    <3>2. CASE version = "2.0.0"
      <4>1. ~ (Score(c) >= Standing(w, missing) + ReplacementMargin)
        BY <3>1, <3>2 DEF Replaces
      <4>2. /\ Score(c) \in Int /\ Standing(w, missing) \in Int /\ Standing(x, missing) \in Int
            /\ Standing(w, missing) <= Standing(x, missing)
        BY <1>1, <1>2, <1>4, <1>6, <3>1
      <4>3. ~ (Score(c) >= Standing(x, missing) + ReplacementMargin)
        BY <4>1, <4>2 DEF ReplacementMargin
      <4> QED
        BY <3>2, <4>3 DEF Replaces
    <3>3. CASE slots = 1
      <4>1. x = w
        <5>1. Cardinality(selected) = 1
          <6>1. Cardinality(selected) # 0
            BY <1>4, <3>1, FS_EmptySet
          <6> QED
            BY <1>3, <1>4, <1>5, <3>3, <6>1
        <5>2. PICK e : selected = {e}
          BY <1>4, <5>1, FS_Singleton
        <5> QED
          BY <3>1, <5>2
      <4> QED
        BY <3>1, <4>1
    <3> QED
      BY <2>2, <3>2, <3>3 DEF Decisive
  <2>3. selected \subseteq seen \cup {c}
    BY <1>3
  <2>4. Decisive => \A d \in (seen \cup {c}) \ selected : \A x \in selected :
                      ~ Replaces(d, x, missing, aligned)
    BY <1>3, <2>2
  <2> QED
    BY <1>3, <2>1, <2>3, <2>4 DEF Settled, K, B
<1>8. CASE selected # {} /\ Replaces(c, w, missing, aligned)
  <2>1. Challenged(selected, c, missing, aligned) = after
    BY <1>8 DEF Challenged, w
  <2>2. w \in selected /\ \A x \in selected : Standing(w, missing) <= Standing(x, missing)
    BY <1>6, <1>8
  <2>3. /\ Standing(c, missing) >= Standing(w, missing) + 10
        /\ Standing(c, missing) \in Int /\ Standing(w, missing) \in Int /\ w \in Universe
    BY <1>1, <1>2, <1>4, <1>8, <2>2, ReplacesBetter DEF ReplacementMargin
  <2>4. \A x \in after : Standing(x, missing) >= Standing(w, missing) /\ x \in Universe
    BY <1>1, <1>2, <1>4, <2>2, <2>3
  <2>5. after \subseteq seen \cup {c}
    BY <1>3
  <2>6. Cardinality(after) = Cardinality(B)
    <3>1. c \notin selected /\ c \notin selected \ {w}
      BY <1>3
    <3>2. IsFiniteSet(selected \ {w}) /\ Cardinality(selected \ {w}) = Cardinality(selected) - 1
      BY <1>4, <2>2, FS_RemoveElement
    <3>3. Cardinality(after) = Cardinality(selected \ {w}) + 1
      BY <3>1, <3>2, FS_AddElement
    <3> QED
      BY <1>3, <1>4, <3>2, <3>3
  <2>7. ASSUME NEW h \in K \ after, NEW x \in after
        PROVE  Standing(x, missing) >= Standing(h, missing)
    <3>1. h \in Universe /\ Standing(h, missing) \in Int /\ Standing(x, missing) \in Int
      BY <1>1, <2>4
    <3>2. CASE h = w
      BY <2>4, <3>2
    <3>3. CASE h # w
      <4>1. h \notin selected
        BY <3>3
      <4>2. CASE x \in selected
        BY <1>3, <4>1, <4>2
      <4>3. CASE x = c
        <5>1. Standing(w, missing) >= Standing(h, missing)
          BY <1>3, <2>2, <4>1
        <5> QED
          BY <2>3, <3>1, <4>3, <5>1
      <4> QED
        BY <4>2, <4>3
    <3> QED
      BY <3>2, <3>3
  <2>8. ASSUME Decisive, NEW d \in (seen \cup {c}) \ after, NEW x \in after,
               Replaces(d, x, missing, aligned)
        PROVE  FALSE
    <3>1. d \in seen /\ d \in Universe /\ x \in Universe /\ d # c
      <4>1. seen \subseteq K \cup Q
        BY DEF K, Q
      <4> QED
        BY <1>1, <2>4, <4>1
    <3>2. CASE d = w
      <4>1. w \notin missing
        <5>1. CASE version = "2.0.0"
          BY <3>1, <3>2, <5>1 DEF Kept, Qualified
        <5>2. CASE version # "2.0.0"
          BY <1>8, <5>2 DEF Replaces
        <5> QED
          BY <5>1, <5>2
      <4>2. Score(w) >= Standing(x, missing) + 10
        BY <2>8, <3>1, <3>2, ReplacesBetter DEF ReplacementMargin
      <4>3. Standing(w, missing) = Score(w)
        BY <4>1 DEF Standing
      <4>4. Standing(x, missing) \in Int /\ Standing(x, missing) >= Standing(w, missing)
        BY <1>1, <2>4
      <4> QED
        BY <2>3, <4>2, <4>3, <4>4
    <3>3. CASE d # w
      <4>1. d \in seen \ selected
        BY <3>1, <3>3
      <4>2. CASE x \in selected
        BY <1>3, <2>8, <4>1, <4>2
      <4>3. CASE x = c
        <5>1. Replaces(d, w, missing, aligned)
          BY <1>2, <1>8, <2>3, <2>8, <3>1, <4>3, ReplacesTransitive
        <5> QED
          BY <1>3, <2>2, <2>8, <4>1, <5>1
      <4> QED
        BY <4>2, <4>3
    <3> QED
      BY <3>2, <3>3
  <2> HIDE DEF after
  <2> QED
    BY <2>1, <2>5, <2>6, <2>7, <2>8 DEF Settled, K, B
<1> QED
  BY <1>7, <1>8

\* The selection after the turns, and those turns' challengers.
Seen(turns, S, missing) == Base(S, missing) \cup {Rest(S, missing)[i] : i \in turns}

\* All turns taken: the places are full or nobody is left out; who is, was no better.
LEMMA SelectionSettles ==
  ASSUME SelectionInv, regimes # <<>>, version # "1.0.0",
         NEW S, S \subseteq Universe, NEW missing, NEW aligned
  PROVE  LET K == Kept(S, missing)
             Q == Qualified(S, missing)
             W == Selected(S, missing, aligned)
         IN  /\ W \subseteq K \cup Q /\ W \subseteq Universe
             /\ IsFiniteSet(W) /\ Cardinality(W) \in Nat /\ Cardinality(W) <= slots
             /\ Cardinality(W) = slots \/ K \cup Q \subseteq W
             /\ \A h \in K \ W : \A x \in W : Standing(x, missing) >= Standing(h, missing)
             /\ Decisive => \A d \in Q \ W : \A x \in W : ~ Replaces(d, x, missing, aligned)
<1> DEFINE K == Kept(S, missing)
           Q == Qualified(S, missing)
           B == Base(S, missing)
           r == Rest(S, missing)
           W == Selected(S, missing, aligned)
           D == DOMAIN r
           Good == {turn \in (SUBSET D) \X SUBSET Universe :
                      Settled(Seen(turn[1], S, missing), turn[2], S, missing, aligned)}
<1>1. /\ B \subseteq K \cup Q /\ IsFiniteSet(B) /\ Cardinality(B) <= slots
      /\ Cardinality(B) \in Nat
      /\ DOMAIN r # {} => Cardinality(B) = slots
      /\ Q \subseteq B \cup ToSet(r)
      /\ \A i \in DOMAIN r : r[i] \notin B
      /\ \A i, j \in DOMAIN r : r[i] = r[j] => i = j
      /\ K \subseteq B \/ Cardinality(B) = slots
      /\ \A h \in K \ B : \A x \in B : Standing(x, missing) >= Standing(h, missing)
  BY BaseOf
<1>2. r \in Seq(Q) /\ K \cup Q \subseteq Universe /\ IsFiniteSet(K \cup Q)
  <2>1. K \subseteq Universe
    BY DEF Kept
  <2>2. r \in Seq(Q) /\ Q \subseteq Universe
    BY ChallengersOf
  <2> HIDE DEF K, Q, r
  <2> QED
    BY <2>1, <2>2, UniverseFinite, FS_Subset
<1>3. \A i \in D : r[i] \in Q
  BY <1>2, ElementOfSeq
<1>4. \A turns \in SUBSET D : Seen(turns, S, missing) = B \cup {r[i] : i \in turns}
  BY DEF Seen
<1>5. W = Rotated(r, B, missing, aligned)
  BY SelectedIs
<1> HIDE DEF K, Q, B, r, W, D
<1>6. <<{}, B>> \in Good
  <2>1. Seen({}, S, missing) = B
    BY DEF Seen, B
  <2>2. B \subseteq Universe
    BY <1>1, <1>2
  <2>3. Settled(B, B, S, missing, aligned)
    BY <1>1 DEF Settled, K, B
  <2> QED
    BY <2>1, <2>2, <2>3
<1>7. ASSUME NEW s \in SUBSET D, s # {}, NEW selected, <<s \ {Max(s)}, selected>> \in Good,
             Max(s) \in s
      PROVE  <<s, Challenged(selected, r[Max(s)], missing, aligned)>> \in Good
  <2> DEFINE before == s \ {Max(s)}
             c      == r[Max(s)]
             after  == Challenged(selected, c, missing, aligned)
             seen   == Seen(before, S, missing)
  <2>1. before \in SUBSET D /\ Max(s) \in D /\ Max(s) \notin before /\ s = before \cup {Max(s)}
    BY <1>7
  <2>2. seen = B \cup {r[i] : i \in before} /\ Seen(s, S, missing) = B \cup {r[i] : i \in s}
    BY <1>4, <2>1
  <2>3. seen \subseteq K \cup Q /\ IsFiniteSet(seen) /\ Seen(s, S, missing) = seen \cup {c}
    <3>1. seen \subseteq K \cup Q
      BY <1>1, <1>3, <2>1, <2>2
    <3>2. Seen(s, S, missing) = seen \cup {c}
      BY <2>1, <2>2
    <3> HIDE DEF seen, c
    <3> QED
      BY <1>2, <3>1, <3>2, FS_Subset
  <2>4. c \notin seen /\ c \in Q
    <3>1. c \notin {r[i] : i \in before}
      BY <1>1, <2>1 DEF D
    <3>2. c \notin B
      BY <1>1, <2>1 DEF D
    <3> QED
      BY <1>3, <2>1, <2>2, <3>1, <3>2
  <2>5. Settled(seen, selected, S, missing, aligned) /\ selected \subseteq Universe
    BY <1>7
  <2> HIDE DEF before, c, after, seen
  <2>6. Settled(seen \cup {c}, after, S, missing, aligned)
    BY <2>3, <2>4, <2>5, ChallengeSettled DEF after, K, Q
  <2>7. after \subseteq Universe
    BY <1>2, <2>4, <2>5 DEF after, Challenged
  <2> QED
    BY <2>3, <2>6, <2>7 DEF after, c
<1> HIDE DEF Good
<1>8. TurnsKeep(Good, r, missing, aligned)
  BY <1>7, Zenon DEF TurnsKeep, D
<1>9. <<D, W>> \in Good
  BY <1>2, <1>5, <1>6, <1>8, RotationInduction DEF D
<1>10. PICK seen : seen = Seen(D, S, missing) /\ Settled(seen, W, S, missing, aligned)
  BY <1>9 DEF Good
<1>11. seen \subseteq K \cup Q /\ Q \subseteq seen /\ B \subseteq seen
  <2>1. seen = B \cup {r[i] : i \in D}
    BY <1>4, <1>10
  <2>2. ToSet(r) = {r[i] : i \in D}
    BY DEF ToSet, D
  <2> QED
    BY <1>1, <1>3, <2>1, <2>2
<1>12. /\ W \subseteq seen /\ Cardinality(W) = Cardinality(B)
       /\ \A h \in K \ W : \A x \in W : Standing(x, missing) >= Standing(h, missing)
       /\ Decisive => \A d \in seen \ W : \A x \in W : ~ Replaces(d, x, missing, aligned)
  BY <1>10 DEF Settled, K, B
<1>13. W \subseteq K \cup Q /\ IsFiniteSet(W) /\ W \subseteq Universe
  BY <1>2, <1>11, <1>12, FS_Subset
<1>14. ASSUME Cardinality(W) # slots PROVE K \cup Q \subseteq W
  <2>1. DOMAIN r = {} /\ K \subseteq B
    BY <1>1, <1>12, <1>14
  <2>2. ToSet(r) = {}
    BY <2>1 DEF ToSet
  <2>3. B = K \cup Q
    BY <1>1, <2>1, <2>2
  <2>4. seen \subseteq B /\ W \subseteq B
    BY <1>11, <1>12, <2>3
  <2>5. W = B
    BY <1>1, <1>12, <2>4, FS_Subset
  <2> QED
    BY <2>3, <2>5
<1>15. Cardinality(W) \in Nat /\ Cardinality(W) <= slots
  BY <1>1, <1>12
<1>16. Decisive => \A d \in Q \ W : \A x \in W : ~ Replaces(d, x, missing, aligned)
  BY <1>11, <1>12
<1> QED
  BY <1>12, <1>13, <1>14, <1>15, <1>16 DEF K, Q, W

\* Who was above a threshold on each of the latest bars is above it now.
LEMMA ConfirmedNow ==
  ASSUME SelectionInv, NEW s, NEW n \in Nat \ {0}, NEW threshold, AtLeast(s, n, threshold),
         s \in Universe
  PROVE  Score(s) >= threshold
<1>1. PICK q \in Seq(Int) : q = scores[s]
  BY DEF SelectionInv, ScoresInv
<1>2. 0 \in 0 .. n - 1 /\ Len(q) - 0 = Len(q)
  BY <1>1
<1>3. q[Len(q) - 0] >= threshold
  BY <1>1, <1>2, Zenon DEF AtLeast
<1> QED
  BY <1>1, <1>2, <1>3 DEF Score, Last

\* Where a decision on S was filled, everything selected is retained; a challenger is one that
\* was kept or qualified before and is no longer selected.
Repeated(W, S, missing) ==
  /\ Base(W, missing) = W
  /\ Rest(W, missing) \in Seq(Qualified(W, missing))
  /\ Qualified(W, missing) \subseteq (Kept(S, missing) \cup Qualified(S, missing)) \ W
  /\ Qualified(W, missing) \subseteq Universe
  /\ Qualified(W, missing) \cap missing = {}
  /\ \A d \in Qualified(W, missing) : d \in S => d \in Kept(S, missing)

LEMMA RepeatedOf ==
  ASSUME SelectionInv, regimes # <<>>, version # "1.0.0",
         NEW S, S \subseteq Universe, NEW missing, NEW aligned,
         NEW W, W = Selected(S, missing, aligned)
  PROVE  Repeated(W, S, missing)
<1> DEFINE K == Kept(S, missing)
           Q == Qualified(S, missing)
           q == Qualified(W, missing)
<1>1. /\ W \subseteq K \cup Q /\ W \subseteq Universe
      /\ IsFiniteSet(W) /\ Cardinality(W) \in Nat /\ Cardinality(W) <= slots
      /\ Cardinality(W) = slots \/ K \cup Q \subseteq W
  BY SelectionSettles
<1>2. \A x \in Universe : AtLeast(x, EntryBars, EntryScore) => Score(x) >= EntryScore
  BY ConfirmedNow, SelectionAssumption
<1>3. \A x \in Universe : Score(x) \in Int
  BY StandingType
<1>4. Kept(W, missing) = W
  <2>1. ASSUME NEW x \in Q PROVE x \in Universe /\ x \notin missing /\ Score(x) >= RetentionScore
    <3>1. x \in Universe /\ x \notin missing /\ Score(x) >= EntryScore
      BY <1>2 DEF Qualified
    <3>2. Score(x) \in Int
      BY <1>3, <3>1
    <3> QED
      BY <3>1, <3>2 DEF EntryScore, RetentionScore
  <2>2. ASSUME NEW x \in W PROVE x \in Kept(W, missing)
    <3>1. CASE x \in K
      BY <3>1 DEF Kept
    <3>2. CASE x \in Q
      BY <2>1, <3>2 DEF Kept
    <3> QED
      BY <1>1, <3>1, <3>2
  <2>3. Kept(W, missing) \subseteq W
    BY DEF Kept
  <2> QED
    BY <2>2, <2>3
<1>5. Retained(W, missing) = W /\ Free(W, missing) \in Nat
  BY <1>1, <1>4, RetainedOf
<1>6. Free(W, missing) = slots - Cardinality(W)
  BY <1>5 DEF Free
<1>7. /\ Rest(W, missing) \in Seq(q) /\ q \subseteq Universe /\ q \cap missing = {}
      /\ Challengers(W, missing) \in Seq(q)
      /\ ToSet(First(Challengers(W, missing), Free(W, missing))) \subseteq q
  BY <1>1, ChallengersOf
<1>8. q \cap W = {}
  BY <1>5 DEF Qualified
<1>9. ASSUME NEW d \in q PROVE d \in Universe /\ d \notin missing /\ Score(d) >= EntryScore
  BY <1>2 DEF Qualified
<1>10. ASSUME NEW d \in q, d \in S PROVE d \in K
  <2>1. Score(d) >= RetentionScore
    BY <1>3, <1>9 DEF EntryScore, RetentionScore
  <2> QED
    BY <1>9, <1>10, <2>1 DEF Kept
<1>11. ASSUME NEW d \in q, d \notin S PROVE d \in Q
  <2>1. Retained(S, missing) \subseteq S
    BY RetainedOf DEF Kept
  <2> QED
    BY <1>9, <1>11, <2>1 DEF Qualified
<1> HIDE DEF K, Q, q
<1>12. q \subseteq (K \cup Q) \ W
  BY <1>8, <1>10, <1>11
<1>13. ToSet(First(Challengers(W, missing), Free(W, missing))) = {}
  <2>1. CASE Cardinality(W) = slots
    <3> DEFINE first == ToSet(First(Challengers(W, missing), Free(W, missing)))
    <3>1. Free(W, missing) = 0
      BY <1>1, <1>6, <2>1
    <3>2. IsFiniteSet(first) /\ Cardinality(first) <= 0
      BY <1>5, <1>7, <3>1, FirstOf
    <3> HIDE DEF first
    <3>3. Cardinality(first) = 0
      BY <3>2, FS_CardinalityType
    <3> QED
      BY <3>2, <3>3, FS_EmptySet DEF first
  <2>2. CASE K \cup Q \subseteq W
    BY <1>7, <1>12, <2>2
  <2> QED
    BY <1>1, <2>1, <2>2
<1>14. Base(W, missing) = W
  BY <1>5, <1>13 DEF Base
<1>15. \A d \in q : d \in S => d \in K
  BY <1>10
<1> QED
  BY <1>7, <1>12, <1>14, <1>15 DEF Repeated, K, Q, q

\* A repeated decision gives nobody a place who was kept before and has just lost it: all that
\* are selected stand as high, and a challenger stands above the one it replaces.
LEMMA NothingBack ==
  ASSUME SelectionInv, regimes # <<>>, version # "1.0.0",
         NEW S, S \subseteq Universe, NEW missing, NEW aligned,
         NEW W, W = Selected(S, missing, aligned)
  PROVE  Selected(W, missing, aligned) \cap (S \ W) = {}
<1> DEFINE K == Kept(S, missing)
           q == Qualified(W, missing)
           r == Rest(W, missing)
           D == DOMAIN r
           again == Selected(W, missing, aligned)
           Good == {turn \in (SUBSET D) \X SUBSET Universe :
                      /\ turn[2] \subseteq W \cup q
                      /\ \A h \in K \ W : h \notin turn[2] /\ \A x \in turn[2] :
                           Standing(x, missing) >= Standing(h, missing)}
<1>1. /\ Base(W, missing) = W
      /\ r \in Seq(q)
      /\ q \subseteq (K \cup Qualified(S, missing)) \ W
      /\ q \subseteq Universe
      /\ q \cap missing = {}
      /\ \A d \in q : d \in S => d \in K
  <2>1. Repeated(W, S, missing)
    BY RepeatedOf
  <2> QED
    BY <2>1 DEF Repeated
<1>2. /\ W \subseteq Universe
      /\ \A h \in K \ W : \A x \in W : Standing(x, missing) >= Standing(h, missing)
  BY SelectionSettles
<1>3. again = Rotated(r, W, missing, aligned)
  BY <1>1, SelectedIs
<1>4. \A i \in D : r[i] \in q
  BY <1>1, ElementOfSeq
<1>5. \A x \in Universe : Score(x) \in Int /\ Standing(x, missing) \in Int
  BY StandingType
<1>6. K \subseteq Universe
  BY DEF Kept
<1> HIDE DEF K, q, r, D
<1>7. <<{}, W>> \in Good
  BY <1>2
<1>8. ASSUME NEW s \in SUBSET D, s # {}, NEW selected, <<s \ {Max(s)}, selected>> \in Good,
             Max(s) \in s
      PROVE  <<s, Challenged(selected, r[Max(s)], missing, aligned)>> \in Good
  <2> DEFINE w == Weakest(selected, missing)
  <2>1. PICK c \in q : c = r[Max(s)]
    BY <1>4, <1>8
  <2>2. /\ selected \subseteq W \cup q /\ selected \subseteq Universe
        /\ \A h \in K \ W : h \notin selected /\ \A x \in selected :
             Standing(x, missing) >= Standing(h, missing)
    BY <1>8
  <2>3. CASE ~ (selected # {} /\ Replaces(c, w, missing, aligned))
    <3>1. Challenged(selected, c, missing, aligned) = selected
      BY <2>3 DEF Challenged
    <3> QED
      BY <2>1, <2>2, <3>1
  <2>4. CASE selected # {} /\ Replaces(c, w, missing, aligned)
    <3> DEFINE after == (selected \ {w}) \cup {c}
    <3>1. Challenged(selected, c, missing, aligned) = after
      BY <2>4 DEF Challenged
    <3>2. w \in selected
      <4>1. Scored(selected, missing)
        BY <1>5, <2>2 DEF Scored
      <4> QED
        BY <2>4, <4>1, WeakestOf
    <3> HIDE DEF w
    <3>3. Standing(c, missing) >= Standing(w, missing) + 10
      <4>1. Standing(c, missing) = Score(c)
        BY <1>1 DEF Standing
      <4> QED
        BY <1>1, <2>2, <2>4, <3>2, <4>1, ReplacesBetter DEF ReplacementMargin
    <3>4. ASSUME NEW h \in K \ W
          PROVE  h \notin after /\ \A x \in after : Standing(x, missing) >= Standing(h, missing)
      <4>1. /\ Standing(w, missing) >= Standing(h, missing)
            /\ Standing(w, missing) \in Int /\ Standing(h, missing) \in Int
            /\ Standing(c, missing) \in Int
        BY <1>1, <1>5, <1>6, <2>2, <3>2
      <4>2. Standing(c, missing) > Standing(h, missing)
        BY <3>3, <4>1
      <4>3. h # c
        BY <4>1, <4>2
      <4> QED
        BY <2>2, <4>1, <4>2, <4>3
    <3>5. after \subseteq W \cup q /\ after \subseteq Universe
      BY <1>1, <2>2
    <3> HIDE DEF after
    <3> QED
      BY <2>1, <3>1, <3>4, <3>5
  <2> QED
    BY <2>3, <2>4
<1> HIDE DEF Good
<1>9. TurnsKeep(Good, r, missing, aligned)
  BY <1>8, Zenon DEF TurnsKeep, D
<1>10. <<D, again>> \in Good
  BY <1>1, <1>3, <1>7, <1>9, RotationInduction DEF D
<1>11. again \subseteq W \cup q /\ \A h \in K \ W : h \notin again
  BY <1>10 DEF Good
<1> HIDE DEF again
<1>12. again \cap (S \ W) = {}
  BY <1>1, <1>11
<1> QED
  BY <1>12 DEF again

\* Where one score decides or there is one place, nobody has a turn that changes anything.
LEMMA NothingNew ==
  ASSUME SelectionInv, regimes # <<>>, version # "1.0.0", Decisive,
         NEW S, S \subseteq Universe, NEW missing, NEW aligned,
         NEW W, W = Selected(S, missing, aligned)
  PROVE  Selected(W, missing, aligned) = W
<1> DEFINE K == Kept(S, missing)
           Q == Qualified(S, missing)
           q == Qualified(W, missing)
           r == Rest(W, missing)
           D == DOMAIN r
           again == Selected(W, missing, aligned)
           Good == (SUBSET D) \X {W}
<1>1. /\ Base(W, missing) = W /\ r \in Seq(q) /\ q \subseteq (K \cup Q) \ W
      /\ q \subseteq Universe /\ q \cap missing = {}
  <2>1. Repeated(W, S, missing)
    BY RepeatedOf
  <2> QED
    BY <2>1 DEF Repeated
<1>2. /\ W \subseteq Universe
      /\ \A h \in K \ W : \A x \in W : Standing(x, missing) >= Standing(h, missing)
      /\ \A d \in Q \ W : \A x \in W : ~ Replaces(d, x, missing, aligned)
  BY SelectionSettles
<1>3. again = Rotated(r, W, missing, aligned)
  BY <1>1, SelectedIs
<1>4. \A i \in D : r[i] \in q
  BY <1>1, ElementOfSeq
<1> HIDE DEF K, Q, q, r, D
<1>5. ASSUME NEW c \in q, NEW x \in W, Replaces(c, x, missing, aligned)
      PROVE  FALSE
  <2>1. c \in K \ W
    BY <1>1, <1>2, <1>5
  <2>2. Standing(x, missing) >= Standing(c, missing) /\ Standing(c, missing) = Score(c)
    BY <1>1, <1>2, <2>1 DEF Standing
  <2>3. Score(c) >= Standing(x, missing) + ReplacementMargin
    BY <1>1, <1>2, <1>5, ReplacesBetter
  <2>4. Score(c) \in Int /\ Standing(x, missing) \in Int
    BY <1>1, <1>2, StandingType
  <2> QED
    BY <2>2, <2>3, <2>4 DEF ReplacementMargin
<1>6. ASSUME NEW c \in q PROVE Challenged(W, c, missing, aligned) = W
  <2>1. ASSUME W # {} PROVE Weakest(W, missing) \in W
    <3>1. Scored(W, missing)
      BY <1>2, StandingType DEF Scored
    <3> QED
      BY <2>1, <3>1, WeakestOf
  <2> QED
    BY <1>5, <2>1 DEF Challenged
<1>7. <<{}, W>> \in Good
  OBVIOUS
<1>8. ASSUME NEW s \in SUBSET D, s # {}, NEW selected, <<s \ {Max(s)}, selected>> \in Good,
             Max(s) \in s
      PROVE  <<s, Challenged(selected, r[Max(s)], missing, aligned)>> \in Good
  <2>1. selected = W /\ r[Max(s)] \in q
    BY <1>4, <1>8
  <2>2. Challenged(selected, r[Max(s)], missing, aligned) = W
    BY <1>6, <2>1
  <2> QED
    BY <2>2
<1> HIDE DEF Good
<1>9. TurnsKeep(Good, r, missing, aligned)
  BY <1>8, Zenon DEF TurnsKeep, D
<1>10. <<D, again>> \in Good
  BY <1>1, <1>3, <1>7, <1>9, RotationInduction DEF D
<1> QED
  BY <1>10 DEF Good, again

\* What is selected can be ranked, in every version.
LEMMA SelectedScored ==
  ASSUME SelectionInv, regimes # <<>>, NEW S, S \subseteq Universe, NEW missing, NEW aligned
  PROVE  LET selected == Selected(S, missing, aligned)
         IN  selected \subseteq Universe /\ Scored(selected, missing)
<1> DEFINE selected == Selected(S, missing, aligned)
<1>1. CASE version = "1.0.0"
  <2> DEFINE eligible == {s \in Universe \ missing : Score(s) >= MinimumScore}
  <2>1. Scored(eligible, missing) /\ eligible \subseteq Universe
    BY StandingType DEF Scored
  <2>2. selected = ToSet(First(Ranked(eligible, missing), slots))
    BY <1>1 DEF Selected
  <2> HIDE DEF eligible
  <2>3. Ranked(eligible, missing) \in Seq(eligible) /\ ToSet(Ranked(eligible, missing)) = eligible
    BY <2>1, RankedAll
  <2>4. slots \in Nat
    BY DEF SelectionInv
  <2>5. selected \subseteq eligible
    BY <2>2, <2>3, <2>4, FirstOf
  <2> QED
    BY <2>1, <2>5 DEF Scored
<1>2. CASE version # "1.0.0"
  <2>1. selected \subseteq Universe
    BY <1>2, SelectionSettles
  <2> QED
    BY <2>1, StandingType DEF Scored
<1> QED
  BY <1>1, <1>2

\* Only a shock leaves nothing to invest.
LEMMA BudgetLeft ==
  ASSUME NEW regime \in Raw, regime # "SHOCK"
  PROVE  RiskBudget(regime) # Zero
<1>1. ASSUME NEW n \in {70, 40, 15} PROVE Dec(n, -2).c > 0
  <2>1. n \in Int /\ n > 0 /\ -2 \in Int
    OBVIOUS
  <2> QED
    BY <2>1, DecOf
<1>2. Zero.c = 0
  BY ZeroOne
<1> QED
  BY <1>1, <1>2 DEF RiskBudget, Raw

LEMMA RegimeRaw == HistoryInv => Regime \in Raw
<1> SUFFICES ASSUME HistoryInv PROVE Regime \in Raw
  OBVIOUS
<1>1. ASSUME regimes # <<>> PROVE Last(regimes) \in Raw
  <2>1. regimes \in Seq(Raw)
    BY DEF HistoryInv
  <2> QED
    BY <1>1, <2>1 DEF Last
<1>2. Persistent \in Raw
  BY <1>1 DEF Persistent, Raw
<1> QED
  BY <1>1, <1>2 DEF Regime, Raw

\* What is wanted of a decision is what was selected, if there is anything to invest.
LEMMA WantedOf ==
  ASSUME NEW selected, NEW missing, Scored(selected, missing), NEW budget,
         target' = TargetFor(selected, missing, budget)
  PROVE  Wanted' \subseteq selected /\ (budget # Zero => Wanted' = selected)
<1>1. CASE budget = Zero \/ selected = {}
  <2>1. Wanted' = DOMAIN <<>>
    BY <1>1 DEF Wanted, TargetFor, InCash
  <2> QED
    BY <1>1, <2>1
<1>2. CASE ~ (budget = Zero \/ selected = {})
  <2>1. target'.weights = Weights(selected, missing, budget)
    BY <1>2 DEF TargetFor
  <2>2. DOMAIN Weights(selected, missing, budget) = selected
    <3>1. CASE version = "1.0.0"
      <4> DEFINE ranked == Ranked(selected, missing)
      <4>1. ToSet(ranked) = selected
        BY RankedAll
      <4>2. Weights(selected, missing, budget) = Proportional(ranked, budget)
        BY <3>1 DEF Weights
      <4> HIDE DEF ranked
      <4> DEFINE total == FoldLeft(LAMBDA n, s : n + Score(s), 0, ranked)
                 share == [s \in ToSet(ranked) |->
                             Quotient(Product(budget, Hundredths(Score(s))), Hundredths(total))]
                 last  == Difference(budget, SumOf(share, Front(ranked)))
      <4>3. Proportional(ranked, budget) = [share EXCEPT ![Last(ranked)] = last]
        BY Zenon DEF Proportional
      <4> HIDE DEF total
      <4>4. DOMAIN share = ToSet(ranked)
        OBVIOUS
      <4> HIDE DEF share, last
      <4>5. DOMAIN [share EXCEPT ![Last(ranked)] = last] = DOMAIN share
        OBVIOUS
      <4> QED
        BY <4>1, <4>2, <4>3, <4>4, <4>5
    <3>2. CASE version # "1.0.0"
      BY <3>2 DEF Weights
    <3> QED
      BY <3>1, <3>2
  <2> QED
    BY <2>1, <2>2 DEF Wanted
<1> QED
  BY <1>1, <1>2

LEMMA InitSelection == Init => SelectionInv
<1> SUFFICES ASSUME Init PROVE SelectionInv
  OBVIOUS
<1>1. slots \in Nat
  BY SelectionAssumption DEF Init
<1>2. <<>> \in Seq(Int)
  OBVIOUS
<1>3. ScoresInv
  BY <1>2, Zenon DEF Init, ScoresInv
<1> QED
  BY <1>1, <1>3 DEF Init, SelectionInv

LEMMA BarSelection ==
  ASSUME SelectionInv, CompleteBar
  PROVE  SelectionInv'
<1>1. PICK bar \in Bars :
        scores' = [s \in Universe |-> Window(scores[s], ScoreOf(bar.components[s]), ScoreBars)]
  BY DEF CompleteBar
<1>2. ScoreBars \in Nat \ {0}
  BY SelectionAssumption DEF ScoreBars
<1>3. ASSUME NEW s \in Universe
      PROVE  scores'[s] \in Seq(Int) /\ Len(scores'[s]) >= 1
  <2>1. scores[s] \in Seq(Int) /\ ScoreOf(bar.components[s]) \in Int
    BY ScoreType DEF SelectionInv, ScoresInv
  <2> QED
    BY <1>1, <1>2, <2>1, ScoreWindow
<1>4. scores' \in [Universe -> Seq(Int)]
  BY <1>1, <1>3
<1> QED
  BY <1>3, <1>4 DEF CompleteBar, SelectionInv, ScoresInv, Universe

\* A decision: what it selects, and what becomes of it.
LEMMA DecisionOf ==
  ASSUME SelectionInv, NEW context \in Contexts, Decide(context)
  PROVE  LET selected == Selected(held, context.missing, context.aligned)
         IN  /\ regimes # <<>> /\ held \subseteq Universe /\ selected \subseteq Universe
             /\ decided' = context
             /\ Wanted' \subseteq selected
             /\ RiskBudget(Regime) # Zero => Wanted' = selected
<1> DEFINE selected == Selected(held, context.missing, context.aligned)
           budget   == RiskBudget(Regime)
<1>1. regimes # <<>> /\ held \subseteq Universe
  BY DEF SelectionInv, Decide
<1>2. selected \subseteq Universe /\ Scored(selected, context.missing)
  BY <1>1, SelectedScored
<1>3. decided' = context /\ target' = TargetFor(selected, context.missing, budget)
  BY DEF Decide
<1> HIDE DEF selected, budget
<1>4. Wanted' \subseteq selected /\ (budget # Zero => Wanted' = selected)
  BY <1>2, <1>3, WantedOf
<1> QED
  BY <1>1, <1>2, <1>3, <1>4 DEF selected, budget

LEMMA DecisionSelection ==
  ASSUME SelectionInv, NEW context \in Contexts, Decide(context)
  PROVE  SelectionInv'
<1>1. PICK W : W = Wanted' /\ W \subseteq Universe
  BY DecisionOf
<1>2. held' \subseteq Universe
  <2>1. PICK rest \in SUBSET (held \cup W) : held' = (held \cap W) \cup rest
    BY <1>1 DEF Decide
  <2> QED
    BY <1>1, <2>1 DEF SelectionInv
<1> QED
  BY <1>2 DEF Decide, SelectionInv, ScoresInv, Universe

\* The invariant is inductive.
LEMMA SelectionStep ==
  ASSUME HistoryInv, SelectionInv, [Next]_vars
  PROVE  (HistoryInv /\ SelectionInv)'
<1>1. CASE CompleteBar
  BY <1>1, BarRefines, BarSelection
<1>2. ASSUME NEW context \in Contexts, Decide(context)
      PROVE  (HistoryInv /\ SelectionInv)'
  <2>1. HistoryInv'
    BY <1>2, DecisionStutters DEF Decide
  <2> QED
    BY <1>2, <2>1, DecisionSelection
<1>3. CASE UNCHANGED vars
  BY <1>3 DEF vars, HistoryInv, SelectionInv, ScoresInv, Universe
<1> QED
  BY <1>1, <1>2, <1>3 DEF Next

\* The property of a step.
CauseNext ==
  decided = Pending /\ decided' # Pending /\ version \in {"3.0.0", "4.0.0"} =>
    /\ \A s \in held \ Wanted' :
         \/ Regime = "SHOCK"
         \/ Cardinality(held) > slots
         \/ s \notin decided'.missing /\ Below(s, ExitBars, RetentionScore)
         \/ \E c \in Wanted' \ held :
              Outbids(c, s) /\ {c, s} \cap decided'.missing = {} /\ decided'.aligned
    /\ \A c \in Wanted' \ held : AtLeast(c, EntryBars, EntryScore)

LEMMA DecisionForCause ==
  ASSUME HistoryInv, SelectionInv, NEW context \in Contexts, Decide(context)
  PROVE  CauseNext
<1> SUFFICES ASSUME version \in {"3.0.0", "4.0.0"}
             PROVE  CauseNext
  BY DEF CauseNext
<1> DEFINE selected == Selected(held, context.missing, context.aligned)
<1>1. /\ regimes # <<>> /\ held \subseteq Universe /\ decided' = context
      /\ Wanted' \subseteq selected /\ (RiskBudget(Regime) # Zero => Wanted' = selected)
  BY DecisionOf
<1>2. /\ \A s \in held \ selected :
           \/ Cardinality(held) > slots
           \/ s \notin context.missing /\ Below(s, ExitBars, RetentionScore)
           \/ Outbid(s, selected, held, context.missing, context.aligned)
      /\ \A c \in selected \ held : AtLeast(c, EntryBars, EntryScore)
  BY <1>1, SelectedForCause
<1> HIDE DEF selected
<1>3. CASE Regime = "SHOCK"
  BY <1>1, <1>2, <1>3 DEF CauseNext
<1>4. CASE Regime # "SHOCK"
  <2>1. Wanted' = selected
    BY <1>1, <1>4, RegimeRaw, BudgetLeft
  <2> QED
    BY <1>1, <1>2, <2>1 DEF CauseNext, Outbid
<1> QED
  BY <1>3, <1>4

\* The property of a step, for a decision that is repeated.
RestNext ==
  decided = Pending /\ decided' # Pending /\ RiskBudget(Regime) # Zero =>
    LET again == Selected(Wanted', decided'.missing, decided'.aligned)
    IN  /\ again \cap (held \ Wanted') = {}
        /\ version \in {"1.0.0", "2.0.0"} \/ slots = 1 => again = Wanted'

LEMMA DecisionRests ==
  ASSUME SelectionInv, NEW context \in Contexts, Decide(context)
  PROVE  RestNext
<1> SUFFICES ASSUME RiskBudget(Regime) # Zero
             PROVE  RestNext
  BY DEF RestNext
<1>1. PICK W : W = Wanted' /\ W = Selected(held, context.missing, context.aligned)
  BY DecisionOf
<1>2. regimes # <<>> /\ held \subseteq Universe /\ decided' = context
  BY DecisionOf
<1> DEFINE again == Selected(W, context.missing, context.aligned)
<1>3. again \cap (held \ W) = {} /\ (version \in {"1.0.0", "2.0.0"} \/ slots = 1 => again = W)
  <2>1. CASE version = "1.0.0"
    <3>1. again = W
      BY <1>1, <2>1 DEF Selected
    <3> HIDE DEF again
    <3> QED
      BY <3>1
  <2>2. CASE version # "1.0.0"
    <3>1. again \cap (held \ W) = {}
      BY <1>1, <1>2, <2>2, NothingBack
    <3>2. Decisive => again = W
      BY <1>1, <1>2, <2>2, NothingNew
    <3> HIDE DEF again
    <3> QED
      BY <2>2, <3>1, <3>2 DEF Decisive
  <2> QED
    BY <2>1, <2>2
<1> HIDE DEF again
<1>4. Selected(Wanted', decided'.missing, decided'.aligned) = again
  BY <1>1, <1>2 DEF again
<1> QED
  BY <1>1, <1>3, <1>4 DEF RestNext

\* Versions 3.0.0 and 4.0.0 turn positions over for causes that lasted only, for any universe,
\* any scores, any number of places and of confirming bars, whatever is held.
THEOREM Causes == Spec => ChangesHaveCause
<1>1. Init => HistoryInv /\ SelectionInv
  BY InitRefines, InitSelection
<1>2. ASSUME HistoryInv /\ SelectionInv, [Next]_vars
      PROVE  (HistoryInv /\ SelectionInv)' /\ [CauseNext]_vars
  <2>1. CASE CompleteBar
    <3>1. CauseNext
      BY <2>1 DEF CompleteBar, CauseNext
    <3> QED
      BY <1>2, <3>1, SelectionStep
  <2>2. ASSUME NEW context \in Contexts, Decide(context)
        PROVE  CauseNext
    BY <1>2, <2>2, DecisionForCause
  <2> QED
    BY <1>2, <2>1, <2>2, SelectionStep DEF Next
<1>3. [][CauseNext]_vars <=> ChangesHaveCause
  BY DEF CauseNext, ChangesHaveCause
<1> QED
  BY <1>1, <1>2, <1>3, PTL DEF Spec

\* A decision repeated on its own outcome takes nothing back, and where one score decides or
\* there is one place it is the same: for any universe, scores, places, bars and context.
THEOREM AtRest == Spec => DecisionsAtRest
<1>1. Init => HistoryInv /\ SelectionInv
  BY InitRefines, InitSelection
<1>2. ASSUME HistoryInv /\ SelectionInv, [Next]_vars
      PROVE  (HistoryInv /\ SelectionInv)' /\ [RestNext]_vars
  <2>1. CASE CompleteBar
    <3>1. RestNext
      BY <2>1 DEF CompleteBar, RestNext
    <3> QED
      BY <1>2, <3>1, SelectionStep
  <2>2. ASSUME NEW context \in Contexts, Decide(context)
        PROVE  RestNext
    BY <1>2, <2>2, DecisionRests
  <2> QED
    BY <1>2, <2>1, <2>2, SelectionStep DEF Next
<1>3. [][RestNext]_vars <=> DecisionsAtRest
  BY DEF RestNext, DecisionsAtRest
<1> QED
  BY <1>1, <1>2, <1>3, PTL DEF Spec

=============================================================================
