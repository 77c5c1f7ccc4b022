------------------------------ MODULE MCRegimes ------------------------------
(***************************************************************************)
(* A bounded instance of Regimes: four symbols for one place or for two,   *)
(* every version, bars at the edges of the regimes, scores around the      *)
(* thresholds and exactly a margin apart.  Four symbols are two positions  *)
(* and two challengers: the second one meets what the first one left.      *)
(***************************************************************************)
EXTENDS Regimes

Four == <<"AAA", "BBB", "CCC", "DDD">>

Bench(change, drawdown, range, belowSlow, rising) ==
  [change |-> change, drawdown |-> drawdown, range |-> range,
   belowSlow |-> belowSlow, rising |-> rising]

Neutral == Bench(-39, -79, 49, FALSE, TRUE)

Edges ==
  {Bench(0, -49, 34, FALSE, TRUE),      \* RISK_ON
   Bench(0, -50, 0, TRUE, FALSE),       \* RISK_OFF
   Bench(-40, -49, 0, FALSE, TRUE)}     \* SHOCK

Comp(t, s, m, r, b, v, p) ==
  [trend |-> t, short |-> s, medium |-> m, reversion |-> r, breakout |-> b,
   volume |-> v, volatility |-> p]

\* Scores of 0, 18, 28 and 38: below every threshold, between them, above them.
S0  == Comp(0, 0, 0, 0, 0, 1, 0)
S18 == Comp(0, 0, 1, 1, -1, 1, 1)
S28 == Comp(1, 0, 0, 0, 0, 0, 0)
S38 == Comp(1, 0, 0, 1, 0, 0, 0)

Each(a, b, c, d) == ("AAA" :> a) @@ ("BBB" :> b) @@ ("CCC" :> c) @@ ("DDD" :> d)

\* Two that fade and two that come and go; the edges of the regimes with one mix of them.
FourBars ==
  {[benchmark |-> Neutral, components |-> Each(a, b, c, d)] :
     a \in {S18, S28}, b \in {S18, S28}, c \in {S0, S28}, d \in {S0, S28, S38}}
  \cup {[benchmark |-> edge, components |-> Each(S28, S18, S0, S38)] : edge \in Edges}

Cases ==
  {[missing |-> {}, aligned |-> TRUE], [missing |-> {}, aligned |-> FALSE],
   [missing |-> {"AAA", "DDD"}, aligned |-> TRUE], [missing |-> ToSet(Four), aligned |-> TRUE]}

=============================================================================
