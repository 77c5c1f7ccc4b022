------------------------------- MODULE Regimes -------------------------------
(***************************************************************************)
(* The strategies of the milestones M4 to M7 (strategies/baseline.py,      *)
(* persistent.py, confirmed.py, regime_persistent.py): which symbols they  *)
(* want, and how much of the account, as bars complete and orders fill in  *)
(* part.  Each version extends the one before it; a run has one version.   *)
(*                                                                         *)
(* A bar is known by what the strategies compare of it: the benchmark's    *)
(* return, drawdown and range in thousandths and how its averages lie, and *)
(* the clamped components of a symbol's score.  Scores are hundredths.     *)
(* How a component follows from prices, and the benchmark's own shares,    *)
(* which no version proposes, are left out.                                *)
(***************************************************************************)
EXTENDS Decimals, SequencesExt, Functions

CONSTANTS
  Symbols,                \* the universe without the benchmark, in alphabetical order
  Bars,                   \* what a bar may look like: the benchmark, each symbol's components
  Contexts,               \* which symbols lack history, and whether timestamps agree
  Versions,               \* the strategy_versions of the run
  Slots,                  \* the max_positions of the run
  RegimeBars,             \* regime_confirmation_bars
  EntryBars, ExitBars, ReplacementBars

ASSUME RegimeBarsAssumption == RegimeBars \in Nat \ {0}

\* The types the configurations check when they are made; components are numbers.
ASSUME SelectionAssumption ==
  /\ Symbols \in Seq(ToSet(Symbols))
  /\ Slots \subseteq Nat
  /\ {EntryBars, ExitBars, ReplacementBars} \subseteq Nat \ {0}
  /\ \A bar \in Bars : \A s \in ToSet(Symbols) :
       LET c == bar.components[s]
       IN  {c.trend, c.short, c.medium, c.reversion, c.breakout, c.volume, c.volatility} \subseteq Int

MinimumScore == 15
EntryScore == 25
RetentionScore == 5
ReplacementMargin == 10

VARIABLES
  version, slots,
  regimes,          \* the raw regimes of the latest benchmark bars
  scores,           \* the scores of the latest bars of each symbol, as many as are looked at
  held,             \* the symbols the portfolio has a position in
  target,           \* the target of the latest bar: weights and cash weight
  decided           \* the context of the latest bar's decision, or Pending

vars == <<version, slots, regimes, scores, held, target, decided>>

Universe == ToSet(Symbols)

(***************************************************************************)
(* The regime.                                                             *)
(***************************************************************************)
RawRegime(bar) ==
  IF bar.change <= -40 \/ bar.drawdown <= -120 \/ bar.range >= 50 THEN "SHOCK"
  ELSE IF bar.drawdown <= -80 \/ (bar.belowSlow /\ bar.drawdown <= -50) THEN "RISK_OFF"
  ELSE IF bar.rising /\ bar.drawdown > -50 /\ bar.range < 35 THEN "RISK_ON"
  ELSE "NEUTRAL"

\* Plausible bug: an adverse bar is forgotten with the next one.
LatestOnly ==
  IF regimes = <<>> THEN "NEUTRAL"
  ELSE IF Last(regimes) \in {"SHOCK", "RISK_OFF"} THEN Last(regimes)
  ELSE IF Len(regimes) = RegimeBars /\ ToSet(regimes) = {"RISK_ON"} THEN "RISK_ON"
  ELSE "NEUTRAL"

\* Version 4.0.0: the regime that follows from the history at hand.
Persistent ==
  IF regimes = <<>> THEN "NEUTRAL"
  ELSE IF Last(regimes) \in {"SHOCK", "RISK_OFF"} THEN Last(regimes)
  ELSE IF Len(regimes) < RegimeBars THEN "NEUTRAL"
  ELSE IF ToSet(regimes) = {"RISK_ON"} THEN "RISK_ON"
  ELSE IF ToSet(regimes) \cap {"SHOCK", "RISK_OFF"} # {} THEN "RISK_OFF"
  ELSE "NEUTRAL"

Regime == IF version = "4.0.0" THEN Persistent
          ELSE IF regimes = <<>> THEN "NEUTRAL" ELSE Last(regimes)

RiskBudget(regime) ==
  CASE regime = "RISK_ON"  -> Dec(70, -2)
    [] regime = "NEUTRAL"  -> Dec(40, -2)
    [] regime = "RISK_OFF" -> Dec(15, -2)
    [] regime = "SHOCK"    -> Zero

(***************************************************************************)
(* The scores.                                                             *)
(***************************************************************************)
SignOf(n) == IF n > 0 THEN 1 ELSE IF n < 0 THEN -1 ELSE 0

ScoreOf(c) ==
  LET composite == 28 * c.trend + 18 * c.short + 22 * c.medium + 10 * c.reversion
                   + 12 * c.breakout + 10 * c.volume * SignOf(c.medium) - 12 * c.volatility
  IN  Max({composite, -100})

Score(s) == Last(scores[s])

\* The scores of the last n bars of s reached the threshold, or stayed below it.
AtLeast(s, n, threshold) ==
  Len(scores[s]) >= n /\ \A i \in 0 .. n - 1 : scores[s][Len(scores[s]) - i] >= threshold

Below(s, n, threshold) ==
  Len(scores[s]) >= n /\ \A i \in 0 .. n - 1 : scores[s][Len(scores[s]) - i] < threshold

\* A confirmed exit.  Plausible bug: one bad bar is enough.
BelowNow(s) == Score(s) < RetentionScore

ExitConfirmed(s) == Below(s, ExitBars, RetentionScore)

\* Plausible bug: a better score of today is enough.
BetterNow(c, w) == Score(c) >= Score(w)

Outbids(c, w) ==
  /\ Len(scores[c]) >= ReplacementBars /\ Len(scores[w]) >= ReplacementBars
  /\ \A i \in 0 .. ReplacementBars - 1 :
       scores[c][Len(scores[c]) - i] >= scores[w][Len(scores[w]) - i] + ReplacementMargin

(***************************************************************************)
(* The selection, given the symbols held, the symbols that have too little *)
(* history in this context to have a score, and whether the latest bars of *)
(* the symbols have the same timestamps.  (run_cycle skips a bar at which  *)
(* any symbol lacks a quote.)                                              *)
(***************************************************************************)
Position(s) == SelectInSeq(Symbols, LAMBDA x : x = s)

\* Version 3.0.0 gives a held symbol without a score the retention score.
Standing(s, missing) == IF s \in missing THEN RetentionScore ELSE Score(s)

Ahead(s, t, missing) ==
  \/ Standing(s, missing) > Standing(t, missing)
  \/ Standing(s, missing) = Standing(t, missing) /\ Position(s) < Position(t)

\* The n-th is the one that has n - 1 ahead of it.
Ranked(S, missing) ==
  LET ahead == [s \in S |-> Cardinality({t \in S : Ahead(t, s, missing)})]
  IN  [n \in 1 .. Cardinality(S) |-> CHOOSE s \in S : ahead[s] = n - 1]

First(seq, n) == SubSeq(seq, 1, IF n < Len(seq) THEN n ELSE Len(seq))

\* The lowest score, of equal ones the first symbol.
Weakest(S, missing) ==
  CHOOSE s \in S : \A t \in S \ {s} :
    \/ Standing(s, missing) < Standing(t, missing)
    \/ Standing(s, missing) = Standing(t, missing) /\ Position(s) < Position(t)

\* A challenger takes the place of the weakest of those selected.
Replaces(c, w, missing, aligned) ==
  IF version = "2.0.0" THEN Score(c) >= Standing(w, missing) + ReplacementMargin
  ELSE aligned /\ w \notin missing /\ Outbids(c, w)

Challenged(selected, c, missing, aligned) ==
  LET w == Weakest(selected, missing)
  IN  IF selected # {} /\ Replaces(c, w, missing, aligned)
      THEN (selected \ {w}) \cup {c} ELSE selected

\* Incumbents stay, in version 3.0.0 until their exit is confirmed.
Retained(S, missing) ==
  ToSet(First(Ranked(
    IF version = "2.0.0" THEN {s \in S \ missing : Score(s) >= RetentionScore}
    ELSE {s \in S : s \in missing \/ Score(s) >= RetentionScore \/ ~ExitConfirmed(s)},
    missing), slots))

Challengers(S, missing) ==
  Ranked(IF version = "2.0.0"
         THEN {s \in Universe \ (missing \cup Retained(S, missing)) : Score(s) >= EntryScore}
         ELSE {s \in Universe \ (missing \cup S) : AtLeast(s, EntryBars, EntryScore)},
         missing)

Selected(S, missing, aligned) ==
  IF version = "1.0.0"
  THEN ToSet(First(Ranked({s \in Universe \ missing : Score(s) >= MinimumScore}, missing), slots))
  ELSE LET retained    == Retained(S, missing)
           challengers == Challengers(S, missing)
           free        == slots - Cardinality(retained)
           rest        == SubSeq(challengers, free + 1, Len(challengers))
       IN  FoldLeft(LAMBDA selected, c : Challenged(selected, c, missing, aligned),
                    retained \cup ToSet(First(challengers, free)), rest)

(***************************************************************************)
(* The target.                                                             *)
(***************************************************************************)
Hundredths(n) == Dec(n, -2)

SumOf(weights, ranked) == FoldLeft(LAMBDA sum, s : Plus(sum, weights[s]), Zero, ranked)

\* Plausible bug: the last weight is computed like the others.
ProportionalAll(ranked, budget) ==
  LET total == FoldLeft(LAMBDA n, s : n + Score(s), 0, ranked)
  IN  [s \in ToSet(ranked) |-> Quotient(Product(budget, Hundredths(Score(s))), Hundredths(total))]

\* Version 1.0.0: in proportion to the scores, the last one gets the remainder.
Proportional(ranked, budget) ==
  LET total == FoldLeft(LAMBDA n, s : n + Score(s), 0, ranked)
      share == [s \in ToSet(ranked) |->
                  Quotient(Product(budget, Hundredths(Score(s))), Hundredths(total))]
  IN  [share EXCEPT ![Last(ranked)] = Difference(budget, SumOf(share, Front(ranked)))]

Weights(selected, missing, budget) ==
  IF version = "1.0.0" THEN Proportional(Ranked(selected, missing), budget)
  ELSE [s \in selected |-> Quotient(budget, Dec(Cardinality(selected), 0))]

InCash == [weights |-> <<>>, cash |-> One]

TargetFor(selected, missing, budget) ==
  IF budget = Zero \/ selected = {} THEN InCash
  ELSE [weights |-> Weights(selected, missing, budget), cash |-> Difference(One, budget)]

Wanted == DOMAIN target.weights

(***************************************************************************)
(* The steps.                                                              *)
(***************************************************************************)
Pending == [pending |-> TRUE]

\* The strategy is installed; the history may be short.
Init ==
  /\ version \in Versions /\ slots \in Slots
  /\ regimes = <<>> /\ scores = [s \in Universe |-> <<>>]
  /\ held = {} /\ target = InCash /\ decided = Pending

\* How many scores a version looks at.
ScoreBars == IF version \in {"1.0.0", "2.0.0"} THEN 1 ELSE ExitBars

Window(seq, x, n) == SubSeq(Append(seq, x), IF Len(seq) < n THEN 1 ELSE 2, Len(seq) + 1)

\* A bar completes.  With less than regime_slow_period bars, which is more than confirm a
\* regime, the regime is NEUTRAL.
CompleteBar ==
  /\ decided # Pending \/ regimes = <<>>
  /\ \E bar \in Bars :
       /\ Len(regimes) < RegimeBars => RawRegime(bar.benchmark) = "NEUTRAL"
       /\ regimes' = Window(regimes, RawRegime(bar.benchmark), RegimeBars)
       /\ scores' = [s \in Universe |-> Window(scores[s], ScoreOf(bar.components[s]), ScoreBars)]
  /\ target' = InCash
  /\ decided' = Pending
  /\ UNCHANGED <<version, slots, held>>

\* generate_target, and what becomes of the orders: what stays wanted stays held, the rest of
\* the sales and purchases may be done or not.
Decide(context) ==
  /\ decided = Pending /\ regimes # <<>>
  /\ decided' = context
  /\ target' = TargetFor(Selected(held, context.missing, context.aligned),
                         context.missing, RiskBudget(Regime))
  /\ held' \in {(held \cap Wanted') \cup rest : rest \in SUBSET (held \cup Wanted')}
  /\ UNCHANGED <<version, slots, regimes, scores>>

Next == CompleteBar \/ \E context \in Contexts : Decide(context)

Spec == Init /\ [][Next]_vars

(***************************************************************************)
(* What it promises.                                                       *)
(***************************************************************************)
\* TargetPortfolio's validators accept every target: the weights are in [0, 1] and, summed in
\* their order, make exactly 1 with the cash weight, however the shares were rounded.
TargetsAccepted ==
  /\ \A s \in Wanted : Zero \preceq target.weights[s] /\ target.weights[s] \preceq One
  /\ Plus(SumOf(target.weights, SelectSeq(Symbols, LAMBDA s : s \in Wanted)), target.cash) = One

\* Positions are given up and taken for a cause that lasted, over every mix of held symbols that
\* partly filled rotations leave: a shock, more positions than slots, a confirmed exit or a
\* challenger that was better by the margin on every bar; a new one was confirmed on every bar.
ChangesHaveCause ==
  [][decided = Pending /\ decided' # Pending /\ version \in {"3.0.0", "4.0.0"} =>
       /\ \A s \in held \ Wanted' :
            \/ Regime = "SHOCK"
            \/ Cardinality(held) > slots
            \/ s \notin decided'.missing /\ Below(s, ExitBars, RetentionScore)
            \/ \E c \in Wanted' \ held :
                 Outbids(c, s) /\ {c, s} \cap decided'.missing = {} /\ decided'.aligned
       /\ \A c \in Wanted' \ held : AtLeast(c, EntryBars, EntryScore)]_vars

\* Asked again about the same bar, with its own target filled, the strategy takes nothing back
\* that it has just given up; where one score decides or there is one place, it wants just what
\* it wanted.  (With several places and bars to outbid on, a challenger that the weakest withstood
\* may outbid the one that is the weakest after a later challenger's turn.)
DecisionsAtRest ==
  [][decided = Pending /\ decided' # Pending /\ RiskBudget(Regime) # Zero =>
       LET again == Selected(Wanted', decided'.missing, decided'.aligned)
       IN  /\ again \cap (held \ Wanted') = {}
           /\ version \in {"1.0.0", "2.0.0"} \/ slots = 1 => again = Wanted']_vars

\* How many of the latest bars were in S without a break.
Trailing(window, S) ==
  LET others == {i \in DOMAIN window : window[i] \notin S}
  IN  Len(window) - (IF others = {} THEN 0 ELSE Max(others))

CalmBars == Trailing(regimes, {"RISK_ON", "NEUTRAL"})

Latch == INSTANCE RegimeLatch WITH
  Confirmation <- RegimeBars,
  calm <- IF CalmBars = Len(regimes) THEN RegimeBars ELSE CalmBars,
  on <- Trailing(regimes, {"RISK_ON"}),
  effective <- Persistent

\* Computed anew from the history in every process, version 4.0.0's regime is the one counters
\* would give that no restart resets: no restart shortens or manufactures a confirmation.
RegimePersists == Latch!LatchSpec

=============================================================================
