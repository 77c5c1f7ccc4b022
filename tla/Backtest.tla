------------------------------ MODULE Backtest ------------------------------
(***************************************************************************)
(* The replay of a strategy over completed bars (backtest/engine.py) with  *)
(* the strategy and the policy of the M8 validation: the low frequency     *)
(* momentum strategy (strategies/low_frequency.py) and the economic        *)
(* rebalance plan.  A decision sees the bars up to its own; what it        *)
(* decides is done at the open of the benchmark's next bar, sales first,   *)
(* at the open's price and slippage.                                       *)
(*                                                                         *)
(* The history is chosen bar by bar.  A candidate may have no bar where    *)
(* the benchmark has one.  Amounts are the rounded decimals of Sizing; the *)
(* sums a result reports (turnover, costs, drawdown) are left out, nothing *)
(* reads them.                                                             *)
(***************************************************************************)
EXTENDS Sizing

CONSTANTS
  Symbols,          \* the candidates, in alphabetical order
  StartingCash,     \* BacktestConfig.starting_cash
  FirstDecisions,   \* the bars a run may decide on first: warmup_bars, evaluation_start
  FillSlippage,     \* BacktestConfig.slippage_rate
  FeeRate,          \* BacktestConfig.fee_rate
  CashEpsilon,      \* _CASH_EPSILON
  Cadence,          \* LowFrequencyMomentumConfig.rebalance_every_bars
  BenchmarkDays,    \* .benchmark_sma_days
  CandidateDays,    \* .candidate_sma_days
  MomentumDays,     \* .momentum_days
  RiskWeight,       \* .target_risk_weight
  Margin,           \* .replacement_margin
  BenchmarkCloses,  \* the closes the benchmark may have
  Bars,             \* the bars a candidate may have, [open, close]
  MaxBars           \* bound of the runs: bars of the benchmark

VARIABLES
  first,            \* the first bar this run decides on
  bars,             \* how many bars the benchmark has
  benchmark,        \* the latest of its closes, as many as a decision looks at
  closes,           \* the same of every candidate
  book,             \* cash, positions and their average prices
  outcome           \* "RUNNING", or why run raised

vars == <<first, bars, benchmark, closes, book, outcome>>

NoBar == [missing |-> TRUE]

Candidates == ToSet(Symbols)

Position(s) == SelectInSeq(Symbols, LAMBDA x : x = s)

Lookback == Max({BenchmarkDays, CandidateDays, MomentumDays + 1})

Latest(window, i) == window[Len(window) - i]

(***************************************************************************)
(* The strategy.                                                           *)
(***************************************************************************)
Momentum(window) == Difference(Quotient(Latest(window, 0), Latest(window, MomentumDays)), One)

Sma(window, days) ==
  Quotient(FoldLeft(Plus, Zero, SubSeq(window, Len(window) - days + 1, Len(window))),
           Dec(days, 0))

Rising(window, days) ==
  /\ Len(window) >= days /\ Len(window) >= MomentumDays + 1
  /\ Sma(window, days) \prec Latest(window, 0)
  /\ Zero \prec Momentum(window)

Eligible == {s \in Candidates : Rising(closes[s], CandidateDays)}

Challenger ==
  CHOOSE s \in Eligible : \A t \in Eligible \ {s} :
    \/ Momentum(closes[t]) \prec Momentum(closes[s])
    \/ Momentum(closes[t]) = Momentum(closes[s]) /\ Position(s) < Position(t)

Incumbent ==
  CHOOSE s \in DOMAIN book.positions : \A t \in DOMAIN book.positions : Position(s) <= Position(t)

\* The latest close of every symbol held.
Marks == [s \in DOMAIN book.positions |-> Latest(closes[s], 0)]

InCash == <<>>

Preserve ==
  IF Nav(book, Marks) \preceq Zero THEN InCash
  ELSE [s \in DOMAIN book.positions |-> Quotient(Worth(book, Marks, s), Nav(book, Marks))]

Scheduled ==
  /\ bars >= BenchmarkDays /\ bars >= MomentumDays + 1
  /\ bars % Cadence = 0

RiskOff == ~Rising(benchmark, BenchmarkDays) \/ Eligible = {}

KeepsIncumbent ==
  /\ Incumbent \in Eligible
  /\ \/ Challenger = Incumbent
     \/ Momentum(closes[Challenger]) \prec Plus(Momentum(closes[Incumbent]), Margin)

Target ==
  IF ~Scheduled THEN Preserve
  ELSE IF RiskOff THEN InCash
  ELSE IF book.positions # <<>> /\ KeepsIncumbent THEN Preserve
  ELSE Challenger :> RiskWeight

Invested(target) == FoldLeft(LAMBDA sum, s : Plus(sum, Weight(target, s)), Zero, Symbols)

\* What _preserve and TargetPortfolio's validators ask.
Accepted(target) ==
  /\ \A s \in DOMAIN target : Zero \preceq target[s] /\ target[s] \preceq One
  /\ Invested(target) \preceq One
  /\ Plus(Invested(target), Difference(One, Invested(target))) = One

(***************************************************************************)
(* What is done at the next open.  An order is everything _rebalance is    *)
(* given: the decision's target and plan, the net asset value and opens.   *)
(***************************************************************************)
\* Plausible bug: without a plan every difference is traded.
EverythingAllowed(prices, s) == TRUE

\* The plan, made at the decision's prices.
Allowed(prices, s) == Executes(Target, book, prices, s)

DecisionPrices == [s \in {x \in Candidates : closes[x] # <<>>} |-> Latest(closes[s], 0)]

\* A position without a bar is marked at what it cost.
OpeningNav(next) ==
  Nav(book, [s \in DOMAIN book.positions |->
               IF next[s] = NoBar THEN book.average[s] ELSE next[s].open])

Sold(b, s, wanted, price) ==
  LET excess    == Difference(Worth(b, s :> price, s), wanted)
      quantity  == Least(Quotient(excess, price), Held(b, s))
      notional  == Product(quantity, Product(price, Difference(One, FillSlippage)))
      remainder == Difference(Held(b, s), quantity)
  IN  IF ~(wanted \prec Worth(b, s :> price, s)) THEN b
      ELSE [b EXCEPT !.cash = Plus(@, Difference(notional, Product(notional, FeeRate))),
                     !.positions = WithPosition(@, s, Greatest(remainder, Zero))]

\* Plausible bug: the slippage is not in what a share costs.
PriceOfShare(price) == Product(price, Plus(One, FeeRate))

CostOfShare(price) == Product(Product(price, Plus(One, FillSlippage)), Plus(One, FeeRate))

\* The cash below Zero is what _clamp_cash is given.
Bought(b, s, wanted, price) ==
  LET fill     == Product(price, Plus(One, FillSlippage))
      desired  == Quotient(Difference(wanted, Worth(b, s :> price, s)), fill)
      quantity == Least(desired, Quotient(b.cash, CostOfShare(price)))
      notional == Product(quantity, fill)
      left     == Difference(b.cash, Plus(notional, Product(notional, FeeRate)))
      held     == Plus(Held(b, s), quantity)
      paid     == IF s \notin DOMAIN b.positions THEN fill
                  ELSE Quotient(Plus(Product(Held(b, s), b.average[s]), Product(quantity, fill)), held)
  IN  IF ~(Worth(b, s :> price, s) \prec wanted) \/ quantity \preceq Zero THEN b
      ELSE [cash      |-> IF Minus(CashEpsilon) \preceq left THEN Greatest(left, Zero) ELSE left,
            positions |-> WithPosition(b.positions, s, held),
            average   |-> s :> paid @@ b.average]

Rebalanced(next) ==
  LET traded == SelectSeq(Symbols, LAMBDA s :
                            /\ next[s] # NoBar /\ s \in DOMAIN book.positions \cup DOMAIN Target
                            /\ Allowed(DecisionPrices, s))
      Wanted(s) == Product(OpeningNav(next), Weight(Target, s))
      sold   == FoldLeft(LAMBDA b, s : Sold(b, s, Wanted(s), next[s].open), book, traded)
      bought == FoldLeft(LAMBDA b, s : Bought(b, s, Wanted(s), next[s].open), sold, traded)
  IN  [bought EXCEPT !.average = Restrict(@, DOMAIN bought.positions)]

(***************************************************************************)
(* The loop of run.                                                        *)
(***************************************************************************)
Init ==
  /\ first \in FirstDecisions
  /\ bars = 0 /\ benchmark = <<>>
  /\ closes = [s \in Candidates |-> <<>>]
  /\ book = [cash |-> StartingCash, positions |-> <<>>, average |-> <<>>]
  /\ outcome = "RUNNING"

Recent(window) == SubSeq(window, IF Len(window) > Lookback THEN 2 ELSE 1, Len(window))

\* The next bar of the benchmark, with those of the candidates that have one.
NextBar(close, next) ==
  /\ bars < MaxBars /\ outcome = "RUNNING"
  /\ bars' = bars + 1
  /\ benchmark' = Recent(Append(benchmark, close))
  /\ closes' = [s \in Candidates |->
       IF next[s] = NoBar THEN closes[s] ELSE Recent(Append(closes[s], next[s].close))]
  /\ UNCHANGED first

\* Bars before the first decision.
Warm(close, next) ==
  /\ bars < first
  /\ NextBar(close, next)
  /\ UNCHANGED <<book, outcome>>

\* One iteration: the decision on the bars so far, done at the next open.
Iterate(close, next) ==
  /\ bars >= first
  /\ NextBar(close, next)
  /\ IF ~Accepted(Target) THEN outcome' = "TARGET_REFUSED" /\ UNCHANGED book
     ELSE /\ book' = Rebalanced(next)
          /\ outcome' = IF book'.cash \prec Zero THEN "OVERSPENT" ELSE "RUNNING"

Next ==
  \E close \in BenchmarkCloses, next \in [Candidates -> Bars \cup {NoBar}] :
    Warm(close, next) \/ Iterate(close, next)

Spec == Init /\ [][Next]_vars

(***************************************************************************)
(* What it promises.                                                       *)
(***************************************************************************)
Decides == bars >= first /\ outcome = "RUNNING"

\* A replay reaches its last bar: whatever the rounding of prices, sizes and costs, and whatever
\* could not be sold, a purchase never needs more cash than there is, and the weights that
\* preserve a book of one position are a target that _preserve and TargetPortfolio accept.  (Of
\* two positions that leave no cash they may add up to more than one, by a last digit.)
RunsComplete ==
  /\ outcome # "OVERSPENT"
  /\ outcome = "TARGET_REFUSED" => Cardinality(DOMAIN book.positions) > 1

\* Price drift alone trades nothing: between scheduled decisions the preserved weights, valued
\* again at the next open, come to no order.
DriftNeverTrades == [][Decides /\ ~Scheduled => UNCHANGED book]_vars

\* When the risk gate is off or nothing is eligible, all that trades at the next open is sold,
\* however little it is worth; what stays of a position is two units of its last digit at most.
RiskOffSells ==
  [][Decides /\ Scheduled /\ RiskOff =>
       \A s \in DOMAIN book.positions : closes'[s] # closes[s] =>
         Held(book', s) \preceq Product(Held(book, s), Dec(2, 1 - Digits))]_vars

=============================================================================
