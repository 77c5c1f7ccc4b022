----------------------------- MODULE MarketTrend -----------------------------
(***************************************************************************)
(* What M10 trades on: the single market trend strategy                    *)
(* (strategies/single_market.py), asked once per completed bar by the      *)
(* session runner, its target turned into an order by the rebalance plan   *)
(* and the proposal builder, and the order filled in part, in full or not  *)
(* at all before the next bar.                                             *)
(*                                                                         *)
(* What happens between the decision and the fill (crashes, lost requests, *)
(* the gates of main) is the subject of ExecutionKernel and PaperRuntime;  *)
(* here a run takes one step and the amounts are what matters.             *)
(***************************************************************************)
EXTENDS Sizing

CONSTANTS
  Symbol,           \* config.symbol: SPY
  StartingCash,     \* settings.authorized_starting_cash
  Cadence,          \* config.rebalance_every_bars
  TrendDays,        \* config.trend_sma_days
  MomentumDays,     \* config.momentum_days
  Prices,           \* the closes and quotes of the market, and what orders are filled at
  FilledParts,      \* the parts of an order the exchange may fill
  MaxBars           \* bound of the runs: bars since the start of the history

\* Prices are positive (MarketQuote, MinuteBar), the capital is not negative and the exchange
\* fills no more than was ordered.
ASSUME MarketAssumption ==
  /\ TrendDays \in Nat /\ MomentumDays \in Nat
  /\ Amount(StartingCash) /\ Zero \preceq StartingCash
  /\ \A price \in Prices : Amount(price) /\ Zero \prec price
  /\ \A part \in FilledParts : Amount(part) /\ Zero \preceq part /\ part \preceq One

VARIABLES
  bars,             \* how many bars are complete
  closes,           \* the latest of their closes, as many as a decision looks at
  acted,            \* the bar of the last completed cycle
  book,             \* cash and positions as replayed from the ledger
  established,      \* the inception bootstrap is marked completed or something was filled
  working,          \* the order at the exchange, or Unset
  verdict,          \* the risk engine's answer to the latest proposal, or "NONE"
  dear              \* history: a purchase has cost more than its notional and its slippage

vars == <<bars, closes, acted, book, established, working, verdict, dear>>

MinimumHistory == IF TrendDays < MomentumDays + 1 THEN MomentumDays + 1 ELSE TrendDays

Close(i) == closes[Len(closes) - i]

(***************************************************************************)
(* The strategy.                                                           *)
(***************************************************************************)
Sma ==
  Quotient(FoldLeft(Plus, Zero, SubSeq(closes, Len(closes) - TrendDays + 1, Len(closes))),
           Dec(TrendDays, 0))

Momentum == Difference(Quotient(Close(0), Close(MomentumDays)), One)

RiskOn == Sma \prec Close(0) /\ Zero \prec Momentum

InCash == <<>>

\* The target, or the prices, of the one symbol.
OfSymbol(x) == [s \in {Symbol} |-> x]

\* Plausible bug: the position is valued at the close the decision looks at.
WeightAtClose(q) ==
  Quotient(Product(Held(book, Symbol), Close(0)), Nav(book, OfSymbol(q)))

MarkedWeight(q) ==
  Quotient(Product(Held(book, Symbol), q), Nav(book, OfSymbol(q)))

\* Plausible bug: without a decision the target is cash.
PreserveNothing(q) == InCash

Preserve(q) ==
  IF Symbol \notin DOMAIN book.positions \/ Nav(book, OfSymbol(q)) \preceq Zero THEN InCash
  ELSE OfSymbol(MarkedWeight(q))

EvaluateRegime(q) ==
  IF ~RiskOn THEN InCash
  ELSE IF Symbol \notin DOMAIN book.positions THEN OfSymbol(One)
  ELSE Preserve(q)

\* Which strategy main installs.
BootstrapRequired == ~established

Scheduled == BootstrapRequired \/ bars % Cadence = 0

Target(q) ==
  IF bars < MinimumHistory \/ ~Scheduled THEN Preserve(q) ELSE EvaluateRegime(q)

CashWeight(target) == Difference(One, Weight(target, Symbol))

\* TargetPortfolio's validators; _preserve has its own for the weight.
Accepted(target) ==
  /\ Zero \preceq Weight(target, Symbol) /\ Weight(target, Symbol) \preceq One
  /\ Zero \preceq CashWeight(target) /\ CashWeight(target) \preceq One
  /\ Plus(Weight(target, Symbol), CashWeight(target)) = One

(***************************************************************************)
(* The steps.                                                              *)
(***************************************************************************)
Init ==
  /\ bars = 0
  /\ closes = <<>>
  /\ acted = 0
  /\ book = [cash |-> StartingCash, positions |-> <<>>]
  /\ established = FALSE
  /\ working = Unset
  /\ verdict = "NONE"
  /\ dear = FALSE

\* A day ends; orders are good for the day.
CompleteBar ==
  /\ bars < MaxBars
  /\ working = Unset
  /\ bars' = bars + 1
  /\ \E p \in Prices :
       closes' = SubSeq(Append(closes, p),
                        IF Len(closes) < MinimumHistory THEN 1 ELSE 2, Len(closes) + 1)
  /\ UNCHANGED <<acted, book, established, working, verdict, dear>>

\* The cycle runs: nothing is pending, the replayed cash is one PortfolioState takes, there is
\* history, the bar is new or its marker ignored.
MayRun ==
  /\ working = Unset
  /\ Zero \preceq book.cash
  /\ bars > 0
  /\ BootstrapRequired \/ acted # bars

\* One run of main, at the quote q.  Without a proposal the inception is completed too.
RunCycle(q) ==
  LET target     == Target(q)
      proposed   == Proposals(target, book, OfSymbol(q), TRUE)
      suppressed == {s \in DOMAIN book.positions \cup DOMAIN target :
                       ~Executes(target, book, OfSymbol(q), s)}
  IN  /\ MayRun
      /\ Accepted(target)
      /\ acted' = bars
      /\ \/ /\ proposed = {}
            /\ established' = (established \/ suppressed = {})
            /\ UNCHANGED <<working, verdict>>
         \/ \E p \in proposed :
              /\ verdict' = Judgement(p, book)
              /\ IF verdict' = "APPROVED"
                 THEN working' = p /\ established' = TRUE
                 ELSE UNCHANGED <<working, established>>
      /\ UNCHANGED <<bars, closes, book, dear>>

\* The exchange fills a part of the order at the price px and closes it.  A market order has
\* no limit: px may be worse than the quote by more than the slippage that was reserved.
CloseOrder(part, px) ==
  /\ working # Unset
  /\ LET quantity == Product(IntentQuantity(working, book), part)
         gross    == Product(quantity, px)
     IN  /\ book' = IF part = Zero THEN book ELSE AfterFill(book, working, quantity, gross)
         /\ dear' = \/ dear
                    \/ Opens(working) /\ Plus(working.notional, working.slippage) \prec gross
  /\ working' = Unset
  /\ UNCHANGED <<bars, closes, acted, established, verdict>>

Next ==
  \/ CompleteBar
  \/ \E q \in Prices : RunCycle(q)
  \/ \E part \in FilledParts, px \in Prices : CloseOrder(part, px)

Spec == Init /\ [][Next]_vars

(***************************************************************************)
(* What it promises.                                                       *)
(***************************************************************************)
\* Whatever was held, filled and rounded before, the next target is one TargetPortfolio accepts:
\* a weight in [0, 1] that makes exactly 1 with the cash weight.  Otherwise the cycle raises
\* before its marker is written and every later run of the bar raises again.
TargetsAddUp == MayRun => \A q \in Prices : Accepted(Target(q))

\* What the replay computes from the fills is a portfolio that PortfolioState accepts: no
\* rounding of a size, a price or a part leaves a negative position, and none makes the cash
\* negative unless the exchange filled a purchase for more than the risk engine had reserved.
BookStaysValid ==
  /\ dear \/ Zero \preceq book.cash
  /\ \A s \in DOMAIN book.positions : Zero \prec book.positions[s]

\* A proposal is never turned down for contradicting itself or for selling more than there is:
\* the size, the notional and the fraction come from different roundings of the same amount.
ProposalsConsistent == verdict \notin {"NOTIONAL_QUANTITY_MISMATCH", "SHORT_POSITION_FORBIDDEN"}

\* Only changes of the regime trade: an order is the purchase of a flat book on a risk-on
\* decision or the sale of the whole position on a risk-off one, whatever an earlier order
\* left unfilled and wherever the price has gone since.
OnlyTransitionsTrade ==
  [][working' # working /\ working' # Unset =>
       /\ bars >= MinimumHistory /\ Scheduled
       /\ IF RiskOn THEN working'.action = "BUY" /\ DOMAIN book.positions = {}
          ELSE working'.action = "EXIT" /\ book.positions # <<>>]_vars

\* A risk-off decision sells what is held however little that is, also below the bands.
RiskOffSells ==
  [][acted' # acted /\ bars >= MinimumHistory /\ Scheduled /\ ~RiskOn /\ book.positions # <<>>
       => working' # Unset /\ working'.action = "EXIT"]_vars

\* The first purchase is sized with its own slippage in it: what it costs exceeds the cash
\* by rounding at most, here two units in the last digit.
CostsReserved ==
  MayRun => \A q \in Prices :
    \A p \in Proposals(Target(q), book, OfSymbol(q), TRUE) :
      Opens(p) => Plus(p.notional, p.slippage) \preceq Product(book.cash, Plus(One, Dec(2, 1 - Digits)))

=============================================================================
