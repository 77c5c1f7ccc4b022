-------------------------------- MODULE Sizing --------------------------------
(***************************************************************************)
(* From target weights to orders: the economic rebalance plan              *)
(* (strategies/rebalance.py), the proposal builder                         *)
(* (strategies/proposal_builder.py) and the arithmetic of the risk engine, *)
(* in the Decimal arithmetic the code uses.                                *)
(*                                                                         *)
(* A book is [cash, positions]; positions maps the held symbols to their   *)
(* quantities.  A target maps symbols to weights.  Prices are the quote    *)
(* midpoints every one of these computations is given.  The estimated fee  *)
(* is zero in both runtimes and is left out.                               *)
(***************************************************************************)
EXTENDS Decimals, SequencesExt, Functions

CONSTANTS
  MinOrderNotional,          \* ProposalBuilder(min_order_notional)
  SlippageRate,              \* ProposalBuilder(estimated_slippage_rate)
  MinTradeNotional,          \* EconomicRebalanceConfig
  MinTradeFraction,          \* EconomicRebalanceConfig, of the NAV
  OrderCeiling               \* settings.max_order_notional

\* What ProposalBuilder's constructor asks of its two amounts.
ASSUME SizingAssumption ==
  \A x \in {MinOrderNotional, SlippageRate} : Amount(x) /\ Zero \preceq x

Held(book, s) == IF s \in DOMAIN book.positions THEN book.positions[s] ELSE Zero

Weight(target, s) == IF s \in DOMAIN target THEN target[s] ELSE Zero

Worth(book, prices, s) == Product(Held(book, s), prices[s])

\* The replay's valuation, one position after the other.
Nav(book, prices) ==
  FoldLeft(LAMBDA nav, s : Plus(nav, Worth(book, prices, s)),
           book.cash, SetToSeq(DOMAIN book.positions))

\* How far the position in s is from its target.
DeltaNotional(target, book, prices, s) ==
  Difference(Product(Nav(book, prices), Weight(target, s)), Worth(book, prices, s))

FullExit(target, book, s) == Zero \prec Held(book, s) /\ Weight(target, s) = Zero

(***************************************************************************)
(* The rebalance plan.                                                     *)
(***************************************************************************)
Threshold(book, prices) ==
  Greatest(MinTradeNotional, Product(Nav(book, prices), MinTradeFraction))

\* Plausible bug: an exit is held to the economic threshold like any trade.
ExitIfWorthwhile(target, book, prices, s) ==
  IF DeltaNotional(target, book, prices, s) = Zero THEN "NO_CHANGE"
  ELSE IF Threshold(book, prices) \preceq Abs(DeltaNotional(target, book, prices, s)) THEN "EXECUTE"
  ELSE "BELOW_ECONOMIC_THRESHOLD"

Instruction(target, book, prices, s) ==
  IF DeltaNotional(target, book, prices, s) = Zero THEN "NO_CHANGE"
  ELSE IF FullExit(target, book, s) THEN "FORCED_EXIT"
  ELSE IF Threshold(book, prices) \preceq Abs(DeltaNotional(target, book, prices, s)) THEN "EXECUTE"
  ELSE "BELOW_ECONOMIC_THRESHOLD"

Executes(target, book, prices, s) ==
  Instruction(target, book, prices, s) \in {"EXECUTE", "FORCED_EXIT"}

(***************************************************************************)
(* The proposal builder.                                                   *)
(***************************************************************************)
\* Plausible bug: all the cash is offered, the cost of the order on top.
AllTheCash(cash) == cash

Affordable(cash) == Quotient(cash, Plus(One, SlippageRate))

Unset == [unset |-> TRUE]

\* The slippage is estimated on what the order was meant to be worth.
Proposal(action, s, quantity, fraction, notional, worth, price) ==
  [action |-> action, symbol |-> s, quantity |-> quantity, fraction |-> fraction,
   notional |-> notional, slippage |-> Product(worth, SlippageRate), price |-> price]

\* Only a purchase into an empty book is cut to what it can pay for.
PurchaseNotional(target, book, prices, s) ==
  IF DOMAIN book.positions = {}
  THEN Least(DeltaNotional(target, book, prices, s), Affordable(book.cash))
  ELSE DeltaNotional(target, book, prices, s)

\* Plausible bug: the notional is the amount intended, not the amount ordered.
PurchaseOfNotional(target, book, prices, s) ==
  LET money    == PurchaseNotional(target, book, prices, s)
      quantity == Quotient(money, prices[s])
  IN  Proposal(IF Held(book, s) = Zero THEN "BUY" ELSE "ADD", s,
               quantity, Unset, money, money, prices[s])

Purchase(target, book, prices, s) ==
  LET money    == PurchaseNotional(target, book, prices, s)
      quantity == Quotient(money, prices[s])
  IN  Proposal(IF Held(book, s) = Zero THEN "BUY" ELSE "ADD", s,
               quantity, Unset, Product(quantity, prices[s]), money, prices[s])

Reduction(target, book, prices, s) ==
  LET excess   == Quotient(Minus(DeltaNotional(target, book, prices, s)), prices[s])
      quantity == Least(excess, Held(book, s))
  IN  Proposal("REDUCE", s, Unset, Quotient(quantity, Held(book, s)), Unset,
               Product(quantity, prices[s]), prices[s])

Exit(book, prices, s) ==
  Proposal("EXIT", s, Unset, Unset, Unset, Worth(book, prices, s), prices[s])

\* The proposal for s, if there is one.
ProposalFor(target, book, prices, s) ==
  LET delta == DeltaNotional(target, book, prices, s)
  IN  IF FullExit(target, book, s) THEN {Exit(book, prices, s)}
      ELSE IF Abs(delta) \prec MinOrderNotional THEN {}
      ELSE IF delta \prec Zero
           THEN IF Held(book, s) = Zero THEN {} ELSE {Reduction(target, book, prices, s)}
      ELSE IF PurchaseNotional(target, book, prices, s) \prec MinOrderNotional THEN {}
      ELSE {Purchase(target, book, prices, s)}

\* Every symbol held or wanted that the plan, when there is one, executes.
Proposals(target, book, prices, planned) ==
  UNION {ProposalFor(target, book, prices, s) :
           s \in {x \in DOMAIN book.positions \cup DOMAIN target :
                    planned => Executes(target, book, prices, x)}}

(***************************************************************************)
(* The kernel's intent and the risk engine's arithmetic.                   *)
(***************************************************************************)
IntentQuantity(p, book) ==
  CASE p.action \in {"BUY", "ADD"} -> p.quantity
    [] p.action = "REDUCE"         -> Product(Held(book, p.symbol), p.fraction)
    [] p.action = "EXIT"           -> Held(book, p.symbol)

Opens(p) == p.action \in {"BUY", "ADD"}

\* Plausible bug: the cash must cover the order, not the slippage.
JudgementOfNotional(p, book) ==
  LET quantity == IntentQuantity(p, book)
      notional == Product(quantity, p.price)
  IN  IF p.notional # Unset /\ Product(p.quantity, p.price) # p.notional
      THEN "NOTIONAL_QUANTITY_MISMATCH"
      ELSE IF ~Opens(p) /\ (quantity \preceq Zero \/ Held(book, p.symbol) \prec quantity)
      THEN "SHORT_POSITION_FORBIDDEN"
      ELSE IF OrderCeiling \prec notional THEN "ORDER_NOTIONAL_LIMIT"
      ELSE IF Opens(p) /\ book.cash \prec notional THEN "INSUFFICIENT_CASH"
      ELSE "APPROVED"

Judgement(p, book) ==
  LET quantity == IntentQuantity(p, book)
      notional == Product(quantity, p.price)
  IN  IF p.notional # Unset /\ Product(p.quantity, p.price) # p.notional
      THEN "NOTIONAL_QUANTITY_MISMATCH"
      ELSE IF ~Opens(p) /\ (quantity \preceq Zero \/ Held(book, p.symbol) \prec quantity)
      THEN "SHORT_POSITION_FORBIDDEN"
      ELSE IF OrderCeiling \prec notional THEN "ORDER_NOTIONAL_LIMIT"
      ELSE IF Opens(p) /\ book.cash \prec Plus(notional, p.slippage) THEN "INSUFFICIENT_CASH"
      ELSE "APPROVED"

(***************************************************************************)
(* The replay of a filled quantity.                                        *)
(***************************************************************************)
\* The positions when s is held in this quantity.  Plausible bug: an emptied position stays.
EmptyPositionStays(positions, s, quantity) ==
  [x \in DOMAIN positions \cup {s} |-> IF x = s THEN quantity ELSE positions[x]]

WithPosition(positions, s, quantity) ==
  [x \in (DOMAIN positions \ {s}) \cup (IF quantity = Zero THEN {} ELSE {s}) |->
     IF x = s THEN quantity ELSE positions[x]]

\* Plausible bug: what a sale brings is booked like what a purchase costs.
SalesCost(book, p, quantity, gross) ==
  LET s    == p.symbol
      kept == IF Opens(p) THEN Plus(Held(book, s), quantity)
              ELSE Difference(Held(book, s), quantity)
  IN  [cash      |-> Difference(book.cash, gross),
       positions |-> WithPosition(book.positions, s, kept)]

\* A quantity of p's order is filled for a gross amount, at the exchange's price, not the quote's.
AfterFill(book, p, quantity, gross) ==
  LET s    == p.symbol
      kept == IF Opens(p) THEN Plus(Held(book, s), quantity)
              ELSE Difference(Held(book, s), quantity)
  IN  [cash      |-> IF Opens(p) THEN Difference(book.cash, gross) ELSE Plus(book.cash, gross),
       positions |-> WithPosition(book.positions, s, kept)]

=============================================================================
