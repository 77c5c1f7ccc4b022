-------------------------- MODULE MarketTrendProofs --------------------------
(***************************************************************************)
(* Theorems about MarketTrend, for every number of digits, every price,    *)
(* quoted or filled at, every part the exchange may fill and every setting *)
(* of the strategy: the account is overdrawn only by a fill that costs     *)
(* more than was reserved, the roundings of sizes, weights and parts never *)
(* contradict each other and never make a target that TargetPortfolio      *)
(* refuses; and a risk-off decision sells.                                 *)
(***************************************************************************)
EXTENDS MarketTrend, SizingProofs

\* What a purchase may cost: all that the risk engine asked the cash for.
Reserve(p) == Plus(p.notional, p.slippage)

\* What was approved is paid for, slippage included, by the book it is filled into.
Paid ==
  working # Unset =>
    /\ Fillable(working) /\ working.symbol = Symbol
    /\ Opens(working) => NotNegative(Reserve(working)) /\ Reserve(working) \preceq book.cash

\* What holds between the steps.
Sound ==
  /\ Holding(book) /\ Amount(book.cash) /\ DOMAIN book.positions \subseteq {Symbol}
  /\ dear \/ NotNegative(book.cash)
  /\ dear \in BOOLEAN
  /\ Paid
  /\ bars \in Nat
  /\ verdict \in {"NONE", "ORDER_NOTIONAL_LIMIT", "INSUFFICIENT_CASH", "APPROVED"}

\* What a run finds that gets as far as the strategy.
Ready == Sound /\ NotNegative(book.cash)

LEMMA RunsReady ==
  ASSUME Sound, MayRun
  PROVE  Ready
BY AmountSigns DEF Sound, MayRun, Ready

LEMMA Quoted ==
  ASSUME NEW q \in Prices
  PROVE  IsPositive(q) /\ IsPositive((OfSymbol(q))[Symbol])
<1>1. IsPositive(q)
  BY MarketAssumption, AmountSigns
<1>2. (OfSymbol(q))[Symbol] = q
  BY DEF OfSymbol
<1> QED
  BY <1>1, <1>2

\* The net asset value covers the position.
LEMMA NavCovers ==
  ASSUME Ready, NEW q \in Prices
  PROVE  /\ NotNegative(Nav(book, OfSymbol(q)))
         /\ Symbol \in DOMAIN book.positions =>
              Worth(book, OfSymbol(q), Symbol) \preceq Nav(book, OfSymbol(q))
<1> DEFINE prices == OfSymbol(q)
<1>1. NotNegative(book.cash) /\ Holding(book) /\ DOMAIN book.positions \subseteq {Symbol}
  BY DEF Ready, Sound
<1>2. NotNegative(Worth(book, prices, Symbol))
  BY <1>1, Quoted, WorthOf
<1> HIDE DEF prices
<1>3. CASE DOMAIN book.positions = {}
  BY <1>1, <1>3, NavOfOne
<1>4. CASE DOMAIN book.positions = {Symbol}
  <2>1. Nav(book, prices) = Plus(book.cash, Worth(book, prices, Symbol))
    BY <1>4, NavOfOne
  <2>2. PICK cash, worth : cash = book.cash /\ worth = Worth(book, prices, Symbol)
                           /\ NotNegative(cash) /\ NotNegative(worth)
    BY <1>1, <1>2
  <2>3. NotNegative(Plus(cash, worth)) /\ worth \preceq Plus(cash, worth)
    BY <2>2, Sums
  <2> QED
    BY <2>1, <2>2, <2>3 DEF prices
<1>5. DOMAIN book.positions = {} \/ DOMAIN book.positions = {Symbol}
  BY <1>1
<1> QED
  BY <1>3, <1>4, <1>5 DEF prices

\* A target holds at most the symbol, with a weight between nothing and everything.
LEMMA TargetFacts ==
  ASSUME Ready, NEW q \in Prices
  PROVE  DOMAIN Target(q) \subseteq {Symbol} /\ IsShare(Weight(Target(q), Symbol))
<1>1. IsShare(Zero) /\ IsShare(One)
  BY ZeroOne, AmountOrder, SignTells DEF IsShare, NotNegative
<1>2. DOMAIN InCash = {} /\ Weight(InCash, Symbol) = Zero
  BY DEF InCash, Weight
<1>3. DOMAIN (OfSymbol(One)) = {Symbol} /\ Weight(OfSymbol(One), Symbol) = One
  BY DEF OfSymbol, Weight
<1>4. DOMAIN (OfSymbol(MarkedWeight(q))) = {Symbol} /\ Weight(OfSymbol(MarkedWeight(q)), Symbol) = MarkedWeight(q)
  BY DEF OfSymbol, Weight
<1>5. ASSUME Symbol \in DOMAIN book.positions, ~(Nav(book, OfSymbol(q)) \preceq Zero)
      PROVE  IsShare(MarkedWeight(q))
  <2>1. PICK nav : nav = Nav(book, OfSymbol(q)) /\ IsPositive(nav)
    <3>1. Zero \prec Nav(book, OfSymbol(q))
      BY <1>5 DEF \preceq
    <3> QED
      BY <3>1, NavCovers, AmountSigns DEF NotNegative
  <2>2. PICK worth : worth = Worth(book, OfSymbol(q), Symbol) /\ NotNegative(worth) /\ worth \preceq nav
    BY <1>5, <2>1, Quoted, WorthOf, NavCovers DEF Ready, Sound
  <2>3. (OfSymbol(q))[Symbol] = q
    BY DEF OfSymbol
  <2>4. MarkedWeight(q) = Quotient(worth, nav)
    BY <2>1, <2>2, <2>3 DEF MarkedWeight, Worth
  <2> QED
    BY <2>1, <2>2, <2>4, Quotients
<1>6. DOMAIN Preserve(q) \subseteq {Symbol} /\ IsShare(Weight(Preserve(q), Symbol))
  BY <1>1, <1>2, <1>4, <1>5, Zenon DEF Preserve
<1>7. DOMAIN EvaluateRegime(q) \subseteq {Symbol} /\ IsShare(Weight(EvaluateRegime(q), Symbol))
  BY <1>1, <1>2, <1>3, <1>6, Zenon DEF EvaluateRegime
<1> QED
  BY <1>6, <1>7, Zenon DEF Target

\* Such a target is one that TargetPortfolio accepts.
LEMMA SharesAccepted ==
  ASSUME NEW target, IsShare(Weight(target, Symbol))
  PROVE  Accepted(target)
<1>1. PICK w : w = Weight(target, Symbol) /\ NotNegative(w) /\ w \preceq One /\ Amount(w) /\ w.c >= 0
  BY DEF IsShare, NotNegative
<1>2. Amount(One) /\ One \in Numeral /\ w \in Numeral /\ One.c >= 0 /\ Zero \preceq w
  BY <1>1, ZeroOne, AmountSigns
<1>3. PICK r : r = Difference(One, w) /\ Amount(r) /\ r.c >= 0 /\ r \preceq One
  BY <1>1, <1>2, DifferenceSign
<1>4. Zero \preceq r
  BY <1>3, AmountSigns DEF NotNegative
<1>5. Plus(w, r) = One
  BY <1>1, <1>3, AddBackOne
<1> QED
  BY <1>1, <1>2, <1>3, <1>4, <1>5 DEF Accepted, CashWeight

\* What a cycle proposes.
LEMMA CycleFacts ==
  ASSUME Ready, NEW q \in Prices, NEW p \in Proposals(Target(q), book, OfSymbol(q), TRUE)
  PROVE  /\ p \in ProposalFor(Target(q), book, OfSymbol(q), Symbol)
         /\ Fillable(p) /\ p.symbol = Symbol /\ p.price = q
         /\ Judgement(p, book) \in {"ORDER_NOTIONAL_LIMIT", "INSUFFICIENT_CASH", "APPROVED"}
         /\ Judgement(p, book) = "INSUFFICIENT_CASH" => Opens(p)
         /\ Judgement(p, book) = "APPROVED" /\ Opens(p) =>
              NotNegative(Reserve(p)) /\ Reserve(p) \preceq book.cash
<1> DEFINE prices == OfSymbol(q)
<1>1. Holding(book) /\ NotNegative(book.cash) /\ Amount(book.cash) /\ DOMAIN book.positions \subseteq {Symbol}
  BY DEF Ready, Sound, NotNegative
<1>2. PICK target : target = Target(q) /\ DOMAIN target \subseteq {Symbol} /\ NotNegative(Weight(target, Symbol))
  BY TargetFacts DEF IsShare
<1>3. p \in ProposalFor(target, book, prices, Symbol)
  <2>1. PICK s \in DOMAIN book.positions \cup DOMAIN target : p \in ProposalFor(target, book, prices, s)
    BY <1>2, Zenon DEF Proposals
  <2>2. s = Symbol
    BY <1>1, <1>2, <2>1
  <2> QED
    BY <2>1, <2>2
<1>4. IsPositive(prices[Symbol]) /\ prices[Symbol] = q /\ Amount(Nav(book, prices))
  BY Quoted, NavCovers DEF OfSymbol, NotNegative
<1> HIDE DEF prices
<1>5. /\ Fillable(p) /\ p.symbol = Symbol /\ p.price = prices[Symbol]
      /\ Opens(p) => p.notional = Product(p.quantity, p.price)
      /\ ~Opens(p) => /\ p.notional = Unset
                      /\ IsPositive(IntentQuantity(p, book))
                      /\ IntentQuantity(p, book) \preceq Held(book, Symbol)
  BY <1>1, <1>2, <1>3, <1>4, ProposalFacts
<1>6. /\ Judgement(p, book) \in {"ORDER_NOTIONAL_LIMIT", "INSUFFICIENT_CASH", "APPROVED"}
      /\ Judgement(p, book) = "INSUFFICIENT_CASH" => Opens(p)
      /\ Judgement(p, book) = "APPROVED" /\ Opens(p) =>
           Plus(Product(p.quantity, p.price), p.slippage) \preceq book.cash
  <2>1. p.notional \in {Unset, Product(p.quantity, p.price)}
    BY <1>5
  <2> QED
    BY <1>1, <1>5, <2>1, JudgementFacts
<1>7. ASSUME Judgement(p, book) = "APPROVED", Opens(p)
      PROVE  NotNegative(Reserve(p)) /\ Reserve(p) \preceq book.cash
  <2>1. PICK cost : cost = Product(p.quantity, p.price) /\ NotNegative(cost)
    <3>1. NotNegative(p.quantity) /\ NotNegative(p.price)
      BY <1>5, <1>7, PositiveToo DEF Fillable
    <3> QED
      BY <3>1, Products
  <2>2. NotNegative(Plus(cost, p.slippage))
    BY <1>5, <1>7, <2>1, Sums DEF Fillable
  <2>3. Plus(cost, p.slippage) \preceq book.cash
    BY <1>6, <1>7, <2>1
  <2>4. p.notional = cost
    BY <1>5, <1>7, <2>1
  <2> QED
    BY <2>2, <2>3, <2>4 DEF Reserve
<1> QED
  BY <1>2, <1>3, <1>4, <1>5, <1>6, <1>7 DEF prices

(***************************************************************************)
(* The steps.                                                              *)
(***************************************************************************)
LEMMA InitSound == Init => Sound
<1> SUFFICES ASSUME Init PROVE Sound
  OBVIOUS
<1>1. book.cash = StartingCash /\ book.positions = <<>> /\ DOMAIN book.positions = {} /\ working = Unset /\ verdict = "NONE" /\ dear = FALSE
  BY DEF Init
<1>2. NotNegative(book.cash)
  BY <1>1, MarketAssumption, AmountSigns
<1>3. Holding(book)
  BY <1>1, FS_EmptySet DEF Holding, Init
<1> QED
  BY <1>1, <1>2, <1>3 DEF Sound, Paid, Init, NotNegative

LEMMA NextSound ==
  ASSUME Sound, [Next]_vars
  PROVE  Sound'
<1>1. CASE CompleteBar
  BY <1>1 DEF CompleteBar, Sound, Paid
<1>2. ASSUME NEW q \in Prices, RunCycle(q) PROVE Sound'
  <2>1. book' = book /\ working = Unset /\ bars' = bars /\ dear' = dear /\ Ready
    BY <1>2, RunsReady DEF RunCycle, MayRun
  <2>2. CASE UNCHANGED <<working, verdict>>
    BY <2>1, <2>2 DEF Sound, Paid
  <2>3. ASSUME NEW p \in Proposals(Target(q), book, OfSymbol(q), TRUE), verdict' = Judgement(p, book),
               IF verdict' = "APPROVED" THEN working' = p ELSE working' = working
        PROVE  Sound'
    <3>1. /\ Fillable(p) /\ p.symbol = Symbol
          /\ Judgement(p, book) \in {"ORDER_NOTIONAL_LIMIT", "INSUFFICIENT_CASH", "APPROVED"}
          /\ Judgement(p, book) = "APPROVED" /\ Opens(p) =>
               NotNegative(Reserve(p)) /\ Reserve(p) \preceq book.cash
      BY <2>1, CycleFacts
    <3>2. Paid'
      <4>1. ASSUME working' # Unset PROVE working' = p /\ Judgement(p, book) = "APPROVED"
        BY <2>1, <2>3, <4>1
      <4> QED
        BY <2>1, <3>1, <4>1 DEF Paid, Reserve, Opens
    <3> QED
      BY <2>1, <2>3, <3>1, <3>2 DEF Sound
  <2> QED
    BY <1>2, <2>2, <2>3, Zenon DEF RunCycle
<1>3. ASSUME NEW part \in FilledParts, NEW px \in Prices, CloseOrder(part, px) PROVE Sound'
  <2>1. working # Unset /\ working' = Unset /\ verdict' = verdict /\ bars' = bars
    BY <1>3 DEF CloseOrder
  <2>2. NotNegative(part) /\ IsShare(part) /\ NotNegative(px)
    BY MarketAssumption, Quoted, PositiveToo, AmountSigns DEF IsShare
  <2>3. PICK quantity, gross, after :
          /\ quantity = Product(IntentQuantity(working, book), part)
          /\ gross = Product(quantity, px)
          /\ after = AfterFill(book, working, quantity, gross)
    OBVIOUS
  <2>4. /\ Fillable(working) /\ working.symbol = Symbol /\ Holding(book) /\ Amount(book.cash)
        /\ DOMAIN book.positions \subseteq {Symbol} /\ dear \in BOOLEAN
        /\ Opens(working) => NotNegative(Reserve(working)) /\ Reserve(working) \preceq book.cash
    BY <2>1 DEF Sound, Paid
  <2>5. NotNegative(quantity) /\ NotNegative(gross)
        /\ (~Opens(working) => quantity \preceq Held(book, Symbol))
    <3>1. PICK intent, held : intent = IntentQuantity(working, book) /\ held = Held(book, Symbol)
                              /\ NotNegative(intent) /\ NotNegative(held)
                              /\ (~Opens(working) => intent \preceq held)
      BY <2>4, IntentFacts
    <3>2. NotNegative(quantity) /\ quantity \preceq intent
      BY <2>2, <2>3, <3>1, Products
    <3>3. NotNegative(gross)
      BY <2>2, <2>3, <3>2, Products
    <3> QED
      BY <3>1, <3>2, <3>3, AmountOrder DEF NotNegative
  <2>6. /\ Holding(after) /\ Amount(after.cash) /\ DOMAIN after.positions \subseteq {Symbol}
        /\ NotNegative(book.cash) /\ (Opens(working) => gross \preceq book.cash) => NotNegative(after.cash)
    BY <2>3, <2>4, <2>5, FillFacts
  <2>7. /\ book' = (IF part = Zero THEN book ELSE after)
        /\ dear' = (dear \/ (Opens(working) /\ Reserve(working) \prec gross))
    BY <1>3, <2>3 DEF CloseOrder, Reserve
  <2>8. dear' \in BOOLEAN /\ (dear' \/ NotNegative(book'.cash))
    <3> SUFFICES ASSUME ~dear' PROVE NotNegative(book'.cash)
      BY <2>4, <2>7
    <3>1. ~dear /\ NotNegative(book.cash) /\ (Opens(working) => ~(Reserve(working) \prec gross))
      BY <2>7 DEF Sound
    <3>2. ASSUME Opens(working) PROVE gross \preceq book.cash
      <4>1. gross \preceq Reserve(working) /\ Amount(Reserve(working)) /\ Amount(gross)
        BY <2>4, <2>5, <3>1, <3>2 DEF \preceq, NotNegative
      <4> QED
        BY <2>4, <3>2, <4>1, AmountOrder
    <3> QED
      BY <2>6, <2>7, <3>1, <3>2
  <2>9. Holding(book') /\ Amount(book'.cash) /\ DOMAIN book'.positions \subseteq {Symbol}
    BY <2>4, <2>6, <2>7
  <2>10. Holding(book)' /\ Amount(book.cash)' /\ (dear \/ NotNegative(book.cash))'
    BY <2>8, <2>9 DEF Holding, NotNegative, Amount
  <2> QED
    BY <2>1, <2>8, <2>9, <2>10 DEF Sound, Paid
<1>4. CASE UNCHANGED vars
  BY <1>4 DEF vars, Sound, Paid
<1> QED
  BY <1>1, <1>2, <1>3, <1>4 DEF Next

\* No rounding of a size, a weight or a part leaves a negative position, and the account is
\* overdrawn only by a fill dearer than what was reserved for it, however the exchange's price
\* differs from the quote (PortfolioState's validators, RiskEngine.evaluate, ProposalBuilder).
THEOREM BookValid == Spec => []BookStaysValid
<1>1. Sound => BookStaysValid
  BY AmountSigns DEF Sound, BookStaysValid, Holding, NotNegative, IsPositive
<1> QED
  BY <1>1, InitSound, NextSound, PTL DEF Spec

\* The size, the notional and the fraction of a proposal are roundings of one amount that the
\* risk engine never finds in contradiction with each other or with the position.
THEOREM Consistent == Spec => []ProposalsConsistent
<1>1. Sound => ProposalsConsistent
  BY DEF Sound, ProposalsConsistent
<1> QED
  BY <1>1, InitSound, NextSound, PTL DEF Spec

\* Every target of the strategy is accepted: whatever the marked weight was rounded to, it and
\* what it leaves to the cash make exactly 1 (TargetPortfolio, SingleMarketTrend._preserve).
THEOREM TargetsAccepted == Spec => []TargetsAddUp
<1>1. Sound => TargetsAddUp
  BY TargetFacts, SharesAccepted, RunsReady DEF TargetsAddUp
<1> QED
  BY <1>1, InitSound, NextSound, PTL DEF Spec

(***************************************************************************)
(* A risk-off decision.                                                    *)
(***************************************************************************)
\* A target of cash is reached by the sale of the whole position, and by nothing else.
LEMMA CashTarget ==
  ASSUME Ready, NEW q \in Prices, Symbol \in DOMAIN book.positions
  PROVE  Proposals(InCash, book, OfSymbol(q), TRUE) = {Exit(book, OfSymbol(q), Symbol)}
<1> DEFINE prices == OfSymbol(q)
<1>1. Holding(book) /\ DOMAIN book.positions = {Symbol} /\ DOMAIN InCash = {}
  BY DEF Ready, Sound, InCash
<1>2. FullExit(InCash, book, Symbol)
  BY <1>1, HeldOf DEF FullExit, Weight
<1>3. IsPositive(Worth(book, prices, Symbol)) /\ Amount(Nav(book, prices))
  BY <1>1, Quoted, WorthOf, NavCovers DEF NotNegative
<1> HIDE DEF prices
<1>4. DeltaNotional(InCash, book, prices, Symbol) # Zero
  <2>1. PICK nav, worth : /\ nav = Nav(book, prices) /\ worth = Worth(book, prices, Symbol)
                          /\ Amount(nav) /\ IsPositive(worth) /\ Amount(worth)
    BY <1>3, PositiveToo
  <2>2. Weight(InCash, Symbol) = Zero /\ Product(nav, Zero) = Zero
    BY <1>1, <2>1, ProductOfZero DEF Weight
  <2>3. Zero \prec worth /\ Amount(Zero) /\ Zero.c = 0
    BY <2>1, AmountSigns, ZeroOne
  <2>4. Difference(Zero, worth).c < 0
    BY <2>1, <2>3, Differences
  <2> QED
    BY <2>1, <2>2, <2>3, <2>4 DEF DeltaNotional
<1>5. Executes(InCash, book, prices, Symbol)
  BY <1>2, <1>4 DEF Executes, Instruction
<1>6. ProposalFor(InCash, book, prices, Symbol) = {Exit(book, prices, Symbol)}
  BY <1>2, Zenon DEF ProposalFor
<1>7. {x \in DOMAIN book.positions \cup DOMAIN InCash : TRUE => Executes(InCash, book, prices, x)} = {Symbol}
  BY <1>1, <1>5
<1>8. Proposals(InCash, book, prices, TRUE) = UNION {ProposalFor(InCash, book, prices, s) : s \in {Symbol}}
  BY <1>7, Zenon DEF Proposals
<1> QED
  BY <1>6, <1>8 DEF prices

\* The position is worth no more than the largest order, at whatever price.
WithinCeiling == \A q \in Prices : Worth(book, OfSymbol(q), Symbol) \preceq OrderCeiling

LEMMA RiskOffStep ==
  ASSUME Ready, WithinCeiling, NEW q \in Prices, RunCycle(q),
         bars >= MinimumHistory, Scheduled, ~RiskOn, book.positions # <<>>
  PROVE  working' # Unset /\ working'.action = "EXIT"
<1>1. Target(q) = InCash
  <2>1. MinimumHistory \in Nat /\ bars \in Nat
    BY MarketAssumption DEF MinimumHistory, Ready, Sound
  <2>2. ~(bars < MinimumHistory)
    BY <2>1
  <2> QED
    BY <2>2, Zenon DEF Target, EvaluateRegime
<1>2. Symbol \in DOMAIN book.positions
  <2> SUFFICES ASSUME DOMAIN book.positions = {} PROVE book.positions = <<>>
    BY DEF Ready, Sound
  <2>1. book.positions = [s \in {} |-> book.positions[s]]
    BY DEF Ready, Sound, Holding
  <2> QED
    BY <2>1
<1> DEFINE p == Exit(book, OfSymbol(q), Symbol)
<1>3. Proposals(Target(q), book, OfSymbol(q), TRUE) = {p}
  BY <1>1, <1>2, CashTarget
<1>4. p.action = "EXIT" /\ p.symbol = Symbol /\ p.notional = Unset /\ p.price = q /\ p # Unset /\ ~Opens(p)
  BY DEF Exit, Proposal, Unset, OfSymbol, Opens
<1>5. Judgement(p, book) \in {"ORDER_NOTIONAL_LIMIT", "INSUFFICIENT_CASH", "APPROVED"}
      /\ Judgement(p, book) # "INSUFFICIENT_CASH"
  BY <1>3, <1>4, CycleFacts
<1>6. Product(IntentQuantity(p, book), p.price) = Worth(book, OfSymbol(q), Symbol)
  BY <1>4 DEF IntentQuantity, Worth, OfSymbol
<1>7. ~(OrderCeiling \prec Product(IntentQuantity(p, book), p.price))
  BY <1>6 DEF WithinCeiling, \preceq
<1> HIDE DEF p
<1>8. Judgement(p, book) # "ORDER_NOTIONAL_LIMIT"
  BY <1>7 DEF Judgement
<1>9. verdict' = Judgement(p, book) /\ (verdict' = "APPROVED" => working' = p)
  BY <1>3 DEF RunCycle
<1> QED
  BY <1>4, <1>5, <1>8, <1>9

\* A scheduled risk-off decision sells the whole position, however little of it is left, as long
\* as no position outgrows the largest order the account may send (RebalanceConfig.force_full_exits,
\* ProposalBuilder.build, RiskEngine.evaluate).  One that does is refused, and the bar is spent.
THEOREM RiskOff == Spec /\ []WithinCeiling => RiskOffSells
<1>1. ASSUME Sound, WithinCeiling, [Next]_vars
      PROVE  [acted' # acted /\ bars >= MinimumHistory /\ Scheduled /\ ~RiskOn /\ book.positions # <<>>
                => working' # Unset /\ working'.action = "EXIT"]_vars
  <2> SUFFICES ASSUME acted' # acted, bars >= MinimumHistory, Scheduled, ~RiskOn, book.positions # <<>>
               PROVE  working' # Unset /\ working'.action = "EXIT"
    OBVIOUS
  <2>1. PICK q \in Prices : RunCycle(q)
    BY <1>1 DEF Next, CompleteBar, CloseOrder, vars
  <2>2. Ready
    BY <1>1, <2>1, RunsReady DEF RunCycle
  <2> QED
    BY <1>1, <2>1, <2>2, RiskOffStep
<1> QED
  BY <1>1, InitSound, NextSound, PTL DEF Spec, RiskOffSells

(***************************************************************************)
(* Only transitions trade.                                                 *)
(***************************************************************************)
\* Two units in the last digit of the position's worth are less than the smallest order, at
\* whatever price.
Fine ==
  /\ Digits > 1
  /\ \A q \in Prices : Product(Worth(book, OfSymbol(q), Symbol), Dec(2, 1 - Digits)) \prec MinOrderNotional

\* A preserved position is not traded: what its weight is off by is no order.
LEMMA PreservedIsKept ==
  ASSUME Ready, Fine, NEW q \in Prices
  PROVE  Proposals(Preserve(q), book, OfSymbol(q), TRUE) = {}
<1> DEFINE prices == OfSymbol(q)
<1>1. CASE Symbol \notin DOMAIN book.positions
  <2>1. Preserve(q) = <<>> /\ DOMAIN book.positions = {} /\ DOMAIN <<>> = {}
    BY <1>1 DEF Preserve, InCash, Ready, Sound
  <2> QED
    BY <2>1 DEF Proposals
<1>2. CASE Symbol \in DOMAIN book.positions
  <2>1. PICK worth : /\ worth = Worth(book, prices, Symbol) /\ IsPositive(worth) /\ NotNegative(worth)
                     /\ Product(worth, Dec(2, 1 - Digits)) \prec MinOrderNotional
    BY <1>2, Quoted, WorthOf, PositiveToo DEF Ready, Sound, Fine
  <2>2. PICK nav : nav = Nav(book, prices) /\ IsPositive(nav)
    <3>1. PICK nav : nav = Nav(book, prices) /\ NotNegative(nav) /\ worth \preceq nav
      BY <1>2, <2>1, NavCovers
    <3>2. Zero \prec worth /\ Amount(worth) /\ Amount(nav) /\ Amount(Zero)
      BY <2>1, <3>1, AmountSigns, ZeroOne DEF NotNegative
    <3>3. Zero \prec nav
      BY <3>1, <3>2, AmountOrder
    <3> QED
      BY <3>1, <3>2, <3>3, AmountSigns
  <2>3. ~(nav \preceq Zero)
    <3>1. Zero \prec nav
      BY <2>2, PositiveToo, AmountSigns
    <3> QED
      BY <3>1 DEF \preceq
  <2>4. MarkedWeight(q) = Quotient(worth, nav)
    BY <2>1, <2>2 DEF MarkedWeight, Worth, OfSymbol
  <2>5. Preserve(q) = OfSymbol(Quotient(worth, nav))
    BY <1>2, <2>2, <2>3, <2>4, Zenon DEF Preserve
  <2>6. PICK target : target = Preserve(q) /\ Weight(target, Symbol) = Quotient(worth, nav)
                      /\ DOMAIN target = {Symbol}
    BY <2>5 DEF OfSymbol, Weight
  <2>7. ~FullExit(target, book, Symbol)
    <3>1. IsPositive(Quotient(worth, nav))
      BY <2>1, <2>2, Quotients
    <3>2. ~IsPositive(Zero)
      BY ZeroOne DEF IsPositive
    <3> QED
      BY <2>6, <3>1, <3>2 DEF FullExit
  <2> HIDE DEF prices
  <2>8. PICK delta : delta = DeltaNotional(target, book, prices, Symbol) /\ Abs(delta) \prec MinOrderNotional
    <3>1. PICK delta, m : /\ delta = Difference(Product(nav, Quotient(worth, nav)), worth)
                          /\ m = Product(worth, Dec(2, 1 - Digits)) /\ m \prec MinOrderNotional
      BY <2>1
    <3>2. Amount(Abs(delta)) /\ Abs(delta) \preceq m
      BY <2>1, <2>2, <3>1, Preserved DEF Fine
    <3>3. Amount(m) /\ Amount(MinOrderNotional)
      <4>1. worth \in Numeral /\ Dec(2, 1 - Digits) \in Numeral
        BY <2>1, LastPlaces, AmountSigns DEF Fine, RawNat, Numeral, NotNegative
      <4> QED
        BY <3>1, <4>1, ProductAmount, SizingAssumption
    <3>4. Abs(delta) \prec MinOrderNotional
      BY <3>1, <3>2, <3>3, AmountOrder
    <3> QED
      BY <2>1, <2>2, <2>6, <3>1, <3>4 DEF DeltaNotional
  <2>9. ProposalFor(target, book, prices, Symbol) = {}
    BY <2>7, <2>8, Zenon DEF ProposalFor
  <2>10. DOMAIN book.positions \cup DOMAIN target = {Symbol}
    BY <2>6 DEF Ready, Sound
  <2>11. \A s \in DOMAIN book.positions \cup DOMAIN target : ProposalFor(target, book, prices, s) = {}
    BY <2>9, <2>10
  <2>12. Proposals(target, book, prices, TRUE) = {}
    BY <2>11, Zenon DEF Proposals
  <2> QED
    BY <2>6, <2>12 DEF prices
<1> QED
  BY <1>1, <1>2

LEMMA TransitionStep ==
  ASSUME Ready, Fine, NEW q \in Prices, RunCycle(q), working' # working
  PROVE  /\ bars >= MinimumHistory /\ Scheduled
         /\ IF RiskOn THEN working'.action = "BUY" /\ DOMAIN book.positions = {}
            ELSE working'.action = "EXIT" /\ book.positions # <<>>
<1>1. PICK p \in Proposals(Target(q), book, OfSymbol(q), TRUE) : working' = p
  BY Zenon DEF RunCycle
<1>2. Target(q) # Preserve(q)
  BY <1>1, PreservedIsKept
<1>3. ~(bars < MinimumHistory) /\ Scheduled /\ Target(q) = EvaluateRegime(q)
  BY <1>2, Zenon DEF Target
<1>4. bars >= MinimumHistory
  BY <1>3, MarketAssumption DEF MinimumHistory, Ready, Sound
<1>5. CASE RiskOn
  <2>1. Symbol \notin DOMAIN book.positions /\ Target(q) = OfSymbol(One)
    BY <1>2, <1>3, <1>5, Zenon DEF EvaluateRegime
  <2>2. DOMAIN book.positions = {}
    BY <2>1 DEF Ready, Sound
  <2>3. Holding(book) /\ Held(book, Symbol) = Zero /\ ~(Zero \prec Held(book, Symbol))
    BY <2>1, HeldOf DEF Ready, Sound
  <2>4. p \in ProposalFor(Target(q), book, OfSymbol(q), Symbol)
    BY CycleFacts
  <2>5. p = Purchase(Target(q), book, OfSymbol(q), Symbol)
    BY <2>3, <2>4, Zenon DEF ProposalFor, FullExit
  <2>6. p.action = "BUY"
    BY <2>3, <2>5 DEF Purchase, Proposal
  <2> QED
    BY <1>1, <1>3, <1>4, <1>5, <2>2, <2>6
<1>6. CASE ~RiskOn
  <2>1. Target(q) = InCash
    BY <1>3, <1>6, Zenon DEF EvaluateRegime
  <2>2. PICK s \in DOMAIN book.positions : TRUE
    BY <1>1, <2>1 DEF Proposals, InCash
  <2>3. Symbol \in DOMAIN book.positions
    BY <2>2 DEF Ready, Sound
  <2>4. p = Exit(book, OfSymbol(q), Symbol)
    BY <1>1, <2>1, <2>3, CashTarget
  <2>5. p.action = "EXIT"
    BY <2>4 DEF Exit, Proposal
  <2>6. book.positions # <<>>
    BY <2>2
  <2> QED
    BY <1>1, <1>3, <1>4, <1>6, <2>5, <2>6
<1> QED
  BY <1>5, <1>6

\* An order is the purchase of a flat book on a risk-on decision or the sale of a whole position
\* on a risk-off one: what partial fills have left and where the price has gone since is never
\* traded, as long as the roundings of a weight are less than the smallest order
\* (SingleMarketTrend._preserve, _evaluate_regime, ProposalBuilder.build).
THEOREM Transitions == Spec /\ []Fine => OnlyTransitionsTrade
<1>1. ASSUME Sound, Fine, [Next]_vars
      PROVE  [working' # working /\ working' # Unset =>
                /\ bars >= MinimumHistory /\ Scheduled
                /\ IF RiskOn THEN working'.action = "BUY" /\ DOMAIN book.positions = {}
                   ELSE working'.action = "EXIT" /\ book.positions # <<>>]_vars
  <2> SUFFICES ASSUME working' # working, working' # Unset
               PROVE  /\ bars >= MinimumHistory /\ Scheduled
                      /\ IF RiskOn THEN working'.action = "BUY" /\ DOMAIN book.positions = {}
                         ELSE working'.action = "EXIT" /\ book.positions # <<>>
    OBVIOUS
  <2>1. PICK q \in Prices : RunCycle(q)
    BY <1>1 DEF Next, vars, CompleteBar, CloseOrder
  <2>2. Ready
    BY <1>1, <2>1, RunsReady DEF RunCycle
  <2> QED
    BY <1>1, <2>1, <2>2, TransitionStep
<1> QED
  BY <1>1, InitSound, NextSound, PTL DEF Spec, OnlyTransitionsTrade

=============================================================================
