------------------------------ MODULE DayTrader ------------------------------
(***************************************************************************)
(* What M11 trades on: the opportunity scanner (strategies/m11.py), asked  *)
(* once a minute bar until the close, its target turned into proposals     *)
(* without a rebalance plan, the proposals judged one after the other, and *)
(* their orders filled in part, in full or not at all, at prices of the    *)
(* exchange's: what the reply to the request reports is in the book when   *)
(* the next proposal is judged, the rest when a later run looks it up.     *)
(*                                                                         *)
(* Returns, volatilities and edges are basis points; the scanner's weights *)
(* are hundredths, and its quotients are compared exactly.  Amounts are    *)
(* the rounded decimals of Sizing.  The gates of main (look-ups, guard,    *)
(* pending orders) are PaperRuntime's subject; here a run needs that no    *)
(* order is open, which is what they come to.                              *)
(***************************************************************************)
EXTENDS Sizing

CONSTANTS
  Symbols,          \* the research universe, in alphabetical order
  Minutes,          \* the minutes to the regular close at the bars of the day
  Markets,          \* what a run may see: quotes, the symbols' features, the benchmark
  Books,            \* what may be held when the day begins, with average prices
  FilledParts,      \* the parts of an order the exchange may fill
  Moves             \* average prices of a fill, as multiples of the quote

VARIABLES
  bar,              \* the bars of the day so far
  ran,              \* a cycle of this bar has completed
  book,             \* cash and positions as replayed from the ledger
  average,          \* average prices of the positions
  queue,            \* the proposals of the cycle not yet handled
  working,          \* the orders not known to be closed, with what was reported of them
  market,           \* what the cycle saw, until its first proposal is handled
  dear              \* history: a purchase has cost more than its notional and its slippage

vars == <<bar, ran, book, average, queue, working, market, dear>>

RoundTripFriction == 20
EdgeBuffer == 10
RotationBuffer == 12
VolatilityFloor == 5
StopLoss == Dec(-75, 0)
TakeProfit == Dec(125, 0)
EntryCutoff == 45
FlattenMinutes == 15

Universe == ToSet(Symbols)

\* The features of too few bars.
NoHistory == [history |-> FALSE]

Unseen == [unseen |-> TRUE]

\* What may ever be held: the universe, and what the day begins with.
Tradable == Universe \cup UNION {DOMAIN b.book.positions : b \in Books}

\* The runtime refuses a quote that is not a positive amount, the kernel a fill beyond its
\* order and a purchase beyond the cash; the features are whole basis points.
ASSUME DayAssumption ==
  /\ Symbols \in Seq(Universe)
  /\ \A m \in Markets :
       /\ \A s \in Tradable : Amount(m.quotes[s]) /\ Zero \prec m.quotes[s]
       /\ \A f \in {m.features[s] : s \in Universe} \cup {m.benchmark} :
            f # NoHistory => {f.short, f.medium, f.breakout, f.volatility} \subseteq Int
  /\ \A b \in Books :
       /\ IsFiniteSet(DOMAIN b.book.positions) /\ Amount(b.book.cash) /\ Zero \preceq b.book.cash
       /\ b.book.positions = [s \in DOMAIN b.book.positions |-> b.book.positions[s]]
       /\ \A s \in DOMAIN b.book.positions :
            Amount(b.book.positions[s]) /\ Zero \prec b.book.positions[s]
  /\ \A part \in FilledParts : Amount(part) /\ Zero \preceq part /\ part \preceq One
  /\ \A move \in Moves : Amount(move) /\ Zero \prec move

(***************************************************************************)
(* The scanner.                                                            *)
(***************************************************************************)
Positive(n) == IF n > 0 THEN n ELSE 0

\* The edges of the signal families, in hundredths of a basis point.
Families(f, benchmark) ==
  LET relative == f.medium - benchmark.medium
  IN  {35 * f.short + 35 * f.medium + 20 * relative + 10 * Positive(f.breakout),
       50 * Positive(f.breakout) + 30 * Positive(f.short) + 20 * Positive(relative)}
      \cup (IF f.medium > 0 /\ f.short < 0
            THEN {-55 * f.short + 25 * f.medium + 20 * Positive(relative)} ELSE {})
      \cup (IF benchmark.medium < 0 /\ f.medium > 0
            THEN {45 * f.medium + 45 * Positive(relative) + 10 * Positive(f.short)} ELSE {})

GrossEdge(f, benchmark) == Max(Families(f, benchmark))

NetEdge(f, benchmark) == GrossEdge(f, benchmark) - 100 * RoundTripFriction

Denominator(f) == Max({f.volatility, VolatilityFloor})

\* The score is at least 0.75.
Qualifies(f, benchmark) ==
  /\ f # NoHistory
  /\ f.liquid
  /\ GrossEdge(f, benchmark) >= 100 * (RoundTripFriction + EdgeBuffer)
  /\ GrossEdge(f, benchmark) >= 75 * Denominator(f)

Candidates(m) ==
  IF m.benchmark = NoHistory THEN {}
  ELSE {s \in Universe : Qualifies(m.features[s], m.benchmark)}

Position(s) == SelectInSeq(Symbols, LAMBDA x : x = s)

ScoresHigher(m, s, t) ==
  LET here  == GrossEdge(m.features[s], m.benchmark) * Denominator(m.features[t])
      there == GrossEdge(m.features[t], m.benchmark) * Denominator(m.features[s])
  IN  here > there \/ (here = there /\ Position(s) < Position(t))

\* scan's first candidate.
Best(m) == CHOOSE s \in Candidates(m) : \A t \in Candidates(m) \ {s} : ScoresHigher(m, s, t)

(***************************************************************************)
(* The target.                                                             *)
(***************************************************************************)
MinutesToClose == Minutes[bar]

FlattenWindow == MinutesToClose <= FlattenMinutes

EntryCutoffWindow == MinutesToClose <= EntryCutoff

HeldSymbols == DOMAIN book.positions

Pnl(s, m) == Product(Difference(Quotient(m.quotes[s], average[s]), One), Dec(1, 4))

RiskExit(s, m) == Pnl(s, m) \preceq StopLoss \/ TakeProfit \preceq Pnl(s, m)

InCash == <<>>

AllIn(s) == [x \in {s} |-> One]

HoldCurrentPosition(s, m) ==
  IF Nav(book, m.quotes) \preceq Zero THEN InCash
  ELSE [x \in {s} |-> Least(One, Quotient(Worth(book, m.quotes, s), Nav(book, m.quotes)))]

\* Plausible bug: the best opportunity wins whatever the change costs.
BestAlways(m) == Best(m)

SelectWithIncumbency(m) ==
  LET held == HeldSymbols \cap Candidates(m)
  IN  IF /\ Cardinality(HeldSymbols) = 1 /\ held # {}
         /\ \A s \in held : NetEdge(m.features[Best(m)], m.benchmark)
                              < NetEdge(m.features[s], m.benchmark) + 100 * RotationBuffer
      THEN CHOOSE s \in held : TRUE ELSE Best(m)

ForcedExit(m) ==
  \/ FlattenWindow
  \/ Cardinality(HeldSymbols) > 1
  \/ \E s \in HeldSymbols : RiskExit(s, m)

\* Plausible bug: the position's risk is looked at only when nothing qualifies.
OpportunityFirst(m) ==
  IF Candidates(m) # {} /\ ~EntryCutoffWindow THEN AllIn(SelectWithIncumbency(m))
  ELSE InCash

GenerateTarget(m) ==
  IF ForcedExit(m) THEN InCash
  ELSE IF EntryCutoffWindow
  THEN IF HeldSymbols # {} /\ HeldSymbols \subseteq Candidates(m)
       THEN HoldCurrentPosition(CHOOSE s \in HeldSymbols : TRUE, m) ELSE InCash
  ELSE IF Candidates(m) = {} THEN InCash
  ELSE AllIn(SelectWithIncumbency(m))

(***************************************************************************)
(* The steps.                                                              *)
(***************************************************************************)
\* M11 continues M10's ledger, which may hold M10's position.
Init ==
  /\ bar = 1 /\ ran = FALSE
  /\ \E b \in Books : book = b.book /\ average = b.average
  /\ queue = <<>> /\ working = {} /\ market = Unseen /\ dear = FALSE

\* A bar completes; the last run had the time to handle its proposals.
CompleteBar ==
  /\ bar < Len(Minutes) /\ queue = <<>>
  /\ bar' = bar + 1 /\ ran' = FALSE /\ market' = Unseen
  /\ UNCHANGED <<book, average, queue, working, dear>>

\* Sales come before purchases.
Sorted(proposals) ==
  SetToSeq({p \in proposals : ~Opens(p)}) \o SetToSeq({p \in proposals : Opens(p)})

\* One run of main that gets usable quotes for every symbol; the replay takes no negative cash.
RunCycle(m) ==
  /\ ~ran /\ working = {} /\ queue = <<>>
  /\ Zero \preceq book.cash
  /\ ran' = TRUE
  /\ market' = m
  /\ queue' = Sorted(Proposals(GenerateTarget(m), book, m.quotes, FALSE))
  /\ UNCHANGED <<bar, book, average, working, dear>>

\* The replay's average price.
AverageAfter(p, quantity, gross) ==
  LET s      == p.symbol
      before == IF s \in DOMAIN average THEN Product(Held(book, s), average[s]) ELSE Zero
      cost   == Quotient(Plus(before, gross), Plus(Held(book, s), quantity))
  IN  [x \in DOMAIN AfterFill(book, p, quantity, gross).positions |->
         IF x = s /\ Opens(p) THEN cost ELSE average[x]]

Order(p, size, quantity, gross) ==
  [proposal |-> p, size |-> size, quantity |-> quantity, gross |-> gross]

\* What was reserved for a purchase.
Reserve(p) == Plus(p.notional, p.slippage)

\* A report of order o, of which a quantity in all was filled for a gross amount in all, is
\* recorded and replayed.
Report(o, quantity, gross) ==
  LET more == Difference(quantity, o.quantity)
      paid == Difference(gross, o.gross)
  IN  /\ IF quantity = o.quantity THEN UNCHANGED <<book, average>>
         ELSE /\ book' = AfterFill(book, o.proposal, more, paid)
              /\ average' = AverageAfter(o.proposal, more, paid)
      /\ dear' = (dear \/ (Opens(o.proposal) /\ Reserve(o.proposal) \prec gross))

\* The kernel judges the next proposal by the book of this moment and sends its order, and the
\* reply reports what is filled already.  A replay that raises stops the run: a purchase, which
\* alone may overdraw, is the last of its queue.
HandleNext(part, move) ==
  LET p        == Head(queue)
      size     == IntentQuantity(p, book)
      quantity == Product(size, part)
      gross    == Product(quantity, Product(p.price, move))
  IN  /\ queue # <<>>
      /\ queue' = Tail(queue)
      /\ market' = Unseen
      /\ IF Judgement(p, book) = "APPROVED"
         THEN /\ Report(Order(p, size, Zero, Zero), quantity, gross)
              /\ working' = IF part = One THEN working
                            ELSE working \cup {Order(p, size, quantity, gross)}
         ELSE UNCHANGED <<book, average, working, dear>>
      /\ UNCHANGED <<bar, ran>>

\* A later run's look-up finds order o closed, with a part of it filled in all, at a price that
\* contains what was reported before.
CloseOrder(o, part, move) ==
  LET quantity == Product(o.size, part)
      gross    == IF quantity = o.quantity THEN o.gross
                  ELSE Product(quantity, Product(o.proposal.price, move))
  IN  /\ queue = <<>>
      /\ o \in working
      /\ o.quantity \preceq quantity /\ o.gross \preceq gross
      /\ Report(o, quantity, gross)
      /\ working' = working \ {o}
      /\ UNCHANGED <<bar, ran, queue, market>>

Next ==
  \/ CompleteBar
  \/ \E m \in Markets : RunCycle(m)
  \/ \E part \in FilledParts, move \in Moves : HandleNext(part, move)
  \/ \E o \in working, part \in FilledParts, move \in Moves : CloseOrder(o, part, move)

Spec == Init /\ [][Next]_vars

(***************************************************************************)
(* What it promises.                                                       *)
(***************************************************************************)
Decides == ~ran /\ ran'

\* A purchase is approved only when nothing is held and nothing else is open: a rotation's purchase
\* is judged before its sale has paid, and an increase of a held position would overdraw.  The
\* exception is a sale so much better than its quote that the part of it that the reply reports
\* has brought more than the whole was worth.
BuysOnlyInCash ==
  queue # <<>> /\ Opens(Head(queue)) /\ Judgement(Head(queue), book) = "APPROVED" =>
    \/ HeldSymbols = {} /\ working = {}
    \/ \E o \in working : ~Opens(o.proposal) /\ Product(o.size, o.proposal.price) \prec o.gross

\* The replayed cash is never negative unless the exchange filled a purchase for more than the
\* risk engine had reserved: what sales bring in before, beside and after it is never less than
\* it was counted for.
OverdrawnOnlyIfDear == dear \/ Zero \preceq book.cash

\* Near the close, at a stop or a profit target, and with more than one position, a cycle offers
\* all that is held for sale, however small, and proposes nothing else.
ForcedExitsAreWhole ==
  [][Decides /\ ForcedExit(market') =>
       {<<p.action, p.symbol>> : p \in ToSet(queue')} = {"EXIT"} \X HeldSymbols]_vars

\* A position whose signal still qualifies is sold before that only for an opportunity whose edge
\* is better by the rotation buffer, and never past the entry cutoff.
RotationsPay ==
  [][Decides /\ ~ForcedExit(market') =>
       \A s \in HeldSymbols \cap Candidates(market') :
         (\E p \in ToSet(queue') : p.symbol = s /\ ~Opens(p)) =>
           /\ ~EntryCutoffWindow
           /\ NetEdge(market'.features[Best(market')], market'.benchmark)
                >= NetEdge(market'.features[s], market'.benchmark) + 100 * RotationBuffer]_vars

=============================================================================
