# Project Fifty: a TLA+ model of the autonomous paper trader

Project Fifty (`src/src/project_fifty`) trades a small paper account without a human in the loop.  A strategy
proposes, a risk engine decides, an execution kernel turns approved proposals into broker orders, and everything
that happened is an event of an append-only ledger from which the next process starts.  Nothing else survives a
process, and the process may be killed at any moment (the scheduled workflows cancel a run that is still going).

## 1. The system

| part | source | state | operations | what makes it correct |
|---|---|---|---|---|
| order state machine | `execution/state_machine.py`, `domain/models.py` | a status per order intent | `transition` | everything the exchange may do to an open order can be recorded; closed orders stay closed |
| portfolio replay | `portfolio/reconcile.py` | none: a fold over the recorded reports | `replay_events` | positions and cash equal what the exchange did, reports being cumulative snapshots that may repeat |
| risk engine | `risk/engine.py` | none | `evaluate` | capital, long-only, duplicate key, mode and kill switch rules |
| execution kernel | `execution/kernel.py` | known keys, intents, statuses, links, reports, cost estimates | `handle_proposal`, cancel, `reconcile_execution_report`, hydration | at most one submission per key; nothing at the broker that is not recorded; a restart reads back what was in memory |
| control state | `control/` | mode, kill switch | `transition_mode`, restore | DEAD is terminal; restrictions hold from the moment they are set |
| Alpaca adapter | `brokers/alpaca/broker.py` | none | `submit`, `cancel`, look-ups, `guard_broker_state` | no blind resubmission; statuses mapped conservatively |
| ledger | `ledger/local.py` | hash-chained lines of a file | `append`, load | the chain is verified on load; a crash leaves a prefix |
| runtime state | `session/runtime_state.py` | none: folds over events | `pending_orders`, `expected_position_quantities` | agree with the kernel's fields |
| paper runtimes | `scripts/alpaca_m10_paper_runtime.py`, `..._m11_...` | none beyond the ledger | start-up look-ups, guard, pending gate, bootstrap, cycle | one cycle never acts on an unsettled account |
| session runner | `session/runner.py` | last processed bar | `run_cycle` | each bar acted on at most once, with fresh prices |
| strategies | `strategies/*.py` | confirmation counters, incumbents, cooldowns | `generate_target` | a regime change is confirmed before it moves money |
| proposal builder | `strategies/proposal_builder.py`, `rebalance.py` | none | `build_with_plan` | deterministic keys, sales before purchases |
| backtest | `backtest/engine.py` | cash, holdings, pending signal | `run`, walk-forward | no look-ahead, cash never negative |
| market data | `market_data/` | none | windowed downloads | no bar twice, none missing |
| observation, research agent, logging, validation scripts | `session/observation.py`, `agent/`, `observability/`, `scripts/` | none | reports and checks | - |

The runtime calls the strategy, hands its proposals to the kernel one at a time, and the kernel calls the adapter.
All parts of one process share the ledger object and the control state; two processes never run at the same time
(the workflows' concurrency group), but one may follow the other at any point.  What runs concurrently with the
program is the exchange.

What is hard to get right, and hard to test, is in the crossings: a request that times out may still arrive; an
order may be filled, expire or be refused while its cancellation travels; a process dies between two writes; the
guard asks two questions at two times; a bar is acted on again after a killed run; a report is a snapshot that is
old when it is used.  `PROJECT.json` lists each of these at its line under `hazards`, with the properties that would
catch it going wrong.

## 2. The modules

| module | models | checked in |
|---|---|---|
| `Orders` | the vocabulary, the transition table of `state_machine.py`, which report a status accepts, DEAD as terminal | all `kernel_*`, `runtime_*` |
| `PortfolioReplay` | `replay_events`: one report as the step of a fold | the same |
| `RiskEngine` | `evaluate`: the checks in their order, the first that fails is the reason | the same |
| `Venue` | the exchange and the adapter's translation of it | the same |
| `ExecutionKernel` | `execution/kernel.py`, with a crash between any two writes; composes the four above | `kernel_*`, `lost_fills` |
| `PaperRuntime` | `main` of the M10 script, `run_cycle`, what the proposal builder may propose; extends `ExecutionKernel` | `runtime_*` |
| `AppendOnlyLog` | what a ledger promises | `ledger_file` |
| `LedgerFile` | `ledger/local.py`: lines, hashes, `append`, load, writes cut short, edits; implements `AppendOnlyLog` | `ledger_file` |
| `Decimals` | `decimal.Decimal`: every operation rounded half to even to the digits of the context | `trend`, `regimes`, `day_trader`, `backtest` |
| `Sizing` | the rebalance plan, the proposal builder, the intent, the engine's arithmetic and the replay's, in decimals | `trend`, `day_trader`, `backtest` |
| `MarketTrend` | the strategy M10 trades (`single_market.py`), asked once a bar, its order filled in part, in full or not at all; extends `Sizing` | `trend` |
| `Regimes` | the strategies of M4 to M7, one version a run: regimes, scores, selection, weights | `regimes` |
| `RegimeLatch` | what regime persistence means: two counters that no restart touches; implemented by version 4.0.0 of `Regimes` | `regimes` |
| `DayTrader` | M11's opportunity scanner and its cycles, several symbols, a sale and a purchase in one cycle; extends `Sizing` | `day_trader` |
| `Backtest` | the replay engine with M8's low frequency momentum strategy and the economic policy; extends `Sizing` | `backtest` |
| `Validation` | the windowed, batched, paged download and the split, holdout and walk-forward of the validation scripts | `validation` |
| `MC*` | the inputs of the TLC instances | |
| `ExecutionKernelProofs`, `PaperRuntimeProofs` | theorems and proofs about the kernel, its orders and the capital; about the runs and the account, extending the first | |
| `LedgerFileProofs`, `RegimesProofs`, `ValidationProofs` | theorems and proofs about these components | |
| `SizingProofs` | lemmas about decimals and about `Sizing`, for the next two | |
| `MarketTrendProofs`, `DayTraderProofs` | theorems and proofs about M10's amounts and M11's cycles, each extending `SizingProofs` | |

There are three refinements.  `ExecutionKernel` is the abstract specification of what drives the kernel (anybody may
hand over any proposal, look anything up, change the mode at any idle moment), `PaperRuntime` is the program that does
so; the theorem `Implementation` shows that the second is a case of the first.  `LedgerFile` implements
`AppendOnlyLog`, which is what the kernel's one variable `ledger` stands for: what was recorded stays, a reader sees all
of it or gets no ledger, and an event whose append was interrupted may have been recorded or not (the model's crash
before and after a durable write).  `Regimes` implements `RegimeLatch`: the regime computed from a history of bars in
every new process is the one a machine with two counters would have.

### State

| variable | code |
|---|---|
| `mem` | the fields of `ExecutionKernel`: `_known_idempotency_keys`, `_intents_by_key`, `_state_by_order`, `_broker_order_key`, `_report_ids`, `_estimated_cost_by_key`, and the replay of `_reports` |
| `ledger` | the same fields as `_hydrate_from_ledger` would compute them from the events written so far.  Each kind of event has its operator (`HydratedIntent`, `HydratedReport`, ...), so the ledger is kept as what it means and not as a sequence of lines |
| `mode`, `kill` | `LedgerBackedControlState.mode` (a change is one durable write), `settings.kill_switch` (read at the start) |
| `pc`, `proposal`, `report`, `result` | where a handler stands and what it has in hand |
| `wire`, `order` | a posted request that has not arrived; the order at the exchange |
| `shares`, `spent` | what the account holds, what it has paid net of sales |
| `posts`, `restarts` | history for the properties: how often a key was sent; how often the process was killed |
| `phase`, `todo`, `fetched`, `plan`, `retire`, `inception`, `refused` | the local variables of `main` and `run_cycle` |
| `bar`, `lastBar`, `booted` (`PaperRuntime`) | the newest bar of the market; two facts read from the ledger: the last completed cycle's bar, the bootstrap marker |
| `lines`, `ended`, `events`, `up` (`LedgerFile`) | the file, whether its last line has its newline, `_events`, the process; `record`, `torn`, `damaged` are history |
| `closes`, `book` (`MarketTrend`, `Backtest`) | the window of closes a decision looks at; the replayed portfolio |
| `regimes`, `scores`, `held`, `target`, `decided` (`Regimes`) | what the strategies compute from the latest bars, the symbols with a position, the decision of the latest bar |
| `book`, `average`, `queue`, `working`, `market` (`DayTrader`) | the portfolio, the proposals of the cycle not yet judged, the open orders, what the cycle saw |
| `first`, `bars`, `outcome` (`Backtest`) | the first bar decided on, the length of the history, why `run` raised |
| `data`, `range`, `at`, `pages`, `remaining`, `fetched` (`Validation`) | what the service has, the request, the call under way, its pages, what it still owes, what was kept; `points` are the decisions of every replay |

### Actions

A handler is cut where somebody else can get in between: at each durable write and each broker call.
`HandleProposal` is `Receive` (the cost estimate is written), `Decide` (the decision), `CreateIntent`, `Validate`,
`MarkSubmitting`, `Submit` or `SubmitRaises`, a reply (`ReplyKnown`, `ReplyUnknown`, `ReplyRaises`),
`RecordSubmission` and `SettleSubmission`; a CANCEL goes through `HandleCancel`; a look-up through
`ReconcileReport`.  `ForeignReport` is a report for an order the kernel does not know.  `Start`, `Stop` and `Crash`
are the process.  `SetMode` is the owner.  `VenueActs` is the exchange, at any moment.

The exchange may fill an order one unit at a time at any price of `FillPrices`, cancel or expire it, turn it down at any
time, and take or lose a request on the wire.  `Divert` puts an open order in one of the states `Detours` names:
`pending_cancel` and `pending_replace`, `held` for any state the adapter has no name for, and `suspended`; `Resume` takes
it back, which refuses a cancellation or ends a suspension.  What the process learns is a `Snapshot` at the time of a call,
in which `_map_status` (`broker.py:385`) reports a suspended order like a rejected one: closed, while it may still come
back and fill.  `resumed` remembers for the properties that it did.  The list of open orders the guard asks for is taken to
hold every order the exchange has not closed, a suspended one too.  A cancellation somebody asks for outside the program
is `Divert`, the program's own is `SendCancel`.

`Submit` is one step for the up to four requests of `submit` (the look-up, the asset, the position of a sale, the POST).
The exchange has no order under an id that was not posted, so between the first and the last only the position could
move; a move before the step stands for one between its requests.  `Settle` has no branch for a report without an intent
(`kernel.py:278`): a look-up is about a pending order, which has one, a reply about the order just sent.

In `MarketTrend` a run is one step, because its amounts depend on nothing that moves while it goes on: `CompleteBar`
is a trading day, `RunCycle` decides, plans, sizes and judges at the quote of the moment, `CloseOrder` is what the
exchange made of the day order: a part of it, at any price of the market and not the one it was sized at
(`reconcile.py:48`).  `closes` is the window the averages look at, `book` the replayed portfolio.

In `PaperRuntime` a run is `Launch`, the look-ups, `FetchPositions` and `Guard` (the two requests of
`guard_broker_state`), then `BeginCycle`, one `HandleNext` per proposal with the kernel's steps in between,
`CompleteCycle` and perhaps `FinishBootstrap`; every exception `main` does not catch is `Uncaught`, and every failing
request outside a handler is a `Killed`.

`LedgerFile`: `Start` reads the whole file or refuses it; `AppendEvent` returns, `DiesBeforeWrite`, `DiesInWrite` and
`DiesAfterWrite` are the places a write can be cut short at; `Alter`, `Omit`, `Repeat` are one edit of the file.  A hash
is what was hashed, so two are equal only if the chains before them are.

`Regimes`: `CompleteBar` adds a bar of the benchmark and the symbols; `Decide` is `generate_target` and, with it, what
became of the orders: any part of the sales and purchases may be done.  `DayTrader`: `RunCycle` is a run that gets
usable quotes, `HandleNext` the judgement of one proposal and what the reply to its order reports as filled, `CloseOrder` the look-up of
a later run.  Fills between reply and look-up are not in the book, whose cash and positions are those of the reports.  An
order may be filled at prices better and worse than the quote by less and by more than the slippage (`Moves`).
`Backtest`: `Warm` and `Iterate`, the bars of the history chosen one by one.  `Validation`: `ReceivePage` and
`FetchFails`, then `CheckHistory`, `RunDevelopment`, `RunHoldout`, `RunWindow` and `Report`, in the order of `main`.

## 3. The runs

| run | instance | shows |
|---|---|---|
| `kernel_buys` | two purchases (two units and one) that together exceed the capital, prices 2 and 3, one crash | a key is sent at most once and only recorded; a restart changes nothing; reservations keep the capital; the ledger replays; with nothing pending the book is the account |
| `kernel_lifecycle` | a purchase and its cancellation, all modes, the kill switch, cancellations after fills, replacements and suspensions, one crash | every state of the exchange can be recorded but for two named moves, closed orders are closed rightly and for good, restrictions hold, DEAD stays |
| `runtime_retire` | a purchase, an exit under two keys, retirement on and off, one kill | nothing is sold twice; the book follows the exchange; the runtime's types |
| `runtime_settles` | one bar with two market states, a purchase in each, cancellations after fills, refused and overtaken ones, one kill, fairness | cycles act on a settled account only, the inception bootstrap comes before the first fill only, no position is opened twice; orders get closed, runs keep deciding, a book left behind ends in SAFE |
| `runtime_resumes` (violation) | one purchase | a request that was lost blocks every later run |
| `lost_fills` (violation) | one purchase, cancellations after fills | fills that come with a cancellation are lost to the replay |
| `trend` | eight bars at four prices, four filled parts at any of these prices, three digits | targets add up, proposals agree with themselves, only a purchase filled above its reserve overdraws, only transitions trade, a risk-off decision sells any remainder |
| `ledger_file` | files of up to five lines, two payloads, any number of kills, one edit | the file implements the log; a file is refused only for a write cut short or an edit |
| `regimes` | four symbols, one or two places, four versions, bars at the edges of the regimes, scores around the thresholds | targets are accepted, a repeated decision takes nothing back, changes have a cause that lasted, the regime persists over restarts |
| `day_trader` | four bars around the entry cutoff and the flatten window, two symbols, starting in cash, with M10's position, or with two positions, fills at better and worse prices | purchases are approved in cash only (for the exception see `BuysOnlyInCash`), forced exits are whole, rotations pay for themselves |
| `backtest` | seven bars, two candidates with and without a bar, a decision every second bar | no replay ends by its own roundings, drift trades nothing, risk-off sells |
| `validation` | three symbols in batches of two, sixteen days in windows of five and a request of eleven at once, holes in the history | the download is complete and exact; development sees nothing of the holdout and no bar counts twice |

Two more configurations show what hypotheses of the proofs exclude, each by one counterexample; they are kept for
whoever wants to see it and are not part of the regular runs.  `MCRuntimeSuspended.cfg` (module `MCPaperRuntime`): a
suspended order is closed in the ledger, comes back and fills between the guard's two requests, so that
`CycleOnSettledBook` is violated.  `MCKernelDearFill.cfg` (module `MCExecutionKernel`): a purchase filled at twice its
price violates `LedgerReplayable`.

**Bounds.**  An order has at most two units: one is filled or not, two is the least that can be partly filled, looked
up, and filled or cancelled later.  Two keys are the least for competition (reservation, re-proposal), three for a
purchase and two sales.  One kill is enough for each write to be the last of a process and for a second process to
meet what it left; properties that a second kill could break would have to survive the first restart, and the
theorems, which bound nothing, cover the ones proved.  Two prices are the least for a fill that differs from the
estimate.  `MaxRestarts`, `MaxBar`, `MaxBars`
and `MaxEvents` are the only counters that are bounded by a guard.  `MaxPages` is the code's own limit.

Four symbols are two positions and two challengers in `regimes`: the least for a challenger to meet what the turn of the
one before it left.  With two symbols there is one challenger at most, and more holds than is true.

Five lines of a ledger file are the least in which a line can be lost or doubled at the front, in the middle and at the
end with a restart before and after it.  The thresholds of `Regimes`, `DayTrader` and `Validation` are the code's where
they are compared with (scores, basis points, minutes, percentages), and scaled where they are lengths: confirmations,
look-backs and warm-up are two to four bars instead of 2 to 200, a window five days instead of 30 and the longest request
that is not windowed eleven instead of 45: it asks for twelve days, two more than the least history, so that it is
replayed as well.  What matters is how
they lie to each other: a look-back shorter than the history, more windows than batches, a last window that is not
full, a training period before the split.  `StrayDays` are days from which the service may return bars that were not asked for:
before the request, in another window of it and after it.  The fee rate of `backtest` is zero, as it is in every script.

`Detours` is empty or small in each run, because every state that may be taken and left multiplies the orders of a run:
`kernel_lifecycle`, which asks what may be recorded, has `pending_replace` and `suspended`, and its own cancellations
bring `pending_cancel`; `runtime_settles`, which asks whether runs recover, has `pending_cancel`; the others have `held`.
Together they have all four; the theorems have any subset.

**Constants with a meaning.**  `CancelsAfterFills = FALSE` restricts the exchange to cancel and expire untouched orders;
`SettledBooksMatch` holds only then, and `lost_fills` shows why.  `AuthorityKept` and `LedgerReplayable` are about
estimates that cover the worst fill (`cost` in `MCExecutionKernel`), because the code reserves the reference price plus
the estimate; a dearer fill (`MCKernelDearFill.cfg`) makes the replayed cash negative, `PortfolioState` refuses it, and the model's `broken`
then makes every later replay raise, as it does in the code.

**Decimals.**  The context of the program has 28 digits; the runs have three (`regimes`, whose
numbers are hundredths, two; `day_trader` four, which its slippage rate needs), with a slippage rate of a tenth
(`trend`) or a fiftieth instead of a thousandth.  How an operation rounds does not depend on the number of digits, so what the roundings can
do to a comparison occurs among few prices, and TLC's 32-bit integers hold every intermediate product.  What
depends on the digits is how often it happens and by how much: a last digit is a per cent here and nothing one
can see in an account there, but `>` sees it in both.  The cadence is three bars, the look-backs three and two, eight bars are two
scheduled decisions after the first possible purchase; the parts an order may be filled in (0, 0.1, 0.9, 1) leave
remainders below and above the bands.

**Fairness.**  Only `FairRuntime` has any: weak fairness of `RunStep`, because the workflow is scheduled and a run is
straight-line code with timeouts on every request, and of `VenueWorks(k)` for each order, because the adapter sends
day orders, which the exchange closes by the end of the day if they are not filled.  There is none for `Divert` and
`Resume`: an order may stay in a detour or go in and out of it until it is closed.  Nothing makes a kill, a failing
request or a new bar come, and nothing makes them stay away but the bound on kills.

## 4. Findings

Shown by a run:

1. *Lost fills* (`portfolio/reconcile.py:40`, run `lost_fills`).  A partly filled order that is then cancelled or expires
   reports CANCELLED with its filled quantity, and `replay_events` skips the report.  The account holds shares the book
   does not.  `DivergenceNoticed` shows the consequence: the guard of a later run puts the program in SAFE.
2. *An order that never arrived* (`alpaca_m10_paper_runtime.py:255`, run `runtime_resumes`).  A request that fails before
   it is sent leaves the order pending.  The look-up answers 404 and is passed over; the guard then expects an open order
   that does not exist, enters SAFE and raises, on every later run.  `NoOrphans` in `RunsKeepDeciding` is exactly this
   exception.

Met while modelling, described here and not among the runs.  In the kernel and the sizing:

- A suspension is not a rejection (`broker.py:385`, `MCRuntimeSuspended.cfg`).  The adapter records a suspended order as
  REJECTED, which is terminal.  Nothing looks it up again, its reservation is gone, and its key counts as done.  If it comes back
  and fills, the guard sees it at some later run (the open order, or the shares) and enters SAFE, but not if it comes back and
  fills between the guard's two requests: then the strategy runs on a book that lacks it.  `docs/runbooks/alpaca-paper.md:98`
  wants any divergence to "move Project Fifty to `SAFE`".  The capital is not kept either: what such an order spends is
  neither reserved nor replayed, which is why `Authority` and all that says the book is the account assume an
  exchange without suspensions.
- A fill dearer than its reserve (`domain/models.py:99`, `MCKernelDearFill.cfg`).  A market order has no limit.  One filled for
  more than the cash makes the replayed cash negative; `PortfolioState` refuses it and every later replay of
  that ledger raises, while `docs/runbooks/alpaca-paper.md:142` has "final NAV can be reconstructed from the ledger".
  `BookStaysValid` and the theorem `NeverOverdrawn` show of the amounts that nothing else overdraws.
- A cancellation that was recorded as pending and is refused, or overtaken by a refusal of the order
  (`state_machine.py:33` has no way to ACKNOWLEDGED or REJECTED), and the replacement of a partly filled order end a
  look-up in SAFE with an exception (`Unforeseen`).  A refused cancellation is recovered from when the order fills or is cancelled after
  all; one that was overtaken by a refusal (`Overtaken`) never is, and every later run ends at that look-up.
- UNKNOWN does not restrict (`kernel.py:257`; `docs/constitution/constitution-v0.1.md:142` asks for it).  After an UNKNOWN
  submission the mode stays as it was and the next purchase of the cycle goes out.
- The first purchase and its reserve (`proposal_builder.py:171`).  The amount is the rounded quotient of the cash and
  1 + slippage, the quantity a rounded quotient of that, and the engine's product of both plus the slippage may exceed
  the cash by a last digit: the inception is rejected and tried again at the next quote.  With the code's own 28 digits,
  67.6725 of cash and a rate of 0.001 it happens for instance at a price of 553.325.  `CostsReserved` bounds the excess by
  the rounding.
- An exit above the ceiling (`risk/engine.py:93`).  `max_order_notional` applies to sales.  `main` accepts any ceiling from
  the starting cash up and `.env.example:10` sets just that; a position that has gained cannot then be sold whole, and
  since the bar is marked as done, the exit is not proposed again before the next scheduled decision.
- A duplicate proposal overwrites the cost estimate of the order under its key before it is rejected (`kernel.py:198`),
  which only a direct caller of the kernel could bring about while that order is open; open sales
  reserve nothing (`risk/engine.py:90`), so only the gates of `main` keep a position from being sold twice (`NeverShort`).

In the ledger file (`ledger/local.py`):

- A torn last line ends every later start; nothing repairs it, while `docs/constitution/constitution-v0.1.md:31` wants the
  program to "resume after ordinary recoverable technical interruptions".  A line that lost only
  its newline is read, but the next append spoils it: both events are then on one line that is no JSON document.
- A file cut at its end is a shorter good file; nothing says how long it was.  `Omit` leaves the last line alone.

In the strategies:

- Version 4.0.0 after a SHOCK: the next NEUTRAL bar within the confirmation is RISK_OFF, which raises the budget from 0
  to 0.15 at once.
- The selection of versions 3.0.0 and 4.0.0 is not idempotent with two places (`confirmed.py:159`): each challenger has
  one turn, against the weakest at that turn.  Let positions A and B have 18 and 18 today, A 28 and B 18 the bar before;
  challengers C 28 and D 28 today, C 28 and D 38 the bar before.  C does not beat A on both bars, D does and takes its
  place.  Asked again about the same bar, C beats B, which was not the weakest before.  What was sold (A) does not
  come back, which is what `DecisionsAtRest` says and `AtRest` proves; with one place, or where one score decides
  (version 2.0.0), the outcome is the same again.
- With more incumbents than places (after a partly filled rotation) the weakest go without a confirmed exit; this is
  `ChangesHaveCause`'s second alternative.  Three equal weights would not add up to one exactly: `max_positions` is one or
  two in every configuration, three are accepted.
- M11: one missing or stale quote of the universe skips the cycle, stop and flattening with it (`runner.py:148`).  The increase
  that holding the best symbol proposes after a partial fill is rejected for lack of cash.  In a rotation the purchase is
  judged at the price its sale was sized at: it costs more than that sale brings by its own slippage, so it is rejected
  also when the sale was filled and replayed before.  Only a sale so much better than its quote that the part the reply reports
  brings more than all of it was worth lets the purchase through, then with the rest of the sale open (`BuysOnlyInCash`).  M11 continues M10's
  ledger, so its day may begin with SPY, which is no candidate and is sold.  What a flattening order did not fill stays
  overnight.

In the backtest and the validation:

- A full exit sells `(quantity * price) / price`, which may round below the quantity (`engine.py:265`; at 28 digits in about
  one case in seven).  The rest counts as an incumbent at the next decision, next to the challenger
  (`docs/milestones/m8-low-frequency-daily.md:49` has one risk position at most).  With two positions and no cash the preserved weights may
  exceed one by a last digit, and the target raises.  A position without a bar at the execution is marked at its average
  cost.
- A request of 45 days or less accepts a bar from before its start; only the scripts' own check refuses it.
- Bars between the split and the next window's start, and a last window that is not complete, are in no window that counts.

## 5. The proofs

Everything is proved for arbitrary constants under the named assumptions of the modules: `KernelAssumption`,
`NoneAssumption` (Python's `None` is no other value), `StartingCashAssumption`, `FillPricesAssumption`,
`MaxOrderNotionalAssumption`, `RuntimeAssumption`, `RegimeBarsAssumption`, `SelectionAssumption` (the universe is a sequence, confirmations take
one bar at least, components of a score are numbers), `ValidationAssumption`, `DigitsAssumption`, `SizingAssumption`,
`MarketAssumption`, `DayAssumption` (prices are positive amounts, an order is filled in a part between none and all, a
book has finitely many positions, they are positive, and no debt: M11 takes over what M10 left, and a book
in debt, which only a dear fill leaves, is one no replay returns).  They say what type a
constant has and, of sizes and lengths, what the constructors check.  `Amount` is what any operation of
the context returns: a number of at most `Digits` digits.  Anything more is a hypothesis of the theorem
that needs it:

| hypothesis | theorems | why |
|---|---|---|
| `~CancelsAfterFills` | `BookConverges`, `Authority`, `CashKept`, `RunsReplay`, `PurchasesReplay` | the replay loses fills that come with a cancellation; `lost_fills` is the counterexample |
| `IsFiniteSet(Keys)` | the same without `BookConverges` | capital is a sum over orders, and a process has seen finitely many |
| `Bounded(m)`, `EstimatesCover(m)` | the same | no fill is dearer than `m`; the estimate of a purchase, and every other estimate proposed under its key, covers a fill at `m` |
| `NeverSuspends` | `SettledCycle`, `BuysWhenFlat`, `InceptionFlat`, `Long`, `BookTrue`, `ReplayReturns`, `BookConverges`, `RunsReplay`, `Authority`, `CashKept`, `PurchasesReplay` | a suspended order is closed in the ledger while it may still fill; `MCRuntimeSuspended.cfg` is the counterexample |
| `NoSales` | `PurchasesReplay` | two sales of one position pass the risk engine one after the other; among runs there is only one |
| `[]WithinCeiling` | `RiskOff` | an exit above the order ceiling is rejected and the bar is spent (section 4) |
| `[]Fine`, `[]DayFine` | `Transitions`, `Rotations` | with few digits, or a smallest order of next to nothing, what rounding leaves of a preserved weight would be traded: two last digits of the position's worth stay below the smallest order |
| `[]BuyFine` | `Purchases` | the same of purchases: two last digits of one stay below the slippage rate, a hundred of the account below the slippage of the smallest order |
| `TestBars <= StepBars` | `Unseen` | windows closer than their length overlap; every script sets both alike |

The instances satisfy them (`kernel_lifecycle`, which has suspensions, checks nothing that needs `NeverSuspends`): `EstimatesCover` holds in `kernel_buys` with `m = 3` and in the `runtime_*` runs with `m = 2`,
and not for a smaller estimate.  Its second half is about `kernel.py:198`: a duplicate proposal overwrites the estimate of
the open order, and that is harmless exactly as long as the new one covers that order too.

The kernel's invariants are layers, each inductive relative to the ones before it:

| layer | says | needed because |
|---|---|---|
| `Typing` | types, and what a handler has in hand at each `pc` | `TypeOK` alone does not say that there is a proposal when one is read |
| `Durable` | memory equals ledger while the process lives | gives `Restart` at once, and lets every later layer speak of one of the two |
| `Submission` | what was posted was posted once, is known, recorded as sent and past VALIDATED; an order between approval and request has not been posted | `AtMostOneSubmission` is not inductive: it needs that a posted key is known, hence never approved again, and that an approved one was not posted before |
| `Restriction` | under a restriction no purchase stands between its approval and its request, and the intent has the side of its proposal | a purchase approved in NORMAL must not leave in SAFE: modes change between handlers, and a failing handler gives its order up |
| `Closure` | a terminal status, and every report in hand that has one, agrees with the order of the exchange, which is closed or, if it is REJECTED, suspended or was; a linked broker order is the key's own | a look-up is old when it is recorded, but a closed order does not change any more, and one that was suspended stays one that was |
| `Progress` | an ordinary order of the exchange is partly filled exactly if something of it was filled; an order the ledger, or a report in hand that it would record, shows as partly filled was filled in part | `VenueProgressAccepted` has to relate an old status to what the exchange makes of the order now, and a status comes from a report that was taken earlier still |
| `Unsuspended` | under `NeverSuspends`, no order is suspended or was | turns `Closure` into the agreement with a closed order that the runtime's and the capital's layers need |

They give `TypeCorrect`, `Restart`, `OneSubmission`, `RecordedFirst`, `Restrictions`, `Dead`, `Closing`, `ClosedForever` and
`ProgressAccepted`.

The runtime: `Implementation` maps every step of a run to a step of the kernel or a stutter, so these theorems hold of
it.  `InFlight` (a request on the wire is about an order the exchange does not have yet) and `Settled` (with nothing pending, the positions of
the guard's first request stay true until the second; at the cycle nothing is pending and the book is the account) give `SettledCycle`, where the point is
that two requests at two times are enough.  `Trading` extends it over the proposals of a cycle: in the symbols still to be
traded nothing is open and, before a purchase, nothing is held, which gives `BuysWhenFlat`.  `Evidence` (the last report of every order the ledger calls closed is
among the recorded ones) gives `InceptionFlat`, also for the fills the replay loses.

The account (`PaperRuntimeProofs`), on top of these, about the runs.  None of it holds of the kernel alone, where anybody may
hand over two sales of one position.

| layer | says | needed because |
|---|---|---|
| `Covered` | a symbol has one sale at most that may still be worked, on the wire or at the exchange, and what it may still sell is held | gives `NeverShort` (`Long`): a fill takes one unit of exactly that |
| `Account` | what the book has of an order, or will have by a report in hand, is part of what the exchange filled; all of it once a complete fill was reported; a symbol has one pending order, and what the book lacks of a sale the book's position can still give; the replay has not raised | gives `BookFollowsVenue` (`BookTrue`) and `ReplayReturns`; a report may be recorded after another, later one, so a report in hand is between what is recorded and what is filled |
| `Balance`, `Unfilled` | in every symbol the account is the book and what is filled and not yet recorded of one order; what was never begun, or closed by refusal or cancellation, was never filled | gives `SettledBooksMatch` (`BookConverges`): with nothing pending the difference is zero |

The capital (`ExecutionKernelProofs`), about the kernel whoever drives it:

| layer | says | needed because |
|---|---|---|
| `Evident` | every report, recorded or in hand, is behind the exchange by so many units and at most so many times the dearest price | what an order may still cost is computed from what is recorded of it |
| `Estimated` | the estimate in memory covers any purchase under the key, also between its approval and its record | the estimate is not in the intent, and is written before the decision |
| `Capital` | cash is the starting cash less what the book paid; what was spent is the sum of what the orders paid; the sum over all orders of the worst they may come to, with the purchase that is approved and not recorded yet, is within the starting cash | gives `Authority` and `CashKept`; `Decide` compares the cash less the reservations with the notional, and lemma `ReservedSum` says that what it sums up is what the open orders may still cost |
| `Buying` | without sales the replay cannot raise | gives `PurchasesReplay`; with sales `RunsReplay` takes this from `ReplayReturns` |

`_reserved_cash` and the other amounts are sums over the keys, a fold of the community modules.  The induction theorems of
the library cannot be used (they take an operator as a parameter); instead lemma `LeastNumber` is drawn from the
well-foundedness of the naturals, and `SmallestSet` says that if a sum over some finite set were wrong, there would be a
smallest such set.  `Total`, `TotalChange`, `TotalMonotone` and `TotalSubset` follow by taking one element away.

The ledger file: `LedgerTypeCorrect` and, from an invariant that says what the file is as long as nobody tore or edited it
(`lines` is `record`, every line valid) and what it is otherwise (a readable file is a valid chain; its events, if it
is readable, are those of the record), `Refusals` and `Refinement`.

The regime: `HistoryInv` says that the window holds raw regimes, never more than `RegimeBars` of them, and only neutral ones while it is
shorter.  It is needed because a short window cannot confirm anything in the code, while the latch counts from its start.
Lemma `TrailingStep` says how the number of trailing bars moves when a bar is added and the oldest one leaves.  From both,
`Persistence` is the refinement `RegimePersists` for every number of confirming bars.

The selection (also `RegimesProofs`): `SelectionInv` says that every symbol has a score from the first bar on and that only
symbols of the universe are held, whatever was filled.  `RankedAll` shows that the ranking is a strict linear order with
every symbol once, `WeakestOf` that there is a weakest one.  The rotation is a fold over the challengers;
`RotationExists` and `RotationInduction` say that what holds before and is kept by every turn holds after all of them
(by the smallest set of turns after which it would not, as above).  What a turn keeps:

| invariant of the turns | says | needed because |
|---|---|---|
| `Accounted` | who was retained is selected or outbid by a newcomer that is selected | gives `Causes`; a replacement may itself be replaced, and then margins add up bar by bar (`OutbidsTransitive`) |
| `Settled` | who was kept once and is not selected stands no higher than any that is; where that is decisive, nobody who had a turn could still replace anybody | gives `AtRest`: all who may challenge again are ones that were kept or qualified before and lost (`RepeatedOf`); one that was kept stands no higher than any selected one, so it gets no place, at any turn |

`Causes` is `ChangesHaveCause`, `AtRest` is `DecisionsAtRest`, for every universe, number of places and bars.

The validation (`ValidationProofs`): `PartsCover` says that the windows and batches together ask for every bar of the
request (the last bar of a window is asked for twice, and the last window is cut); `Download` says of every state that the
parts before the one under way are received and, of this one, all but what remains; `Complete` follows from both.  For
`Unseen`, lemma `Ordered` shows that a benchmark's bars in order are strictly increasing and as many as there are bars;
`Walk` says of every counted window what lies between its first and its last day and that windows differ by a step.

Amounts (`SizingProofs`).  The signs, sizes and order of amounts depend on how operations round, and the arithmetic of the
provers has neither powers of ten nor digits.  Both are recursive functions in `Decimals`, which the lemmas unfold one
argument at a time; `LeastNumber` again takes the place of induction.  From `TenMonotone` and `WidthOf` (a number has
`n + 1` digits exactly between two powers) follow, for any number of digits: every operation returns an `Amount`
(`AmountSigns`); sums, products and quotients keep signs; a product with a weight in [0, 1] does not exceed the other
factor (`ProductsOrder`); rounding is monotone (`NearOrder`), so a comparison of exact values is never turned
round, only blurred to an equality; and an operation is off by at most five parts of `10^Digits` of its result
(`NearError`, `QuotientError`).  On these rest the lemmas about `Sizing`: the net asset value of a book covers each of its positions
(`NavCovers`), a proposal is for a positive quantity at the price of the quote with exactly the notional the engine
recomputes (`ProposalFacts`), and a fill leaves positive positions and no others (`FillFacts`).

Some questions are about the errors of several operations together, against a band of the configuration.  They are
answered in whole numbers at a common exponent, with `T = 10^Digits`: an operation returns between `T - 5` and `T + 5` parts of
the exact result's `T` (`ProductError`, `SumError`, `DifferenceError`, `QuotientError`).  `Preserved`: the account times
the rounded share a position has of it is the position's worth up to two last digits, three roundings and a sum apart.
`CostExceeds`: what an order sized for an amount costs with its slippage is more than the amount, once the rate is two
last digits.  `AddExceeds`: an order sized for the difference of account and position costs more than the cash; the difference of
two rounded sums may be far off in its own digits, so the band is a hundred last digits of the account.

M10's amounts (`MarketTrendProofs`).  The invariant `Sound` says that the cash is not negative but for a dear fill, only the
strategy's symbol is held, in a positive quantity, and `Paid`: an order that works was sized by the builder and, if it is a
purchase, its reserve was paid for with the cash of the book it will be filled into.  The last part makes it inductive: a fill comes
after the judgement, at a price of its own, and overdraws only if it costs more than what was judged, the whole order
with its slippage.
It gives `BookValid`, `Consistent`, `TargetsAccepted` (the preserved weight is a rounded quotient of a rounded product, the
cash weight a rounded difference, and both add up to one exactly, lemma `AddBackOne`) and, while the position is
within the order ceiling, `RiskOff`.  `Transitions` needs `Preserved`: a preserved weight is worked out from the position and turned
back into an amount by the builder, and only because what comes out is within the smallest order is nothing traded
between transitions.  `Fine` holds in the `trend` instance, and at 28 digits of any account.

M11's day (`DayTraderProofs`).  `OneBest`: the comparison of candidates by score and name is a strict order in which
any two that qualify compare, so the ranking has one first.  `DaySound` is the invariant: what is held is held in positive
quantities, and every proposal queued or working is one the builder may have sized.  It gives `DayHoldings` and `ForcedExits`:
in the flatten window, at a stop and with two positions every symbol of the book gets a proposal, because no rounding of
a fill leaves a position of nothing or less, for which the builder would make none.

On it rest two more layers, which TLC confirms on the instance.

| layer | says | needed because |
|---|---|---|
| `Solvent` | no debt but by a dear fill; a queued purchase is the last of the queue; a working one is alone among purchases, paid for, and nothing is queued | gives `NeverOverdrawn`: a purchase is judged by the cash of that moment and filled later, only sales may come between, and what a report adds to an order's cost is within what is left of its reserve, unless it is dear |
| `Funded` | a queued purchase is of an empty book and alone, or costs more than the cash with no sale to come, or more than the one sale still to come would bring the cash to at its quote; once that sale is sent, the cash is still too little or the sale was better than its quote by more than its rest | gives `Purchases`; the cases follow each other as the sale is judged, refused, or reported as filled in part or in full (`SaleProceeds`) |

`Rotations` goes by cases of the target: past the cutoff the position is kept at a weight that comes to no order
(`KeptPosition`), before it the best candidate wins, and all in what is held is never a sale (`WantedIsNotSold`).  `DayFine` holds
in the `day_trader` instance.  `BuyFine` holds there too, in four digits, and at the program's 28 digits, smallest order (5.00) and rate
(0.001) for any account below 5e23.

Only model-checked:

- of the amounts: `CostsReserved` bounds an excess by two last digits, which is what the runs show and tighter than the sum
  of the errors; `TargetsAccepted` of `Regimes` is about sums of rounded weights, up to three, which hold at the
  program's digits and not at any (with one digit, three equal weights do not add up); the three properties of
  `Backtest` are about folds of sales and purchases over the candidates, where each step adds its own errors
  (`RunsComplete` compares the sum with a tolerance, `DriftNeverTrades` with the band at another price than the decision's);
- the liveness properties `EveryOrderSettles`, `RunsKeepDeciding` and `DivergenceNoticed`, with everything under fairness.

## 6. What is left out

In the kernel and the runtime quantities are whole units and money is whole (the roundings are `MarketTrend`'s subject);
average prices, NAV and their rounding are left out, since no guard reads them.  The exchange never fills more than an
order's size.  In the kernel writing the ledger never fails; what a failing write does is `LedgerFile`'s subject.  Intents
are named by their key, not a uuid.  What suppresses a
rebalance is nondeterministic in `PaperRuntime`.  The configuration checks at the start of `main`, the summary file and
`run_until_close`, which no script calls, are not modelled.  Both workflows are currently switched off (`if: false`); the
model is of what they do when on.

Indicators are inputs: how a score's component, a volatility or a moving range follows from prices is not modelled, except
for the averages and momenta of `MarketTrend` and `Backtest`.  In `DayTrader` the gates of `main` are the condition that no
order is open, which is what `CycleOnSettledBook` shows of them; quotes are there for every symbol.  The sums a backtest
reports, the gates a validation script puts on them and the candidate configurations of M9 are left out: nothing reads
them.

### Not modelled

The simulated broker is used by tests only, and `Venue` covers the reports it can produce.  Session observation is a report
over a finished ledger that nothing reads back.  The research agent validates one JSON document without state.  Logging is
output.  The connectivity and readiness scripts ask one question and print the answer.

## 7. What could come next

1. *Session observation*: the report's folds against the ledger they summarise.
2. *Quotes and parsing*: the sanity check of quotes and `BarRequest`'s parsing in front of `run_cycle` and `Validation`, so that the
   skipped cycle of M11 becomes a run.
3. *Proofs*: from the bounds on the rounding errors, that drift stays below the bands of `Backtest`, and the excess that
   `CostsReserved` speaks of.
