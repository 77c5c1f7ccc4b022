---------------------------- MODULE PaperRuntime ----------------------------
(***************************************************************************)
(* One scheduled run of the paper trader, and the runs after it: main of   *)
(* scripts/alpaca_m10_paper_runtime.py, the cycle of session/runner.py it  *)
(* calls, and the proposals strategies/proposal_builder.py makes of the    *)
(* strategy's target.  The run drives ExecutionKernel, which it extends:   *)
(* phase is where main stands, pc where the handler it called stands.      *)
(*                                                                         *)
(*   lookup     every pending order is looked up and reconciled;           *)
(*   positions, orders   the two requests of guard_broker_state;           *)
(*   cycle      nothing is pending: the market is read, a target made;     *)
(*   trade      the proposals are handed over, sales first;                *)
(*   bootstrap  the inception bootstrap is marked as done.                 *)
(*                                                                         *)
(* scripts/alpaca_m11_paper_runtime.py has the same main without the       *)
(* bootstrap and the retirement.                                           *)
(*                                                                         *)
(* Every exception main does not catch ends the process and leaves the     *)
(* ledger as it is, which is what Crash does; requests of main that fail   *)
(* are therefore crashes, and failures inside a handler are the kernel's.  *)
(* What the strategy wants is left open: any proposals that fit the        *)
(* portfolio.  Their key contains the hash of bars and quotes, so a bar    *)
(* acted on again may bring the same key or another.                       *)
(***************************************************************************)
EXTENDS ExecutionKernel, Sequences

CONSTANTS
  MaxBar,    \* bound: decision bars are 1 .. MaxBar
  Plans,     \* Plans[bar]: sequences of proposals the builder may make at that bar
  Retiring   \* the values of PROJECT_FIFTY_M10_RETIRE_TO_CASH a run may find

ASSUME RuntimeAssumption ==
  /\ MaxBar \in Nat \ {0}
  /\ Retiring \subseteq BOOLEAN
  /\ \A b \in 1 .. MaxBar : Plans[b] \subseteq Seq(Proposals)

VARIABLES
  phase,      \* where main stands; "off" when no run is going
  todo,       \* pending orders still to be looked up
  fetched,    \* the positions guard_broker_state was told, or None
  plan,       \* proposals still to be handed to the kernel
  retire,     \* whether this run retires to cash
  inception,  \* bootstrap_required of this run
  refused,    \* whether a proposal of this cycle was rejected
  bar,        \* the newest completed bar of the market
  lastBar,    \* ledger: decision_bar_time of the last strategy_cycle_completed
  booted      \* ledger: m10_inception_bootstrap_completed was written

runVars == <<phase, todo, fetched, plan, retire, inception, refused>>
durableVars == <<lastBar, booted>>
runtimeVars == <<runVars, bar, durableVars>>
allVars == <<vars, runtimeVars>>

Phases == {"off", "lookup", "positions", "orders", "cycle", "trade", "bootstrap"}

-----------------------------------------------------------------------------

\* Control is with main, not with a handler, and the handler it called did not raise.
InMain(p) == phase = p /\ pc = "idle" /\ result # "RAISED"

NewRun ==
  /\ todo' = {} /\ fetched' = None /\ plan' = <<>>
  /\ retire' = FALSE /\ inception' = FALSE /\ refused' = FALSE

\* main returns or raises: the process ends, the ledger stays.
End ==
  /\ Stop
  /\ phase' = "off"
  /\ NewRun
  /\ UNCHANGED bar

\* The workflow starts a run: control state, kernel and the list of pending orders are read
\* from the ledger.
Launch ==
  /\ phase = "off"
  /\ Start
  /\ phase' = "lookup"
  /\ todo' = PendingOrders(ledger)
  /\ retire' \in Retiring
  /\ UNCHANGED <<fetched, plan, inception, refused, bar, durableVars>>

\* A pending order the exchange knows goes through reconcile_execution_report.
LookUpPending(k) ==
  /\ InMain("lookup")
  /\ k \in todo
  /\ LookUp(k)
  /\ todo' = todo \ {k}
  /\ UNCHANGED <<phase, fetched, plan, retire, inception, refused, bar, durableVars>>

\* One it does not know (404) is passed over.
NotFound(k) ==
  /\ InMain("lookup")
  /\ k \in todo
  /\ order[k] = None
  /\ todo' = todo \ {k}
  /\ UNCHANGED <<vars, phase, fetched, plan, retire, inception, refused, bar, durableVars>>

\* The first request of guard_broker_state.  Before it expected_position_quantities replays
\* the quantities of the ledger, and raises where the portfolio replay does.
FetchPositions ==
  /\ InMain("lookup")
  /\ todo = {}
  /\ IF ~ledger.book.broken
     THEN /\ phase' = "positions"
          /\ fetched' = shares
          /\ UNCHANGED <<vars, todo, plan, retire, inception, refused, bar>>
     ELSE End /\ UNCHANGED mode
  /\ UNCHANGED durableVars

OpenAtBroker == {k \in Keys : Live(k)}

\* Plausible bug: the guard looks at the open orders only.
OpenOrdersConsistent(expected) == OpenAtBroker = PendingOrders(ledger)

Consistent(expected) == fetched = expected /\ OpenAtBroker = PendingOrders(ledger)

\* _has_positive_fill: some recorded report, of whatever status, shows a filled quantity.
HasPositiveFill == \E id \in ledger.seen : id[1] = "alpaca" /\ id[4] > 0

\* Plausible bug: only the marker counts.
BootstrapUnlessMarked == ~booted

BootstrapRequired == ~booted /\ ~HasPositiveFill

\* Plausible bug: the cycle is run while orders are pending.
NeverWaits == FALSE

\* "pending broker order; no new strategy action"
MustWait == PendingOrders(ledger) # {}

\* The second request of guard_broker_state and the decisions on its result: a divergence
\* puts the program in SAFE and ends the run, DEAD ends it, pending orders end it.
Guard ==
  /\ InMain("positions")
  /\ IF ~Consistent(ledger.book.pos)
     THEN End /\ EnterSafeMode
     ELSE IF mode = "DEAD" \/ MustWait
     THEN End /\ UNCHANGED mode
     ELSE /\ phase' = "cycle"
          /\ fetched' = None
          /\ inception' = (~retire /\ BootstrapRequired)
          /\ UNCHANGED <<vars, todo, plan, retire, refused, bar>>
  /\ UNCHANGED durableVars

\* The market is closed, or history or quotes are missing, stale or not actionable, or the
\* replay for the strategy raises.
SkipCycle ==
  /\ InMain("cycle")
  /\ End
  /\ UNCHANGED <<mode, durableVars>>

\* _InceptionLedgerView hides earlier cycles from the bootstrap and the retirement.
AlreadyActedOn == lastBar = bar /\ ~retire /\ ~inception

\* The portfolio a proposal of the builder was made for; a retirement exits everything.
Fits(p) ==
  LET held == ledger.book.pos[p.symbol] > 0 IN
  /\ p.action \in {"BUY", "ADD", "REDUCE", "EXIT"}
  /\ p.action \in {"EXIT", "REDUCE", "ADD"} => held
  /\ p.action = "BUY" => ~held
  /\ retire => p.action = "EXIT"

\* At most one proposal per symbol, sales before purchases.
Built(proposals) ==
  /\ \A n \in DOMAIN proposals : Fits(proposals[n])
  /\ \A m, n \in DOMAIN proposals :
       m < n => /\ proposals[m].symbol # proposals[n].symbol
                /\ proposals[m].action \in Opening => proposals[n].action \in Opening
  /\ retire => \A s \in Symbols : ledger.book.pos[s] > 0 =>
                 \E n \in DOMAIN proposals : proposals[n].symbol = s

\* run_cycle up to its proposals.
BeginCycle ==
  /\ InMain("cycle")
  /\ ~AlreadyActedOn
  /\ Replayable(ledger.book)
  /\ \E proposals \in Plans[bar] : Built(proposals) /\ plan' = proposals
  /\ phase' = "trade"
  /\ UNCHANGED <<vars, todo, fetched, retire, inception, refused, bar, durableVars>>

\* decision.approved of the proposal handled last.
LastRefused == result \notin {"APPROVED", None}

\* The next proposal goes to handle_proposal.
HandleNext ==
  /\ InMain("trade")
  /\ plan # <<>>
  /\ Receive(Head(plan))
  /\ plan' = Tail(plan)
  /\ refused' = (refused \/ LastRefused)
  /\ UNCHANGED <<phase, todo, fetched, retire, inception, bar, durableVars>>

\* strategy_cycle_completed is written; without a bootstrap the run is over.
CompleteCycle ==
  /\ InMain("trade")
  /\ plan = <<>>
  /\ lastBar' = bar
  /\ IF inception
     THEN /\ phase' = "bootstrap"
          /\ refused' = (refused \/ LastRefused)
          /\ UNCHANGED <<vars, todo, fetched, plan, retire, inception, bar>>
     ELSE End /\ UNCHANGED mode
  /\ UNCHANGED booted

\* m10_inception_bootstrap_completed, or ..._incomplete if a proposal was rejected or the
\* rebalance policy suppressed one.
FinishBootstrap ==
  /\ InMain("bootstrap")
  /\ booted' \in {booted, booted \/ ~refused}
  /\ End
  /\ UNCHANGED <<mode, lastBar>>

\* A handler raised and main does not catch it.
Uncaught ==
  /\ pc = "idle"
  /\ result = "RAISED"
  /\ End
  /\ UNCHANGED <<mode, durableVars>>

\* The steps of the handlers main calls.
HandlerStep ==
  /\ \/ Decide
     \/ CreateIntent
     \/ Validate
     \/ MarkSubmitting
     \/ SubmitRaises
     \/ Submit
     \/ ReplyKnown
     \/ ReplyUnknown
     \/ ReplyRaises
     \/ RecordSubmission
     \/ SettleSubmission
     \/ Reconcile
     \/ SettleReconciliation
  /\ UNCHANGED runtimeVars

\* The run is cancelled, dies or meets a failing request between two writes.
Killed ==
  /\ Crash
  /\ phase' = "off"
  /\ NewRun
  /\ UNCHANGED <<bar, durableVars>>

\* The market completes another bar; a run reads the bars once.
NextBar ==
  /\ phase = "off"
  /\ bar < MaxBar
  /\ bar' = bar + 1
  /\ UNCHANGED <<vars, runVars, durableVars>>

RuntimeInit ==
  /\ Init
  /\ phase = "off" /\ todo = {} /\ fetched = None /\ plan = <<>>
  /\ retire = FALSE /\ inception = FALSE /\ refused = FALSE
  /\ bar = 1 /\ lastBar = 0 /\ booted = FALSE

RunStep ==
  \/ Launch
  \/ \E k \in Keys : LookUpPending(k) \/ NotFound(k)
  \/ FetchPositions
  \/ Guard
  \/ SkipCycle
  \/ BeginCycle
  \/ HandleNext
  \/ CompleteCycle
  \/ FinishBootstrap
  \/ Uncaught
  \/ HandlerStep

VenueMoves(k) == VenueStep(k) /\ UNCHANGED <<kernelVars, runtimeVars>>

RuntimeNext ==
  \/ RunStep
  \/ Killed
  \/ NextBar
  \/ \E k \in Keys : VenueMoves(k)

RuntimeSpec == RuntimeInit /\ [][RuntimeNext]_allVars

\* The schedule keeps starting runs and a run keeps going until it ends; a posted request
\* arrives or is lost; an order the exchange holds is filled or closed in the end (the
\* adapter's orders are good for the day).  Nothing says a killed run, a failing request, a
\* detour of an order, the end of one or a new bar must come, and how often a run is killed is
\* bounded.
Fairness ==
  /\ WF_allVars(RunStep)
  /\ \A k \in Keys : WF_allVars(VenueWorks(k) /\ UNCHANGED <<kernelVars, runtimeVars>>)

FairRuntime == RuntimeSpec /\ Fairness

-----------------------------------------------------------------------------
(* Properties.                                                             *)

RuntimeTypeOK ==
  /\ TypeOK
  /\ phase \in Phases
  /\ phase = "off" <=> pc = "down"
  /\ todo \subseteq Keys
  /\ fetched \in [Symbols -> Int] \cup {None}
  /\ plan \in Seq(Proposals)
  /\ <<retire, inception, refused, booted>> \in BOOLEAN \X BOOLEAN \X BOOLEAN \X BOOLEAN
  /\ bar \in 1 .. MaxBar
  /\ lastBar \in 0 .. MaxBar

\* A run that gets as far as the strategy does so on a settled account: the recorded positions
\* are those of the exchange, which works no order and has none on its way (the start-up
\* look-ups, guard_broker_state with its two requests at different times, the pending gate).
CycleOnSettledBook ==
  phase = "cycle" =>
    /\ ledger.book.pos = shares
    /\ \A k \in Keys : wire[k] = None /\ ~Live(k)

\* The inception bootstrap is only ever evaluated while nothing was bought or sold, whatever
\* became of earlier attempts ("while the experiment is still flat and has never established
\* exposure", single_market.generate_inception_target).
InceptionWhileFlat ==
  phase = "cycle" /\ inception => \A k \in Keys : order[k] # None => order[k].filled = 0

\* No order in s is open at the exchange or on its way there.
NothingOpen(s) ==
  \A k \in Keys :
    /\ wire[k] # None => wire[k].symbol # s
    /\ Live(k) => order[k].symbol # s

\* A position is opened once: when a BUY leaves the process the account holds nothing of its
\* symbol and no other order can still change that, also after a run was killed in the middle
\* of its cycle and the bar is acted on again under another key, and while the orders of
\* earlier proposals of the cycle are worked.
OpensOnlyWhenFlat ==
  [][\A k \in Keys :
       posts'[k] # posts[k] /\ proposal.action = "BUY" =>
         shares[proposal.symbol] = 0 /\ NothingOpen(proposal.symbol)]_allVars

\* The exchange turned order k down while the ledger waits for its cancellation: no row of
\* _ALLOWED_TRANSITIONS leads there, now or at any later run.
Overtaken(k) ==
  ledger.status[k] = "CANCEL_PENDING" /\ order[k] # None /\ order[k].st = "rejected"

\* Every order that reached the exchange is closed in the ledger some day, whatever happened to
\* the run that sent it, and in SAFE too; unless it was turned down while its cancellation was
\* recorded as pending.
EveryOrderSettles ==
  \A k \in Keys : order[k] # None ~> ledger.status[k] \in Terminal \/ Overtaken(k)

\* A divergence between the recorded and the actual positions that lasts does not go unnoticed:
\* the program leaves NORMAL for good.
DivergenceNoticed ==
  <>[](ledger.book.pos # shares) => <>[](mode \in {"SAFE", "DEAD"})

\* Every order the ledger has pending exists at the exchange, or is on its way, between runs.
NoOrphans ==
  phase = "off" => \A k \in PendingOrders(ledger) : order[k] # None \/ wire[k] # None

\* As long as every pending order exists at the exchange, none is turned down while its
\* cancellation is pending and the book does not stay behind the account, runs keep reaching the
\* strategy: kills, timeouts and refused cancellations are recovered from.
RunsKeepDeciding ==
  [](NoOrphans /\ \A k \in Keys : ~Overtaken(k)) /\ []<>(ledger.book.pos = shares)
    => []<>(phase = "cycle")

\* Runs keep reaching the strategy ("resume after ordinary recoverable technical
\* interruptions", docs/constitution/constitution-v0.1.md).
Resumes == []<>(phase = "cycle")

=============================================================================
