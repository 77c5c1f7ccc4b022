--------------------------- MODULE ExecutionKernel --------------------------
(***************************************************************************)
(* ExecutionKernel (execution/kernel.py) with the adapter calls it makes   *)
(* (brokers/alpaca/broker.py), the exchange behind them, and the process   *)
(* that runs it: it may be killed between any two writes and restarted on  *)
(* the ledger it left.                                                     *)
(*                                                                         *)
(* A handler of the kernel is cut into one action per durable write or     *)
(* broker call, because those are the points another party can get in      *)
(* between: the exchange, or a crash.  pc names the next one.              *)
(*                                                                         *)
(*   mem     the kernel object's fields, as its code updates them;         *)
(*   ledger  what _hydrate_from_ledger makes of the events written so far, *)
(*           one Hydrated... operator per event type.                      *)
(*                                                                         *)
(* Both are records of the same shape, so that a restart is mem' = ledger  *)
(* and "a restart loses nothing" is the equality of the two.               *)
(*                                                                         *)
(* An order intent has a uuid of its own in the code; here it is named by  *)
(* its idempotency key, like the broker order.  The exchange never fills   *)
(* more than an order's size, so the over-fill exception of _reserved_cash *)
(* is left out.                                                            *)
(***************************************************************************)
EXTENDS FiniteSetsExt, RiskEngine, PortfolioReplay, Venue

CONSTANTS
  Proposals,    \* the proposals the strategies may come up with
  OwnerModes,   \* the modes the owner may ask for while the process runs
  KillSettings, \* the values of settings.kill_switch a process may start with
  MaxRestarts   \* bound: how often the process may be killed

\* A TradeProposal.  percent is its reduce_fraction, target the order a CANCEL names.
ProposalType ==
  [key : Keys, action : TradeAction, symbol : Symbols, qty : Nat \cup {None},
   percent : (0 .. 100) \cup {None}, price : Nat \ {0}, notional : Nat \cup {None},
   cost : Nat, currency : {AccountCurrency, None}, target : Keys \cup {None}]

ASSUME KernelAssumption ==
  /\ Proposals \subseteq ProposalType
  /\ OwnerModes \subseteq ExperimentMode
  /\ KillSettings \subseteq BOOLEAN
  /\ MaxRestarts \in Nat

\* An OrderIntent; its quantity is positive.
Intents ==
  [key : Keys, symbol : Symbols, side : OrderSide, qty : Nat \ {0}, price : Nat]

\* None is Python's None and nothing else.
ASSUME NoneAssumption ==
  /\ None \notin Keys
  /\ None \notin Nat
  /\ None \notin Intents
  /\ None \notin VenueOrders
  /\ None \notin Proposals

VARIABLES
  pc,           \* the step the process takes next
  proposal,     \* the proposal handle_proposal is working on, or None
  report,       \* the report or broker order snapshot in hand, or None
  result,       \* what the last handle_proposal returned, or "RAISED"
  mem,          \* the kernel's fields
  ledger,       \* the durable events, as a restart would read them
  mode,         \* LedgerBackedControlState.mode, written to the ledger before it changes
  kill,         \* settings.kill_switch, read when the process starts
  restarts,     \* how often the process was killed
  posts         \* posts[k]: how many order requests for k left the process

processVars == <<pc, proposal, report, result>>
controlVars == <<mode, kill>>
kernelVars == <<processVars, controlVars, mem, ledger, restarts, posts>>
vars == <<kernelVars, venueVars>>

Steps ==
  {"down", "idle", "evaluate", "create_intent", "validate", "mark_submitting",
   "submit", "posted", "record", "settle", "cancel", "cancel_reply",
   "cancel_record", "reconcile", "reconcile_settle"}

-----------------------------------------------------------------------------
(* The kernel's fields, and what hydration makes of each event.            *)

EmptyState ==
  [known  |-> {},                          \* _known_idempotency_keys
   cost   |-> [k \in Keys |-> 0],          \* _estimated_cost_by_key
   intent |-> [k \in Keys |-> None],       \* _intents_by_key
   status |-> [k \in Keys |-> "CREATED"],  \* _state_by_order; absent is CREATED
   linked |-> [k \in Keys |-> None],       \* _broker_order_key
   seen   |-> {},                          \* _report_ids
   book   |-> EmptyBook]                   \* replay of _reports

\* _broker_order_key after report r: only an order this kernel holds an intent for.
Linked(s, r) ==
  IF r.order # None /\ s.intent[r.key] # None
  THEN [s.linked EXCEPT ![r.order] = r.key]
  ELSE s.linked

HydratedProposal(s, p) == [s EXCEPT !.cost[p.key] = p.cost]

HydratedDecision(s, k, approved) ==
  IF approved THEN [s EXCEPT !.known = @ \cup {k}] ELSE s

\* Plausible bug: the intent of an order is not among the events.
HydratedWithoutIntent(s, i) == s

HydratedIntent(s, i) == [s EXCEPT !.intent[i.key] = i]

HydratedTransition(s, k, to) == [s EXCEPT !.status[k] = to]

\* Plausible bug: a restart forgets which broker order belongs to which key.
HydratedReportWithoutLink(s, r) ==
  [s EXCEPT !.known = @ \cup {r.key},
            !.seen  = @ \cup {r.id},
            !.book  = IF r.id \in s.seen THEN @ ELSE ApplyReport(@, r)]

HydratedReport(s, r) ==
  [s EXCEPT !.known  = @ \cup {r.key},
            !.seen   = @ \cup {r.id},
            !.linked = Linked(s, r),
            !.book   = IF r.id \in s.seen THEN @ ELSE ApplyReport(@, r)]

-----------------------------------------------------------------------------
(* What the kernel computes from its fields.                               *)

Filled(s, k) == s.book.qty[k]

\* The orders _reserved_cash counts.
OpenBuys(s) ==
  {k \in Keys : /\ s.intent[k] # None
                /\ s.intent[k].side = "BUY"
                /\ s.status[k] \notin Terminal
                /\ s.intent[k].qty > Filled(s, k)}

\* Plausible bug: a purchase is only reserved for until its first fill.
ReservationUntilFirstFill(s, k) ==
  IF Filled(s, k) > 0 THEN 0 ELSE s.intent[k].qty * s.intent[k].price + s.cost[k]

Reservation(s, k) ==
  (s.intent[k].qty - Filled(s, k)) * s.intent[k].price + s.cost[k]

ReservedCash(s) == MapThenSumSet(LAMBDA k : Reservation(s, k), OpenBuys(s))

AvailableCash(s) ==
  LET available == s.book.cash - ReservedCash(s)
  IN  IF available < 0 THEN 0 ELSE available

\* A fraction of the position, in percent.  The code's Decimals are exact; here quantities are
\* whole units, and rounding up keeps what matters: zero exactly for a zero position or fraction.
PartOf(position, percent) == (position * percent + 99) \div 100

\* The quantity _derive_intent gives the intent of p, or None for "no intent".
DerivedQuantity(s, p) ==
  LET position == s.book.pos[p.symbol] IN
  CASE p.action \in {"HOLD", "CANCEL"} -> None
    [] p.action \in Opening -> p.qty
    [] p.action = "REDUCE"  -> IF p.percent = None THEN None ELSE PartOf(position, p.percent)
    [] p.action = "EXIT"    -> position
    [] OTHER                -> IF p.qty = None THEN 0 ELSE p.qty

DerivedIntent(s, p) ==
  LET qty == DerivedQuantity(s, p) IN
  IF qty = None THEN None
  ELSE [key |-> p.key, symbol |-> p.symbol,
        side |-> IF p.action \in Opening THEN "BUY" ELSE "SELL",
        qty |-> qty, price |-> p.price]

\* OrderIntent refuses a quantity of zero with a ValidationError nobody catches.
DerivationRaises(s, p) == DerivedQuantity(s, p) = 0 \/ ~Replayable(s.book)

\* Plausible bug: orders in an UNKNOWN state are not looked up again.
PendingUnlessUnknown(s) ==
  {k \in Keys : s.intent[k] # None /\ s.status[k] \notin Terminal \cup {"UNKNOWN"}}

\* runtime_state.pending_orders
PendingOrders(s) == {k \in Keys : s.intent[k] # None /\ s.status[k] \notin Terminal}

-----------------------------------------------------------------------------
(* Step forms.                                                             *)

At(step) == pc = step
Goto(step) == pc' = step

\* The handler is over; outcome is its decision, or "RAISED".
Return(outcome) ==
  /\ pc' = "idle"
  /\ proposal' = None
  /\ report' = None
  /\ result' = outcome

\* _enter_safe_mode
EnterSafeMode == mode' = SafeFrom(mode)

Raise == Return("RAISED") /\ UNCHANGED mode
FailSafe == Return("RAISED") /\ EnterSafeMode

\* _transition_order, which the caller has found to be accepted: memory first, then the ledger.
Transition(k, to) ==
  /\ mem' = [mem EXCEPT !.status[k] = to]
  /\ ledger' = IF mem.status[k] = to THEN ledger ELSE HydratedTransition(ledger, k, to)

\* _record_report
Record(r) ==
  IF r.id \in mem.seen THEN UNCHANGED <<mem, ledger>>
  ELSE /\ ledger' = HydratedReport(ledger, r)
       /\ mem' = [mem EXCEPT !.known  = @ \cup {r.key},
                             !.seen   = @ \cup {r.id},
                             !.linked = Linked(mem, r),
                             !.book   = ApplyReport(@, r)]

-----------------------------------------------------------------------------
(* handle_proposal, one durable write or broker call at a time.            *)

\* The proposal is logged, its costs are noted, its intent is derived.
Receive(p) ==
  /\ At("idle")
  /\ mem' = [mem EXCEPT !.cost[p.key] = p.cost]
  /\ ledger' = HydratedProposal(ledger, p)
  /\ IF DerivationRaises(mem, p)
     THEN Raise
     ELSE /\ Goto("evaluate")
          /\ proposal' = p
          /\ result' = None
          /\ UNCHANGED <<report, mode>>
  /\ UNCHANGED <<kill, restarts, posts, venueVars>>

\* The step after an approved decision on p.
AfterApproval(p) ==
  CASE p.action = "HOLD"   -> "idle"
    [] p.action = "CANCEL" -> "cancel"
    [] OTHER               -> "create_intent"

\* The risk engine decides and the decision is logged; a rejection ends the handler.
Decide ==
  /\ At("evaluate")
  /\ \E fresh \in BOOLEAN :
       LET p == proposal
           verdict == Evaluate(p, DerivedIntent(mem, p), AvailableCash(mem),
                               mem.book.pos[p.symbol], mode, kill, mem.known, fresh)
           approved == verdict = "APPROVED"
       IN  /\ ledger' = HydratedDecision(ledger, p.key, approved)
           /\ mem' = IF approved THEN [mem EXCEPT !.known = @ \cup {p.key}] ELSE mem
           /\ IF approved /\ p.action # "HOLD"
              THEN /\ Goto(AfterApproval(p))
                   /\ result' = verdict
                   /\ UNCHANGED <<proposal, report>>
              ELSE Return(verdict)
  /\ UNCHANGED <<controlVars, restarts, posts, venueVars>>

\* order_intent_created, and the transition event that starts the order at CREATED.  The
\* intent's uuid is new, so its state machine is too.
CreateIntent ==
  /\ At("create_intent")
  /\ LET i == DerivedIntent(mem, proposal) IN
       /\ mem' = [mem EXCEPT !.intent[i.key] = i, !.status[i.key] = "CREATED"]
       /\ ledger' = HydratedTransition(HydratedIntent(ledger, i), i.key, "CREATED")
  /\ Goto("validate")
  /\ UNCHANGED <<proposal, report, result, controlVars, restarts, posts, venueVars>>

\* _transition_order(to) on the way to the broker, or _state_transition_failure.
Advance(from, to, next) ==
  /\ At(from)
  /\ IF Accepts(mem.status[proposal.key], to)
     THEN /\ Transition(proposal.key, to)
          /\ Goto(next)
          /\ UNCHANGED <<proposal, report, result, mode>>
     ELSE /\ Return("INVALID_ORDER_STATE_TRANSITION")
          /\ EnterSafeMode
          /\ UNCHANGED <<mem, ledger>>
  /\ UNCHANGED <<kill, restarts, posts, venueVars>>

Validate == Advance("validate", "VALIDATED", "mark_submitting")
MarkSubmitting == Advance("mark_submitting", "SUBMITTING", "submit")

\* AlpacaPaperBroker.submit raises before anything is sent: the lookup fails, the asset
\* cannot be traded, or the exchange does not hold what is to be sold.
SubmitRaises ==
  /\ At("submit")
  /\ Raise
  /\ UNCHANGED <<mem, ledger, kill, restarts, posts, venueVars>>

HeldAtBroker(i) == i.side = "SELL" => shares[i.symbol] >= i.qty

\* AlpacaPaperBroker.submit: an order the exchange already has under this id is taken as
\* the answer; otherwise the request is sent.  The requests before it (for the order, the asset
\* and, for a sale, the position) are one step with it: the exchange has no order under an id
\* that was never posted, so only the position could move between them.
Submit ==
  LET i == mem.intent[proposal.key] IN
  /\ At("submit")
  /\ IF order[i.key] # None
     THEN /\ report' = Snapshot(i.key)
          /\ Goto("record")
          /\ UNCHANGED <<wire, posts>>
     ELSE /\ HeldAtBroker(i)
          /\ wire' = [wire EXCEPT ![i.key] = i]
          /\ posts' = [posts EXCEPT ![i.key] = @ + 1]
          /\ Goto("posted")
          /\ UNCHANGED report
  /\ UNCHANGED <<proposal, result, controlVars, mem, ledger, restarts, order, shares, spent>>

\* The response, or after a timeout the lookup, shows the order.
ReplyKnown ==
  /\ At("posted")
  /\ order[proposal.key] # None
  /\ report' = Snapshot(proposal.key)
  /\ Goto("record")
  /\ UNCHANGED <<proposal, result, controlVars, mem, ledger, restarts, posts, venueVars>>

\* The request times out and the lookup finds nothing; it may still be on the wire.
ReplyUnknown ==
  /\ At("posted")
  /\ order[proposal.key] = None
  /\ report' = UnknownReport(mem.intent[proposal.key])
  /\ Goto("record")
  /\ UNCHANGED <<proposal, result, controlVars, mem, ledger, restarts, posts, venueVars>>

\* The exchange refuses the request with an HTTP error, or the connection breaks.
ReplyRaises ==
  /\ At("posted")
  /\ Raise
  /\ UNCHANGED <<mem, ledger, kill, restarts, posts, venueVars>>

\* _record_report(report)
RecordReport(from, next) ==
  /\ At(from)
  /\ Record(report)
  /\ Goto(next)
  /\ UNCHANGED <<proposal, report, result, controlVars, restarts, posts, venueVars>>

RecordSubmission == RecordReport("record", "settle")

\* The order moves to the reported status and, unless skipped, the portfolio is reconciled,
\* which raises when the replay does.  The order of a report is known here: it was submitted for
\* an intent, or its key is pending.
Settle(from, skipped) ==
  LET to == Normalise(report.status) IN
  /\ At(from)
  /\ IF Accepts(mem.status[report.key], to)
     THEN /\ Transition(report.key, to)
          /\ Return(IF skipped \/ Replayable(mem.book) THEN result ELSE "RAISED")
          /\ UNCHANGED mode
     ELSE FailSafe /\ UNCHANGED <<mem, ledger>>
  /\ UNCHANGED <<kill, restarts, posts, venueVars>>

\* An UNKNOWN submission is returned without a reconciliation.
SettleSubmission == Settle("settle", report.status = "UNKNOWN")

-----------------------------------------------------------------------------
(* _handle_cancel.                                                         *)

\* AlpacaPaperBroker.cancel: the order must exist; the exchange cancels it at once, takes the
\* request, or answers 422 because the order is closed.
SendCancel ==
  LET k == proposal.target IN
  /\ At("cancel")
  /\ order[k] # None
  /\ \/ Cancelled(k)
     \/ Live(k) /\ SetState(k, "pending_cancel")
     \/ ~Live(k) /\ UNCHANGED venueVars
  /\ Goto("cancel_reply")
  /\ UNCHANGED <<proposal, report, result, controlVars, mem, ledger, restarts, posts>>

\* One of the adapter's requests fails, before or after the exchange acted.
CancelRaises ==
  /\ pc \in {"cancel", "cancel_reply"}
  /\ Raise
  /\ UNCHANGED <<mem, ledger, kill, restarts, posts, venueVars>>

\* Plausible bug: any answer to the cancellation is taken for its confirmation.
AnyAnswerConfirms(status) == TRUE

Confirmed(status) == status = "CANCELLED"

\* The order as the exchange shows it after the request: a confirmed cancellation closes the
\* order the kernel linked to it, anything else puts the program in SAFE.
CancelReply ==
  LET after == Snapshot(proposal.target)
      original == mem.linked[proposal.target]
      known == original # None
  IN  /\ At("cancel_reply")
      /\ IF Confirmed(after.status) /\ known /\ ~Accepts(mem.status[original], "CANCELLED")
         THEN FailSafe /\ UNCHANGED <<mem, ledger>>
         ELSE /\ IF Confirmed(after.status) /\ known
                 THEN Transition(original, "CANCELLED")
                 ELSE UNCHANGED <<mem, ledger>>
              /\ IF Confirmed(after.status) THEN UNCHANGED mode ELSE EnterSafeMode
              /\ report' = [after EXCEPT !.id = <<"cancel", after.order, proposal.key, 0>>,
                                         !.key = proposal.key,
                                         !.status = IF Confirmed(@) THEN @ ELSE "UNKNOWN",
                                         !.qty = 0, !.gross = 0]
              /\ Goto("cancel_record")
              /\ UNCHANGED <<proposal, result>>
      /\ UNCHANGED <<kill, restarts, posts, venueVars>>

\* The cancellation is recorded under its own key and the portfolio reconciled.
RecordCancellation ==
  /\ At("cancel_record")
  /\ Record(report)
  /\ Return(IF Replayable(mem.book) THEN result ELSE "RAISED")
  /\ UNCHANGED <<controlVars, restarts, posts, venueVars>>

-----------------------------------------------------------------------------
(* reconcile_execution_report.                                             *)

\* The caller looks a pending order up; the answer is a snapshot.
LookUp(k) ==
  /\ At("idle")
  /\ k \in PendingOrders(ledger)
  /\ order[k] # None
  /\ report' = Snapshot(k)
  /\ Goto("reconcile")
  /\ result' = None
  /\ UNCHANGED <<proposal, controlVars, mem, ledger, restarts, posts, venueVars>>

\* The guards in front of the first write.
Recognised(s, r) ==
  /\ r.key \in s.known
  /\ r.currency = AccountCurrency
  /\ r.order # None /\ s.linked[r.order] # None => s.linked[r.order] = r.key

\* Recognised: record first, check the transition afterwards.
Reconcile ==
  /\ At("reconcile")
  /\ IF Recognised(mem, report)
     THEN /\ Record(report)
          /\ Goto("reconcile_settle")
          /\ UNCHANGED <<proposal, report, result, mode>>
     ELSE FailSafe /\ UNCHANGED <<mem, ledger>>
  /\ UNCHANGED <<kill, restarts, posts, venueVars>>

SettleReconciliation == Settle("reconcile_settle", FALSE)

\* A report about an order the program does not know, in another currency, or that claims an
\* order linked to another key: the other entrance of reconcile_execution_report.
ForeignReport(k, claimed) ==
  /\ At("idle")
  /\ order[k] # None
  /\ \E currency \in {AccountCurrency, None} :
       LET r == [Snapshot(k) EXCEPT !.key = claimed, !.currency = currency] IN
       /\ ~Recognised(mem, r)
       /\ report' = r
  /\ Goto("reconcile")
  /\ result' = None
  /\ UNCHANGED <<proposal, controlVars, mem, ledger, restarts, posts, venueVars>>

-----------------------------------------------------------------------------
(* The process and its owner.                                              *)

\* The process starts: control state restored, kernel hydrated, settings read.
Start ==
  /\ At("down")
  /\ Goto("idle")
  /\ mem' = ledger
  /\ kill' \in KillSettings
  /\ UNCHANGED <<proposal, report, result, mode, ledger, restarts, posts, venueVars>>

\* The program that uses the kernel ends between two handlers, perhaps because its guard found a
\* divergence and put it in SAFE.
Stop ==
  /\ At("idle")
  /\ Goto("down")
  /\ proposal' = None
  /\ report' = None
  /\ result' = None
  /\ mem' = EmptyState
  /\ mode' \in {mode, SafeFrom(mode)}
  /\ UNCHANGED <<kill, ledger, restarts, posts, venueVars>>

\* The process is killed; what it held in memory is gone.
Crash ==
  /\ ~At("down")
  /\ restarts < MaxRestarts
  /\ restarts' = restarts + 1
  /\ Goto("down")
  /\ proposal' = None
  /\ report' = None
  /\ result' = None
  /\ mem' = EmptyState
  /\ UNCHANGED <<controlVars, ledger, posts, venueVars>>

\* LedgerBackedControlState.transition_mode, asked for by the owner.
SetMode(next) ==
  /\ At("idle")
  /\ next # mode
  /\ ModeMayBecome(mode, next)
  /\ mode' = next
  /\ UNCHANGED <<processVars, kill, mem, ledger, restarts, posts, venueVars>>

Init ==
  /\ VenueInit
  /\ pc = "down"
  /\ proposal = None
  /\ report = None
  /\ result = None
  /\ mem = EmptyState
  /\ ledger = EmptyState
  /\ mode = "NORMAL"
  /\ kill = FALSE
  /\ restarts = 0
  /\ posts = [k \in Keys |-> 0]

HandleProposal ==
  \/ \E p \in Proposals : Receive(p)
  \/ Decide
  \/ CreateIntent
  \/ Validate
  \/ MarkSubmitting
  \/ SubmitRaises
  \/ Submit
  \/ ReplyKnown
  \/ ReplyUnknown
  \/ ReplyRaises
  \/ RecordSubmission
  \/ SettleSubmission

HandleCancel ==
  \/ SendCancel
  \/ CancelRaises
  \/ CancelReply
  \/ RecordCancellation

ReconcileReport ==
  \/ \E k \in Keys : LookUp(k)
  \/ Reconcile
  \/ SettleReconciliation

VenueActs == (\E k \in Keys : VenueStep(k)) /\ UNCHANGED kernelVars

Next ==
  \/ HandleProposal
  \/ HandleCancel
  \/ ReconcileReport
  \/ \E k, claimed \in Keys : ForeignReport(k, claimed)
  \/ Start
  \/ Stop
  \/ Crash
  \/ \E next \in OwnerModes : SetMode(next)
  \/ VenueActs

Spec == Init /\ [][Next]_vars

-----------------------------------------------------------------------------
(* What the variables range over.                                          *)

ReportIds == {"alpaca", "unknown", "cancel"} \X Keys \X (OrderStatus \cup Keys) \X Nat

Reports ==
  [id : ReportIds, order : Keys \cup {None}, key : Keys, symbol : Symbols,
   side : OrderSide, status : OrderStatus, qty : Nat, gross : Nat, fee : Nat,
   currency : {AccountCurrency, None}]

KernelStates ==
  [known : SUBSET Keys, cost : [Keys -> Nat], intent : [Keys -> Intents \cup {None}],
   status : [Keys -> OrderStatus], linked : [Keys -> Keys \cup {None}],
   seen : SUBSET ReportIds, book : Books]

Results == RejectionReason \cup {"RAISED", "INVALID_ORDER_STATE_TRANSITION", None}

\* Every variable has its type.
TypeOK ==
  /\ pc \in Steps
  /\ proposal \in Proposals \cup {None}
  /\ report \in Reports \cup {None}
  /\ result \in Results
  /\ mem \in KernelStates
  /\ ledger \in KernelStates
  /\ mode \in ExperimentMode
  /\ kill \in BOOLEAN
  /\ restarts \in Nat
  /\ posts \in [Keys -> Nat]
  /\ wire \in [Keys -> Intents \cup {None}]
  /\ order \in [Keys -> VenueOrders \cup {None}]
  /\ shares \in [Symbols -> Int]
  /\ spent \in Int

-----------------------------------------------------------------------------
(* Properties.                                                             *)

\* A kernel built on the ledger (_hydrate_from_ledger) has, between any two writes of any
\* handler, exactly the fields the running kernel has: a restart loses nothing and adds nothing.
RestartLosesNothing == pc # "down" => mem = ledger

\* One idempotency key leads to at most one request to the exchange, across duplicates,
\* timeouts, exceptions, crashes and restarts (submit is never repeated blindly).
AtMostOneSubmission == \A k \in Keys : posts[k] <= 1

\* Whatever is at the exchange or on its way there was approved and written down before it
\* left: the ledger holds its intent, at the same size, and an order past VALIDATED.
NothingUnrecordedAtVenue ==
  \A k \in Keys :
    wire[k] # None \/ order[k] # None =>
      /\ k \in ledger.known
      /\ ledger.intent[k] # None
      /\ ledger.status[k] \notin {"CREATED", "VALIDATED"}
      /\ wire[k] # None => wire[k] = ledger.intent[k]
      /\ order[k] # None => /\ order[k].size = ledger.intent[k].qty
                            /\ order[k].side = ledger.intent[k].side

\* An order is closed in the ledger only as the exchange has closed it, in particular a
\* reservation is released only by a confirmed cancellation; but one that came back from a
\* suspension may be closed as REJECTED whatever becomes of it.
ClosedAsTheVenueSays ==
  \A k \in Keys :
    ledger.status[k] \in Terminal =>
      /\ order[k] # None
      /\ \/ MapStatus(order[k].st) = ledger.status[k]
         \/ ledger.status[k] = "REJECTED" /\ order[k].resumed

\* The book never shows more of an order than the exchange filled, and all of it once the
\* ledger calls the order FILLED.
BookFollowsVenue ==
  \A k \in Keys :
    /\ ledger.book.qty[k] > 0 => /\ order[k] # None
                                 /\ ledger.book.qty[k] <= order[k].filled
                                 /\ ledger.book.gross[k] <= order[k].gross
    /\ ledger.status[k] = "FILLED" => /\ ledger.book.qty[k] = order[k].filled
                                      /\ ledger.book.gross[k] = order[k].gross

\* The moves of the exchange _ALLOWED_TRANSITIONS has no row for: an order whose cancellation
\* was recorded as pending is open again or turned down, one recorded as partly filled is to be
\* replaced.
Unforeseen(status, st) ==
  \/ status = "CANCEL_PENDING" /\ MapStatus(st) \in {"ACKNOWLEDGED", "REJECTED"}
  \/ status = "PARTIALLY_FILLED" /\ st = "pending_replace"

\* Whatever the exchange has made of a pending order, the order state machine lets the next
\* look-up record it, so that reconciliation does not end in SAFE, but for a cancellation that
\* was refused or overtaken and the replacement of a partly filled order.
VenueProgressAccepted ==
  \A k \in PendingOrders(ledger) :
    order[k] # None => \/ Accepts(ledger.status[k], MapStatus(order[k].st))
                       \/ Unforeseen(ledger.status[k], order[k].st)

\* With no order pending and no request in flight, the positions of the book are those of the
\* exchange ("broker position and internal position converge").
SettledBooksMatch ==
  PendingOrders(ledger) = {} /\ (\A k \in Keys : wire[k] = None)
    => ledger.book.pos = shares

\* The replay of the recorded reports never raises: no cumulative figure went back, no sale
\* exceeded the position, cash stayed non-negative.
LedgerReplayable == Replayable(ledger.book)

\* The account never pays more, net of its sales, than the capital it was given, however
\* fills, partial fills, duplicates and restarts are interleaved.
AuthorityKept == spent <= StartingCash

\* The exchange never holds a short position.
NeverShort == \A s \in Symbols : shares[s] >= 0

\* In SAFE, in DEAD and under the kill switch no purchase leaves the process, also when the
\* restriction came after the proposal.
RestrictionsHold ==
  [][\A k \in Keys :
       posts'[k] # posts[k] /\ (kill \/ mode \in {"SAFE", "DEAD"}) => wire'[k].side = "SELL"]_vars

\* A closed order stays as it was closed, in the ledger.
ClosedOrdersStayClosed ==
  [][\A k \in Keys :
       ledger.status[k] \in Terminal => ledger'.status[k] = ledger.status[k]]_vars

\* DEAD is for ever.
DeadIsForever == [][mode = "DEAD" => mode' = "DEAD"]_vars

=============================================================================
