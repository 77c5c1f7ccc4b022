------------------------------- MODULE Orders -------------------------------
(***************************************************************************)
(* The vocabulary of domain/models.py, the order life cycle of             *)
(* execution/state_machine.py and the mode rule of control/state.py.       *)
(***************************************************************************)
CONSTANTS
  Keys,             \* idempotency keys; a broker order is named by the key it was posted for
  Symbols,          \* instruments
  AccountCurrency,  \* settings.account_currency
  None              \* Python's None

OrderStatus ==
  {"CREATED", "VALIDATED", "SUBMITTING", "ACKNOWLEDGED", "PARTIALLY_FILLED",
   "FILLED", "REJECTED", "CANCEL_PENDING", "CANCELLED", "UNKNOWN"}

ExperimentMode == {"NORMAL", "DEFENSIVE", "SAFE", "DEAD"}

OrderSide == {"BUY", "SELL"}

TradeAction == {"BUY", "SELL", "HOLD", "ADD", "REDUCE", "CANCEL", "EXIT"}

Opening == {"BUY", "ADD"}

Terminal == {"FILLED", "REJECTED", "CANCELLED"}

\* The reports portfolio/reconcile.py takes fills from.
FillStates == {"PARTIALLY_FILLED", "FILLED"}

(***************************************************************************)
(* _ALLOWED_TRANSITIONS, row by row.                                       *)
(***************************************************************************)
\* Plausible bug: a partial fill reported while a cancellation is pending is
\* no longer accepted.
AllowedWithoutLateFill(from) ==
  CASE from = "CREATED"    -> {"VALIDATED", "REJECTED"}
    [] from = "VALIDATED"  -> {"SUBMITTING", "REJECTED"}
    [] from = "CANCEL_PENDING" -> {"FILLED", "CANCELLED", "UNKNOWN"}
    [] from \in Terminal   -> {}
    [] OTHER -> OrderStatus \ {"CREATED", "VALIDATED", "SUBMITTING"}

\* Plausible bug: after an UNKNOWN answer the order can no longer turn out to be filled.
AllowedWithoutLateAnswer(from) ==
  CASE from = "CREATED"    -> {"VALIDATED", "REJECTED"}
    [] from = "VALIDATED"  -> {"SUBMITTING", "REJECTED"}
    [] from = "UNKNOWN"    -> {"ACKNOWLEDGED", "CANCELLED", "REJECTED"}
    [] from \in Terminal   -> {}
    [] OTHER -> OrderStatus \ {"CREATED", "VALIDATED", "SUBMITTING"}

AllowedTransitions(from) ==
  CASE from = "CREATED"    -> {"VALIDATED", "REJECTED"}
    [] from = "VALIDATED"  -> {"SUBMITTING", "REJECTED"}
    [] from = "SUBMITTING" -> {"ACKNOWLEDGED", "PARTIALLY_FILLED", "FILLED",
                               "CANCEL_PENDING", "CANCELLED", "UNKNOWN", "REJECTED"}
    [] from = "ACKNOWLEDGED" -> {"PARTIALLY_FILLED", "FILLED", "CANCEL_PENDING",
                                 "CANCELLED", "UNKNOWN", "REJECTED"}
    [] from = "PARTIALLY_FILLED" -> {"PARTIALLY_FILLED", "FILLED", "CANCEL_PENDING",
                                     "CANCELLED", "UNKNOWN", "REJECTED"}
    [] from = "CANCEL_PENDING" -> {"PARTIALLY_FILLED", "FILLED", "CANCELLED", "UNKNOWN"}
    [] from = "UNKNOWN"    -> {"ACKNOWLEDGED", "PARTIALLY_FILLED", "FILLED",
                               "CANCEL_PENDING", "CANCELLED", "REJECTED"}
    [] OTHER -> {}

\* ExecutionKernel._transition_order: the status an order already has is accepted.
Accepts(from, to) == to = from \/ to \in AllowedTransitions(from)

\* ExecutionKernel._normalise_broker_state.
Normalise(status) ==
  IF status \in OrderStatus \ {"CREATED", "VALIDATED", "SUBMITTING"}
  THEN status ELSE "UNKNOWN"

\* ControlState.transition_mode: DEAD is terminal for the experiment.
ModeMayBecome(from, to) == from = "DEAD" => to = "DEAD"

\* Plausible bug: the fail-safe takes the experiment back out of DEAD.
AlwaysSafe(mode) == "SAFE"

\* ExecutionKernel._enter_safe_mode, AlpacaPaperBroker.guard_broker_state: SAFE unless DEAD.
SafeFrom(mode) == IF mode = "DEAD" THEN mode ELSE "SAFE"

=============================================================================
