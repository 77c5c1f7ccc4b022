----------------------------- MODULE RiskEngine -----------------------------
(***************************************************************************)
(* RiskEngine.evaluate (risk/engine.py): the constitutional firewall every *)
(* proposal passes before it can become an order.  One operator per check  *)
(* that depends on state, and Evaluate, which asks them in the code's      *)
(* order and returns the code's reason.                                    *)
(*                                                                         *)
(* Left out because no input reaches them: an action outside TradeAction   *)
(* and a negative cost estimate (pydantic refuses both when the proposal   *)
(* is built), an intent in another currency than its proposal, an intent   *)
(* on the wrong side or at another price (_derive_intent copies both).     *)
(***************************************************************************)
EXTENDS Integers, Orders

CONSTANTS
  Permitted,         \* settings.permitted_symbols
  MaxOrderNotional   \* settings.max_order_notional

ASSUME MaxOrderNotionalAssumption == MaxOrderNotional \in Nat

Notional(i) == i.qty * i.price

\* Plausible bug: the set of known keys is not consulted.
NeverDuplicate(p, known) == FALSE

DuplicateKey(p, known) == p.key \in known

\* Plausible bug: the kill switch is forgotten.
BlockedByMode(p, mode, kill) == p.action \in Opening /\ mode \in {"SAFE", "DEAD"}

OpeningBlocked(p, mode, kill) ==
  p.action \in Opening /\ (kill \/ mode \in {"SAFE", "DEAD"})

NotionalMismatch(p) ==
  /\ p.notional # None
  /\ p.qty # None
  /\ p.qty * p.price # p.notional

ExceedsPosition(i, position) == i.side = "SELL" /\ i.qty > position

\* Plausible bug: the estimated costs are not part of the price of a purchase.
ExceedsCashWithoutCosts(p, i, cash) == i.side = "BUY" /\ Notional(i) > cash

ExceedsCash(p, i, cash) == i.side = "BUY" /\ Notional(i) + p.cost > cash

(***************************************************************************)
(* The verdict on proposal p, whose derived intent is i (None for HOLD and *)
(* CANCEL), given what the kernel passes in.  `fresh` says whether the     *)
(* reference price is young enough when the engine reads the clock.        *)
(***************************************************************************)
Evaluate(p, i, cash, position, mode, kill, known, fresh) ==
  IF p.symbol \notin Permitted THEN "INSTRUMENT_NOT_PERMITTED"
  ELSE IF p.currency # AccountCurrency THEN "CURRENCY_MISMATCH"
  ELSE IF DuplicateKey(p, known) THEN "DUPLICATE_IDEMPOTENCY_KEY"
  ELSE IF ~fresh THEN "STALE_REFERENCE_PRICE"
  ELSE IF OpeningBlocked(p, mode, kill)
       THEN IF kill THEN "KILL_SWITCH_ACTIVE" ELSE "MODE_RESTRICTION"
  ELSE IF p.action = "CANCEL" /\ p.target = None THEN "CANCEL_TARGET_REQUIRED"
  ELSE IF p.action \in {"HOLD", "CANCEL"} THEN "APPROVED"
  ELSE IF i = None THEN "INVALID_SCHEMA"
  ELSE IF NotionalMismatch(p) THEN "NOTIONAL_QUANTITY_MISMATCH"
  ELSE IF ExceedsPosition(i, position) THEN "SHORT_POSITION_FORBIDDEN"
  ELSE IF Notional(i) > MaxOrderNotional THEN "ORDER_NOTIONAL_LIMIT"
  ELSE IF ExceedsCash(p, i, cash) THEN "INSUFFICIENT_CASH"
  ELSE "APPROVED"

RejectionReason ==
  {"APPROVED", "INVALID_SCHEMA", "INSTRUMENT_NOT_PERMITTED", "CURRENCY_MISMATCH",
   "DUPLICATE_IDEMPOTENCY_KEY", "STALE_REFERENCE_PRICE", "KILL_SWITCH_ACTIVE",
   "MODE_RESTRICTION", "CANCEL_TARGET_REQUIRED", "NOTIONAL_QUANTITY_MISMATCH",
   "SHORT_POSITION_FORBIDDEN", "ORDER_NOTIONAL_LIMIT", "INSUFFICIENT_CASH"}

=============================================================================
