-------------------------------- MODULE Venue -------------------------------
(***************************************************************************)
(* The exchange behind brokers/alpaca/broker.py, as that adapter uses it.  *)
(* It is not part of the repository: an order travels on the wire, reaches *)
(* the exchange or is lost, and is then worked without the program         *)
(* noticing.  What the program sees is a snapshot it asks for.             *)
(*                                                                         *)
(* An order is identified by its client order id, which the adapter        *)
(* derives from the idempotency key; the exchange accepts an id once.      *)
(***************************************************************************)
EXTENDS Integers, Orders

CONSTANTS
  FillPrices,         \* prices the exchange may fill one unit at
  CancelsAfterFills,  \* whether a partly filled order may be cancelled, expire or be turned down
  Detours             \* the states besides its ordinary ones an open order may be put in

VARIABLES
  wire,     \* wire[k]: the request for k in flight to the exchange, or None
  order,    \* order[k]: the order as the exchange holds it, or None
  shares,   \* shares[s]: the position the exchange reports for s
  spent     \* what the account paid for its purchases less what its sales brought

venueVars == <<wire, order, shares, spent>>

\* A cancellation or a replacement is asked for, the order is held back, or taken off the market
\* for a while.
DetourStates == {"pending_cancel", "pending_replace", "held", "suspended"}

ASSUME FillPricesAssumption == FillPrices \subseteq Nat
ASSUME DetoursAssumption == Detours \subseteq DetourStates

LiveStates == {"new", "partially_filled"} \cup DetourStates
ClosedStates == {"filled", "canceled", "rejected"}

\* An order at the exchange: its state, how much of it was filled for how much and, a history
\* the program never sees, whether it ever left a suspension.
VenueOrders ==
  [st : LiveStates \cup ClosedStates, symbol : Symbols, side : OrderSide,
   size : Nat \ {0}, filled : Nat, gross : Nat, resumed : BOOLEAN]

\* Plausible bug: the exchange's own word is reported.
UnmappedStatus(st) == st

\* AlpacaPaperBroker._map_status.  "new" also stands for accepted, pending_new and
\* accepted_for_bidding, "canceled" for expired, replaced and done_for_day, "held" for the
\* exchange states the adapter has no name for.  "suspended" is reported like "rejected".
MapStatus(st) ==
  CASE st \in {"new", "pending_replace"} -> "ACKNOWLEDGED"
    [] st = "partially_filled"           -> "PARTIALLY_FILLED"
    [] st = "filled"                     -> "FILLED"
    [] st = "pending_cancel"             -> "CANCEL_PENDING"
    [] st = "canceled"                   -> "CANCELLED"
    [] st \in {"rejected", "suspended"}  -> "REJECTED"
    [] OTHER                             -> "UNKNOWN"

\* AlpacaPaperBroker._to_execution_report: the report identity is the order, the
\* mapped status and the cumulative quantity.  Alpaca reports no fee.
Snapshot(k) ==
  LET o == order[k]
      status == MapStatus(o.st)
  IN  [id |-> <<"alpaca", k, status, o.filled>>, order |-> k, key |-> k,
       symbol |-> o.symbol, side |-> o.side, status |-> status,
       qty |-> o.filled, gross |-> o.gross, fee |-> 0,
       currency |-> AccountCurrency]

\* AlpacaPaperBroker._unknown_report: the broker order id is a placeholder that names no order.
UnknownReport(i) ==
  [id |-> <<"unknown", i.key, "UNKNOWN", 0>>, order |-> None, key |-> i.key,
   symbol |-> i.symbol, side |-> i.side, status |-> "UNKNOWN",
   qty |-> 0, gross |-> 0, fee |-> 0, currency |-> AccountCurrency]

VenueInit ==
  /\ wire   = [k \in Keys |-> None]
  /\ order  = [k \in Keys |-> None]
  /\ shares = [s \in Symbols |-> 0]
  /\ spent  = 0

Live(k) == order[k] # None /\ order[k].st \in LiveStates

InState(o, st) == [o EXCEPT !.st = st, !.resumed = @ \/ o.st = "suspended"]

SetState(k, st) ==
  /\ order' = [order EXCEPT ![k] = InState(order[k], st)]
  /\ UNCHANGED <<wire, shares, spent>>

\* The request for k reaches the exchange.
Arrive(k) ==
  /\ wire[k] # None
  /\ order[k] = None
  /\ order' = [order EXCEPT ![k] =
                 [st |-> "new", symbol |-> wire[k].symbol, side |-> wire[k].side,
                  size |-> wire[k].qty, filled |-> 0, gross |-> 0, resumed |-> FALSE]]
  /\ wire' = [wire EXCEPT ![k] = None]
  /\ UNCHANGED <<shares, spent>>

\* The request for k is lost on the way.
Vanish(k) ==
  /\ wire[k] # None
  /\ wire' = [wire EXCEPT ![k] = None]
  /\ UNCHANGED <<order, shares, spent>>

\* One unit of order k is filled at price px.  A suspended order is not worked; any other may
\* stay in the state it is in, or go on as partly filled.
Fill(k, px) ==
  LET o == order[k]
      done == o.filled + 1 = o.size
      sign == IF o.side = "BUY" THEN 1 ELSE -1
  IN  /\ Live(k)
      /\ o.st # "suspended"
      /\ \E st \in IF done THEN {"filled"} ELSE {"partially_filled"} \cup ({o.st} \ {"new"}) :
           order' = [order EXCEPT ![k] = [o EXCEPT !.st = st, !.filled = @ + 1,
                                                   !.gross = @ + px]]
      /\ shares' = [shares EXCEPT ![o.symbol] = @ + sign]
      /\ spent' = spent + sign * px
      /\ UNCHANGED wire

Closable(k) == Live(k) /\ (order[k].filled = 0 \/ CancelsAfterFills)

\* Order k is cancelled, expires with the day or is replaced.
Cancelled(k) == Closable(k) /\ SetState(k, "canceled")

\* The exchange turns order k down after it had taken it.
Decline(k) == Closable(k) /\ SetState(k, "rejected")

\* Order k is put in one of Detours.
Divert(k) == Live(k) /\ \E st \in Detours : SetState(k, st)

\* Order k is an ordinary order again: the exchange refuses to cancel or to replace it, lets it
\* go, or takes it back on the market.
Resume(k) ==
  /\ Live(k)
  /\ SetState(k, IF order[k].filled = 0 THEN "new" ELSE "partially_filled")

\* What the exchange does with an order in the end: it works it or closes it.
VenueWorks(k) ==
  \/ Arrive(k)
  \/ Vanish(k)
  \/ \E px \in FillPrices : Fill(k, px)
  \/ Cancelled(k)
  \/ Decline(k)

VenueStep(k) == VenueWorks(k) \/ Divert(k) \/ Resume(k)

=============================================================================
