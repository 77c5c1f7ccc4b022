-------------------------- MODULE MCExecutionKernel -------------------------
(***************************************************************************)
(* Instances of ExecutionKernel for TLC.                                   *)
(***************************************************************************)
EXTENDS ExecutionKernel

CONSTANTS k1, k2, SPY, USD

Buy(k, qty, price, cost) ==
  [key |-> k, action |-> "BUY", symbol |-> SPY, qty |-> qty, percent |-> None,
   price |-> price, notional |-> qty * price, cost |-> cost, currency |-> USD,
   target |-> None]

Cancel(k, target) ==
  [key |-> k, action |-> "CANCEL", symbol |-> SPY, qty |-> None, percent |-> None,
   price |-> 1, notional |-> None, cost |-> 0, currency |-> USD, target |-> target]

OneBuy == {Buy(k1, 2, 2, 2)}

\* A purchase and the cancellation of it.
BuyAndCancel == {Buy(k1, 2, 2, 2), Cancel(k2, k1)}

\* Two purchases that together exceed the capital.
CompetingBuys == {Buy(k1, 2, 2, 2), Buy(k2, 1, 2, 1)}

=============================================================================
