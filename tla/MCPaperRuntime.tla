--------------------------- MODULE MCPaperRuntime ---------------------------
(***************************************************************************)
(* Instances of PaperRuntime for TLC.                                      *)
(***************************************************************************)
EXTENDS PaperRuntime

CONSTANTS k1, k2, k3, SPY, USD

Buy(k, qty) ==
  [key |-> k, action |-> "BUY", symbol |-> SPY, qty |-> qty, percent |-> None,
   price |-> 2, notional |-> qty * 2, cost |-> 0, currency |-> USD, target |-> None]

Exit(k) ==
  [key |-> k, action |-> "EXIT", symbol |-> SPY, qty |-> None, percent |-> None,
   price |-> 2, notional |-> None, cost |-> 0, currency |-> USD, target |-> None]

\* Two market states at the first bar, a purchase at each.
TwoPurchases == {Buy(k1, 2), Buy(k2, 1)}
PurchasesOnly == <<{<<>>, <<Buy(k1, 2)>>, <<Buy(k2, 1)>>}>>

\* A purchase at the first bar, an exit at the second in two market states.
BuyAndExits == {Buy(k1, 1), Exit(k2), Exit(k3)}
BuyThenExits == <<{<<>>, <<Buy(k1, 1)>>}, {<<>>, <<Exit(k2)>>, <<Exit(k3)>>}>>

OnePurchase == {Buy(k1, 2)}
PurchaseOnly == <<{<<>>, <<Buy(k1, 2)>>}>>

=============================================================================
