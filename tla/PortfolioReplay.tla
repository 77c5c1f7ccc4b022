-------------------------- MODULE PortfolioReplay ---------------------------
(***************************************************************************)
(* PortfolioReconciler.replay_events, one report at a time.                *)
(*                                                                         *)
(* The code rebuilds the portfolio by walking the recorded reports from    *)
(* the first one on every call.  The walk is a left fold, so its result    *)
(* after one more report is the result before it moved on by one step of   *)
(* the loop: ApplyReport.  A book is that intermediate result:             *)
(*   cash, pos        cash and the quantity held per symbol;               *)
(*   qty, gross, fee  what was applied so far per broker order, all three  *)
(*                    cumulative (applied_quantity, applied_gross, ...);   *)
(*   broken           the walk raised at an earlier report, and so will    *)
(*                    every later one.                                     *)
(* Average prices and the NAV are left out: no guard reads them.           *)
(***************************************************************************)
EXTENDS Integers, Orders

CONSTANT
  StartingCash      \* settings.authorized_starting_cash

ASSUME StartingCashAssumption == StartingCash \in Nat

EmptyBook ==
  [cash   |-> StartingCash,
   pos    |-> [s \in Symbols |-> 0],
   qty    |-> [k \in Keys |-> 0],
   gross  |-> [k \in Keys |-> 0],
   fee    |-> [k \in Keys |-> 0],
   broken |-> FALSE]

Books ==
  [cash : Int, pos : [Symbols -> Nat], qty : [Keys -> Nat],
   gross : [Keys -> Nat], fee : [Keys -> Nat], broken : BOOLEAN]

\* A cumulative field of a broker order went down.
Regressed(b, r) ==
  \/ r.qty < b.qty[r.order]
  \/ r.gross < b.gross[r.order]
  \/ r.fee < b.fee[r.order]

\* Plausible bug: cumulative quantities applied as if they were increments.
IncrementalDelta(applied, reported) == reported

Delta(applied, reported) == reported - applied

WouldGoShort(b, r, delta) == r.side = "SELL" /\ delta > b.pos[r.symbol]

\* The book with the cumulative figures of a valid fill report applied.
WithFill(b, r) ==
  LET shares == Delta(b.qty[r.order], r.qty)
      money  == Delta(b.gross[r.order], r.gross)
      fees   == Delta(b.fee[r.order], r.fee)
      sign   == IF r.side = "BUY" THEN 1 ELSE -1
  IN  [cash   |-> b.cash - sign * money - fees,
       pos    |-> [b.pos EXCEPT ![r.symbol] = @ + sign * shares],
       qty    |-> [b.qty EXCEPT ![r.order] = r.qty],
       gross  |-> [b.gross EXCEPT ![r.order] = r.gross],
       fee    |-> [b.fee EXCEPT ![r.order] = r.fee],
       broken |-> FALSE]

\* Plausible bug: only partial fills move the book.
IsPartialFill(r) == r.status = "PARTIALLY_FILLED"

IsFill(r) == r.status \in FillStates

\* One iteration of the loop over the reports.
ApplyReport(b, r) ==
  IF b.broken THEN b
  ELSE IF r.currency # AccountCurrency THEN [b EXCEPT !.broken = TRUE]
  ELSE IF ~IsFill(r) THEN b
  ELSE IF Regressed(b, r) \/ WouldGoShort(b, r, Delta(b.qty[r.order], r.qty))
  THEN [b EXCEPT !.broken = TRUE]
  ELSE WithFill(b, r)

\* replay_events returns: nothing raised, and PortfolioState takes no negative cash.
Replayable(b) == ~b.broken /\ b.cash >= 0

=============================================================================
