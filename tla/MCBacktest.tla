----------------------------- MODULE MCBacktest -----------------------------
(***************************************************************************)
(* A bounded instance of Backtest: two candidates, two days of look-back,  *)
(* a decision every second bar, three significant digits.                  *)
(***************************************************************************)
EXTENDS Backtest

Pair == <<"AAA", "BBB">>

Usd0 == Dec(0, 0)
Usd5 == Dec(5, 0)
Usd250 == Dec(250, 0)
Usd67 == Dec(677, -1)
TwoPercent == Dec(2, -2)
FifteenPercent == Dec(15, -2)
SeventyPercent == Dec(7, -1)
FivePoints == Dec(5, -2)
Epsilon == Dec(1, -1)
Gains == {Dec(100, 0), Dec(101, 0)}
Candles == {[open |-> Dec(7, 0), close |-> Dec(7, 0)], [open |-> Dec(76, -1), close |-> Dec(82, -1)]}

=============================================================================
