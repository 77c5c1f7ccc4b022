---------------------------- MODULE MCMarketTrend ----------------------------
(***************************************************************************)
(* Bounded instances of MarketTrend.  Three significant digits, so that    *)
(* the roundings of twenty-eight occur; a cadence and look-backs of a few  *)
(* bars; the other amounts are M10's.                                      *)
(***************************************************************************)
EXTENDS MarketTrend

SPY == "SPY"

USD67_7 == Dec(677, -1)       \* the starting cash
Usd250 == Dec(250, 0)         \* the largest ceiling main accepts
Usd5 == Dec(5, 0)             \* smallest order and trade
Fifteen == Dec(15, -2)        \* percent of the NAV
ATenth == Dec(1, -1)          \* slippage

Quotes == {Dec(61, -1), Dec(55, -1), Dec(73, -1), Dec(603, -2)}

Parts == {Zero, Dec(1, -1), Dec(9, -1), One}

=============================================================================
