----------------------------- MODULE MCDayTrader -----------------------------
(***************************************************************************)
(* A bounded instance of DayTrader: the bars of a day around the entry     *)
(* cutoff and the flatten window, two symbols, four significant digits.    *)
(* The day begins in cash, with M10's position or with two positions.      *)
(***************************************************************************)
EXTENDS DayTrader

Pair == <<"AAA", "BBB">>

Day == <<90, 46, 45, 15>>

Usd5 == Dec(5, 0)
Usd250 == Dec(250, 0)
TwoPercent == Dec(2, -2)

Seen(short, medium, breakout, volatility, liquid) ==
  [history |-> TRUE, short |-> short, medium |-> medium, breakout |-> breakout,
   volatility |-> volatility, liquid |-> liquid]

\* Nothing yet, a pullback, momentum worth three points more, momentum worth thirty more.
Looks ==
  {NoHistory, Seen(-60, 40, -30, 50, TRUE), Seen(60, 60, 0, 40, TRUE), Seen(90, 90, 0, 50, TRUE)}

Quotes == {Dec(100, -1), Dec(102, -1)}

Market(a, b, look, other, benchmark) ==
  [quotes |-> "AAA" :> a @@ "BBB" :> b @@ "SPY" :> Dec(5, 1),
   features |-> "AAA" :> look @@ "BBB" :> other, benchmark |-> benchmark]

Views ==
  {Market(a, b, look, other, benchmark) :
     a \in Quotes, b \in {Dec(10, 0)}, look \in Looks, other \in Looks,
     benchmark \in {Seen(0, 0, 0, 0, TRUE), Seen(0, -20, 0, 0, TRUE)}}
  \cup {Market(Dec(10, 0), Dec(10, 0), look, look, NoHistory) : look \in Looks}

Start(cash, held, paid) ==
  [book |-> [cash |-> cash, positions |-> held], average |-> paid]

Starts ==
  {Start(Dec(677, -2), <<>>, <<>>),
   Start(Dec(627, -2), "SPY" :> Dec(1, -2), "SPY" :> Dec(5, 1)),
   Start(Dec(577, -2), "AAA" :> Dec(1, -1), "AAA" :> Dec(101, -1)),
   Start(Dec(527, -2), "SPY" :> Dec(1, -2) @@ "AAA" :> Dec(1, -1),
         "SPY" :> Dec(5, 1) @@ "AAA" :> Dec(10, 0))}

Parts == {Zero, Dec(9, -1), One}

\* Better and worse than the quote, by less and by more than the slippage.
Factors == {Dec(101, -2), Dec(115, -2)}

=============================================================================
