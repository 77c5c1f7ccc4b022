----------------------------- MODULE Validation -----------------------------
(***************************************************************************)
(* The economic validation of M8 (scripts/alpaca_m8_validation.py; those   *)
(* of M5 to M9 have the same course): the history is fetched from the data *)
(* service in windows, batches and pages (market_data/research.py, as      *)
(* market_data/alpaca.py), checked, split into development and holdout,    *)
(* and replayed (backtest/engine.py) once on the development part, once on *)
(* the holdout and once for every walk-forward window of it.               *)
(*                                                                         *)
(* Only when things happen is modelled: a bar is <<symbol, day>>, a replay *)
(* is the bars it decides on and those it trades at.  What it decides is   *)
(* Backtest's subject.                                                     *)
(***************************************************************************)
EXTENDS Integers, FiniteSetsExt, SequencesExt

CONSTANTS
  Symbols,          \* universe.all_symbols, as _symbols sorts them
  Benchmark,        \* universe.benchmark_symbol
  Histories,        \* the bars the service may have, from each a day set per symbol
  StrayDays,        \* bound: the days of the bars it may return without being asked
  Ranges,           \* the requests: [from, to], days
  LongSpan,         \* a longer request is decomposed: 45 days
  ChunkDays,        \* chunk_days: 30
  BatchSize,        \* symbol_batch_size: 4
  MaxPages,         \* config.max_pages
  MinimumBars,      \* minimum_bars: 180
  WarmupBars,       \* BacktestConfig.warmup_bars: 100
  MinDevelopment,   \* the least split index: 120
  HoldoutRoom,      \* the bars the holdout must have: 21
  TrainBars,        \* WalkForwardConfig: 120
  TestBars,         \* 20
  StepBars          \* 20

\* Sizes and lengths are those that BarRequest, get_bars_windowed, BacktestConfig and
\* WalkForwardConfig accept; what the service has is finite and its days are numbers.
ASSUME ValidationAssumption ==
  /\ Symbols \in Seq(ToSet(Symbols)) /\ Symbols # <<>>
  /\ \A h \in Histories : /\ IsFiniteSet(DOMAIN h)
                         /\ \A s \in DOMAIN h : IsFiniteSet(h[s]) /\ h[s] \subseteq Int
  /\ \A r \in Ranges : r.from \in Int /\ r.to \in Int
  /\ {ChunkDays, BatchSize, TrainBars, TestBars, StepBars, WarmupBars} \subseteq Nat \ {0}
  /\ {LongSpan, MinDevelopment, HoldoutRoom} \subseteq Nat

VARIABLES
  data,             \* the bars of the service
  range,            \* the request of main
  at,               \* the part of it under way, counted from 0
  pages,            \* its pages so far
  remaining,        \* its bars the service has not returned yet
  fetched,          \* the bars received
  phase,            \* what main does next, "FAILED" when it raised, "DONE"
  windowStart,      \* evaluate's start, an index into the benchmark's bars
  points            \* the decisions of the replays: [of, window, decision, execution]

vars == <<data, range, at, pages, remaining, fetched, phase, windowStart, points>>

(***************************************************************************)
(* The requests.                                                           *)
(***************************************************************************)
\* How many pieces of size d make n.
PiecesOf(n, d) == (n + d - 1) \div d

Windowed == range.to - range.from > LongSpan

Batches == PiecesOf(Len(Symbols), BatchSize)

\* Plausible bug: a last window that is not full is not asked for.
WholeWindows == (range.to - range.from) \div ChunkDays

Windows == PiecesOf(range.to - range.from, ChunkDays)

Parts == IF Windowed THEN Windows * Batches ELSE 1

\* The cursor of get_bars_windowed at its k-th window.
Cursor(k) == range.from + k * ChunkDays

\* The i-th call of the service's end point.
Part(i) ==
  IF ~Windowed THEN [symbols |-> ToSet(Symbols), from |-> range.from, to |-> range.to]
  ELSE LET k == i \div Batches
           j == i % Batches
       IN  [symbols |-> {Symbols[n] : n \in (j * BatchSize + 1) ..
                                              Min({(j + 1) * BatchSize, Len(Symbols)})},
            from |-> Cursor(k),
            to   |-> Min({Cursor(k) + ChunkDays, range.to})]

\* Both bounds of a request are inclusive.
Asked(i) ==
  {b \in data : b[1] \in Part(i).symbols /\ Part(i).from <= b[2] /\ b[2] <= Part(i).to}

(***************************************************************************)
(* The replays.                                                            *)
(***************************************************************************)
\* These days in order: the n-th is the one up to which there are n.
InOrder(days) ==
  LET upTo == [d \in days |-> Cardinality({e \in days : e <= d})]
  IN  [n \in 1 .. Cardinality(days) |-> CHOOSE d \in days : upTo[d] = n]

\* The days s has a bar on, in order.
DaysOf(bars, s) == InOrder({b[2] : b \in {c \in bars : c[1] = s}})

BenchmarkDays == DaysOf(fetched, Benchmark)

\* What run refuses.
Replayable(bars) ==
  /\ Len(DaysOf(bars, Benchmark)) >= WarmupBars + 1
  /\ \A s \in ToSet(Symbols) : \E b \in bars : b[1] = s

\* The decisions of run on these bars, each done at the next bar of the benchmark.
Replayed(of, bars, evaluationStart) ==
  LET days == DaysOf(bars, Benchmark)
  IN  {[of |-> of, window |-> windowStart, decision |-> days[i], execution |-> days[i + 1]] :
         i \in {n \in WarmupBars .. Len(days) - 1 : days[n] >= evaluationStart}}

SplitIndex == Max({MinDevelopment, (70 * Len(BenchmarkDays)) \div 100})

\* Indices of the code count from 0.
HoldoutStart == BenchmarkDays[SplitIndex + 1]

\* Plausible bug: the bar of the split is in both parts.
SubsetUpTo(cutoff) == {b \in fetched : b[2] <= cutoff}

SubsetBefore(cutoff) == {b \in fetched : b[2] < cutoff}

WindowHistory(end) == {b \in fetched : b[2] <= end}

(***************************************************************************)
(* main.                                                                   *)
(***************************************************************************)
Init ==
  /\ \E h \in Histories : data = UNION {{s} \X h[s] : s \in DOMAIN h}
  /\ range \in Ranges
  /\ at = 0 /\ pages = 0
  /\ remaining = Asked(0)
  /\ fetched = {} /\ phase = "FETCHING"
  /\ windowStart = TrainBars /\ points = {}

Raise ==
  /\ phase' = "FAILED"
  /\ UNCHANGED <<data, range, at, pages, remaining, fetched, windowStart, points>>

Position(s) == SelectInSeq(Symbols, LAMBDA x : x = s)

\* The bars of a request up to this one, symbol by symbol and day by day.
UpTo(b) ==
  {c \in remaining : \/ Position(c[1]) < Position(b[1])
                     \/ c[1] = b[1] /\ c[2] <= b[2]}

\* A page: the next bars that were asked for, or none, perhaps with one that was not.
Pages ==
  {asked \cup stray : asked \in {{}} \cup {UpTo(b) : b \in remaining},
                      stray \in {{}} \cup {{b} : b \in {x \in data : x[2] \in StrayDays}}}

Refused(page) ==
  \E b \in page :
    /\ b[1] \in Part(at).symbols
    /\ b[2] > Part(at).to \/ (Windowed /\ b[2] < range.from)

Received(page) == {b \in page : b[1] \in Part(at).symbols}

\* A page arrives; with the last one the next part is asked for.
ReceivePage ==
  /\ phase = "FETCHING"
  /\ \E page \in Pages :
       /\ ~Refused(page)
       /\ fetched' = fetched \cup Received(page)
       /\ \/ /\ remaining \ page # {} /\ pages + 1 < MaxPages
             /\ pages' = pages + 1 /\ remaining' = remaining \ page
             /\ UNCHANGED <<at, phase>>
          \/ /\ remaining \subseteq page /\ at + 1 < Parts
             /\ at' = at + 1 /\ pages' = 0 /\ remaining' = Asked(at + 1)
             /\ UNCHANGED phase
          \/ /\ remaining \subseteq page /\ at + 1 = Parts
             /\ phase' = "CHECKING" /\ remaining' = {}
             /\ UNCHANGED <<at, pages>>
  /\ UNCHANGED <<data, range, windowStart, points>>

\* The service fails, returns a bar it was not asked for, or has too many pages.
FetchFails ==
  /\ phase = "FETCHING"
  /\ Raise

\* The checks of main on what it fetched.
Usable ==
  /\ \A b \in fetched : range.from <= b[2] /\ b[2] <= range.to
  /\ \A s \in ToSet(Symbols) : Len(DaysOf(fetched, s)) >= MinimumBars
  /\ SplitIndex < Len(BenchmarkDays) - HoldoutRoom

CheckHistory ==
  /\ phase = "CHECKING"
  /\ IF Usable
     THEN /\ phase' = "DEVELOPMENT"
          /\ UNCHANGED <<data, range, at, pages, remaining, fetched, windowStart, points>>
     ELSE Raise

Replay(of, bars, evaluationStart, next) ==
  /\ IF Replayable(bars)
     THEN phase' = next /\ points' = points \cup Replayed(of, bars, evaluationStart)
     ELSE phase' = "FAILED" /\ UNCHANGED points
  /\ UNCHANGED <<data, range, at, pages, remaining, fetched>>

RunDevelopment ==
  /\ phase = "DEVELOPMENT"
  /\ Replay("development", SubsetBefore(HoldoutStart), 0, "HOLDOUT")
  /\ UNCHANGED windowStart

RunHoldout ==
  /\ phase = "HOLDOUT"
  /\ Replay("holdout", fetched, HoldoutStart, "WALK_FORWARD")
  /\ UNCHANGED windowStart

TestStart == BenchmarkDays[windowStart + 1]

TestEnd == BenchmarkDays[windowStart + TestBars + 1]

\* The window that begins at windowStart.  Those that begin before the holdout are replayed too,
\* but their results are not used.
RunWindow ==
  /\ phase = "WALK_FORWARD" /\ windowStart + TestBars < Len(BenchmarkDays)
  /\ windowStart' = windowStart + StepBars
  /\ Replay(IF HoldoutStart <= TestStart THEN "window" ELSE "unused",
            WindowHistory(TestEnd), TestStart, "WALK_FORWARD")

Report ==
  /\ phase = "WALK_FORWARD" /\ windowStart + TestBars >= Len(BenchmarkDays)
  /\ phase' = "DONE"
  /\ UNCHANGED <<data, range, at, pages, remaining, fetched, windowStart, points>>

Next ==
  \/ ReceivePage \/ FetchFails \/ CheckHistory
  \/ RunDevelopment \/ RunHoldout \/ RunWindow \/ Report

Spec == Init /\ [][Next]_vars

(***************************************************************************)
(* What it promises.                                                       *)
(***************************************************************************)
\* What is replayed is exactly what the service has between the bounds of the request, both
\* included: no bar is lost between windows, batches and pages and none from elsewhere is kept.
HistoryComplete ==
  phase \notin {"FETCHING", "CHECKING", "FAILED"} =>
    fetched = {b \in data : /\ b[1] \in ToSet(Symbols)
                            /\ range.from <= b[2] /\ b[2] <= range.to}

\* The holdout is unseen: the development replay trades at no bar of it, the holdout replay and
\* the windows that count decide on no bar before it, and no two windows trade at the same bar.
HoldoutUnseen ==
  \A p \in points :
    /\ p.of = "development" => p.execution < HoldoutStart
    /\ p.of \in {"holdout", "window"} => HoldoutStart <= p.decision
    /\ \A q \in points :
         p.of = "window" /\ q.of = "window" /\ p.execution = q.execution => p = q

=============================================================================
