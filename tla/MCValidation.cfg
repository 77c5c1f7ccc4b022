SPECIFICATION Spec
CONSTANTS
  Symbols <- Three
  Benchmark = "SPY"
  Histories <- Service
  Ranges <- Requests
  StrayDays = {0, 8, 19}
  LongSpan = 11
  ChunkDays = 5
  BatchSize = 2
  MaxPages = 3
  MinimumBars = 10
  WarmupBars = 3
  MinDevelopment = 4
  HoldoutRoom = 3
  TrainBars = 4
  TestBars = 2
  StepBars = 2
INVARIANTS
  HistoryComplete
  HoldoutUnseen
CHECK_DEADLOCK FALSE
