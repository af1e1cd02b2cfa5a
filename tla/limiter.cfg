SPECIFICATION LimiterSpec
CONSTANTS
  r1 = r1
  r2 = r2
  r3 = r3
  alice = alice
  TicksPerSecond = 2
  Req <- ThreeRequests
  Keys <- OneKey
  Limit = 2
  Window = 3
  Asks = {1, 2}
  Reports <- OddReports
  EvictBatch = 1
  Horizon = 4
  DbFaults = TRUE
  NoRow = NoRow
  NoWriter = NoWriter
SYMMETRY Interchangeable
INVARIANTS TypeOK NoSilentOverspend
PROPERTIES HintIsExact RoundedHintFits ImplementsBudget
CHECK_DEADLOCK FALSE
