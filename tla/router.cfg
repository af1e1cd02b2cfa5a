SPECIFICATION FairRouterSpec
CONSTANTS
  r1 = r1
  r2 = r2
  alice = alice
  Req <- TwoRequests
  Keys <- OneKey
  Limit = 1
  Window = 0
  Asks = {1}
  Reports = {}
  EvictBatch = 2
  Horizon = 1
  DbFaults = TRUE
  Providers = 2
  Statuses = {200}
  Bodies = {"object", "not_object"}
  Cancels = TRUE
  Crashes = TRUE
  NoRow = NoRow
  NoWriter = NoWriter
INVARIANTS NoStrandedHold BooksBalance RetryableIsFree
PROPERTIES KeepsContract EveryRequestEnds
CHECK_DEADLOCK FALSE
