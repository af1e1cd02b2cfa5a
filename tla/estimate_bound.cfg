SPECIFICATION Spec
CONSTANTS
  PromptTokens = 2
  Ceiling = 3
  ProviderDefault = 8
  MaxReported = 20
  Limit = 8
  ChargeMultiple = 2
  Caps <- MCCaps
  Counts <- MCCounts
  NotAnInt = NotAnInt
INVARIANTS TypeOK CostWithinEstimate HonestReportIsCharged
CHECK_DEADLOCK FALSE
