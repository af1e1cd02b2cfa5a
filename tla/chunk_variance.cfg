SPECIFICATION RedactorSpec
CONSTANTS
  Char <- FewChar
  Digits <- FewDigits
  Separators <- MCSeparators
  Alnum <- FewDigits
  BackSets = {1}
  PanLengths <- MCLengths
  Mark = "[REDACTED]"
  Patterns <- Rescued
  MaxHoldback = 7
  ContextChars = 2
  StrayPrefix = 1
  RescuePasses = 4
  MaxFed = 6
  MaxChunk = 2
INVARIANT ChunkInvariant
CHECK_DEADLOCK FALSE
