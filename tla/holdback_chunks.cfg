SPECIFICATION RedactorSpec
CONSTANTS
  Char <- MCChar
  Digits <- MCDigits
  Separators <- MCSeparators
  Alnum <- MCAlnum
  BackSets = {1}
  PanLengths <- MCLengths
  Mark = "[REDACTED]"
  Patterns <- Forward
  MaxHoldback = 4
  ContextChars = 2
  StrayPrefix = 1
  RescuePasses = 4
  MaxFed = 7
  MaxChunk = 2
INVARIANTS ChunkInvariant HoldsTheEnd
CHECK_DEADLOCK FALSE
