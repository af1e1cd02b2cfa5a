SPECIFICATION Spec
CONSTANTS
  MaxEvent = 5
  MaxBody = 7
  MaxChunk = 2
INVARIANTS TypeOK ChunkInvariant YieldedAtOnce
CHECK_DEADLOCK FALSE
