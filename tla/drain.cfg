SPECIFICATION FairSpec
CONSTANTS
  i1 = i1
  i2 = i2
  Ids <- TwoIds
  NoId = NoId
  MaxLines = 3
  Buffer = 1
INVARIANTS TypeOK CounterIsWork NothingLostSilently
PROPERTIES KeepsContract DrainsByWork EveryLineAnswered
