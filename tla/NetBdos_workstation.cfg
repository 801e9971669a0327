SPECIFICATION FairSpec
CONSTANTS
  Numbers = {1, 6, 7, 15, 26, 49, 50}
  BufferMax = 2
  MaxKeys = 3
  MaxPresses = 2
INVARIANTS TypeOK KeysInOrder EscClears StatusKept CapsTrue
PROPERTIES KeysLostOnlyByUser ReadReturns
CHECK_DEADLOCK FALSE
