\* The end of a file that does not fill its last sector, with nothing late or lost.
SPECIFICATION Spec
CONSTANTS
  BlockMax = 2
  Sector = 5
  Sessions <- OneCopy
  RxMax = 8
  LongAnswer = 3
  ShortAnswer = 1
  MaxEarly = 0
  MaxLost = 0
\* The program ends.
CHECK_DEADLOCK FALSE
INVARIANTS
  WholeFileCopied
