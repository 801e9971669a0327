\* The sequential position after a random read.
SPECIFICATION Spec
CONSTANTS
  Names = {a}
  Radix = 2
  SizeCap = 5
  HostSizes = {3}
  Rates = {}
  Counts = {}
  MayFill = FALSE
  MaxRec = 3
\* The host program may die.
CHECK_DEADLOCK FALSE
INVARIANTS
  RandomSetsPosition
