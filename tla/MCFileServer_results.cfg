\* Files that are not there, and writes to a full disk.
SPECIFICATION Spec
CONSTANTS
  Names = {a}
  Radix = 2
  SizeCap = 5
  HostSizes = {3}
  Rates = {}
  Counts = {}
  MayFill = TRUE
  MaxRec = 3
\* The host program may die.
CHECK_DEADLOCK FALSE
INVARIANTS
  ResultsTrue
