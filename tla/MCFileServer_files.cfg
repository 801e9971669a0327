\* Two files that are read and written in every way, across extents, that
\* replace each other, and that are larger than the size that is reported.
SPECIFICATION Spec
CONSTANTS
  Names = {a, b}
  Radix = 2
  SizeCap = 5
  HostSizes = {3}
  Rates = {1, 2}
  Counts = {2}
  MayFill = FALSE
  MaxRec = 3
SYMMETRY NameSymmetry
\* The host program may die.
CHECK_DEADLOCK FALSE
INVARIANTS
  TypeOK
  FcbFitsFile
  ReadsTellTheEnd
  ReadsComplete
  RecordsKept
