\* Copies and programs, with late answers, lost packets and reads that end anywhere.
SPECIFICATION FairSpec
CONSTANTS
  BlockMax = 2
  Sector = 5
  Sessions <- AllSessions
  RxMax = 8
  LongAnswer = 3
  ShortAnswer = 1
  MaxEarly = 4
  MaxLost = 1
\* The program ends.
CHECK_DEADLOCK FALSE
INVARIANTS
  TypeOK
  InTurn
  CopiesRight
  ParsedAnswersInTime
  StartedWhole
PROPERTIES
  Ends
