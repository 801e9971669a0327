SPECIFICATION FairSpec
CONSTANTS
  MemSize = 32
  ZeroLen = 8
  ZeroFrom = 6
  NetAt = 22
  WorkArea = 29
  Hooks = {28}
  JumpLen = 2
  ComMax = 4
  Scratch = {17, 21, 23, 25, 29, 31}
  Layouts <- SomeLayouts
  MaxChanges = 2
  MaxExits = 2
  MaxEscapes = 2
INVARIANTS TypeOK MemoryAsSent CommandStarted
PROPERTY Prompt
CHECK_DEADLOCK FALSE
