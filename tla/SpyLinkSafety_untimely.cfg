SPECIFICATION Spec
CONSTANTS
  Funcs = {"F0E", "F11", "F12", "F18"}
  HostNo = 1
  OwnNo = 1
  FifoSize = 3
  Missing = TRUE
  Timely = FALSE
  MaxCalls = 2
  MaxRestarts = 1
INVARIANTS IntactOnce
CHECK_DEADLOCK FALSE
