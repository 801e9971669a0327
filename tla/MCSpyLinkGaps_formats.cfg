SPECIFICATION Spec
CONSTANTS
  Funcs = {"F24", "F26", "F28", "F30"}
  HostNo = 2
  OwnNo = 2
  FifoSize = 3
  Missing = FALSE
  Timely = TRUE
  MaxCalls = 1
  MaxRestarts = 0
INVARIANT CallsAsTabled
CHECK_DEADLOCK FALSE
