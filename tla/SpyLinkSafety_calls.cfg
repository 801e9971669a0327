SPECIFICATION FairSpec
CONSTANTS
  Funcs = {"F0E", "F0F", "F10", "F11", "F12", "F13", "F14", "F15", "F16", "F17",
           "F18", "F19", "F21", "F22", "F23", "F27", "F2F"}
  HostNo = 1
  OwnNo = 1
  FifoSize = 4
  Missing = TRUE
  Timely = TRUE
  MaxCalls = 2
  MaxRestarts = 1
INVARIANTS TypeOK InStep ExactlyOnce RequestFraming OwnReply
PROPERTIES KeepsPromise CallReturns
CHECK_DEADLOCK FALSE
