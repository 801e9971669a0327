SPECIFICATION Spec
CONSTANTS
  HostNames <- Names
  Patterns <- Wild
  MaxHandles = 2
  MaxChanges = 2
  MaxRestarts = 1
INVARIANTS TypeOK SearchComplete ReportedRight FoundReached
CHECK_DEADLOCK FALSE
