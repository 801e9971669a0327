SPECIFICATION Spec
CONSTANTS
  Byte = 6
  Tab = 2
  Rooms = {2, 4}
  Starts = {1}
  Templates <- OldLines
  MaxLine = 7
  FollowAstray = FALSE
INVARIANTS TypeOK RoomKept ColumnRight PlaceRight PairsWhole RecallComplete
CHECK_DEADLOCK FALSE
