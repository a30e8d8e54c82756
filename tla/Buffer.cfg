CONSTANTS
  Base = 2
  kCheapPrepend = 2
  kInitialSize = 2
  ExtraBuf = 2
  MaxData = 2
  Data <- MCData
  Reserves = {0, 1, 3}
  MaxSize = 7
  IntSizes = {1, 2, 4}
SPECIFICATION Spec
INVARIANTS RoomIsMade IntsSurvive
PROPERTIES IsByteQueue
