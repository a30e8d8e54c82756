SPECIFICATION FairSpec
CONSTANTS
  Others = {t1}
  OtherCalls = {"shutdown"}
  Lens = {2}
  highWaterMark_ = 2
  MaxBytes = 2
  MaxPending = 1
PROPERTIES ShutdownCompletes CloseCompletes
CHECK_DEADLOCK FALSE
