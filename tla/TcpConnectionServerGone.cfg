SPECIFICATION Spec
CONSTANTS
  Others = {t1}
  OtherCalls = {}
  Lens = {1, 2}
  highWaterMark_ = 2
  MaxBytes = 2
  MaxPending = 1
INVARIANTS RemovesIdleChannel
CHECK_DEADLOCK FALSE
