SPECIFICATION Spec
CONSTANTS
  Others = {t1}
  OtherCalls = {"send"}
  Lens = {1, 2}
  highWaterMark_ = 2
  MaxBytes = 2
  MaxPending = 1
INVARIANTS NoDanglingFunctor
CHECK_DEADLOCK FALSE
