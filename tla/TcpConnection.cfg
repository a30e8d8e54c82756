SPECIFICATION Spec
CONSTANTS
  Others = {t1}
  OtherCalls = {"send", "shutdown", "forceClose", "startRead", "stopRead"}
  Lens = {1, 2}
  highWaterMark_ = 2
  MaxBytes = 2
  MaxPending = 1
INVARIANTS StreamIntact WritesWhatWaits ShutAfterData EndsOnceAndClean
CHECK_DEADLOCK FALSE
