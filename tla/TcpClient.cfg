SPECIFICATION Spec
CONSTANTS
  Conns = {c1, c2}
  NoConn = NoConn
  kInitRetryDelayMs = 500
  kMaxRetryDelayMs = 1500
  MaxPending = 2
INVARIANTS ReleasedInTime AttemptsGoOn
PROPERTIES EndsForGood
CHECK_DEADLOCK FALSE
