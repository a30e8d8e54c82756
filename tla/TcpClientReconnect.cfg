SPECIFICATION Spec
CONSTANTS
  Conns = {c1, c2}
  NoConn = NoConn
  kInitRetryDelayMs = 500
  kMaxRetryDelayMs = 1500
  MaxPending = 2
INVARIANTS ConnectAgain
CHECK_DEADLOCK FALSE
