SPECIFICATION FairSpec
CONSTANTS
  Addrs = {1, 2}
  Delays = {0, 2}
  Intervals = {1}
  MaxCreated = 2
  MaxLate = 1
  MaxSteps = 1
  MaxPending = 1
INVARIANTS InStep OwnedOnce TimerfdArmed NeverAgain
PROPERTIES TimerRuns
