CONSTANTS
  LoopThread = loop
  Owner = own
  Threads = {own, t1}
  Functors = {f1, f2, f3}
SPECIFICATION ThreadSpec
INVARIANTS NoLostWakeup NoLostQuit NoLoopAfterDestructor
PROPERTIES FifoExecution QueuedRuns OwnerGoesOn
CHECK_DEADLOCK FALSE
