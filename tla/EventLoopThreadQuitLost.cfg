CONSTANTS
  LoopThread = loop
  Owner = own
  Threads = {own}
  Functors = {f1}
SPECIFICATION ThreadSpec
PROPERTIES DestructorReturns
CHECK_DEADLOCK FALSE
