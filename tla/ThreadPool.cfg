SPECIFICATION Spec
CONSTANTS
  NumThreads = 2
  Producers = {p1, p2}
  Owner = Owner
  Nobody = Nobody
  Kinds = {"pool", "queue", "bounded"}
  MaxSizes = {0, 1, 2}
  MaxTasks = 4
  MaxSpurious = 1
INVARIANTS InOrder
PROPERTIES Served StartsAndStops
CHECK_DEADLOCK FALSE
