SPECIFICATION Spec
CONSTANTS
  ThreadNums = {0, 2}
  FdLimit = 3
  MaxConns = 3
  MaxExternal = 1
  MaxCalls = 1
INVARIANTS BooksInStep FreedClosed
PROPERTIES BacklogServed
CHECK_DEADLOCK FALSE
