CONSTANTS
  Requests <- MCRequests
  MaxRequests = 3
  Builtin <- MCBuiltin
  UserCommands <- MCUserCommands
SPECIFICATION Spec
INVARIANTS RequestsApart AnsweredAtOnce
CHECK_DEADLOCK FALSE
