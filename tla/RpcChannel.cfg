CONSTANTS
  tag_ = RPC0
  kMinMessageLen = 2
  kMaxMessageLen = 3
  Calls = {c1, c2}
  Kinds = {"echo", "noservice", "nomethod", "unparsable", "huge", "hugereply"}
  Services = {"echo"}
SPECIFICATION Spec
INVARIANTS CallsApart
PROPERTIES CallsComplete
CHECK_DEADLOCK FALSE
