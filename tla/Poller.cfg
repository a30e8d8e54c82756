SPECIFICATION Spec
CONSTANTS
  Fds = {0, 1, 2}
  kInitEventListSize = 1
INVARIANTS IndexesInStep WatchesInterest ChannelsGoSafely
