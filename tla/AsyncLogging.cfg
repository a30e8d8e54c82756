SPECIFICATION Spec
CONSTANTS
  rollSize_ = 5000
  flushInterval_ = 3
  checkEveryN_ = 2
  NoZone = NoZone
  BaseNameSize = 12
  LineNumber = 235
  Fronts = {f1}
  Messages = {100, 3950}
  LogZone <- NewYork
  Zones <- MCZones
  Starts <- MCStarts
  Instants <- MCInstants
  Amounts <- MCAmounts
  Steps = {3600, 43200}
  kLargeBuffer = 4200
  MaxBuffers = 2
  MaxLines = 3
  MaxTicks = 1
  Null = Null
INVARIANTS LinesKept TextsTrue
PROPERTIES RollsInTime LinesFlushed
CHECK_DEADLOCK FALSE
