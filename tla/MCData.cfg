SPECIFICATION DataSpec
CONSTANTS
  MaxId = 3
  MaxHeld = 3
  Asks <- SomeAsks
  Horizon = 2
  MsPerSec = 2
  NanoPerMs = 2
INVARIANTS EncodingSound PosAgrees PollInTime
PROPERTIES FramingSound ImplementsTimerTable CheckReturns
CHECK_DEADLOCK FALSE
