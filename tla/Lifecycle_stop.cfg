SPECIFICATION Spec
CONSTANTS
  ThreadNum = 2
  MaxConns = 2
  MaxCommands = 2
  EarlyClients = FALSE
PROPERTY StopEnds
CHECK_DEADLOCK FALSE
