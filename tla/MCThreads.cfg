SPECIFICATION ThreadsSpec
CONSTANTS
  Pushers = {p1, p2}
  MaxPush = 3
  PipeCapacity = 2
  ReadChunk = 1
  BatchLimit = 2
  Waiters = {w1, w2, w3}
  MaxWakeups = 5
  Stoppers = {c1, c2, c3}
  NoCaller = NoCaller
  ThreadNum = 2
  MaxConns = 2
  MaxCommands = 2
  EarlyClients = TRUE
  Loggers = {"a", "b"}
  MaxLines = 2
  LogSize = 1
INVARIANTS NoLostWakeup StopIsSafe LinesKept
PROPERTIES
  InOrder NetImplementsMailbox ImplementsSemaphore StopReturns EarlyServed
  LoggingEnds ImplementsLog
CHECK_DEADLOCK FALSE
