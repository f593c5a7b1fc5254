SPECIFICATION FairSpec
CONSTANTS
  Conns = {c1}
  NumThreads = 1
  MaxMsgs = 3
  RecvMax = 2
  MaxOps = 2
INVARIANTS CloseReportedOnce PendingErrorHasTimer
PROPERTIES HandledInOrder Released Forgotten
CHECK_DEADLOCK FALSE
