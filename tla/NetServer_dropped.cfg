SPECIFICATION Spec
CONSTANTS
  Conns = {c1}
  NumThreads = 1
  MaxMsgs = 2
  RecvMax = 2
  MaxOps = 1
INVARIANT NoMessageDropped
CHECK_DEADLOCK FALSE
