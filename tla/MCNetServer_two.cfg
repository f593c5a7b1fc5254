SPECIFICATION Spec
CONSTANTS
  Conns = {c1, c2}
  NumThreads = 2
  MaxMsgs = 1
  RecvMax = 1
  MaxOps = 1
INVARIANTS TypeOK MapsAgree LiveIsKnown EntryIsLive Balanced
SYMMETRY ConnSymmetry
CHECK_DEADLOCK FALSE
