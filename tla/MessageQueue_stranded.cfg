SPECIFICATION FairSpec
CONSTANTS
  Pushers = {p1, p2}
  MaxPush = 3
  PipeCapacity = 2
  ReadChunk = 1
  BatchLimit = 2
PROPERTY EventuallyPopped
CHECK_DEADLOCK FALSE
