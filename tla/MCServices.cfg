SPECIFICATION ServicesSpec
CONSTANTS
  Interval = 2
  MaxQueue = 2
  PeerTalks = TRUE
  Quiet = TRUE
  Stops = TRUE
  Clients = {c1, c2}
  Max = 2
  Seconds = 3
  Backlog = 4
  Days = 3
  QueueSize = 1
  MaxCalls = 2
  MaxFds = 9
  Peers = {p1}
  Faults = 1
  Invalid = Invalid
  MaxStream = 8
  MaxSize = 3
  KernelSize = 2
  WriteMax = 4
  InitSize = 2
  ExpandSizes = {1, 2, 3}
  MaxCapacity = 7
  Word = 32
  Base = 2
  Widths = {1, 2, 4}
  Sizes = {0, 1, 2, 5}
  Objects = {o1, o2}
  Ports = {0, 9091}
INVARIANTS ClientSound RequestsLimited LinesRouted Owned WriteOrder
           BufferSound AddressCurrent
PROPERTIES ComesBack BacklogDrains BufferImplementsQueue
CHECK_DEADLOCK FALSE
