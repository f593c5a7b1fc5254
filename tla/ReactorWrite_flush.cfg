SPECIFICATION WriteSpec
CONSTANTS
  MaxStream = 8
  MaxSize = 3
  KernelSize = 2
  WriteMax = 4
PROPERTY Flushed
CHECK_DEADLOCK FALSE
