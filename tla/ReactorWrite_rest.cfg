SPECIFICATION Spec
CONSTANTS
  MaxStream = 8
  MaxSize = 3
  KernelSize = 2
  WriteMax = 4
INVARIANT RestIsBuffered
CHECK_DEADLOCK FALSE
