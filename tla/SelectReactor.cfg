SPECIFICATION FairSpec
CONSTANTS
  Ids = {1, 2, 3}
  Fds = {d1, d2}
  MaxInputs = 2
  Capacities = {1, 2}
  None = None
PROPERTIES SetsAgree Heard
CHECK_DEADLOCK FALSE
