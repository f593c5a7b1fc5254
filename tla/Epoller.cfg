SPECIFICATION Spec
CONSTANTS
  Sockets = {s1, s2, s3}
  Addresses = {a1, a2}
  Pipe = Pipe
  Nothing = Nothing
INVARIANT NoStaleEvent
PROPERTY Served
