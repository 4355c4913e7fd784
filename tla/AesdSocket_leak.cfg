SPECIFICATION Spec
CONSTANTS
  N = 2
  NL = 10
  Inputs = {}
  MayFail = FALSE
  c1 = c1
  c2 = c2
  Conn = {c1, c2}
  Segments <- MCSegments
  BufLen = 5
  Resets = TRUE
  SendStalls = FALSE
INVARIANT FileLockReleased
\* Everything stops once the clients are done.
CHECK_DEADLOCK FALSE
