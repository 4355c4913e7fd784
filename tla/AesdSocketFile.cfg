SPECIFICATION Spec
CONSTANTS
  c1 = c1
  c2 = c2
  Conn <- MCConn
  Requests <- MCRequests
  Chunk = 2
  MaxTicks = 2
  MaxRestarts = 1
INVARIANT TypeOK
PROPERTIES AppendOnly  EveryoneServed
\* The clients have nothing more to send and the timer is bounded.
CHECK_DEADLOCK FALSE
