SPECIFICATION FairSpec
CONSTANTS
  N = 2
  Ptr = {p1, p2, p3, p4, p5, p6}
  NULL = NULL
  Writer = {w1, w2}
  Reader = {r1}
  File = {f1}
  Inputs <- WholeLines
  ReadCounts = {2}
  Offsets = {0}
  Failures = {"buffer", "user", "signal", "struct", "line", "reply"}
  Uninit = {0}
  MaxWrites = 2
INVARIANTS NoFault OwnsItsBytes
PROPERTIES WritesAreAtomic ReadsText EveryCallReturns
\* A task that dies with the lock held stops the device.
CHECK_DEADLOCK FALSE
