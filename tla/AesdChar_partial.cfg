SPECIFICATION Spec
CONSTANTS
  N = 2
  Ptr = {p1, p2, p3, p4, p5, p6}
  NULL = NULL
  Writer = {w1}
  Reader = {r1}
  File = {f1}
  Inputs <- AnyBytes
  ReadCounts = {0, 2}
  Offsets <- SmallOffsets
  Failures = {"buffer", "user", "signal", "struct", "line", "tail", "reply"}
  Uninit = {0, 10}
  MaxWrites = 3
INVARIANTS TypeOK NoFault OwnsItsBytes SeeksAgreeWithText
PROPERTIES WritesAreAtomic ReadsText
\* A task that dies with the lock held stops the device.
CHECK_DEADLOCK FALSE
