SPECIFICATION Spec
CONSTANTS
  N = 2
  Ptr = {p1, p2, p3, p4, p5, p6}
  NULL = NULL
  Writer = {w1, w2}
  Reader = {}
  File = {f1}
  Inputs <- Fragments
  ReadCounts = {0, 2}
  Offsets <- SmallOffsets
  Failures = {}
  Uninit = {0, 10}
  MaxWrites = 3
INVARIANTS WorkingIsSpan
