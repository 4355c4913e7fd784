SPECIFICATION ClientSpec
CONSTANTS
  N = 3
  Ptr = {p1, p2, p3, p4}
  NULL = NULL
  Size = {0, 1, 2}
INVARIANTS ClientTypeOK RingConsistent MemoryIsStored FindIsConcatenation
PROPERTY KeepsLastN
