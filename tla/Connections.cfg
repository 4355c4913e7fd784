SPECIFICATION Spec
CONSTANTS
  Conn = {c1, c2, c3}
  NULL = NULL
INVARIANTS TypeOK ListHoldsThreads FreedOnlySteppedFrom
PROPERTY SignalEnds
\* The process ends.
CHECK_DEADLOCK FALSE
