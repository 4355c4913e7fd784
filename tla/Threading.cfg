SPECIFICATION Spec
CONSTANT Thread = {t1, t2, t3}
INVARIANTS TypeOK DataLivesWithThread HoldsUntilUnlock
PROPERTY ThreadsReturn
\* All threads are joined in the end.
CHECK_DEADLOCK FALSE
