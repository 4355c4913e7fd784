SPECIFICATION Spec
CONSTANTS
  Functions = {"do_exec"}
  MayFail = {"killed"}
  MaxCalls = 1
  MaxPrints = 1
  MaxFds = 1
INVARIANT TrueMeansExecuted
\* The program ends.
CHECK_DEADLOCK FALSE
