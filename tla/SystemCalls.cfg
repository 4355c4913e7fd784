SPECIFICATION Spec
CONSTANTS
  Functions = {"do_system", "do_exec", "do_exec_redirect"}
  MayFail = {"open", "fork", "dup2", "exec", "waitpid", "killed"}
  MaxCalls = 3
  MaxPrints = 2
  MaxFds = 2
INVARIANTS ErrorsReported PrintedOnce
PROPERTY CallsReturn
\* The program ends.
CHECK_DEADLOCK FALSE
