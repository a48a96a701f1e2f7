\* A process that kills itself is never torn down.
SPECIFICATION TermSpec
CONSTANTS
  Killers = {k1, k2}
  Waiters = {w1, w2}
  Machines <- KillRunning
PROPERTY WaiterLearns
CHECK_DEADLOCK FALSE
