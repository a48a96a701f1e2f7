\* A process is reaped twice.
SPECIFICATION TermSpec
CONSTANTS
  Killers = {k1, k2}
  Waiters = {w1, w2}
  Machines <- LateWaiters
INVARIANT ReapedOnce
CHECK_DEADLOCK FALSE
