\* Exits and kills, waits and reaping.
SPECIFICATION TermSpec
CONSTANTS
  Killers = {k1, k2}
  Waiters = {w1, w2}
  Machines <- Sound
INVARIANTS ReasonReported SpaceGivenBack
PROPERTY WaiterLearns
CHECK_DEADLOCK FALSE
