\* A thief dispatches a thread whose switch-out is not finished.
SPECIFICATION Spec
CONSTANTS
    Threads = {t1, t2}
    TimeSlice = 2
    BoostDuration = 1
    Boots <- TwoYield
INVARIANTS OneStackOneCpu
CHECK_DEADLOCK FALSE
