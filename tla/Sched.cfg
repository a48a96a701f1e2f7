\* Safety over four kinds of machine and load.
SPECIFICATION Spec
CONSTANTS
    Threads = {t1, t2, t3}
    TimeSlice = 2
    BoostDuration = 1
    Boots <- AllBoots
SYMMETRY ThreadSymmetry
INVARIANTS PlacedOnce WaiterIsParked
CHECK_DEADLOCK FALSE
