\* Liveness on one CPU: sleepers wake and no ready thread starves.
SPECIFICATION FairSpec
CONSTANTS
    Threads = {t1, t2, t3}
    TimeSlice = 2
    BoostDuration = 1
    Boots <- Sleepers
PROPERTIES SleeperWakes ReadyRuns
CHECK_DEADLOCK FALSE
