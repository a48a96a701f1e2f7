\* The timer between a release's selection and its wake-up.
SPECIFICATION WaitsSpec
CONSTANTS
    Threads = {t1, t2}
    Queues = {s1}
    Semaphores = {s1}
    ManualReset = {}
    AutoReset = {}
    Futexes = {}
    Words = {}
    Modes <- TimedOnly
    Victim = t1
    Initial = 0
    MaxIssued = 2
    MaxRelease = 1
    MaxSignals = 0
INVARIANTS PermitConservation
CHECK_DEADLOCK FALSE
