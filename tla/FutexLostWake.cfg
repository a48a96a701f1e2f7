\* A waker between a waiter's look at the word and its block.
SPECIFICATION WaitsSpec
CONSTANTS
    Threads = {t1, t2}
    Queues = {f1, f2}
    Semaphores = {}
    ManualReset = {}
    AutoReset = {}
    Futexes = {f1, f2}
    Words = {u1}
    Modes <- UntimedPreemptible
    Victim = t1
    Initial = 0
    MaxIssued = 0
    MaxRelease = 0
    MaxSignals = 0
INVARIANTS NoLostFutexWake
CHECK_DEADLOCK FALSE
