\* Three threads on a semaphore, on two events or on a futex, on every machine.
SPECIFICATION FairWaitsSpec
CONSTANTS
    Threads = {t1, t2, t3}
    Queues = {s1, m, a, f1, f2}
    Semaphores = {s1}
    ManualReset = {m}
    AutoReset = {a}
    Futexes = {f1, f2}
    Words = {u1}
    Modes <- AllMachines
    Victim = t3
    Initial = 1
    MaxIssued = 3
    MaxRelease = 2
    MaxSignals = 2
INVARIANTS PermitsAccounted NoIdlePermit SetEventHasNoSleeper OneWaitPerSignal FutexWaiterRegistered UntimedFutexWakesKept
PROPERTIES OwedWaitReturns
CHECK_DEADLOCK FALSE
