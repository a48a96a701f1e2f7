\* One reader and one writer on two CPUs.
SPECIFICATION PipeSpec
CONSTANTS
    Readers = {r1}
    Writers = {w1}
    InitialCapacity = 1
    Capacities = {1, 2}
    MaxChunk = 2
    Modulus = 3
    Smp = TRUE
INVARIANT NoStrandedReader
CHECK_DEADLOCK FALSE
