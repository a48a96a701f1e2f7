\* F_SETPIPE_SZ to exactly the number of buffered bytes.
SPECIFICATION PipeSpec
CONSTANTS
    Readers = {r1}
    Writers = {w1}
    InitialCapacity = 1
    Capacities = {1, 2}
    MaxChunk = 2
    Modulus = 3
    Smp = FALSE
INVARIANT NoRingPanic
CHECK_DEADLOCK FALSE
