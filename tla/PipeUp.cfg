\* One reader, two writers on a uniprocessor.
SPECIFICATION FairPipeSpec
CONSTANTS
    Readers = {r1}
    Writers = {w1, w2}
    InitialCapacity = 1
    Capacities = {1, 2}
    MaxChunk = 2
    Modulus = 3
    Smp = FALSE
INVARIANTS NoStrandedReader NoMutualPark
PROPERTIES StreamOrder ReaderServed BrokenPipeReported
CHECK_DEADLOCK FALSE
