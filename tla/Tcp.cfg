SPECIFICATION FairTcpSpec
CONSTANTS
    c1 = c1
    c2 = c2
    Clients = {c1, c2}
    SeqSpace = 32
    InitialSeq <- Seqs
    SeqStride = 7
    Mss = 2
    WindowUnit = 1
    InitialWindow = 4
    MaxSendBuffer = 3
    MaxBacklog = 1
    MaxSackBlocks = 2
    MaxOoo = 3
    ReadMax = 2
    Machines <- Sound
INVARIANTS StreamInOrder NoReaderSleepsOnData
PROPERTIES WrittenArrives TeardownCompletes
CHECK_DEADLOCK FALSE
