SPECIFICATION FairSpec
CONSTANTS
    LogCpus = 2
    Slots = 1
    FullFlushPages = 1
    PageCount = 2
    Up <- Pair
    Early <- Boot
    Editors <- SecondOnly
    Users <- Boot
    MaxEdits = 2
INVARIANTS
    HonouredIsDropped
PROPERTIES
    WalkedEntryIsKept
    EditReachesEveryCpu
