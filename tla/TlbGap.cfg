SPECIFICATION FairSpec
CONSTANTS
    LogCpus = 3
    Slots = 1
    FullFlushPages = 1
    PageCount = 1
    Up <- Gap
    Early <- Gap
    Editors <- Gap
    Users <- Gap
    MaxEdits = 2
PROPERTIES
    EditReachesEveryCpu
