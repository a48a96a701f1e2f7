SPECIFICATION FairWindowSpec
CONSTANTS
    LogCpus = 2
    Slots = 1
    FullFlushPages = 1
    PageCount = 2
    Up = {0, 1}
    Early = {0, 1}
    Editors = {0, 1}
    Users = {0, 1}
    MaxEdits = 2
INVARIANTS
    FreshStacks
PROPERTY SlicesComeBack
