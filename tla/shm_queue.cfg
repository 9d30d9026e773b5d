CONSTANTS
    Writer = Writer
    Reader = Reader
    Tag = {a, b}
    Cap = 7
    H = 2
    Sizes = {1, 2, 3, 5, 6}
    BufSize = 2
SPECIFICATION FairSpec
INVARIANTS TypeOK AloneUnderLock RecordsAreWhole SleepersHaveReason
PROPERTIES QueueSpec PutsReturn RecordsAreGot
CHECK_DEADLOCK FALSE
