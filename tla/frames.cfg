CONSTANTS
    Sources = {"fifo", "shm", "file"}
    Inputs <- SomeInputs
    Start = 7
    Checksum <- Sum
    DataCommand = 3
    TimingCommand = 5
    PuntCommands = {2}
    BadVersion = 6
    FifoSize = 5
    BufSize = 20
    MaxFaults = 1
SPECIFICATION FairSpec
INVARIANTS TypeOK HeadersAreFound InStep
PROPERTY ReaderEnds
CHECK_DEADLOCK FALSE
