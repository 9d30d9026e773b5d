CONSTANTS
    Reader = Reader
    Maker = Maker
    Stat = Stat
    Main = Main
    NoThread = NoThread
    SignalThreads = {Main}
    MaxSignals = 2
    MaxCount = 1
SPECIFICATION FairSpec
INVARIANTS TypeOK EachCountedOnce
PROPERTIES Sigusr1Reported ReaderGoesOn
CHECK_DEADLOCK FALSE
