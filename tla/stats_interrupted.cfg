CONSTANTS
    Reader = Reader
    Maker = Maker
    Stat = Stat
    Main = Main
    NoThread = NoThread
    SignalThreads = {Reader}
    MaxSignals = 2
    MaxCount = 1
SPECIFICATION FairSpec
PROPERTY Sigusr1Reported
CHECK_DEADLOCK FALSE
