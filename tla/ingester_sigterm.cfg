CONSTANTS
    Reader = Reader
    Maker = Maker
    Main = Main
    NoThread = NoThread
    Octet = Octet
    Size = 3
    FrameReads <- ShortFrame
    MaxSizes = {2}
    InputBytes = 4
    Sources = {"multicast"}
    Sigusr1 = FALSE
SPECIFICATION FairSpec
PROPERTY CloseEndsMaker
CHECK_DEADLOCK FALSE
