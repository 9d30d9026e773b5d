CONSTANTS
    Reader = Reader
    Maker = Maker
    Main = Main
    NoThread = NoThread
    Octet = Octet
    Size = 3
    FrameReads <- ShortFrame
    MaxSizes = {2, 4}
    InputBytes = 5
    Sources = {"file", "multicast"}
    Sigusr1 = TRUE
SPECIFICATION FairSpec
INVARIANTS TypeOK AllHandedOn
PROPERTIES NoInputAfterClose EndsOrStarves ReaderIsServed EndReachesMaker
CHECK_DEADLOCK FALSE
