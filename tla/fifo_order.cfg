CONSTANTS
    w1 = w1
    w2 = w2
    r1 = r1
    c1 = c1
    NoThread = NoThread
    Writers <- TwoWriters
    Readers <- OneReader
    Closers <- OneCloser
    Byte <- TwoBytes
    Size = 2
    MaxWrite = 2
    MaxRead = 3
SPECIFICATION Spec
INVARIANTS TypeOK RegionsDisjoint ReservationIsCurrent WaitersHaveReason NoMutualWait
PROPERTY QueueSpec
SYMMETRY Symmetry
