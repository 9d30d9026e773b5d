CONSTANTS
    Product <- Products
    Transmissions <- ThreeProducts
    Stream = 4
    FirstSeqno = 29
    SeqSize = 32
    LongSize = 1024
    FirstMaxFrags = 1
    MoreFrags = 1
    FragRoom = 2
    ExtraRoom = 2
    MaxLate = 1
SPECIFICATION Spec
INVARIANTS TypeOK ProductsAreWhole HeaderIsOwn NothingLost CountsAddUp
PROPERTY FragmentsStayPut
CHECK_DEADLOCK FALSE
