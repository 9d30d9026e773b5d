CONSTANTS
    Reader = Reader
    Stat = Stat
    Main = Main
    NoThread = NoThread
    Programs <- TwoPrograms
    AnyInstant = {Stat}
    InUlog = {Reader}
    Exiting = {Main}
    Short = {a, b}
    Long = {l}
    Junk = Junk
    MaxSaid = 3
    MaxCalls <- FewCalls
    Vocabulary <- Says
    a = a
    b = b
    l = l
SPECIFICATION FairSpec
INVARIANTS TypeOK ListsAreKept LogIsOrderly
PROPERTY CallsReturn
CHECK_DEADLOCK FALSE
