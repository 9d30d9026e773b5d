CONSTANTS
    Reader = Reader
    Stat = Stat
    Main = Main
    NoThread = NoThread
    Programs <- TwoPrograms
    AnyInstant = {Stat}
    InUlog = {Reader}
    Exiting = {Main}
    Short = {a, b}
    Long = {l}
    Junk = Junk
    MaxSaid = 3
    MaxCalls <- FewCalls
    Vocabulary <- Says
    a = a
    b = b
    l = l
SPECIFICATION Spec
INVARIANT NothingDropped
CHECK_DEADLOCK FALSE
