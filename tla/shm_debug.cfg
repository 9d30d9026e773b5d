CONSTANTS
    Writer = Writer
    Reader = Reader
    Nobody = Nobody
    Tag = {a, b}
    Cap = 5
    H = 2
    Sizes = {2}
    BufSize = 2
    Debug = TRUE
    MayDie = FALSE
SPECIFICATION RestartSpec
INVARIANT EinvalReadsNothing
