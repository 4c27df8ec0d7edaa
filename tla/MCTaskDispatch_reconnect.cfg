CONSTANTS
    None = None
    h1 = h1
    Task = {t1}
    Host = {h1}
    Conn = {c1, c2}
    TaskHost <- OneHost
    ConnHost <- OneHostConn
    MaxPerAgent = 1
    MaxInflight = 1
    StdoutMax = 1
    Budget = 1
    MaxChunk = 2
    MaxClose = 1
SYMMETRY Symmetry
SPECIFICATION Spec
INVARIANT SlotFreedBeforeAnswer
INVARIANT NoTaskForgotten
CHECK_DEADLOCK FALSE
