CONSTANTS
    None = None
    h1 = h1
    Task = {t1, t2}
    Host = {h1}
    Conn = {c1}
    TaskHost <- OneHost
    ConnHost <- OneHostConn
    MaxPerAgent = 2
    MaxInflight = 2
    StdoutMax = 1
    Budget = 2
    MaxChunk = 1
    MaxClose = 1
SYMMETRY Symmetry
SPECIFICATION Spec
INVARIANT CountersExact
 
CHECK_DEADLOCK FALSE
