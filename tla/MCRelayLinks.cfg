CONSTANTS
    None = None
    p = p
    q = q
    h1 = h1
    Relay = {p, q, d}
    Below = {p, q, d}
    Link = {p, q}
    LinkRelay <- Itself
    Topology = {p, q}
    Host = {h1}
    Roaming = {h1}
    Task = {t1}
    TaskHost <- SameHost
    MaxInflight = 1
    MaxDeclared = 1
SPECIFICATION Spec
 
 
INVARIANT RequestLeavesNothing
SYMMETRY Symmetry
CHECK_DEADLOCK FALSE
