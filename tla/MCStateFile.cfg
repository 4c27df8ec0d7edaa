CONSTANTS
    None = None
    Instance = {a, b}
    Mutation = {m1, m2}
    Overlap = FALSE
    MaxFault = 1
    MaxCrash = 2
SYMMETRY Symmetry
SPECIFICATION Spec
INVARIANT AlwaysLoadable
INVARIANT AckedIsDurable
INVARIANT NotRefusedAfterOneAccident
CHECK_DEADLOCK FALSE
