CONSTANTS
    t1 = t1
    t2 = t2
    k1 = k1
    k2 = k2
    m1 = m1
    None = None
    Tool = {t1, t2}
    Kinds <- AllKinds
    Key = {k1, k2}
    FirstKey = k1
    Mutation = {m1}
    MaxBeat = 2
    MaxFault = 1
SPECIFICATION Spec
INVARIANT AckedKept
INVARIANT OneKeyOpens
 
SYMMETRY Symmetry
CHECK_DEADLOCK FALSE
