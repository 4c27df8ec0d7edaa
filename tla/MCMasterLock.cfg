CONSTANTS
    None = None
    Instance = {a, b}
    Caller = {write}
    MaxBeat = 2
    MaxSeq = 1
    MaxFault = 1
    Timely = TRUE
SPECIFICATION FairSpec
INVARIANT PublishedAboveFloor
PROPERTY SeqNeverLowered
PROPERTY MasterElected
PROPERTY EvictionNoticed
PROPERTY ImplementsLease
CHECK_DEADLOCK FALSE
