CONSTANTS
    t1 = t1
    t2 = t2
    Task = {t1, t2}
    Cancellable = {t1}
    MaxConn = 2
    MaxConcurrent = 1
    Limit = 2
    Slack = 1
    Chunk = {2}
SPECIFICATION Spec
INVARIANT SlotsExact
INVARIANT CancelNotLost
PROPERTY TaskAnswered
PROPERTY NoOrphan
CHECK_DEADLOCK FALSE
