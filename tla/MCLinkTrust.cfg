CONSTANTS
    a = a
    b = b
    top = top
    q1 = q1
    Relay = {a, b}
    Root = top
    Parent <- Chain
    Req = {q1}
    MaxKey = 2
    MaxEvent = 1
    MaxReplay = 1
SPECIFICATION FairSpec
INVARIANT ConfirmedIsTrue
PROPERTY ChainFollowed
 
 
CHECK_DEADLOCK FALSE
