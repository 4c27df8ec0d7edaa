CONSTANTS
    r1 = r1
    c1 = c1
    c2 = c2
    r2 = r2
    Req = {r1, r2}
    Conn = {c1, c2}
    None = None
    Reusable = TRUE
    MaxRetry = 1
    MaxRenew = 1
    MaxRotate = 1
    MaxAdmin = 2
    MaxFault = 1
    MaxEvents = 2
SPECIFICATION FairSpec
INVARIANT RevokedHasNoLink
INVARIANT LostRekeyTolerated
PROPERTY AdminDecisionsKept
PROPERTY Settles
PROPERTY OldKeyReplaced
CHECK_DEADLOCK FALSE
