SPECIFICATION FairSpec
CONSTANTS
  N = 2
  Client = {c1, c2}
  First = c1
  Kinds <- AllKinds
  Idents <- TwoIdents
  Target = "r1"
  MaxTries = 1
  MaxChange = 1
  None = None
  c1 = c1
  c2 = c2
INVARIANTS NeverReplayed
PROPERTIES  CancelledEnds
CHECK_DEADLOCK FALSE
