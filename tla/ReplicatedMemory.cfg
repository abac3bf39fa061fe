SPECIFICATION FairSpec
CONSTANTS
  Node = {n1, n2, n3}
  Text = {x, y}
  NoRec = NoRec
  None = None
  NoOwner = NoOwner
  NoOutcome = NoOutcome
  Ttl = 1
  MaxOps = 2
  Stride = 10
  Configs <- AllConfigs
INVARIANT AckedSurvives
PROPERTY Converges
CHECK_DEADLOCK FALSE
