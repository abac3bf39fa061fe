SPECIFICATION Spec
CONSTANTS
  x1 = x1
  x2 = x2
  y = y
  vx = vx
  vy = vy
  alice = alice
  bob = bob
  mallory = mallory
  a = a
  b = b
  c1 = c1
  c2 = c2
  Text = {x1, x2, y}
  Value = {vx, vy}
  Source = {alice, bob, mallory}
  Principal = {a, b}
  Client = {c1, c2}
  NoClient = NoClient
  NoPrincipal = NoPrincipal
  NoRec = NoRec
  NoHold = NoHold
  Canon <- MCCanon
  Fold <- MCFold
  AuthOf <- MCAuthOf
  Configs <- MCConfigs
  MaxLedger = 1
  MaxSupport = 2
INVARIANT VerifiedIsEarned
PROPERTY LedgerKept
CHECK_DEADLOCK FALSE
