SPECIFICATION MCSpec
CONSTANTS
  x1 = x1  x2 = x2  x3 = x3  y = y  z = z  vx = vx  vy = vy  vz = vz  ann = ann  bob = bob
  Text = {x1, x2, x3, y, z}
  Value = {vx, vy, vz}
  Canon <- CanonOf
  Fold <- FoldOf
  Cut <- CutOf
  Source = {}
  NoRec = NoRec
  MaxLedger = 1
  MaxSupport = 2
  MaxCorrections = 2
  Horizon = 3
  Batches <- BatchSet
  Writes = 3
  Rejections = 2
  Peers <- PeerSet
  Replicas = 1
  Hits <- HitSet
  Limits <- LimitSet
  Budgets = {1, 3}
  Chats <- ChatSet
  Auditor = {p1, p2}
  MaxEntries = 3
  MaxMishaps = 2
  Key = {"team", "one", "two", "tool"}
  Parent = "team"
  Children = {"one", "two"}
  ToolKey = "tool"
  Signer = {ann, bob}
  Nobody = Nobody
  Requests <- RequestSet
  Servers <- ServerSet
  MaxRequests = 3
  MaxInbox = 2
  Rules = {"r1", "r2"}
  Schemas = {"s1", "s2", "s3"}
  Kinds = {"ui"}
  MinCluster = 2
  MinSize = 2
  MaxOrder = 3
  SplitAfter = 2
  MaxDepth = 8
  Shown = 1
  Starts <- StartSet
  MaxCalls = 2
INVARIANTS AnswersAreHonest VerifiedMeansComplete NothingForged SchemasFollow
CHECK_DEADLOCK FALSE
