SPECIFICATION FairSpec
CONSTANTS
  Manager = {m1, m2}
  NoOwner = NoOwner
  NoOutcome = NoOutcome
  MaxTasks = 3
  Dags <- MCDags
  Budgeted = {m1}
  Concurrency = 2
  Ttl = 1
  MaxCrashes = 1
INVARIANTS OneCurrentRunner BarrierHolds
PROPERTY Termination
CHECK_DEADLOCK FALSE
