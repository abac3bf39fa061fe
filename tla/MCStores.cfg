SPECIFICATION MCSpec
CONSTANTS
  Tenant = {t1}
  Owner = {w1, w2}
  Body = {b}
  Key = {k1}
  None = None
  MaxJobs = 2
  MAX_ATTEMPTS_CAP = 2
  Limit = 1
  RowCap = 1
  LeaseS = 1
  KeepS = 1
  YoungS = 0
  BACKOFF_BASE_S = 1
  BACKOFF_CAP_S = 1
  Past = 0
  Tries = {1, 5}
  Delay = {0}
  RecordId = {a, b, c}
  Name = {s1, s2, s3}
  MAX_RECORDS = 3
  MAX_SEGMENT_ENTRIES = 2
  MaxBatch = 2
  MaxMade = 4
  MaxFaults = 2
SYMMETRY Symmetry
INVARIANTS
  QueuedHasAttempts
  OneFenced
  AnswersHold
  Recoverable
PROPERTIES
  Delivers
  Atomic
