SPECIFICATION WorkerFairSpec
CONSTANTS
  Tenant = {t1}
  Owner = {w1, w2}
  Artifact = {a1}
  Http = Http
  Body <- Bodies
  Key <- Keys
  None = None
  MaxJobs = 3
  MAX_ATTEMPTS_CAP = 2
  GradeTries = 2
  WebhookTries = 1
  MaxRequests = 1
  MaxCrashes = 1
  Limit = 1
  RowCap = 3
  LeaseS = 0
  KeepS = 0
  YoungS = 0
  BACKOFF_BASE_S = 0
  BACKOFF_CAP_S = 0
  Past = 0
INVARIANT ToldIsDecided
PROPERTIES EveryJobEnds
