SPECIFICATION MCSpec
CONSTANTS
  a1 = a1
  a2 = a2
  j1 = j1
  j2 = j2
  PRECISE_GRADERS = {"test", "dom"}
  ADVISORY_GRADERS = {"vision", "acoustic"}
  Fps <- AllFps
  Loops = {a1, a2}
  Real = {"bug"}
  Opinions = {"vibe"}
  Synthetic = {}
  SevOf <- Sev
  GraderOf <- KindOf
  W = 3
  MaxIter = 3
  MaxSessions = 3
  Jobs = {j1}
  Stage <- StageSeq
  Required = {"test"}
  Bound = {"test"}
  Finds <- GradersOf
  Weather = {"net", "vibe"}
  Confidence <- Conf
  FlakySignatures = {}
  Wording <- Text
  MaxRounds = 2
  MaxCommits = 3
  Procs = {"p1", "p2"}
  MaxReceipts = 4
  Targets <- Sources
  Cap = 2
  SuiteMax = 2
  Budget = 4
  Outer = 5
  Criteria = {"c1", "c2"}
  ChecksEach = 2
  m1 = m1
  m2 = m2
  t1 = t1
  t2 = t2
  t3 = t3
  NoOwner = "nobody"
  NoOutcome = "none"
  Managers = {m1, m2}
  TopToken = 4
  MaxPushes = 3
  Steps <- StepSeq
  RepoOf <- OwnRepo
  Strangers = 1
  Attempts = {t1, t2, t3}
  MaxPlans = 3
  Configs = {"old", "new", "bad"}
  Fails = {"bad"}
  Critical <- NotAdded
  Edits <- Payloads
  ChangeActions <- AllActions
  Afters <- StatesOf
  RbacRules <- SomeRules
  RbacSubjects <- SomeSubjects
  ListDepths = {0, 2, 20, 21}
  Key = {k1}
  Owner = {o1, o2, o3}
  State = {passed, failed}
  Ttl = 2
  Lag = 1
  MaxTime = 5
  MaxToken = 4
  Files <- KpiFiles
  Baselines <- KpiBases
  Thresholds <- KpiThresholds
  NoFile = NoFile
  None = None
  Unset = Unset
  Graded <- ConfigCases
  Params <- RuleParams
  Today = 10
  Nrb <- Blocks20
  MaxCosite = 256
  Signers = {"own", "old", "partner", "other"}
  Own = "own"
  Domain = {"own", "old"}
  HasNacl = {"own", "partner", "other"}
  Trusted <- Dirs
  Staged <- AttestReports
  Claims = {"a", "b"}
  MaxMinted = 2
  MaxChanges = 2
  MaxRuns = 2
  MaxJobs = 2
  MaxDeaths = 1
  Scenarios = {"loops", "ci", "store", "stage", "mutation", "spec", "lease", "fence", "saga", "worktree", "plan", "telecom", "iac", "rbac", "kpi", "config", "attest", "operator"}
INVARIANTS
  RegressionIsReal
  RevertIsEarned
  ChainIsRooted
  GreenStageRan
  NeverLeftMutated
  PassIsGrounded
  UniqueTokens
  OneWriter
  AllOrNothing
  AppliedAsDecided
  KeptIsVerified
  UnattendedIsTame
  SensorsAgree
  TelecomPassIsEarned
  VerifiedIsSigned
  VerdictWasRun
PROPERTY Fenced
CHECK_DEADLOCK FALSE
