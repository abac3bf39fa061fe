SPECIFICATION MCSpec
CONSTANTS
  s1 = s1
  s2 = s2
  PRECISE_GRADERS = {"media", "prov"}
  ADVISORY_GRADERS = {}
  MinSamples = 2
  MinPrecision <- Third
  MinRecall <- Half
  MaxErrored <- Third
  Window = 2
  MinFlagged = 2
  PrecisionFloor <- Third
  HealthErrored <- Half
  People = {"ada", "rita", "rob"}
  Admins = {"ada"}
  Graders = {"media"}
  MinReviewerLabels = 1
  MinLabelAuthors = 2
  Scenarios <- ForgetSet
  Names = {1, 2}
  Contents = {"good", "bad"}
  Good = {"good"}
  RequireBinding = TRUE
  MaxPerScan = 1
  FolderScenarios <- FolderScenarioSet
INVARIANT ScoredByOthers
CHECK_DEADLOCK FALSE
