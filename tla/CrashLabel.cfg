SPECIFICATION FairSpec
CONSTANTS
  Issues = {1}
  PRs = {11}
  Orchs = {o1}
  PrIssue <- LinkByNumber
  Deps <- Independent
  HumanIssues = {}
  TmuxIssues = {1}
  SafetyLabel <- Unlabelled
  CfgPreset = "NoPreset"
  ForkPRs = {}
  ClosingPRs = {11}
  MaxBeats = 1
  MaxQa = 0
  CiMode = "PreferLocal"
  HasLocalCi = FALSE
  HasTmux = TRUE
  HasMailbox = FALSE
  AllowFork = FALSE
  AssignHumans = FALSE
  DryRun = FALSE
  Once = TRUE
  Hazards = {"crash"}
  NoIssue = NoIssue
  NoSession = NoSession
  Fresh = Fresh
  Parked = Parked
PROPERTIES CrashReconciled
