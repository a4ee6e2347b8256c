SPECIFICATION Spec
CONSTANTS
  Issues = {1}
  PRs = {11}
  Orchs = {o1, o2}
  PrIssue <- LinkByNumber
  Deps <- Independent
  HumanIssues = {}
  TmuxIssues = {}
  SafetyLabel <- Unlabelled
  CfgPreset = "NoPreset"
  ForkPRs = {}
  ClosingPRs = {11}
  MaxBeats = 1
  MaxQa = 0
  CiMode = "PreferLocal"
  HasLocalCi = FALSE
  HasTmux = TRUE
  HasMailbox = FALSE
  AllowFork = FALSE
  AssignHumans = FALSE
  DryRun = FALSE
  Once = TRUE
  Hazards = {}
  NoIssue = NoIssue
  NoSession = NoSession
  Fresh = Fresh
  Parked = Parked
INVARIANTS LabelIsLock
