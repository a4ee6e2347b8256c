SPECIFICATION FairSpec
CONSTANTS
  Issues = {1, 2, 3}
  PRs = {11, 13}
  Orchs = {o1}
  PrIssue <- LinkByNumber
  Deps <- HumanFirst
  HumanIssues = {3}
  TmuxIssues = {1, 2}
  SafetyLabel <- OneStrict
  CfgPreset = "NoPreset"
  ForkPRs = {}
  ClosingPRs = {11, 13}
  MaxBeats = 1
  MaxQa = 1
  CiMode = "PreferLocal"
  HasLocalCi = FALSE
  HasTmux = TRUE
  HasMailbox = FALSE
  AllowFork = FALSE
  AssignHumans = FALSE
  DryRun = FALSE
  Once = FALSE
  Hazards = {}
  NoIssue = NoIssue
  NoSession = NoSession
  Fresh = Fresh
  Parked = Parked
PROPERTIES EveryIssueCloses
