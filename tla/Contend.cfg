SPECIFICATION Spec
CONSTANTS
  Issues = {1, 2}
  PRs = {11}
  Orchs = {o1, o2}
  PrIssue <- LinkByNumber
  Deps <- Chain
  HumanIssues = {}
  TmuxIssues = {1}
  SafetyLabel <- Unlabelled
  CfgPreset = "NoPreset"
  ForkPRs = {}
  ClosingPRs = {11}
  MaxBeats = 1
  MaxQa = 1
  CiMode = "PreferLocal"
  HasLocalCi = FALSE
  HasTmux = TRUE
  HasMailbox = FALSE
  AllowFork = FALSE
  AssignHumans = FALSE
  DryRun = FALSE
  Once = TRUE
  Hazards = {"tmuxError"}
  NoIssue = NoIssue
  NoSession = NoSession
  Fresh = Fresh
  Parked = Parked
INVARIANTS TypeOK DependenciesDone OwnSession LabelMeansWork
SYMMETRY OrchSymmetry
