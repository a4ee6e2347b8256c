SPECIFICATION Spec
CONSTANTS
  Issues = {1, 2}
  PRs = {11}
  Orchs = {o1}
  PrIssue <- LinkByNumber
  Deps <- Independent
  HumanIssues = {}
  TmuxIssues = {1}
  SafetyLabel <- Unlabelled
  CfgPreset = "Bureaucratic"
  ForkPRs = {}
  ClosingPRs = {11}
  MaxBeats = 2
  MaxQa = 0
  CiMode = "Local"
  HasLocalCi = TRUE
  HasTmux = TRUE
  HasMailbox = TRUE
  AllowFork = FALSE
  AssignHumans = FALSE
  DryRun = FALSE
  Once = TRUE
  Hazards = {"apiError", "tmuxError", "giveUp", "abandon", "crash", "humanPr", "scopeClaim"}
  NoIssue = NoIssue
  NoSession = NoSession
  Fresh = Fresh
  Parked = Parked
INVARIANTS BureaucraticAlone NoDoubleWork
PROPERTIES LocalModeMergesPassing
