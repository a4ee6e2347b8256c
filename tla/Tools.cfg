SPECIFICATION ToolSpec
CONSTANTS
  Issues = {1, 2}
  PRs = {11, 13}
  Orchs = {o1}
  PrIssue <- LinkByNumber
  Deps <- Chain
  HumanIssues = {}
  TmuxIssues = {1}
  SafetyLabel <- Unlabelled
  CfgPreset = "NoPreset"
  ForkPRs = {}
  ClosingPRs = {11, 13}
  MaxBeats = 2
  MaxQa = 0
  CiMode = "PreferLocal"
  HasLocalCi = FALSE
  HasTmux = TRUE
  HasMailbox = FALSE
  AllowFork = FALSE
  AssignHumans = FALSE
  DryRun = FALSE
  Once = TRUE
  Hazards = {"apiError", "tmuxError", "crash", "giveUp"}
  NoIssue = NoIssue
  NoSession = NoSession
  Fresh = Fresh
  Parked = Parked
  Numbers = {1, 2, 3}
  Tickets = {1, 2, 3}
  PlanNotes = {64, 8}
  HandBars <- HandTyped
  MaxLines = 5
  MaxNesting = 2
  Seconds = {14400}
  TempoPrs <- ShortHistory
  MaxRows = 3
  Digits = {0, 1, 2, 9}
  MaxDigits = 2
  MaxPanes = 3
  MaxLine = 4
  MaxSegments = 5
  TopRanges = 2
  Parts = {"a", "b"}
  MaxParts = 3
  MaxChecks = 3
  Conclusions = {"SUCCESS", "NEUTRAL", "FAILURE", "TIMED_OUT", "STALE"}
  SkillFiles = {"s"}
  Flags = {"f", "g"}
  MaxSkillLines = 2
  CiRunners = {"p1", "p2"}
  Branches = {"a/b", "a-b"}
  SafeRef <- OneName
  CommandMax = 1
  MaxPushes = 1
  MaxCiRuns = 2
  MaxClock = 1
  Agents = {"p1", "p2"}
  MailIssues = {1}
  ClaimedFiles = {"f"}
  MaxSends = 3
  FirstProjects <- ThreeProjects
  PeopleWrite = {"CODEOWNERS"}
  SkillDirs = {"s"}
  UseCaseCrates <- ThreeCrates
  HasLlvmCov = TRUE
  CorrectDeps = {}
  Defects <- OneOfEachKind
CHECK_DEADLOCK FALSE
INVARIANTS SortSound PlanIsOrdered RoundTrip MaturityIsMedian HighestFreedShort CoverageExact StricterAllowsLess RollupTells CleanIsParity LoneVerdict TreeIsOwn ClaimIsSeen FullRunFixes EveryDefectFiled
PROPERTIES ImplementsLedger LoneWizardKeepsOwn
