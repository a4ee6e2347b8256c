SPECIFICATION HostSpec
CONSTANTS
  Issues = {1, 2, 3}
  PRs = {11, 14}
  Orchs = {o1}
  PrIssue <- LinkByNumber
  Deps <- Independent
  HumanIssues = {3}
  TmuxIssues = {1}
  SafetyLabel <- MixedLabels
  CfgPreset = "NoPreset"
  ForkPRs = {}
  ClosingPRs = {11, 14}
  MaxBeats = 1
  MaxQa = 1
  CiMode = "PreferLocal"
  HasLocalCi = FALSE
  HasTmux = TRUE
  HasMailbox = TRUE
  AllowFork = FALSE
  AssignHumans = TRUE
  DryRun = TRUE
  Once = TRUE
  Hazards = {"humanPr", "scopeClaim"}
  NoIssue = NoIssue
  NoSession = NoSession
  Fresh = Fresh
  Parked = Parked
  Repos = {"foo", "bar"}
  TagOf <- OneWordTags
  Tasks = {"idle", "orchestrate"}
  Times = {"hourly"}
  UserLines = {"backup"}
  Writers = {"w1", "w2"}
  Given <- OneTaskEach
  JobsOf <- TwoWriters
  MaxEdits = 1
  CronHazards = {"crash", "readError", "writeError", "loadError"}
  DefaultTime = "hourly"
  NoTime = NoTime
  NoFile = NoFile
  Nothing = Nothing
  CalRepos = {"foo"}
  CalTag <- TagIsName
  HumanNumbers = {1, 2}
  Dependents <- SecondWaits
  FirstEvents <- ThreeCalendars
  Horizon = 6
  EventIds = {1, 2, 3, 4, 5, 6, 7}
  MaxMoves = 1
  MoveTimes = {1}
  CalHazards = {"tick", "apiError", "dryRun"}
  Callers = {k1, k2}
  SkillHome <- OneSession
  QaSessions <- ThreeQa
  MaxQaSlots = 2
  SkillHazards = {"dies"}
  FileWriters = {f1, f2}
  FirstFiles <- OneProjectFile
  ClosedPrs = {"21"}
  Modules = {"m1"}
  BegunSkills = {"architect"}
  FileFaults = {"dies", "person", "noCiMinutes"}
  MaxStarts = 3
  Passes = {u1, u2}
  Checkouts = {co1}
  NoCheckout = NoCheckout
  BuiltFrom = NoCheckout
  WorkingDir = NoCheckout
  Registered = co1
  Interval = 2
  LastCommit = 3
  UpdHazards = {"pullFails", "force"}
  PodSessions = {"s1"}
  Outlets = {t1}
  ChannelCap = 2
  DashHazards = {"tmuxError", "reconnect"}
CHECK_DEADLOCK FALSE
INVARIANTS DryRunSilent WellFormed RecordMatches  LoneSkillToIdle DryPlanTells RowsOnce PulledIsInstalled OutletsAreTold
PROPERTIES OthersSurvive CreatedWhereAllowed DragsRespected LoneWriteLands
