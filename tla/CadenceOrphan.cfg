SPECIFICATION MCCadOrphanSpec
CONSTANTS
  Repos = {"foo"}
  TagOf <- OneWordTags
  Tasks = {"idle", "orchestrate"}
  Times = {"hourly"}
  UserLines = {"backup"}
  Writers = {"w1"}
  Given <- OneTaskEach
  JobsOf <- OneWriter
  MaxEdits = 0
  CronHazards = {}
  DefaultTime = "hourly"
  NoTime = NoTime
  NoFile = NoFile
  Nothing = Nothing
INVARIANT RemoveUninstalls
