SPECIFICATION PodSpec
CONSTANTS
  Sessions = {"conductr-foo", "conductr-foo-bar"}
  Projects = {"conductr-foo"}
  Longer <- NamePrefixes
  Procs = {h1}
  Cron = {}
  CronLines <- SkillLine
  Commands <- ByHand
  MaxUpsets = 0
  PodHazards = {}
  AllSessions = AllSessions
  Nobody = Nobody
INVARIANT RestartPassScope
