SPECIFICATION FairPodSpec
CONSTANTS
  Sessions = {"conductr-foo", "conductr-foo-bar"}
  Projects = {"conductr-foo"}
  Longer <- NamePrefixes
  Procs = {c1, h1}
  Cron = {c1}
  CronLines <- SkillLine
  Commands <- ByHand
  MaxUpsets = 1
  PodHazards = {"tmuxError", "cloneError", "trackerError", "timeout"}
  AllSessions = AllSessions
  Nobody = Nobody
INVARIANTS PodTypeOK EnsureReady
PROPERTY ComesBack
