SPECIFICATION FairSpec
CONSTANTS
  Jobs <- NightJobs
  At <- NightAt
  Minutes <- NightMinutes
  FinishBy <- NightFinishBy
  Deadline <- NightDeadline
  Deferred = {}
  FastStart = {}
  Flow = {}
  Codex = {2}
  After <- NightAfter
  Quorum <- NightQuorum
  CapGroup <- NightCapGroup
  Cap <- NightCap
  BoxCap = 1
  LaunchGap = 1
  Floor = 1
  Slack = 1
  WatchdogMinAge = 1
  WatchdogInterval = 1
  HoldMaxAge = 2
  LimitWindow = 2
  MaxWait = 3
  Grace = 0
  KeepFor = 6
  DayLen = 24
  Noon = 12
  Start = 22
  MaxTime = 29
  MaxErrors = 1
  MaxCrashes = 0
  MaxAlarms = 1
  MaxMissed = 0
  BlankAnswers = TRUE
PROPERTIES EveryJobSettles DeadRunsReleased
CHECK_DEADLOCK FALSE
