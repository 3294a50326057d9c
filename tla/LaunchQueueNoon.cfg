SPECIFICATION Spec
CONSTANTS
  Jobs <- NightJobs
  At <- NightAt
  Minutes <- NightMinutes
  FinishBy <- NightFinishBy
  Deadline <- NightDeadline
  Deferred = {}
  FastStart = {}
  Flow = {}
  Codex = {2}
  After <- NightAfter
  Quorum <- NightQuorum
  CapGroup <- NightCapGroup
  Cap <- NightCap
  BoxCap = 1
  LaunchGap = 1
  Floor = 1
  Slack = 1
  WatchdogMinAge = 1
  WatchdogInterval = 1
  HoldMaxAge = 2
  LimitWindow = 2
  MaxWait = 4
  Grace = 2
  KeepFor = 50
  DayLen = 24
  Noon = 12
  Start = 22
  MaxTime = 40
  MaxErrors = 0
  MaxCrashes = 0
  MaxAlarms = 0
  MaxMissed = 12
  BlankAnswers = FALSE
INVARIANTS LateLaunchEndsOnSchedule
CHECK_DEADLOCK FALSE
