SPECIFICATION Spec
CONSTANTS
  Jobs <- CrashJobs
  At <- CrashAt
  Minutes <- CrashMinutes
  FinishBy <- CrashFinishBy
  Deadline <- CrashDeadline
  Deferred = {}
  FastStart = {}
  Flow = {}
  Codex = {}
  After <- CrashAfter
  Quorum <- CrashQuorum
  CapGroup <- CrashCapGroup
  Cap <- CrashCap
  BoxCap = 2
  LaunchGap = 1
  Floor = 1
  Slack = 1
  WatchdogMinAge = 1
  WatchdogInterval = 1
  HoldMaxAge = 2
  LimitWindow = 2
  MaxWait = 3
  Grace = 2
  KeepFor = 20
  DayLen = 24
  Noon = 12
  Start = 0
  MaxTime = 3
  MaxErrors = 0
  MaxCrashes = 1
  MaxAlarms = 0
  MaxMissed = 0
  BlankAnswers = FALSE
INVARIANTS AutoStopArmed
CHECK_DEADLOCK FALSE
