SPECIFICATION Spec
CONSTANTS
  Jobs <- FlowJobs
  At <- FlowAt
  Minutes <- FlowMinutes
  FinishBy <- FlowFinishBy
  Deadline <- FlowDeadline
  Deferred = {}
  FastStart = {3}
  Flow = {1, 2, 3}
  Codex = {}
  After <- FlowAfter
  Quorum <- FlowQuorum
  CapGroup <- FlowCapGroup
  Cap <- FlowCap
  BoxCap = 0
  LaunchGap = 2
  Floor = 1
  Slack = 1
  WatchdogMinAge = 1
  WatchdogInterval = 1
  HoldMaxAge = 2
  LimitWindow = 2
  MaxWait = 3
  Grace = 2
  KeepFor = 20
  DayLen = 24
  Noon = 12
  Start = 0
  MaxTime = 6
  MaxErrors = 1
  MaxCrashes = 0
  MaxAlarms = 0
  MaxMissed = 1
  BlankAnswers = FALSE
INVARIANTS TypeOK GatedAfterDelivery LateLaunchEndsOnSchedule SkippedNeverRan LaunchesAreSpaced LiveSessionsWithinCap WatchdogReleasesOnlyDead
PROPERTIES NoOvertaking RunsAtMostOnce
CHECK_DEADLOCK FALSE
