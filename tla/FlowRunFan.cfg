SPECIFICATION Spec
CONSTANTS
  Roles <- FanRoles
  Path <- Fan
  Edges <- NoRoles
  Emitters <- FanEmitters
  AppendRoles <- AppendOne
  Answers <- FanAnswers
  Cap = 2
  NodeMax = 8
  HasDeadline = TRUE
  MaxJobs = 8
  Bound <- FanBound
  AllEvents = 1
INVARIANTS
  ActedOnce
  SessionsOwned
  AcceptanceDecides
  BlockedForCause
  TerminalReaped
CHECK_DEADLOCK FALSE
