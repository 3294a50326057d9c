SPECIFICATION Spec
CONSTANTS
  Roles <- ChainRoles
  Path <- Chain
  Edges <- ChainEdges
  Emitters <- NoRoles
  AppendRoles <- AppendOne
  Answers <- ChainAnswers
  Cap = 1
  NodeMax = 5
  HasDeadline = FALSE
  MaxJobs = 12
  Bound <- NoEvents
  AllEvents = 1
INVARIANTS
  CompleteIsAddressed
CHECK_DEADLOCK FALSE
