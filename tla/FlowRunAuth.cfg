SPECIFICATION Spec
CONSTANTS
  Roles <- ChainRoles
  Path <- Chain
  Edges <- ChainEdges
  Emitters <- NoRoles
  AppendRoles <- AppendOne
  Answers <- ChainAnswers
  Cap = 1
  NodeMax = 5
  HasDeadline = FALSE
  MaxJobs = 12
  Bound <- AuthOnly
  AllEvents = 1
INVARIANTS
  AuthSkipBlocks
CHECK_DEADLOCK FALSE
