SPECIFICATION FairSpec
CONSTANTS
  Roles <- ChainRoles
  Path <- Chain
  Edges <- ChainEdges
  Emitters <- NoRoles
  AppendRoles <- AppendOne
  Answers <- ChainAnswers
  Cap = 1
  NodeMax = 5
  HasDeadline = FALSE
  MaxJobs = 9
  Bound <- ChainBound
  AllEvents = 2
INVARIANTS
  TypeOK
  BudgetHolds
  ActedOnce
PROPERTIES
  Decided
CHECK_DEADLOCK FALSE
