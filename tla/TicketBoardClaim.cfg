SPECIFICATION Spec
CONSTANTS
  w1 = w1  w2 = w2
  hunt1 = hunt1  hunt2 = hunt2  ops1 = ops1
  ref1 = ref1
  j1 = j1  j2 = j2  j3 = j3  j4 = j4
  Tickets = {hunt1, hunt2, ops1}
  Workers = {w1, w2}
  Jobs = {j1, j2, j3, j4}
  Refs = {ref1}
  Nobody = Nobody
  NoRef = NoRef
  Lane <- MCLane
  Backlog <- MCBacklog
  HuntWorkers = 1
  ImproveWorkers = 1
  Bound <- ClaimBound
  AllEvents = 4
PROPERTY StealTakesStale
CHECK_DEADLOCK FALSE
