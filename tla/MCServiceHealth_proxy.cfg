SPECIFICATION FairSpec
CONSTANTS
  search = search
  qm = qm
  pp = pp
  Callers = {search}
  Threshold = 3
  Window = 2
  Faults = FALSE
INVARIANTS
  SingleAlert
  FlagFollowsStreak
PROPERTIES
  OutageAlerted
  CircuitCloses
  FollowsOutage
  BreakerRunsDown
