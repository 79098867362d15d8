SPECIFICATION FairSpec
CONSTANTS
  search = search
  qm = qm
  pp = pp
  Callers = {search, qm}
  Threshold = 2
  Window = 0
  Faults = TRUE
PROPERTY TableHeals
