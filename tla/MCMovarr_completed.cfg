SPECIFICATION Spec
CONSTANTS
  lo = lo
  hi = hi
  Titles = {lo, hi}
  MaxTag = 3
  Expiring = {"Stalled", "Failed"}
  MovieOf <- MCMovieOf
  Score <- MCScore
  NameScore <- MCScore
  SupersedeEnabled = TRUE
  Monitors = {}
  CopyCompleted = TRUE
  RemoveCompleted = FALSE
  Manual = {lo}
  Faults = FALSE
PROPERTIES
  CompletedIsPermanent
