SPECIFICATION FairSpec
CONSTANTS
  lo = lo
  hi = hi
  Titles = {lo, hi}
  MaxTag = 2
  Expiring = {"Stalled", "Failed", "Passed"}
  MovieOf <- MCMovieOf
  Score <- MCScore
  NameScore <- MCScore
  SupersedeEnabled = TRUE
  Monitors = {"stalledDL"}
  CopyCompleted = TRUE
  RemoveCompleted = TRUE
  Manual = {lo}
  Faults = TRUE
INVARIANTS
  TypeOK
  OneRowPerTitle
  TagMeansTitle
  SupersedeJustified
  CompletedWasCopied
  StalledIsGone
PROPERTIES
  NothingBlockedForever
