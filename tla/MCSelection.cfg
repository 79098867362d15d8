SPECIFICATION FairSpec
CONSTANTS
  Titles <- MCTitles
  Movies <- MCMovies
  Ids <- MCIds
  NoId = NoId
  NoName = NoName
  MovieOf <- MCMovieOf
  Canonical <- MCCanonical
  Release <- MCRelease
  Hits <- MCHits
  Report <- MCReport
  Ratings <- MCRatings
  Settings <- MCSettings
  Feed <- MCFeed
  Pages = 2
  Walk <- MCWalk
  Expiring = {"Failed"}
  Faults = TRUE
INVARIANTS TypeOK SuccessIsComplete RightMovie PassedIsAllowed UpgradesLibrary
PROPERTIES FollowsLifecycle RunAdvances EveryResultDecided Reconsidered
