SPECIFICATION Spec
CONSTANTS
  Titles <- TwoTitles
  Movies <- MCMovies
  Ids <- MCIds
  NoId = NoId
  NoName = NoName
  MovieOf <- MCMovieOf
  Canonical <- MCCanonical
  Release <- TwoRelease
  Hits <- TwoHits
  Report <- MCReport
  Ratings <- MCRatings
  Settings <- MCSettings
  Feed <- TwoFeed
  Pages = 2
  Walk <- MCWalk
  Expiring = {}
  Faults = FALSE
INVARIANT NotInLibrary
