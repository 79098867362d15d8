SPECIFICATION FairSpec
CONSTANTS
  lo = lo
  hi = hi
  cut = cut
  loFile = loFile
  hiFile = hiFile
  cutFile = cutFile
  trailer = trailer
  Releases = {lo, hi}
  Names = {loFile, hiFile, cutFile, trailer}
  Files <- MCFiles
  Primary <- MCPrimary
  Edition <- MCEdition
  Extras = {trailer}
  TitleRank <- MCTitleRank
  FileRank <- MCFileRank
  Lockable = {loFile}
  MaxVideos = 3
  DeleteLower = TRUE
  RemoveDone = FALSE
  Faults = FALSE
PROPERTY LibrarySettles
