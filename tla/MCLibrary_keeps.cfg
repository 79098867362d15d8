SPECIFICATION Spec
CONSTANTS
  lo = lo
  hi = hi
  cut = cut
  loFile = loFile
  hiFile = hiFile
  cutFile = cutFile
  trailer = trailer
  Releases = {lo, hi, cut}
  Names = {loFile, hiFile, cutFile, trailer}
  Files <- MCFiles
  Primary <- MCPrimary
  Edition <- MCEdition
  Extras = {trailer}
  TitleRank <- MCTitleRank
  FileRank <- MCFileRank
  Lockable = {loFile}
  MaxVideos = 3
  DeleteLower = TRUE
  RemoveDone = TRUE
  Faults = TRUE
INVARIANTS
  TypeOK
  KeepsMovie
  HalfHasSource
PROPERTY CompletedIsWhole
