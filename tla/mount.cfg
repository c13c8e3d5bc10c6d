SPECIFICATION MountSpec
CONSTANTS
  a = a
  b = b
  f = f
  g = g
  Nobody = Nobody
  Torn = Torn
  NoFile = NoFile
  Items <- MCItems
  Files <- MCFiles
  FilesOf <- MCFilesOf
  SubDirs = {b}
  LocalItems = {a}
  ListShips = TRUE
  Impatient = TRUE
  ContentLost = TRUE
  MaxThreads = 2
  MaxStarts = 3
INVARIANTS
  AddonListAgrees
  MountedIsRecorded
  FilesFollowBox
