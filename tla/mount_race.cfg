SPECIFICATION MountSpec
CONSTANTS
  a = a
  b = b
  f = f
  g = g
  Nobody = Nobody
  Torn = Torn
  NoFile = NoFile
  Items <- MCItems
  Files <- MCFiles
  FilesOf <- Disjoint
  SubDirs = {}
  LocalItems = {a, b}
  ListShips = FALSE
  Impatient = TRUE
  ContentLost = FALSE
  MaxThreads = 2
  MaxStarts = 1
INVARIANTS
  UnmountedLeavesNothing
