SPECIFICATION FairSpec
CONSTANTS
  a = a
  b = b
  f = f
  Nobody = Nobody
  Torn = Torn
  NoFile = NoFile
  NoItem = NoItem
  Items <- One
  Files = {}
  FilesOf <- FilesOfOne
  SubDirs = {}
  LocalItems = {}
  ListShips = FALSE
  Impatient = FALSE
  ContentLost = FALSE
  MaxThreads = 1
  MaxStarts = 1
  DoneWait = 1
  ResultWait = 2
  RequestWait = 2
  PollWait = 2
  MAX_WORKSHOP_ITEMS = 1
  IdleStep = 2
  MayRefuse = FALSE
  MayFail = TRUE
  AutoDownload = FALSE
  Updates = FALSE
PROPERTIES
  QueueDrains
