SPECIFICATION FairSpec
CONSTANTS
  a = a
  b = b
  f = f
  Nobody = Nobody
  Torn = Torn
  NoFile = NoFile
  NoItem = NoItem
  Items <- Two
  Files = {}
  FilesOf <- FilesOfTwo
  SubDirs = {}
  LocalItems = {}
  ListShips = FALSE
  Impatient = FALSE
  ContentLost = FALSE
  MaxThreads = 1
  MaxStarts = 1
  DoneWait = 1
  ResultWait = 1
  RequestWait = 1
  PollWait = 1
  MAX_WORKSHOP_ITEMS = 1
  IdleStep = 1
  MayRefuse = FALSE
  MayFail = FALSE
  AutoDownload = TRUE
  Updates = FALSE
PROPERTIES
  UntriedRequestsStay
  QueueDrains
  RequestBecomesVisible
