SPECIFICATION Spec
CONSTANTS
  a = a
  b = b
  f = f
  Nobody = Nobody
  Torn = Torn
  NoFile = NoFile
  NoItem = NoItem
  Items <- One
  Files = {f}
  FilesOf <- OneFileEach
  SubDirs = {}
  LocalItems = {}
  ListShips = TRUE
  Impatient = FALSE
  ContentLost = TRUE
  MaxThreads = 1
  MaxStarts = 2
  DoneWait = 1
  ResultWait = 2
  RequestWait = 2
  PollWait = 2
  MAX_WORKSHOP_ITEMS = 1
  IdleStep = 2
  MayRefuse = TRUE
  MayFail = TRUE
  AutoDownload = TRUE
  Updates = TRUE
INVARIANTS
  CurrentIsStarted
  PollingMeansDone
  UnansweredIsAwaited
PROPERTIES
  NoScanDuringDownload
  MountSpec
