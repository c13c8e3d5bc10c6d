SPECIFICATION FairSpec
CONSTANTS
  e1 = e1
  e2 = e2
  e3 = e3
  a1 = a1
  a2 = a2
  l1 = l1
  Entries <- Three
  AddressOf <- Twice
  Lan <- LanOne
  NameOf <- InOrder
  Columns = {"ping", "map"}
  Pings = {1, 2}
  MAX_QUERIES = 1
  Garbage = {0}
  Resolves = {TRUE, FALSE}
  MaxPresses = 2
INVARIANTS
  ActiveIsCounted
  QueriesWithinLimit
  OnlyThisSearch
  ShownAsListed
  PingOrder
  FastestIsShown
PROPERTIES
  WaitingAreAsked
