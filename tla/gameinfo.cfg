\* A server to join, one the user may not join and one with another port, two dialogs
CONSTANTS
    Servers = {0, 1, 2}
    Banned = {1}
    OtherPort = {2}
    None = None
    MaxDialogs = 2
    MaxActs = 1

SPECIFICATION FairSpec
INVARIANTS
    QueriesHaveDialogs
    RowsOfOneAnswer
PROPERTIES
    ConnectsOnFreshAnswer
    NobodyWaitsForever
