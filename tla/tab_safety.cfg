\* The tabs of the server browser.
SPECIFICATION Spec

CONSTANTS
    Servers = {s1, s2, s3}
    Addresses = {a1, a2}
    Rows = {r1, r2, r3}
    None = None
    Infos <- MCInfos
    FilterSettings <- MCFilterSettings
    Types <- PageTypes

SYMMETRY MCSymmetry

INVARIANTS
    RowsMatchEntries
    AddressesMatchEntries
    VisibleRowsPass
    ShownHaveAnswered
    StopButtonWhileRefreshing

PROPERTIES
    RowKeepsServer
    ImplementsBoard
