CONSTANTS
    home = home
    ca = ca
    nl = nl
    Call = {c1, c2}
    Idle = Idle
    Entry = {home}
    Net = {home}
    Local = home
    Rule = {ca, nl}
    Overlaps <- MCOverlaps
    OptionRequests <- MCOptions
    ImportRequests <- MCImports
    FormRequests <- MCForms
    Saved <- MCSaved
    MaxEdits = 1
    MaxFiles = 1
SPECIFICATION FairSpec
INVARIANTS
    TypeOK
    LiveFollowsOptions
    NoLockout
    RegionLockUsable
    SequentialRegions
    EdgeHearsOfOptions
PROPERTIES
    ListsKept
    TransactionsEnd
CHECK_DEADLOCK FALSE
