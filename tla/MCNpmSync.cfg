CONSTANTS
    Host = {h1, h2}
    Call = {c1, c2}
    Loop = Loop
    NoOne = NoOne
    Kinds = {"enable", "sync", "disable", "select"}
    MaxPolicy = 3
    MaxReloads = 1
    Faults = {"fetch", "write", "crash"}
SPECIFICATION FairSpec
INVARIANTS
    TypeOK
    QuietMeansSynced
PROPERTIES
    ChangesArrive
    EveryCommandEnds
CHECK_DEADLOCK FALSE
