CONSTANTS
    Host = {1, 2, 3}
    Selected = 1
    Directives = {d1, d2}
    MaxPolicy = 2
    MaxEdits = 1
    MaxOps = 2
    Faults = {"fetch", "update", "nginx", "delete", "cut"}
SPECIFICATION FairSpec
INVARIANTS
    TypeOK
    ListOutlivesReferences
PROPERTIES
    SuccessIsComplete
    OthersPutBack
    EveryTransactionEnds
CHECK_DEADLOCK FALSE
