CONSTANTS
    Host = {1, 2}
    Selected = 1
    Directives = {d1}
    MaxPolicy = 1
    MaxEdits = 0
    MaxOps = 2
    Faults = {"delete"}
SPECIFICATION Spec
PROPERTIES
    RollsBackEveryHost
CHECK_DEADLOCK FALSE
