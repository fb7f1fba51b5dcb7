CONSTANTS
    Host = {h1, h2}
    Call = {c1, c2}
    Loop = Loop
    NoOne = NoOne
    Kinds = {"enable", "select"}
    MaxPolicy = 1
    MaxReloads = 0
    Faults = {}
SPECIFICATION Spec
INVARIANTS
    DisabledIsClean
CHECK_DEADLOCK FALSE
