CONSTANTS
    Addr = {a1, a2}
    Task = {t1, t2}
    NoTask = NoTask
    Kinds = {"remove", "replace"}
    Classes = {"plain"}
    Faults = {"cancel", "repeat"}
SPECIFICATION Spec
INVARIANTS
    CancelledWritesAgree
CHECK_DEADLOCK FALSE
