CONSTANTS
    Addr = {a1, a2}
    Task = {t1, t2}
    NoTask = NoTask
    Kinds = {"add", "remove", "clear", "setup", "replace", "load"}
    Classes = {"plain", "trusted"}
    Faults = {"write", "append", "read", "cancel", "repeat", "crash"}
SPECIFICATION FairSpec
INVARIANTS
    TypeOK
    LiveMatchesFile
PROPERTIES
    TrustedNotNewlyBanned
    RemovalEventIsOwn
    ImplementsAbstractBans
    EveryCallEnds
CHECK_DEADLOCK FALSE
