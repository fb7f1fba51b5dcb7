CONSTANTS
    Addr = {t1, t2}
    Trusted = {t1, t2}
    Command = {k1}
    SetUpTask = SetUpTask
    Remover = Remover
    Loader = Loader
    Nobody = Nobody
    MaxSetUps = 1
    MaxCalls = 2
SPECIFICATION Spec
INVARIANT StartupBansRemoved
CHECK_DEADLOCK FALSE
