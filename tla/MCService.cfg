CONSTANTS
    Addr = {t1, a1}
    Trusted = {t1}
    Command = {k1}
    SetUpTask = SetUpTask
    Remover = Remover
    Loader = Loader
    Nobody = Nobody
    MaxSetUps = 2
    MaxCalls = 3
    Event = {e1, e2}
    Clear = {c1}
    Flush = Flush
    MaxSessions = 2
    MaxSaves = 2
    near = near
    self = self
    Source <- MCSource
    Internal <- JustSelf
    Abroad <- MCSource
    Request = {r1, r2}
    RuleSets <- MCRules
    NoLimit = NoLimit
    EscalateAt = 1
    MaxCount <- MCMaxCount
    MaxRuleEdits = 1
    Private <- JustSelf
    Home <- JustNear
    Policies <- AllPolicies
    TTL = 1
    Window = 0
    MaxMisses = 1
    MaxCached = 1
    MaxTracked = 1
    MaxTime = 2
    MaxPolicyEdits = 2
SPECIFICATION ServiceSpec
INVARIANTS
    ServiceTypeOK
    ClearedStaysCleared
    FlushKeepsHistory
    HooksFollowLife
    TrustedNotBanned
    BansSurviveReloads
    FailuresAnswered
    EdgeAgrees
    AnswersAreFresh
PROPERTIES
    LifecycleEnds
CHECK_DEADLOCK FALSE
