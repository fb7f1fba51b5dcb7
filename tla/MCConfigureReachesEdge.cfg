CONSTANTS
    home = home
    ca = ca
    nl = nl
    Call = {c1}
    Idle = Idle
    Entry = {home}
    Net = {home}
    Local = home
    Rule = {ca, nl}
    Overlaps <- MCOverlaps
    OptionRequests <- MCOptions
    ImportRequests <- MCImports
    FormRequests <- MCForms
    Saved <- MCSaved
    MaxEdits = 1
    MaxFiles = 1
SPECIFICATION Spec
INVARIANT ConfigureReachesEdge
CHECK_DEADLOCK FALSE
