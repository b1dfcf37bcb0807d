SPECIFICATION Spec
CONSTANTS
    Closers = {c1, c2}
    Barriers = {b1}
    MaxScopes = 3
    MaxDepth = 1
    MaxChildRuns = 1
    MaxNested = 1
    MaxRecords = 2
    MaxFacts = 2
    Subscribers = {s1, s2}
    ReplayLimit = 2
    QueueSize = 2
    MaxEvents = 4
SYMMETRY Symmetry
INVARIANTS
    SubtreeCloses
    SettledBeforeFrozen
    UsageAgrees
    GapsCounted
    TerminalDelivered
CHECK_DEADLOCK FALSE
