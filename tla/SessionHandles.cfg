SPECIFICATION Spec
CONSTANTS
    Handles = {h1, h2}
    Tasks = {t1, t2}
    NoTask = NoTask
    Ops = {"new", "open", "crash", "steer", "clear", "cancel"}
    Faults = {"before", "after"}
    MaxId = 3
    MaxRevision = 4
SYMMETRY Symmetry
INVARIANTS
    TypeOK

    AckedInputsDurable
    ClearedStaysCleared
PROPERTY StoredHistoryGrows
