SPECIFICATION Spec
CONSTANTS
    Handles = {h1}
    Tasks = {t1, t2}
    NoTask = NoTask
    Ops = {"new", "open", "steer", "delete"}
    Faults = {}
    MaxId = 2
    MaxRevision = 2
SYMMETRY Symmetry
INVARIANT DeletedStaysDeleted
