SPECIFICATION Spec
CONSTANTS
    Handles = {h1}
    Tasks = {t1, t2}
    NoTask = NoTask
    Ops = {"new", "open", "crash", "steer", "persist", "metadata", "run", "close"}
    Faults = {"before"}
    MaxId = 3
    MaxRevision = 3
SYMMETRY Symmetry
INVARIANT AcceptanceOrder
PROPERTY ReturnMeansDurable
