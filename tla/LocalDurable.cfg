SPECIFICATION Spec
CONSTANTS
    Threads = {t1, t2}
    NoThread = NoThread
    Legacy = TRUE
    Disturbances = {"write", "replace", "unlink", "sync", "crash", "power"}
    MaxRevision = 1
    MaxChanges = 3
SYMMETRY Symmetry
INVARIANT ConfirmedSurvives
