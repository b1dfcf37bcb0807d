SPECIFICATION Spec
CONSTANTS
    Threads = {t1, t2}
    NoThread = NoThread
    Legacy = TRUE
    Disturbances = {"write", "replace", "unlink", "sync", "crash"}
    MaxRevision = 1
    MaxChanges = 2
SYMMETRY Symmetry
INVARIANTS
    NothingLeft
    OneIdentity
PROPERTY Linearizable
