SPECIFICATION Spec
CONSTANTS
    Callers = {c1, c2}
    QueueSize = 1
    MaxCalls = 2
    MaxGen = 6
SYMMETRY Symmetry
INVARIANT WorkerServes
CHECK_DEADLOCK FALSE
