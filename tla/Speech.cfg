SPECIFICATION LiveSpec
CONSTANTS
    Callers = {c1, c2}
    QueueSize = 1
    MaxCalls = 3
    MaxGen = 9
INVARIANTS
    NoStaleAudio
    TasksTracked
PROPERTY InterruptsReturn
CHECK_DEADLOCK FALSE
