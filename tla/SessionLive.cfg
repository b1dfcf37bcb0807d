SPECIFICATION LiveSpec
CONSTANTS
    Handles = {h1}
    Tasks = {t1, t2}
    NoTask = NoTask
    Ops = {"new", "steer", "run", "delete", "cancel"}
    Faults = {"before"}
    MaxId = 2
    MaxRevision = 2
PROPERTY CallsReturn
