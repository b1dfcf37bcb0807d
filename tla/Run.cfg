SPECIFICATION RunLiveSpec
CONSTANTS
    MaxTurns = 2
    MaxInputs = 1
    GraceExpires = TRUE
INVARIANTS
    OutcomeIsTrue
    RetrySafeIsTrue
    ChildEndsFirst
PROPERTY RunsEnd
CHECK_DEADLOCK FALSE
