SPECIFICATION ToolLiveSpec
CONSTANTS
    Widths = {1, 2}
    Batches <- MCBatches
INVARIANTS
    EffectsAccounted
    StartsInOrder
    NothingLeftRunning
PROPERTY CancelledEnds
CHECK_DEADLOCK FALSE
