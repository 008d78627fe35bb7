SPECIFICATION Spec
CONSTANTS
    Channels = {c1, c2}
    None = None
    NModels = 3
    Limit = 2
    MaxBatches = 2
    MaxSingles = 1
INVARIANTS
    FlagHasBatch
    SummaryComplete
PROPERTIES
    StoppedStaysStopped
    BatchEnds
CHECK_DEADLOCK FALSE
