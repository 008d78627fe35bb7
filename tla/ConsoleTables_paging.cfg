SPECIFICATION Spec
CONSTANTS
    MaxPage = 2
    MaxAsks = 3
    MaxOps = 1
    MaxFaults = 1
INVARIANTS
    LatestAskedShown
    PageMatchesRows
    RowsTrue
PROPERTIES
    LoadingEnds
CHECK_DEADLOCK FALSE
