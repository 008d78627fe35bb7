SPECIFICATION Spec
CONSTANTS
    Nothing = Nothing
    MaxRequests = 2
    MaxLoads = 2
    MaxSaves = 1
    MaxActs = 2
INVARIANTS
    OwnAnswer
    SpinnerIsCurrent
    SavedAsShown
PROPERTIES
    GenerationEnds
CHECK_DEADLOCK FALSE
