SPECIFICATION Spec
CONSTANTS
    Sections <- MCSections
    Keys <- MCKeys
    Owner <- MCOwner
    Option <- MCOption
    Flags <- MCFlags
    Always <- MCFlags
    Vals = {0, 1}
    Stores <- MCStores
    MaxEdits = 2
    MaxSubmits = 2
    MaxFaults = 1
INVARIANTS
    SavedMeansAccepted
    NoBlindOverwrite
    SettledShowsStore
CHECK_DEADLOCK FALSE
PROPERTY
    SavingEnds
