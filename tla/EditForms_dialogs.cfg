SPECIFICATION Spec
CONSTANTS
    Records = {r1, r2}
    New = New
    Self = Self
    Init0 = Init0
    MaxOpens = 3
    MaxSaves = 2
    MaxFaults = 1
INVARIANTS
    OwnValuesStored
    QuietSaves
PROPERTIES
    TypedKept
    Unblocked
CHECK_DEADLOCK FALSE
