SPECIFICATION Spec
CONSTANTS
    MaxUnits = 4
    MaxQueued = 1
    MaxTroubles = 0
    MaxSwitches = 0
    MaxStarts = 1
    MaxReports = 0
    None = None
INVARIANT
    ResyncsAfterOverflow
CHECK_DEADLOCK FALSE
