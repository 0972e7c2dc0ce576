SPECIFICATION FairSpec
CONSTANTS
    MaxUnits = 3
    MaxQueued = 2
    MaxTroubles = 0
    MaxSwitches = 2
    MaxStarts = 1
    MaxReports = 0
    None = None
INVARIANTS
    SwitchesClean
PROPERTY
    UiReturns
CHECK_DEADLOCK FALSE
