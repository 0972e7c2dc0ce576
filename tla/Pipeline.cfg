SPECIFICATION Spec
CONSTANTS
    MaxUnits = 3
    MaxQueued = 2
    MaxTroubles = 1
    MaxSwitches = 0
    MaxStarts = 2
    MaxReports = 2
    None = None
INVARIANTS
    TypeOK
    IntactUnlessCaught
    NoSignalLost
    NothingReappears
CHECK_DEADLOCK FALSE
