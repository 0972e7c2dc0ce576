SPECIFICATION WindowSpec
CONSTANTS
    MaxJoins = 2
    MaxConnects = 1
    MaxToggles = 1
    MaxSignals = 2
    MaxFaults = 0
INVARIANT
    LiveViewHasAddress
CHECK_DEADLOCK FALSE
