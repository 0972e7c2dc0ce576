SPECIFICATION WindowSpec
CONSTANTS
    MaxJoins = 1
    MaxConnects = 1
    MaxToggles = 0
    MaxSignals = 2
    MaxFaults = 1
INVARIANT
    PushHasServer
CHECK_DEADLOCK FALSE
