SPECIFICATION FairSpec
CONSTANTS
    a = a
    Networks = {a}
    None = None
    MaxStarts = 2
    MaxAsks = 2
    MaxTroubles = 1
PROPERTY
    LinkMovesOn
CHECK_DEADLOCK FALSE
