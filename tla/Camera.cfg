SPECIFICATION CameraSpec
CONSTANTS
    a = a
    b = b
    Networks = {a, b}
    None = None
    MaxStarts = 2
    MaxAsks = 2
    MaxTroubles = 1
    Settings <- MCSettings
    Parameters <- MCParameters
    ReadSettings <- MCReadSettings
    Rereads <- MCRereads
    StatusTopics <- MCStatusTopics
    MaxChanges = 2
    MaxLosses = 1
    Unknown = Unknown
    NoItem = NoItem
SYMMETRY NetworkSymmetry
INVARIANTS
    TypeOK
    ControllerTypeOK
    OneSession
    NoCommandsOffline
    CameraWhereThought
    WishesKept
    QueueMovesOn
PROPERTY
    NeverOlder
CHECK_DEADLOCK FALSE
