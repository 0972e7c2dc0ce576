SPECIFICATION WireSpec
CONSTANTS
    SeqSpace = 16
    SeqStep = 2
    MaxWindow = 6
    NoSeq = NoSeq
    WaitForGaps = TRUE
    MaxSent = 16
    Late = 3
    Reach = 4
    Space = 8
    Window = 2
    Base = 1
    Channels = {3, 7}
    NoAck = NoAck
    Attempts = 2
    Rounds = 1
    Unknown = Unknown
    Junk = 255
    AddressBits = 5
    SweepBits = 3
    OwnAddresses = {10}
    Prefixes = {1, 2, 4}
    Places = {3, 9}
    MacDigits = 1
    Timeout = 3
    Grace = 1
    NudgeAgain = 2
    MaxMoves = 1
INVARIANTS
    WireTypeOK
    BooksAreRight
    PanelIsTrue
    ClosestFormat
    CameraIsFound
PROPERTIES
    DeliversOrderedVideo
    NeverStalls
    WindowRecovers
CHECK_DEADLOCK FALSE
