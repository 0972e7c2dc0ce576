SPECIFICATION PartsSpec
CONSTANTS
    r1 = r1
    t1 = t1
    t2 = t2
    b1 = b1
    b2 = b2
    Readers = {r1}
    SlotCount = 3
    MaxFrames = 4
    MaxCrashes = 1
    Threads = {t1, t2}
    NoThread = NoThread
    MaxCalls = 6
    MaxFailures = 1
    MaxJoins = 2
    MaxConnects = 2
    MaxToggles = 1
    MaxSignals = 2
    MaxFaults = 1
    BleCameras = {b1, b2}
    NoCamera = NoCamera
    Kept = 2
    PairAttempts = 2
    MaxAsks = 3
    MaxSpoken = 3
    HeaderBytes = 2
    Overhead = 3
    MaxLength = 5
    WireBytes = 5
    MaxNals = 3
    CanvasWidth = 1920
    CanvasHeight = 1080
    Widths = {1, 720, 1280, 1440, 1920, 4097}
    Heights = {3, 720, 1080, 1920}
    GpuBackends = 2
    MaxPictures = 2
    NoPicture = NoPicture
    MaxUses = 4
    MaxStarts = 2
    MaxPolls = 2
    MaxPackets = 3
    NoPacket = NoPacket
INVARIANTS
    PartsTypeOK
    NoTornFrame
    NeverWritesUnmapped
    LatestIsShown
    SamplesWhileRunning
    WindowHoldsTogether
    HeardIsCurrent
    DisconnectIsFinal
    CutAnywhere
    PictureIsRight
    ToldIsTrue
CHECK_DEADLOCK FALSE
