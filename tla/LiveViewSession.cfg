SPECIFICATION FairSpec
CONSTANTS
    r1 = r1
    r2 = r2
    ui = ui
    other = other
    Requests = {r1, r2}
    Callers = {ui, other}
    Owner = ui
    MaxConnections = 2
    NoRequest = NoRequest
INVARIANTS
    TypeOK
    ServedOnce
    StreamingNotStranded
PROPERTIES
    StreamingAnswered
    StopCompletes
