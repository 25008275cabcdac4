CONSTANTS
    Threads = {p, a}
    Presenters = {p}
    Acquirers = {p, a}
    TimedAcquirers = {}
    Dispatchers = {}
    Buffers = {b1, b2, b3}
    NoThread = NoThread
    NoBuffer = NoBuffer
    IcdAcquire = TRUE
    IcdRelease = TRUE
    StampKept = TRUE
    LostStamps = {0}
    WaitsForEvent = TRUE
    Faults = {}
    MaxPresents = 5
    MaxHeld = 2
SPECIFICATION FairSpec
CHECK_DEADLOCK FALSE
INVARIANT RenderReleased
PROPERTIES
    PresentReturns
    ImplementsFairOwnership
