CONSTANTS
    Threads = {p, a}
    Presenters = {p}
    Acquirers = {p, a}
    TimedAcquirers = {p, a}
    Dispatchers = {}
    Buffers = {b1, b2}
    NoThread = NoThread
    NoBuffer = NoBuffer
    IcdAcquire = TRUE
    IcdRelease = TRUE
    StampKept = FALSE
    LostStamps = {0}
    WaitsForEvent = TRUE
    Faults = {}
    MaxPresents = 5
    MaxHeld = 2
SPECIFICATION Spec
CHECK_DEADLOCK FALSE
INVARIANT RenderReleased
