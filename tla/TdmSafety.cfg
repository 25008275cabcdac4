CONSTANTS
    Threads = {p, a, a2, d}
    Presenters = {p}
    Acquirers = {a, a2}
    TimedAcquirers = {a2}
    Dispatchers = {d}
    Buffers = {b1, b2}
    NoThread = NoThread
    NoBuffer = NoBuffer
    IcdAcquire = TRUE
    IcdRelease = TRUE
    StampKept = TRUE
    LostStamps = {0}
    WaitsForEvent = FALSE
    Faults = {"timeline_create", "fence_create", "fence_wait", "enqueue", "acquire", "set_buffer", "commit", "events", "dispatch", "timeline_inc"}
    MaxPresents = 2
    MaxHeld = 3
SPECIFICATION Spec
CHECK_DEADLOCK FALSE
SYMMETRY BufferSymmetry
INVARIANTS
    TypeOK
    LocksHeld
    LocksReturned
    NoLostWakeup
    RetiredOnce
    FenceReachable
PROPERTY ImplementsOwnership
