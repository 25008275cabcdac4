CONSTANTS
    Threads = {p, q, a}
    Presenters = {p, q}
    Acquirers = {a}
    TimedAcquirers = {a}
    Dispatchers = {}
    Buffers = {b1, b2}
    NoThread = NoThread
    NoBuffer = NoBuffer
    IcdAcquire = TRUE
    IcdRelease = TRUE
    StampKept = TRUE
    LostStamps = {0}
    WaitsForEvent = FALSE
    Faults = {"acq_dequeue", "release"}
    MaxPresents = 3
    MaxHeld = 2
SPECIFICATION FairSpec
CHECK_DEADLOCK FALSE
INVARIANTS
    OneOwner
    FrameQueued
PROPERTY AcquirerServed
