CONSTANTS
    Drivers = {"null", "other"}
    FrameCounts = {2}
    Resizes = 2
    MaxImages = 3
SPECIFICATION Spec
CHECK_DEADLOCK FALSE
INVARIANTS
    OwnersLive
    ExpectedLayouts
    SizesAgree
    NothingLeft
    CommandBuffersFreed
PROPERTIES
    PendingUntouched
    StaleOnlyUnflushed
    Terminates
