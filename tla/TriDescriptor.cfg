CONSTANTS
    Drivers = {"null"}
    FrameCounts = {1}
    Resizes = 0
    MaxImages = 2
SPECIFICATION Spec
CHECK_DEADLOCK FALSE
INVARIANTS
    SampledLayouts
