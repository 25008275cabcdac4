CONSTANTS
    NOutputs = 2
    Layers = 2
    Params = {p1, p2, p3}
    Blocks = {b1, b2, b3}
    None = None
    Faults = {"calloc", "model_info", "layer_count", "get_output"}
    MaxCustom = 3
    Lacking = {"EnumerateDeviceExtensionProperties", "EnumerateInstanceExtensionProperties",
               "GetInstanceProcAddr", "GetDeviceProcAddr", "CreateImageFromNativeBufferTIZEN"}
    MaxGpus = 2
SPECIFICATION Spec
CHECK_DEADLOCK FALSE
SYMMETRY Symmetry
INVARIANTS
    PlanesOnDisplays
    NothingLeaked
    HandlesAreModes
    HandlesLive
    NullCallsExplained
    LookupsAgree
