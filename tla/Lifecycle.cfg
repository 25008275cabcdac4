CONSTANTS
    Chains = {c1, c2, c3}
    Faults = {"chain", "format", "struct", "queue", "array", "fill", "set_dpms", "set_mode", "set_info", "buffers", "tpl_display", "tpl_surface", "mode", "tpl_swapchain", "get_dpms"}
    Nested = TRUE
    MaxPending = 1
SPECIFICATION Spec
SYMMETRY ChainSymmetry
INVARIANTS
    NothingLeaked
    OutputOn
    OutputRestored
