CONSTANTS
    Threads = {t1, t2, t3}
    Chains = {c1, c2}
    Objects = {o1, o2}
    None = None
    Faults = {"create", "caps", "modes", "surface", "swapchain", "buffers"}
    MaxRefs = 5
SPECIFICATION Spec
SYMMETRY Symmetry
INVARIANTS
    RefsBalanced
    ReferenceFindsDisplay
    SurfaceHasDisplay
