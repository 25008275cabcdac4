CONSTANTS
    Chains = {c1, c2, c3}
    Faults = {}
    Nested = TRUE
    MaxPending = 1
SPECIFICATION Spec
SYMMETRY ChainSymmetry
INVARIANTS
    CallbackFindsChain
