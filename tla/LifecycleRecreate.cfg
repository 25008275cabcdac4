CONSTANTS
    Chains = {c1, c2, c3}
    Faults = {}
    Nested = FALSE
    MaxPending = 1
SPECIFICATION Spec
SYMMETRY ChainSymmetry
INVARIANTS
    OutputOn
