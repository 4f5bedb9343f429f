SPECIFICATION Spec
CONSTANTS
    VReg = {v1, v2, v3, v4, v5}
    NumAlloc = 2
    MaxPos = 3
SYMMETRY Permuted
INVARIANTS TypeOK NoRegisterClash OneHome UsedRegistersSaved FewestSpills
PROPERTIES SpillsOnlyUnderPressure
