SPECIFICATION AllocSpec
CONSTANTS
    VReg = {0, 1, 2, 3}
    NumAlloc = 2
    MaxPos = 11
    Programs <- SmallPrograms
INVARIANTS AllocTypeOK LivenessExact NoLiveValueOverwritten
PROPERTIES Returns ScansTrueIntervals
