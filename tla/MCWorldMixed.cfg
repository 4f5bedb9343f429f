SPECIFICATION Spec
CONSTANTS
    Word = 4
    Narrow = 2
    Start <- MixedWorld
    Ops = {"Add", "Mul"}
    Literals = {}
    Widths = "any"
    MaxRequests = 1
INVARIANT ReductionSound
