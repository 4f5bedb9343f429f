SPECIFICATION Spec
CONSTANTS
    Word = 2
    Narrow = 1
    Start <- GraphWorld
    Ops <- GraphOps
    Literals <- GraphLiterals
    Widths = "agree"
    MaxRequests = 2
INVARIANTS TypeOK HashConsed CommutedOnce SideTablesOwned ReductionSound
