SPECIFICATION Spec
CONSTANTS
    Word = 4
    Narrow = 3
    Start <- ArithWorld
    Ops <- ArithOps
    Literals = {}
    Widths = "agree"
    MaxRequests = 1
INVARIANTS ReductionSound RebuildIsIdentity
