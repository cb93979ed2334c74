SPECIFICATION MCSpec
CONSTANTS
    f = f
    g = g
    v = v
    w = w
    Fn <- TwoFunctions
    Data <- TwoValues
    NoData = NoData
    MaxOps = 6
    Throws = TRUE
    L = "progress"
CHECK_DEADLOCK FALSE
INVARIANTS
    ListInv
    HandlersInv
PROPERTIES
    ImplementsDispatch
    ImplementsPromise
