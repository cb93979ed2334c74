SPECIFICATION Spec
SYMMETRY Either
CONSTANTS
    left = left
    right = right
    Elem <- Elements
    MaxAnims = 3
    MaxOps = 5
CHECK_DEADLOCK FALSE
INVARIANTS
    TypeOK
    TimersInv
    QueuesInv
    PromisesKept
PROPERTIES
    PromiseMeansIdle
