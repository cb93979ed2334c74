SPECIFICATION Spec
CONSTANTS
    c1 = c1
    c2 = c2
    c3 = c3
    j1 = j1
    j2 = j2
    Client = {c1, c2, c3}
    Jvm = {j1, j2}
    JvmOf <- TwoJvms
    ParentExists = FALSE
    Faults = {"connloss", "expiry", "throw", "crash"}
SYMMETRY SameProcess
CHECK_DEADLOCK FALSE
INVARIANTS
    LeaseMutex
    NoLostWakeup
    NoHerd
    ThreadsInv
PROPERTIES
    ImplementsFifoLock
