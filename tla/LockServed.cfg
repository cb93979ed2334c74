SPECIFICATION FairSpec
CONSTANTS
    c1 = c1
    c2 = c2
    c3 = c3
    j1 = j1
    j2 = j2
    Client = {c1, c2, c3}
    Jvm = {j1, j2}
    JvmOf <- TwoJvms
    ParentExists = TRUE
    Faults = {"connloss", "expiry", "throw", "crash"}
CHECK_DEADLOCK FALSE
PROPERTIES
    NodeGivenBack
    EveryoneServed
