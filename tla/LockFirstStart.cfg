SPECIFICATION FairSpec
CONSTANTS
    c1 = c1
    c2 = c2
    c3 = c3
    j1 = j1
    j2 = j2
    Client = {c1, c2, c3}
    Jvm = {j1}
    JvmOf <- OneJvm
    ParentExists = FALSE
    Faults = {}
CHECK_DEADLOCK FALSE
PROPERTY
    AllThreadsRun
