SPECIFICATION FairSpec
CONSTANTS
    g1 = g1
    g2 = g2
    Generator = {g1, g2}
    NodeId <- TwoNodes
    NodeCount = 2
    SeqCount = 2
    MaxTime = 2
    Faults = {{}, {"back"}, {"restart"}}
CHECK_DEADLOCK FALSE
INVARIANTS
    UniqueIds
    IncreasingIds
PROPERTIES
    WaitEnds
