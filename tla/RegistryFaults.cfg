SPECIFICATION FairSpec
CONSTANTS
    p1 = p1
    p2 = p2
    c1 = c1
    u1 = u1
    u2 = u2
    Provider = {p1, p2}
    Consumer = {c1}
    Address = {u1, u2}
    UrlOf <- TwoAddresses
    Scenarios <- EveryScenario
CHECK_DEADLOCK FALSE
INVARIANTS
    ListInv
    StaleOnlyByRace
PROPERTIES
    ImplementsDirectory
    MembersSettle
    LookupEnds
