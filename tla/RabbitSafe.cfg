SPECIFICATION MCSpec
CONSTANTS
    k1 = k1
    k2 = k2
    s1 = s1
    s2 = s2
    t1 = t1
    t2 = t2
    t3 = t3
    w1 = w1
    w2 = w2
    None = None
    Client = {k1, k2}
    Server = {s1, s2}
    Inputs = {"number", "negative"}
    MaxCalls <- TwoAndOne
    MaxCrashes = 1
    Task = {t1, t2, t3}
    Worker = {w1, w2}
    MaxWorkerCrashes = 1
    MaxRestarts = 1
CHECK_DEADLOCK FALSE
INVARIANTS
    AnswerInv
    NoTaskLost
PROPERTIES
    CallReturns
    ImplementsAckQueue
    EveryTaskDone
    WorkImplementsAckQueue
