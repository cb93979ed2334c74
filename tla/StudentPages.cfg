SPECIFICATION Spec
SYMMETRY Either
CONSTANTS
    a = a
    b = b
    n = n
    Student <- Students
    Name <- Names
    Absent = Absent
    MaxRequests = 2
    MaxDialogs = 2
    MaxFaults = 1
    Faults = {"keyboard", "lost", "expired", "others"}
CHECK_DEADLOCK FALSE
INVARIANTS
    TypeOK
    TabsInv
    ListsCurrent
    DialogIsModal
    AnswerFindsItsDialog
    InsertTold
