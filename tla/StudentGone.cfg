SPECIFICATION Spec
SYMMETRY Either
CONSTANTS
    a = a
    b = b
    n = n
    Student <- Students
    Name <- Names
    Absent = Absent
    MaxRequests = 1
    MaxDialogs = 1
    MaxFaults = 1
    Faults = {"others"}
CHECK_DEADLOCK FALSE
PROPERTY
    SavedWhenTold
