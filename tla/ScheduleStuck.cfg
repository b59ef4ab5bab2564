\* A payment that makes up two days at once, and a day missed after it.
CONSTANTS
    Items = {1, 2, 3, 4, 5}
    Amount = 1
    Sessions = {s1}
    LastDay = 5
    MaxReceipts = 1
    MaxDeclared = 0
    MaxCovered = 0
SPECIFICATION Spec
INVARIANT MissedDayExtends
CHECK_DEADLOCK FALSE
