\* A loan settled by a covered-date payment after its shortfall.
CONSTANTS
    Collectors = {c1}
    OpeningBalance = 3
    OpeningPasses = 1
    DailyAmount = 2
    LastDate = 1
    MaxCash = 3
    MaxReceipts = 3
    MaxVersion = 3
    MaxRemittances = 0
SPECIFICATION Spec
INVARIANT PayoffClosesObligations
CHECK_DEADLOCK FALSE
