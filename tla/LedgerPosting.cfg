\* Posting, correction, undo and void; nothing is handed over.
\* The ledger may stop: the bounds are used up or the loan is settled.
CONSTANTS
    Collectors = {c1}
    OpeningBalance = 3
    OpeningPasses = 1
    DailyAmount = 2
    LastDate = 2
    MaxCash = 3
    MaxReceipts = 3
    MaxVersion = 4
    MaxRemittances = 0
SPECIFICATION Spec
INVARIANTS
    TypeOK
    StateIsReplayOfReceipts
    ScheduleFollowsReceipts
    OnlySameDayPaymentsAreOverlooked
    SpansAreOrdered
PROPERTIES
    ImplementsBook
CHECK_DEADLOCK FALSE
