\* Two collectors post, hand over, and edit what is sent back.
\* The ledger may stop: the bounds are used up or the loan is settled.
CONSTANTS
    Collectors = {c1, c2}
    OpeningBalance = 3
    OpeningPasses = 1
    DailyAmount = 2
    LastDate = 1
    MaxCash = 2
    MaxReceipts = 2
    MaxVersion = 3
    MaxRemittances = 3
SPECIFICATION Spec
SYMMETRY CollectorSymmetry
INVARIANTS
    RemittedCashIsHeld
PROPERTIES
    FrozenReceiptsStand
CHECK_DEADLOCK FALSE
