\* Statements, money and postings of Treasury, each on small instances.
\* A desk may stop: its bounds are used up and everything is corrected.
CONSTANTS
    Accounts = {"a1", "a2"}
    Refs = {"r1", "r2"}
    Amounts = {1, 2}
    Clients = {"c1", "c2"}
    Claims = {"k1", "k2"}
    Sources = {"s"}
    Transfers = {"t"}
    NoClient = "none"
    DueAmount = 2
    MaxEvents = 3
    MaxVersion = 2
    MaxApplications = 2
    Movements <- DeskMovements
    Counts <- DeskCounts
    Statements <- DeskStatements
    MaxOpenings = 2
    MaxSessions = 3
SPECIFICATION DeskSpec
INVARIANTS
    DeskTypeOK
    ClosesHold
    MoneyIsUsedOnce
    ClaimsAreDecided
    LoansFollowReceipts
    UndoAnswersHold
PROPERTIES
    OpeningStaysAtItsCutoff
CHECK_DEADLOCK FALSE
