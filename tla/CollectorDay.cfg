\* Custody, surplus, promises, combined payments and schedules, each on small instances.
\* A day may stop: its bounds are used up and nothing is left to do.
CONSTANTS
    Receipts = {1, 2, 3}
    Keys = {1, 2}
    Amounts = {1, 2}
    AmountOf <- ReceiptAmounts
    DueOf <- ReceiptDues
    DateOf <- ReceiptDates
    CrossArea = {2, 3}
    MaxRemittances = 2
    Collectors = {11, 12}
    Remittances = {1, 2}
    CollectorOf <- CollectorOfEach
    Gross <- GrossOf
    Refund <- RefundOf
    Counts = {31, 32}
    Credits = {21, 22}
    Actions = {1, 2}
    Refs = {1, 2}
    Entered = {1, 2, 3, 4}
    OpeningAmount = 2
    Loans = {1, 2}
    ContractLoans = {1}
    Days = {1, 2, 3}
    Daily <- DailyOf
    PastDueAmounts = {1, 2}
    MaxReceipts = 3
    MaxFollowups = 1
SPECIFICATION DaySpec
INVARIANTS
    DayTypeOK
    CustodyBalances
    SurplusBalances
    PromisesFollowDue
    CashPostedOnce
    ScheduleHolds
PROPERTIES
    PromiseIsJudgedOnce
    PostedAsReviewed
    MovesHaveCause
CHECK_DEADLOCK FALSE
