\* Two sessions move areas at the same time.
CONSTANTS
    Periods = {1, 2}
    Accounts = {"income", "expense", "cash", "retained"}
    Temporary = {"income", "expense"}
    Retained = "retained"
    Postings <- BookPostings
    MaxEntries = 3
    MaxUpdates = 1
    Requests = {"r1", "r2"}
    Pricings = {1, 2}
    LastDay = 2
    MaxSources = 2
    MaxApprovals = 2
    MaxAuthorizations = 2
    MaxPayouts = 2
SPECIFICATION OfficeSpec
INVARIANT NoAreaUnderItself
CHECK_DEADLOCK FALSE
