\* An uncertain entry whose route then shows the payment of another collector.
CONSTANTS
    Collectors = {c1, c2}
    MaxDrafts = 2
    MaxVersion = 1
SPECIFICATION FairSpec
PROPERTY UnrecordedDraftIsSettled
CHECK_DEADLOCK FALSE
