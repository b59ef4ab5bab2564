\* Two collectors, two drafts, every loss, delay, restart and refusal.
\* The system may stop: the bounds are used up.
CONSTANTS
    Collectors = {c1, c2}
    MaxDrafts = 2
    MaxVersion = 3
SPECIFICATION Spec
SYMMETRY CollectorSymmetry
INVARIANTS
    TypeOK
    AnswersNameTheReceipt
    OwnRetriesDoNotConflict
    SecondReceiptIsRebased
PROPERTY CommittedIsReplayed
CHECK_DEADLOCK FALSE
