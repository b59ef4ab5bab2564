\* Drafts of combined payments and accounts that are retried, each on a small instance, with fairness.
\* The system may stop: its bounds are used up or everything is settled.
SPECIFICATION FairSpec
PROPERTIES
    DraftSettles
    Provisioned
CHECK_DEADLOCK FALSE
