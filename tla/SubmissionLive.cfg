\* Two collectors who keep trying, over a network that does not lose everything.
\* The system may stop: the bounds are used up.
CONSTANTS
    Collectors = {c1, c2}
    MaxDrafts = 2
    MaxVersion = 1
SPECIFICATION FairSpec
PROPERTY DraftIsSettled
CHECK_DEADLOCK FALSE
