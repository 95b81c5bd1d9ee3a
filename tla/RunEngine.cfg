SPECIFICATION FairSpec
CONSTANTS
    OpBytes = 1
    MaxBytes = 0
    Offset = 0
    RandomOffset = FALSE
    Paced = TRUE
    HasTimeout = FALSE
    StrictClose = TRUE
    Sizes = {2}
    Sessions = {s1, s2}
    MaxInflight = 2
    Uncapped = FALSE
    Statuses = {TRUE, FALSE}
    Accepts = {TRUE}
    NoSession = NoSession
INVARIANTS TypeOK SlotAccounting FinalTally
PROPERTIES StopEndsLoad Exits Reported
\* The process exits and XrdCl owes nothing more.
CHECK_DEADLOCK FALSE
