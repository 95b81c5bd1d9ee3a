SPECIFICATION Spec
CONSTANTS
    OpBytes = 1
    MaxBytes = 0
    Offset = 0
    RandomOffset = FALSE
    Paced = TRUE
    HasTimeout = TRUE
    StrictClose = FALSE
    Sizes = {1, 2}
    Sessions = {s1}
    MaxInflight = 1
    Uncapped = FALSE
    Statuses = {TRUE, FALSE}
    Accepts = {TRUE, FALSE}
    NoSession = NoSession
INVARIANT WatchdogDown
PROPERTY SessionsImplement
\* The process exits and XrdCl owes nothing more.
CHECK_DEADLOCK FALSE
