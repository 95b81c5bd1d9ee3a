SPECIFICATION Spec
CONSTANTS
    OpBytes = 1
    MaxBytes = 0
    Offset = 0
    RandomOffset = FALSE
    Paced = TRUE
    HasTimeout = TRUE
    StrictClose = TRUE
    Sizes = {2}
    Sessions = {s1}
    MaxInflight = 1
    Uncapped = FALSE
    Statuses = {TRUE}
    Accepts = {TRUE}
    NoSession = NoSession
INVARIANT SessionsBounded
\* The process exits and XrdCl owes nothing more.
CHECK_DEADLOCK FALSE
