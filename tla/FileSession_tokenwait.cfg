SPECIFICATION Spec
CONSTANTS
    OpBytes = 2
    MaxBytes = 0
    Offset = 0
    RandomOffset = FALSE
    Paced = TRUE
    HasTimeout = TRUE
    StrictClose = TRUE
    Sizes = {0, 1, 4, 5}
PROPERTY ExpiresOnlyInOperation
\* The one session ends and nothing is left to do.
CHECK_DEADLOCK FALSE
