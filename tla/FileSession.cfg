SPECIFICATION FairSpec
CONSTANTS
    OpBytes = 2
    MaxBytes = 5
    Offset = 1
    RandomOffset = FALSE
    Paced = TRUE
    HasTimeout = TRUE
    StrictClose = TRUE
    Sizes = {0, 1, 4, 7}
INVARIANTS TypeOK OneOpInFlight SettledLedger LosesAtMostOneOp NeverLost AliveForCallback
PROPERTIES NothingAfterClose DoneOnce ImplementsContract Completes
\* The one session ends and nothing is left to do.
CHECK_DEADLOCK FALSE
