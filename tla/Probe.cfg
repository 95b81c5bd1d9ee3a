SPECIFICATION FairSpec
CONSTANTS
    Files = 3
    Concurrency = 2
INVARIANTS Bounded ReportComplete
PROPERTY Exits
\* The process exits.
CHECK_DEADLOCK FALSE
