SPECIFICATION HistogramSpec
CONSTANTS
    Observers = {o1, o2}
    Values = {0, 10, 30}
    Bounds <- MCBounds
    MaxSeen = 2
    MaxScrapes = 1
    None = None
INVARIANTS SnapshotWithinRun PercentileInItsBucket
PROPERTY ScrapesGrow
\* The observations are bounded and the final snapshot is the last step.
CHECK_DEADLOCK FALSE
