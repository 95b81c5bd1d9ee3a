SPECIFICATION ResultsSpec
CONSTANTS
    MaxTicks = 2
    None = None
    Earlier <- MCEarlier
    Tally <- MCTally
INVARIANTS FinalLineLast NoStaleRate ChirpRetired ReportWhole ReportAgrees
\* The processes exit.
CHECK_DEADLOCK FALSE
