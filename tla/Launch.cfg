SPECIFICATION Spec
CONSTANTS
    Modulus = 16
    HardCap = 40
    Commands <- MCCommands
    Lifetimes = {0, 1, 3, 20, 21, 22, 23, 24}
    Margin = 20
    DrainWaitCap = 8
    DrainGrace = 1
    MaxDelay = 2
    MaxQueries = 4
    QueryTimeout = 6
INVARIANTS LaunchChecksAgree CredentialOutlivesDrain PriceFitsBucket AutoBudget
\* The process exits.
CHECK_DEADLOCK FALSE
