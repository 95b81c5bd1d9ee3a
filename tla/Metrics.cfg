SPECIFICATION FairSpec
CONSTANTS
    Sessions = {x1}
    Hosts = {h1, h2}
    Unknown = Unknown
    Volumes = {2}
    Outcomes = {TRUE, FALSE}
    SitenameQuery = TRUE
    Names = {n1}
    NoSite = NoSite
    Mapped = {h2}
    MapSite = MapSite
    MaxSnapshots = 1
INVARIANT FinalSums
PROPERTIES SiteKept Resolved
\* The process exits.
CHECK_DEADLOCK FALSE
