SPECIFICATION AttributionSpec
CONSTANTS
    Hosts <- MCHosts
    Domains <- MCDomains
    Ports = {p1, NoPort}
    NoPort = NoPort
    Sites = {a, b}
    NoSite = NoSite
    MaxAdds = 4
    MaxLoaded = 1
    Statuses = {1, 16, 103, 108, 203, 206, 304, 306, 400}
    Errs = {0, 11, 110, 3001, 3005, 3007, 3010}
    Said <- MCSaid
INVARIANTS LookupOrder SameVerdict
\* The number of entries is bounded, and one session fails.
CHECK_DEADLOCK FALSE
