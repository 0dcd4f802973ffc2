CONSTANTS
    p1 = p1
    Installers = {p1}
    None = None
    Newest = 3
    Releases <- MCReleases
    Floor <- MCFloor
    MinFloor <- MCMinFloor
    Reads <- MCReads
    MaxFaults = 3
    UnsyncedStops = FALSE
    Drift = TRUE
SPECIFICATION FairSpec
INVARIANT RunningIsCurrent
 
PROPERTY EndsAsPromised
PROPERTY NeverBelowHighWater
PROPERTY TransactionEnds
