SPECIFICATION FairSpec
CONSTANTS
    Controllers <- MCControllers
    FailOpen = {TRUE, FALSE}
    MaxRevision = 2
    MaxGeneration = 2
    Retained = 2
    Limit = 2
    Interval = 1
    Coalesce = 1
    DNSRevisions <- MCDNSRevisions
    MaxFaults = 2
INVARIANTS LinkIsUsable StaleIsStopped
PROPERTIES AcknowledgedRuns Converges
