SPECIFICATION FairSpec
CONSTANTS
    Controllers <- ServiceOnly
    FailOpen = {FALSE}
    MaxRevision = 2
    MaxGeneration = 1
    Retained = 2
    Limit = 2
    Interval = 1
    Coalesce = 1
    DNSRevisions <- MCDNSRevisions
    MaxFaults = 0
PROPERTY QuarantineEnds
