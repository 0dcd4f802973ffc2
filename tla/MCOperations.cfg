SPECIFICATION OperationsSpec
CONSTANTS
    Node = {1, 2}
    Lighthouse = {1, 2}
    Enrolled = {1}
    Policy <- NamesTwo
    DNSMode = {"off", "native"}
    RelayCandidate = {2}
    StopReporter = {}
    MaxRevision = 5
    AdminRevision = 4
    MaxGeneration = 1
    MaxHeartbeats = 1
INVARIANTS
    
    RevocationNeverRefused
    CustodySafe
 
CHECK_DEADLOCK FALSE
