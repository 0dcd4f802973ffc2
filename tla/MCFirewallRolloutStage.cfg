SPECIFICATION StageSpec
CONSTANTS
    Node = {2}
    Lighthouse = {}
    Enrolled = {2}
    Policy <- EveryEffect
    DNSMode = {"off"}
    RelayCandidate = {}
    StopReporter = {2}
    MaxRevision = 5
    AdminRevision = 4
    MaxGeneration = 2
    MaxHeartbeats = 1
PROPERTY PromotionProven
PROPERTY RollbackEvidence
 
PROPERTY Deployed
CHECK_DEADLOCK FALSE
