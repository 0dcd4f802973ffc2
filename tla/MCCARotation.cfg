SPECIFICATION FairSpec
CONSTANTS
    n1 = n1
    Nodes <- OneNode
    Lighthouses <- NoNodes
    Recoverable <- OneNode
    Transitions <- RouteTransition
    MaxRevision = 4
    MaxGeneration = 2
INVARIANTS
    SharedTrust
    PinAccepted
PROPERTIES
    RetireOnlyUnused
    RotationRenews
CHECK_DEADLOCK FALSE
