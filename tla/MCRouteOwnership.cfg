SPECIFICATION Spec
CONSTANTS
    a = a
    b = b
    c = c
    p = p
    Profile <- OnlyA
    Issued <- Twice
    Nodes = {a, b, c}
    Prefixes = {p}
    Pending = {}
    Spares = {c}
    Recoverable = {c}
    SlowSigning = FALSE
    MaxSubnets = 1
    MaxGateways = 2
    MaxRevision = 4
    MaxGeneration = 3
 
INVARIANT TransferHasOneOwner
INVARIANT SnapshotsHold
CHECK_DEADLOCK FALSE
