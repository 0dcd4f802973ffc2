SPECIFICATION AgentsSpec
CONSTANTS
    Slots = {1, 2}
    MaxBearers = 4
    MaxTokens = 3
    MaxClock = 3
    InitialExpiry = 2
    Life = 3
    Grace = 1
    Ttl = 2
    Lease = 1
    Window = 1
    OverRotation = FALSE
    AnyToken = FALSE
    Drops = TRUE
    LongOutage = TRUE
    SlowCommit = TRUE
INVARIANTS
    CredentialsMatch
    
    
    ObservationsHold
CHECK_DEADLOCK FALSE
