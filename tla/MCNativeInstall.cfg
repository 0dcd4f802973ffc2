SPECIFICATION SuiteSpec
CONSTANTS
    Releases <- MCReleases
    Release <- MCRelease
    MaxCrashes = 1
    Processes = {"a", "b"}
    Operator = "a"
    MaxCalls = 1
    MaxFaults = 1
INVARIANT
    NativeServes
PROPERTIES
    NativeAdvances
    
CHECK_DEADLOCK FALSE
