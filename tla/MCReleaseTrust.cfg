SPECIFICATION Spec
CONSTANTS
    Scenes <- MCScenes
INVARIANT TrustHolds
PROPERTY TrustAdvances
PROPERTY ReleaseArrives
