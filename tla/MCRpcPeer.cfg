SPECIFICATION FairSpec
CONSTANTS
    MaxCalls = 4
    MaxInFlight = 2
    MaxExpired = 1
INVARIANTS
    TypeOK
    OutcomeTrue
    GivenUpHarmless
PROPERTIES
    CallsSettle
CHECK_DEADLOCK FALSE
