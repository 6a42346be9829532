SPECIFICATION FairSpec
CONSTANTS
    Requests <- MCRequests
    Inputs <- MCInputs
    OpOf <- MCOpOf
    InputOf <- MCInputOf
    None = None
    MaxStops = 1
PROPERTIES
    SteeringTaken
    SubmissionsAnswered
    CloseEndsWithRuns
CHECK_DEADLOCK FALSE
