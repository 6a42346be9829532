SPECIFICATION Spec
CONSTANTS
    MaxRuns = 2
    MaxRuntimes = 2
    MaxStops = 1
    ResumeLimit = 1
PROPERTY ReinsEndsPending
CHECK_DEADLOCK FALSE
