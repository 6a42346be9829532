SPECIFICATION FairSpec
CONSTANTS
    MaxRuns = 3
    MaxRuntimes = 3
    MaxStops = 3
    ResumeLimit = 1
INVARIANTS TypeOK EndHeard WaitTruthUnlessGivenUp
PROPERTIES PiEndKept RunsRecovered
CHECK_DEADLOCK FALSE
