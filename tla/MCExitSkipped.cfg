SPECIFICATION FairSpec
CONSTANTS
    MaxOutput = 4
    KeptRecords = 2
    MaxFailures = 2
PROPERTIES
    ExitReadAgain
CHECK_DEADLOCK FALSE
