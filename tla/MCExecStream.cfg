SPECIFICATION FairSpec
CONSTANTS
    MaxOutput = 4
    KeptRecords = 2
    MaxFailures = 3
INVARIANTS
    TypeOK
PROPERTIES
    ImplementsCommand
    CallEnds
CHECK_DEADLOCK FALSE
