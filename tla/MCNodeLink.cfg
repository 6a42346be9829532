SPECIFICATION FairSpec
CONSTANTS
    MaxConnections = 2
    MaxFailures = 3
    MaxReloads = 1
INVARIANTS
    TypeOK
    OneAttempt
    OneLink
PROPERTIES
    Relinked
CHECK_DEADLOCK FALSE
