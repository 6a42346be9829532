SPECIFICATION FairSpec
CONSTANTS
    Calls <- MCCalls
    Submissions <- MCSubmissions
    Sources <- MCSources
    None = None
    MaxRuntimes = 3
    MaxApps = 2
    MaxMoves = 1
    MaxRemovals = 1
    Home = "a"
    Rounds = 2
INVARIANTS
    TypeOK
    NoneLeftBehind
    LiveIsCurrent
    OneDriver
PROPERTIES
    RemovedNodeLeft
CHECK_DEADLOCK FALSE
