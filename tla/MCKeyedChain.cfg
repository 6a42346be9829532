SPECIFICATION FairSpec
CONSTANTS
    Calls <- MCCalls
    Keys <- MCKeys
    KeyOf <- MCKeyOf
    None = None
INVARIANTS
    TypeOK
    TailIsLatest
PROPERTIES
    ImplementsLock
