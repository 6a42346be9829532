SPECIFICATION Spec
CONSTANTS
    Requests <- MCRequests
    Inputs <- MCInputs
    OpOf <- MCOpOf
    InputOf <- MCInputOf
    None = None
    MaxStops = 2
INVARIANTS
    TypeOK
    AdmittedOnce
    AcknowledgedKept
    DrivesKnown
    NoRunForgotten
    QueuedHasTaker
CHECK_DEADLOCK FALSE
