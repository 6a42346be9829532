SPECIFICATION Spec
CONSTANTS
    MaxConnections = 3
    MaxFailures = 2
    MaxReloads = 1
INVARIANTS
    NoRemovedLink
CHECK_DEADLOCK FALSE
