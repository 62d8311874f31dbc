SPECIFICATION DrainingSpec
CONSTANTS
    MaxRequests = 2
    MaxProcesses = 3
INVARIANTS
    TypeOK
    ReturnsClean
    ErrorReported
    NilMeansDrained
    InfoMeansBound
PROPERTIES
    Returns
    ImplementsLifecycle
CHECK_DEADLOCK FALSE
