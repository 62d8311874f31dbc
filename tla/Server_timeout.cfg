SPECIFICATION FairSpec
CONSTANTS
    MaxRequests = 1
    MaxProcesses = 1
PROPERTY
    Returns
CHECK_DEADLOCK FALSE
