SPECIFICATION RFairSpec
CONSTANTS
    Start = start
    Setters = {start, w1, w2}
    MaxStarts = 2
INVARIANTS
    RTypeOK
    DownUnlessSetLate
PROPERTY
    ProbesHeal
CHECK_DEADLOCK FALSE
