SPECIFICATION RSpec
CONSTANTS
    Start = start
    Setters = {start, w1}
    MaxStarts = 1
INVARIANT
    DownWhileShuttingDown
CHECK_DEADLOCK FALSE
