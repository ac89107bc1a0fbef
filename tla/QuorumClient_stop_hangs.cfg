CONSTANTS
    Callers = {}
    None = None
    MaxHead = 2
    MaxDrops = 0
    MaxRefusals = 0
SPECIFICATION FairSpec
PROPERTIES
    StopReturns
CHECK_DEADLOCK FALSE
