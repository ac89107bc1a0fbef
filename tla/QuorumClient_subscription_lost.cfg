CONSTANTS
    Callers = {}
    None = None
    MaxHead = 1
    MaxDrops = 1
    MaxRefusals = 0
SPECIFICATION FairSpec
PROPERTIES
    SubscriptionEstablished
CHECK_DEADLOCK FALSE
