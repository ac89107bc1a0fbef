CONSTANTS
    Callers = {c1}
    None = None
    MaxHead = 2
    MaxDrops = 2
    MaxRefusals = 1
SPECIFICATION FairSpec
PROPERTIES
    CallReturns Resubscribes HeadsArrive StopHeldUpOnlyByHandover
CHECK_DEADLOCK FALSE
