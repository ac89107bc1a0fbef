CONSTANTS
    Commands <- OnlyMonitor
    Options <- SomeOptions
    MaxBlock = 4
    Time <- Squares
    Modulus = 32
    MaxRewinds = 0
SPECIFICATION FairSpec
PROPERTIES
    RetriesFirstHeader
CHECK_DEADLOCK FALSE
