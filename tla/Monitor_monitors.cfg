CONSTANTS
    Commands <- PollAndMonitor
    Options <- SomeOptions
    MaxBlock = 4
    Time <- Squares
    Modulus = 32
    MaxRewinds = 3
SPECIFICATION FairSpec
INVARIANTS
    TypeOK NoBlockMissed RecountedOnlyAfterRewind ElapsedIsBlockTime
PROPERTIES
    KeepsUp ImplementsDisplay
CHECK_DEADLOCK FALSE
