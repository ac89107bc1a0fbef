CONSTANTS
    Commands <- OnlyPoll
    Options <- SomeOptions
    MaxBlock = 4
    Time <- Squares
    Modulus = 32
    MaxRewinds = 2
SPECIFICATION FairSpec
PROPERTIES
    BeginsToDisplay
CHECK_DEADLOCK FALSE
