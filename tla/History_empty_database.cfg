CONSTANTS
    Procs = {p1}
    Nobody = Nobody
    BatchSize = 2
    Archives <- Empty
    MaxBlock = 2
    Unsealed <- GenesisSealed
    MaxFaults = 0
    MaxLost = 0
SPECIFICATION FairSpec
PROPERTIES
    EmptyDatabaseFills
