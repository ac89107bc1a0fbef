CONSTANTS
    Procs = {p1, p2}
    Nobody = Nobody
    BatchSize = 2
    Archives <- OneBlock
    MaxBlock = 4
    Unsealed <- GenesisMayBe
    MaxFaults = 1
    MaxLost = 0
SPECIFICATION FairSpec
PROPERTIES
    ArchiveFills ArchiveFillsToLastBatch
