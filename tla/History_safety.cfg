CONSTANTS
    Procs = {p1, p2}
    Nobody = Nobody
    BatchSize = 2
    Archives <- Intervals
    MaxBlock = 5
    Unsealed <- GenesisMayBe
    MaxFaults = 2
    MaxLost = 1
SPECIFICATION Spec
INVARIANTS
    TypeOK NoHoles RowsHaveSigners FinishedRunIsComplete LossIsBounded
PROPERTIES
    ImplementsArchive
SYMMETRY Symmetry
