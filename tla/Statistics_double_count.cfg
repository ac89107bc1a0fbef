CONSTANTS
    Viewers = {v1, v2}
    Nobody = Nobody
    a = a
    b = b
    c = c
    d = d
    Validators = {a, b, c, d}
    Digits <- TwoDigits
    Capital <- SmallC
    ValSet = {a, b, c}
    Known = {a, b, c}
    Author <- ThreeBlocks
    Sealers <- ThreeSealers
    Unreadable <- AllReadable
    MaxBlock = 3
SPECIFICATION Spec
INVARIANTS
    BlocksCountOnce
