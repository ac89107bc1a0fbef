CONSTANTS
    Viewers = {v1, v2}
    Nobody = Nobody
    a = a
    b = b
    c = c
    d = d
    Validators = {a, b, c, d}
    Digits <- TwoDigits
    Capital <- SmallC
    ValSet = {a, b, c}
    Known = {a, b, c}
    Author <- NewValidator
    Sealers <- NewSealers
    Unreadable <- Third
    MaxBlock = 5
SPECIFICATION FairSpec
INVARIANTS
    TypeOK TableConsistent LockHeld NextProposerInTurn
PROPERTIES
    HandlersGoOn ImplementsScoreboard
