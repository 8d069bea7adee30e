SPECIFICATION Spec
CONSTANTS
    nil = nil
    Nil <- nil
    Keys <- SomeKeys
    Vals <- TwoVals
    keyfn <- Fold
    max = 3
    Shown <- Ones
    MaxInserts = 7
INVARIANTS
    IndexSound
    ReadersAgree
PROPERTY
    RefinesWindow
