CONSTANTS
    MaxValue = 3
    Dividers = {1, 2, 5}
    StepCycles = {2, 3, 4}
    Horizon = 54
    Width = 3
    MaxTransfers = 2
    Segments = {0, 1}
    Digits = {4, 5}
    StaleAfterCycles = 11
    ScanCycles = {1}
    Patterns <- TwoPatterns
    b1 = b1
    b2 = b2
    Browsers = {b1, b2}
    Keys <- TwoKeys
    MaxConns = 2
    MaxUnderWay = 2
SPECIFICATION Spec
SYMMETRY Symmetry
INVARIANTS
    DevicesTypeOK
    CountsExactly
    FlagExact
    PictureTrue
    NoKeyHangs
    ScanFindsHeld
PROPERTY
    CarriesBytes
