CONSTANTS
    DataBits = 2
    Bytes <- TwoBitBytes
    CyclesPerBit = 7
    StepCycles = {1, 2}
    MaxBytes = 2
    MaxResets = 1
SPECIFICATION Spec
INVARIANTS
    TypeOK
    Echo
PROPERTIES
    PacedNeedsRead
    WholeFrames
