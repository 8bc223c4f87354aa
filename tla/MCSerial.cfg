CONSTANTS
    SectorSize = 2
    Sectors = 2
    IOErrors = TRUE
    Blocks <- TwoBlocks
    MaxPolls = 4
    MaxRestarts = 1
    DataBits = 2
    Bytes <- TwoBitBytes
    CyclesPerBit = 7
    StepCycles = {1, 2}
    MaxBytes = 2
    MaxResets = 2
SPECIFICATION BenchSpec
INVARIANTS
    HostTypeOK
    ReadsBack
    OthersIntact
    ProbesTold
PROPERTIES
    JobsEnd
    BootsAgain
    AllPrinted
    ImplementsDisk
