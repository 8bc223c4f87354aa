CONSTANTS
    Addr <- FourAddresses
    NmiVector = 1
    ResetVector = 0
    IrqVector = 2
    Page = 2
    StackSize = 6
    Targets = {3}
    Code <- ProgramCode
    Cells <- ProgramCells
    NmiEntry = 2560
    IrqEntry = 2624
    Words <- SampleWords
    Decimals <- SampleDecimals
    BatchCycles = 4
    LongestStep = 2
    HaltSleep = 7
    Costs = {0, 3, 9}
    MaxLate = 2
    Horizon = 25
SPECIFICATION Spec
INVARIANTS
    CpuBenchesTypeOK
    BreakTold
    ProgramsRight
    CyclesTold
    KeepsPace
PROPERTY Resumes
