CONSTANTS
    Addr = {0, 1, 2, 3}
    ResetVector = 1
    NmiVector = 2
    IrqVector = 2
    PCHistoryLen = 3
    AppROMStart = 1
    ExpRAMStart = 3
    HwVectorStart = 4
    ExpansionRAM = FALSE
    BatchCycles = 3
    InstrCycles = {2, 4}
    IntCycles = 7
SPECIFICATION MachineSpec
INVARIANTS
    MachineTypeOK
    SingleStep
    SwitchOffEnds
PROPERTIES
    TrailSpec
    HaltFreezes
    ResetRevives
    NmiServed
    BatchesEnd
