\* A board with expansion RAM behind the ROMs.
CONSTANTS
    Addr <- BoardAddr
    ResetVector = 2
    NmiVector = 3
    IrqVector = 4
    PCHistoryLen = 3
    AppROMStart = 2
    ExpRAMStart = 5
    HwVectorStart = 6
    ExpansionRAM = TRUE
SPECIFICATION SystemSpec
INVARIANT SingleStep
