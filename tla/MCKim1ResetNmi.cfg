\* A stock board: code below the ROMs and in them.
CONSTANTS
    Addr <- BoardAddr
    ResetVector = 2
    NmiVector = 3
    IrqVector = 4
    PCHistoryLen = 3
    AppROMStart = 2
    ExpRAMStart = 5
    HwVectorStart = 6
    ExpansionRAM = FALSE
SPECIFICATION SystemSpec
INVARIANT ResetStartsAfresh
