CONSTANTS
    AddressSpace = 9
    Map <- SmallMap
    Byte = {0, 1}
    RomByte = 1
    Expanded = FALSE
    LengthValues = 7
    PageSize = 3
    MaxInstr = 2
    Files <- SmallFiles
    Images <- Foreign
SPECIFICATION MemorySpec
INVARIANT WellFormedLoads
