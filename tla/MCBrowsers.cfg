CONSTANTS
    AddressSpace = 9
    Map <- SmallMap
    Byte = {0, 1}
    RomByte = 1
    Expanded = TRUE
    LengthValues = 7
    PageSize = 3
    MaxInstr = 2
    Files <- SmallFiles
    Images <- Foreign
    c1 = c1
    c2 = c2
    Clients = {c1, c2}
    Stuck = {c2}
    QueueCap = 2
    MaxVersion = 3
SPECIFICATION BenchSpec
INVARIANTS
    BrowsersTypeOK
    NoSendOnClosed
    InOrder
PROPERTIES
    ClientsLeaveIO
    RestoreBrings
    LoadExact
    CatchesUp
