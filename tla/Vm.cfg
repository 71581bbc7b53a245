SPECIFICATION Spec
CONSTANTS
    c1 = c1
    c2 = c2
    Programs <- MCProgramFiles
    LastReg <- MCLastReg
    WordMax <- MCWordMax
    Widths <- MCWidths
    Modulus <- MCModulus
    FullWidth = "w64"
    Names <- MCNames
    NameLen = 1
    Cell = {c1, c2}
    MaxDepth = 3
    AluOps <- MCAluOps
    DivOps <- MCDivOps
    Alu <- MCAlu
INVARIANTS
    TypeOK
    ControlMatchesCalls
    ReturnSites
PROPERTIES
    SuspendedFramesSafe
    CellsReachedByAddress
CHECK_DEADLOCK FALSE
