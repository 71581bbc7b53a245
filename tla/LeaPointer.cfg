SPECIFICATION Spec
CONSTANTS
    c1 = c1
    c2 = c2
    Programs <- PointingPrograms
    LastReg <- MCLastReg
    WordMax <- MCWordMax
    Widths <- MCWidths
    Modulus <- MCModulus
    FullWidth = "w64"
    Names <- MCNames
    NameLen = 1
    Cell = {c1}
    MaxDepth = 3
    AluOps <- MCAluOps
    DivOps <- MCDivOps
    Alu <- MCAlu
INVARIANTS
    LeaAddressesRegister
CHECK_DEADLOCK FALSE
