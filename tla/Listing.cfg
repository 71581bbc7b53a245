SPECIFICATION Spec
CONSTANTS
    Programs <- MCProgramFiles
    LastReg = 3
    WordMax <- MCWordMax
    Widths <- MCWidths
    Names <- MCNames
    NameLen = 1
    AluOps <- MCAluOps
INVARIANTS
    TypeOK
    ListsWhatRuns
CHECK_DEADLOCK FALSE
