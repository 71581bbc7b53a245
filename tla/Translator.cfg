SPECIFICATION Spec
CONSTANTS
    Modules <- MCModules
    NoId = 0
    Mangle <- MCMangle
    FullWidth = "w64"
    LastReg = 47
    WordMax <- MCWordMax
    Widths <- MCWidths
    Names <- MCNames
    NameLen = 1
    AluOps <- MCAluOps
INVARIANTS
    TypeOK
    OutputWellFormed
    OnlyJumpsAreDead
    BlocksKeepMeaning
CHECK_DEADLOCK FALSE
