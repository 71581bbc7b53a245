SPECIFICATION Spec
CONSTANTS
    StartFiles = {f1}
    NewNames = {f2}
    Codes <- MCCodes
    SmartCodes <- MCSmart
    EmptyCode = ""
    StartCode = "contract"
    SessionIds = {s1, s2, s3}
    MaxRequests = 2
    None = None
SYMMETRY Symmetry
INVARIANTS
    TypeOK
    BytecodeMatchesCode
    SessionRunsBytecode
PROPERTIES
    SelectingKeepsFiles
    EditorShowsText
    AreaShowsBytecode
CHECK_DEADLOCK FALSE
