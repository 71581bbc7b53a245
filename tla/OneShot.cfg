SPECIFICATION Spec
CONSTANTS
    Requests = {r1, r2}
    Codes <- MCCodes
    SmartLoop <- MCLoop
    Compiled <- MCCompiled
    Sentences <- MCSentences
    Scripts <- MCScripts
    token = token
    loop = loop
    PipeSize = 1
    Absent = Absent
INVARIANTS
    TypeOK
    ReplyIsOwnBytecode
    VmRunsOwnText
    FilesRemoved
PROPERTIES
    RepliesComplete
    RequestsAnswered
CHECK_DEADLOCK FALSE
