SPECIFICATION Spec
CONSTANTS
    ndata = 4
    Address <- MCAddress
    MaxAmount = 9
    Creator = 3
    Supply = 7
    Lines <- MCLines
INVARIANTS
    TypeOK
    AccountsFindable
    OneAnswerPerLine
PROPERTIES
    ImplementsToken
    CommandsAnswered
CHECK_DEADLOCK FALSE
