SPECIFICATION Spec
CONSTANTS
    ndata = 4
    Address <- MCAddress
    MaxAmount = 9
    Creator = 3
    Supply = 7
    Lines <- MCLines
INVARIANTS
    TokensConserved
CHECK_DEADLOCK FALSE
