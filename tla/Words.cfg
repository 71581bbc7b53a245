SPECIFICATION Spec
CONSTANTS
    FullWidth = 5
    HalfWidth = 3
    Types <- MCTypes
    BitAnd <- MCAnd
    BitOr <- MCOr
    BitXor <- MCXor
INVARIANTS
    TypeOK
    ArithmeticExact
    ComparisonsExact
    CastsExact
CHECK_DEADLOCK FALSE
