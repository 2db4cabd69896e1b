SPECIFICATION Spec
CONSTANTS
    N <- CurveOrder
    XCoord <- CurveX
    YParity <- CurveYParity
INVARIANTS TypeOK ReturnsValid GivesUpExactly
CHECK_DEADLOCK FALSE
