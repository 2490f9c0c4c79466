SPECIFICATION Spec
CONSTANT MaxParts = 3
CHECK_DEADLOCK FALSE
INVARIANT ReturnsClean
