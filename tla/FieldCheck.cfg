SPECIFICATION Spec
INVARIANTS
  MulIsFieldProduct
  DivInvertsMul
CHECK_DEADLOCK FALSE
