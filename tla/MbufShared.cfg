SPECIFICATION Spec
CONSTANTS
  NBufs = 2
INVARIANTS HoldsACopy
CHECK_DEADLOCK FALSE
