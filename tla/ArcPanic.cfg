SPECIFICATION Spec
CONSTANTS
  Keys = {k1, k2, k3, k4}
  Capacity = 2
  MaxDebt = 2
CHECK_DEADLOCK FALSE
INVARIANT
  NeverPanics
