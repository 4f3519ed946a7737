SPECIFICATION Spec
CONSTANTS
  Cores = {c1, c2}
  InitDep = 2
  NumCodelets = 1
  MaxWord = 7
CHECK_DEADLOCK FALSE
INVARIANTS FiresOnce
