SPECIFICATION FairSpec
CONSTANTS
  Cores = {c1, c2, c3}
  InitDep = 3
  NumCodelets = 2
  MaxWord = 7
CHECK_DEADLOCK FALSE
INVARIANTS TypeOK DependenciesCounted NoneTooEarly
PROPERTIES SlotFires
