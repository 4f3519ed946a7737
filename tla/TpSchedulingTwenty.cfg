SPECIFICATION Spec
CHECK_DEADLOCK FALSE
CONSTANTS
  Unset = Unset
  Program <- MCProgramTwenty
  MaxWord = 3
  Cores = {1, 2, 3, 4}
  Leader = 1
  Experiments <- MCExperimentsTwenty
  QueueWords = 28
INVARIANTS ArgumentsArrive
