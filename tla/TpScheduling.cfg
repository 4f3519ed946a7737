SPECIFICATION FairSpec
CHECK_DEADLOCK FALSE
CONSTANTS
  Unset = Unset
  Program <- MCProgram
  MaxWord = 3
  Cores = {1, 2, 3, 4}
  Leader = 1
  Experiments <- MCExperiments
  QueueWords = 10
INVARIANTS TypeOK ArgumentsArrive BuiltOnce FiredInOrder CodeletsDone
PROPERTIES TestEnds
