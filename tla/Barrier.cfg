SPECIFICATION FairSpec
CONSTANTS
  Threads = {t1, t2, t3, t4}
  Null = Null
INVARIANTS TypeOK PendingSignals
PROPERTIES EveryoneLeaves ImplementsPhases
