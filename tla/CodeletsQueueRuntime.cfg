SPECIFICATION FairSpec
CONSTANTS
  Producers = {c1, c2}
  Consumers = {c1}
  Testers = {c1}
  QueueSize = 7
  CodeletSize = 3
  Codelets = {x, y}
  Garbage = Garbage
INVARIANT TypeOK
PROPERTIES CodeletInserted ImplementsFifo LockReleased
