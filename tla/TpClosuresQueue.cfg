SPECIFICATION Spec
CONSTANTS
  small = small
  large = large
  o1 = o1
  o2 = o2
  Pushers = {o1, o2}
  Owners = {o1, o2}
  QueueSize = 7
  Closures <- MCClosures
  ClosureSize <- MCClosureSize
  Garbage = Garbage
  InitialOwners = {0, o1, o2, stale}
CHECK_DEADLOCK FALSE
SYMMETRY MCCoresAlike
INVARIANTS TypeOK CheckedOwnerStays
PROPERTIES MutexGivenBack FifoUnlessStranded
