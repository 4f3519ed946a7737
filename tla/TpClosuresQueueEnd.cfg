SPECIFICATION Spec
CONSTANTS
  small = small
  large = large
  o1 = o1
  o2 = o2
  Pushers = {o1}
  Owners = {o2}
  QueueSize = 7
  Closures <- MCClosures
  ClosureSize <- MCClosureSize
  Garbage = Garbage
  InitialOwners = {0}
CHECK_DEADLOCK FALSE
PROPERTY PopRemoves
