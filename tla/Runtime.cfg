SPECIFICATION FairSpec
CONSTANTS
  CoreBits = 2
  OffsetBits = 3
  SU = 1
  CUs = {2, 3}
  Codelets <- MCCodelets
  Calls <- MCCalls
  Queued <- MCQueued
  Slots <- MCSlots
  InitDep <- MCInitDep
  NumCodelets <- MCNumCodelets
  Template <- MCTemplate
  MaxWord = 7
  Room = 3
  ClosureRoom = 2
INVARIANTS TypeOK DependencyOrder
PROPERTIES SlotsFire CallsReturn NoneFiredAfterTheEnd LeavesWhenTold
