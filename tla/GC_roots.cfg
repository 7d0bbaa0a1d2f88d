SPECIFICATION FairSpec
CONSTANTS
  Objects = {o1, o2}
  NULL = NULL
  Integer = Integer
  VM_STACK_MAX = 2
  MinThreshold = 1
INVARIANTS MarkedIsReach
PROPERTIES ImplementsHeap CollectionEnds
