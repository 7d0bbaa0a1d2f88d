SPECIFICATION Spec
CONSTANTS
  Objects = {o1, o2, o3}
  NULL = NULL
  Integer = Integer
  VM_STACK_MAX = 1
  MinThreshold = 2
SYMMETRY Symmetry
INVARIANTS TypeOK HeapIsList NoDangling MarksCleared DepthBounded
PROPERTIES GrowthBounded
