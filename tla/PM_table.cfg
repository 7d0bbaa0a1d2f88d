SPECIFICATION Spec
CONSTANTS
  MAX_PROGRAMS = 3
  VMs = {v1, v2, v3, v4}
  NULL = NULL
SYMMETRY Symmetry
INVARIANTS TypeOK VMsOwned StateTellsVM
PROPERTIES Lifecycle
