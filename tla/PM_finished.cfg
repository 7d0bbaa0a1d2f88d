SPECIFICATION Spec
CONSTANTS
  MAX_PROGRAMS = 1
  VMs = {v1, v2}
  NULL = NULL
INVARIANTS FinishedWithoutFault
