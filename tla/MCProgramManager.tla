--------------------------- MODULE MCProgramManager ---------------------------
EXTENDS ProgramManager, TLC

Symmetry == Permutations(VMs)
=============================================================================
