SPECIFICATION DebuggerSpec
CONSTANTS
  StackSize = 4
  MemorySize = 2
  ReturnStackSize = 1
  IntBytes = 1
  HalfRange = 128
  MAX_CODE_SIZE = 100
  MAX_CODEGEN_VARS = 2
  MAX_SOURCE_MAP = 30
  MAX_BREAKPOINTS = 3
  Lines = {0, 1, 2, 3, 4, 5}
  Files <- MCFiles
  Programs <- MCPrograms
  Starts <- MCStarts
PROPERTY ContinueStopsAtLine
