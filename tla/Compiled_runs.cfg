SPECIFICATION CompiledSpec
CONSTANTS
  StackSize = 4
  MemorySize = 4
  ReturnStackSize = 1
  IntBytes = 1
  HalfRange = 128
  MAX_CODE_SIZE = 127
  MAX_CODEGEN_VARS = 4
  MAX_SOURCE_MAP = 8
  Turns = 10
  Texts <- MCTexts
  Programs = {}
  Trees <- MCTrees
INVARIANTS ReadsAsWritten ImplementsCodegen CodeAsPromised CompiledFaults StackGivenBack AgreesWithEval
PROPERTIES EndsWithEval
