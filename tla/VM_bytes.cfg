SPECIFICATION FairSpec
CONSTANTS
  StackSize = 2
  MemorySize = 2
  ReturnStackSize = 2
  IntBytes = 1
  HalfRange = 128
  MaxLength = 4
  Programs <- MCPrograms
INVARIANTS TypeOK ErrorStops ReturnsFollowCalls OKMeansHalted
PROPERTIES FaultsOnlyPop ForwardCodeReturns
