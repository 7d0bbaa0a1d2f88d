SPECIFICATION FairSpec
CONSTANTS
  MAX_ARGV = 3
  Procs = {p1, p2, p3}
  Pipes = {f1}
  NoPipe = NoPipe
  Lines <- MCLines
  PIPE_BUF = 1
  MaxOutput = 2
INVARIANTS TypeOK ZombiesNoticed NoStrayEnds
PROPERTIES WaitsForItsOwn ImplementsJobs ZombiesReaped CommandsReturn
