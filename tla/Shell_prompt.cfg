SPECIFICATION FairSpec
CONSTANTS
  MAX_ARGV = 3
  Procs = {p1}
  Pipes = {f1}
  NoPipe = NoPipe
  Lines <- MCLines
  PIPE_BUF = 1
  MaxOutput = 1
PROPERTIES Reprompts
