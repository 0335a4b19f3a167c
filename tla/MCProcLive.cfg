SPECIFICATION FairSpec
CONSTANTS
  NPROC = 3
  c1 = c1
  c2 = c2
  Cpu <- OneCpu
  NoCpu = NoCpu
PROPERTIES
  RunnableRuns
  WaitReturns
  ExitTerminates
