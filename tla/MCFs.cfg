SPECIFICATION FairSpec
CONSTANTS
  p1 = p1 p2 = p2
  Proc <- Procs
  NoProc = NoProc
  Argv <- Images
  OpenName <- Opened
  ExecName <- Executed
  NewName <- Made
  NodName <- Nodes
  Major <- Majors
  BSIZE = 4
  NDIRECT = 2
  NINDIRECT = 2
  NINODES = 4
  NMETA = 3
  FSSIZE = 9
  NDEV = 10
  MAXFILE = 4
  CanCrash = TRUE
INVARIANTS
  EntriesNameInodes
  WellFormed
  BlocksOwned
  ReadsWhatMkfsWrote
PROPERTY
  NameStable
  RootGivenBack
