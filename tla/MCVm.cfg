SPECIFICATION Spec
CONSTANTS
  NPROC = 2
  PHYSPAGES = 22
  MAXPAGE = 23
  LEVELS = 2
  SegmentEnd <- Ends
  SbrkPages <- Amounts
  Pick <- Lowest
INVARIANTS
  PageExclusive
  MappedBelowSz
VIEW UpToNames
PROPERTY
  LostOnlyInAllocproc
CHECK_DEADLOCK FALSE
