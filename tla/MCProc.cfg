SPECIFICATION Spec
SYMMETRY CpuSymmetry
CONSTANTS
  NPROC = 3
  c1 = c1
  c2 = c2
  Cpu <- TwoCpus
  NoCpu = NoCpu
INVARIANTS
  TypeOK
  OneCpuPerProc
  SwitchHoldsOnlySlock
  NoLostWakeup
  NoOrphan
PROPERTY
  ReapedByParent
