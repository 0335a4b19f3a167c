SPECIFICATION Spec
CONSTANTS
  c1 = c1 c2 = c2
  t1 = t1 t2 = t2
  o1 = o1 i1 = i1
  Cpu <- Cpus
  Thread <- Threads
  Outer <- Outers
  Inner <- Inners
  NoCpu = NoCpu
  None = None
SYMMETRY Symm
INVARIANTS
  MutualExclusion
  HeldMeansOff
  NoPanic
  InterruptsAsSet
