SPECIFICATION Spec
CONSTANTS
  t1 = t1 t2 = t2 t3 = t3
  NBUF = 2
  k1 = k1 k2 = k2 k3 = k3 k4 = k4
  v1 = v1 v2 = v2
  Thread <- Threads
  Block <- Blocks4
  Value <- Values
  NoThread = NoThread
  NoBlock = NoBlock
  NoValue = NoValue
SYMMETRY Symm
INVARIANTS
  OneBufPerBlock
  RefcntExact
  SleeperHasHolder
PROPERTIES
  PanicNeedsAll
  ImplementsBlockStore
