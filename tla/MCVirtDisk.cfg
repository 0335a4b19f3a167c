SPECIFICATION FairSpec
CONSTANTS
  NUM = 8
  IdxMod = 16
  t1 = t1
  t2 = t2
  t3 = t3
  Thread <- ThreeThreads
  NoThread = NoThread
  Smp = FALSE
INVARIANTS
  DeviceOwnsChain
  NoDescriptorLeak
  NoLostCompletion
PROPERTY
  RequestReturns
