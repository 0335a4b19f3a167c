SPECIFICATION Spec
CONSTANTS
  p1 = p1 p2 = p2
  k1 = k1 k2 = k2 k3 = k3
  Proc <- Procs
  initp = p1
  NoProc = NoProc
  Inum <- Inums
  ROOTINO = k1
  NFILE = 2
  INODES = 2
  OPENFILE = 2
  MaxRef = 4
INVARIANTS
  FileRefExact
  OneEntryPerInode
  RefCovers
CHECK_DEADLOCK FALSE
