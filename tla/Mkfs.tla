-------------------------------- MODULE Mkfs --------------------------------
(***************************************************************************)
(* The disk image that src/mkfs.c writes, as a function of the files it is *)
(* given.  mkfs runs once and by itself, so it is an algorithm: a fold of  *)
(* ialloc and iappend over the arguments.                                  *)
(*                                                                         *)
(* Sizes and offsets are counted in cells of 16 bytes, the size of a       *)
(* dirent.  A cell is <<>> where it is all zero, <<inum, name>> in a       *)
(* directory, <<name, k, "data">> as the k-th cell of a file and <<b>>     *)
(* as the pointer to block b in an indirect block.  Blocks are numbered as *)
(* on the disk; of the blocks below NMETA the inodes and the bitmap are    *)
(* components of the image, boot block, superblock and log are left out.   *)
(***************************************************************************)
EXTENDS Naturals, Sequences, SequencesExt, FiniteSets, FiniteSetsExt

CONSTANTS
  BSIZE,      \* cells of a block
  NDIRECT,    \* direct blocks of an inode
  NINDIRECT,  \* blocks that the indirect block names
  NINODES,    \* inodes on the disk
  NMETA,      \* nmeta: blocks before the data
  FSSIZE      \* blocks of the disk

ROOTINO  == 1
T_DIR    == 1
T_FILE   == 2
T_DEVICE == 3

Inum  == 0 .. NINODES - 1
Block == NMETA .. FSSIZE - 1

\* Places of a block: its cells, or the pointers if it is an indirect one.
Cells == 0 .. (IF BSIZE < NINDIRECT THEN NINDIRECT ELSE BSIZE) - 1

ASSUME MkfsAssumption ==
  /\ {BSIZE, NDIRECT, NINDIRECT, NMETA} \subseteq Nat \ {0}
  /\ NINODES \in Nat /\ NINODES > ROOTINO
  /\ FSSIZE \in Nat /\ FSSIZE > NMETA

\* struct dinode, zeroed; addrs[NDIRECT] is the indirect block.
NoDinode == [type |-> 0, major |-> 0, nlink |-> 0, size |-> 0,
             addrs |-> [n \in 0 .. NDIRECT |-> 0]]

-----------------------------------------------------------------------------
\* The disk after it was zeroed, with the counters of mkfs.
Zeroed ==
  [dinode |-> [i \in Inum |-> NoDinode],
   block  |-> [b \in Block |-> [c \in Cells |-> <<>>]],
   freeinode |-> 1, freeblock |-> NMETA]

ialloc(s, type) ==
  [s EXCEPT !.dinode[s.freeinode] =
              [NoDinode EXCEPT !.type = type, !.nlink = 1],
            !.freeinode = @ + 1]

\* iappend allocates the block that is missing.
Direct(s, i, n) ==
  IF s.dinode[i].addrs[n] # 0 THEN s
  ELSE [s EXCEPT !.dinode[i].addrs[n] = s.freeblock, !.freeblock = @ + 1]

\* Faulty variant: the block that the pointer names is not counted.
IndirectReused(s, i, n) ==
  LET t == Direct(s, i, NDIRECT)
      x == t.dinode[i].addrs[NDIRECT]
  IN  IF t.block[x][n] # <<>> THEN t
      ELSE [t EXCEPT !.block[x][n] = <<t.freeblock>>]

Indirect(s, i, n) ==
  LET t == Direct(s, i, NDIRECT)
      x == t.dinode[i].addrs[NDIRECT]
  IN  IF t.block[x][n] # <<>> THEN t
      ELSE [t EXCEPT !.block[x][n] = <<t.freeblock>>, !.freeblock = @ + 1]

\* One round of iappend's loop, for one cell.
AppendCell(s, i, c) ==
  LET off == s.dinode[i].size
      n   == off \div BSIZE
      t   == IF n < NDIRECT THEN Direct(s, i, n) ELSE Indirect(s, i, n - NDIRECT)
      a   == t.dinode[i].addrs
      x   == IF n < NDIRECT THEN a[n] ELSE t.block[a[NDIRECT]][n - NDIRECT][1]
  IN  [t EXCEPT !.block[x][off % BSIZE] = c, !.dinode[i].size = off + 1]

iappend(s, i, cells) ==
  FoldLeft(LAMBDA t, c : AppendCell(t, i, c), s, cells)

-----------------------------------------------------------------------------
\* main: the root with "." and "..", then the files, in argument order.
Root ==
  iappend(ialloc(Zeroed, T_DIR), ROOTINO, << <<ROOTINO, ".">>, <<ROOTINO, "..">> >>)

Contents(f) == [k \in 1 .. f.size |-> <<f.name, k, "data">>]

AddFile(s, f) ==
  LET i == s.freeinode
      t == iappend(ialloc(s, T_FILE), ROOTINO, << <<i, f.name>> >>)
  IN  iappend(t, i, Contents(f))

\* "fix size of root inode dir": the next multiple of BSIZE, also of a size
\* that is one already.
FixRoot(s) ==
  [s EXCEPT !.dinode[ROOTINO].size = ((@ \div BSIZE) + 1) * BSIZE]

mkfs(argv) == FixRoot(FoldLeft(AddFile, Root, argv))

\* balloc(freeblock): the blocks marked in the bitmap.
Marked(s) == 0 .. s.freeblock - 1

\* The inode that mkfs gives to the j-th file.
InodeOf(j) == ROOTINO + j
=============================================================================
