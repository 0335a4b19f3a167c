------------------------------ MODULE FsProofs ------------------------------
(***************************************************************************)
(* Proofs about Fs, for every number of processes, every size of the disk, *)
(* of a block and of an inode.                                             *)
(*                                                                         *)
(* The theorems start from an image that is well formed (WellFormed).      *)
(* That mkfs writes such images is not proved here: its fold over the      *)
(* files is an induction over data.  TLC checks it on the images of MCFs.  *)
(***************************************************************************)
EXTENDS Fs, FiniteSetTheorems, SequenceTheorems, WellFoundedInduction, TLAPS

(***************************************************************************)
(* Arithmetic: division with remainder for a divisor that is not a         *)
(* numeral, the places of a block, and the least element of a set.         *)
(***************************************************************************)
LEMMA Division ==
  ASSUME NEW x \in Nat, NEW N \in Nat, N > 0
  PROVE  /\ x \div N \in Nat /\ x % N \in 0 .. N - 1
         /\ x = N * (x \div N) + (x % N)
<1>1. x = N * (x \div N) + (x % N)
  BY Z3
<1>2. x \div N \in Nat
  OBVIOUS
<1>3. x % N \in 0 .. N - 1
  OBVIOUS
<1> QED BY <1>1, <1>2, <1>3

LEMMA TimesLess ==
  ASSUME NEW a \in Nat, NEW b \in Nat, NEW N \in Nat, N > 0, a <= b
  PROVE  a * N <= b * N /\ a * N \in Nat /\ b * N \in Nat
OBVIOUS

\* Places of the same block.
LEMMA Places ==
  ASSUME NEW x \in Nat, NEW N \in Nat, N > 0, NEW t \in Nat,
         (x % N) + t < N
  PROVE  (x + t) \div N = x \div N /\ (x + t) % N = (x % N) + t
<1> DEFINE q == x \div N
           r == x % N
           y == x + t
<1>1. q \in Nat /\ r \in 0 .. N - 1 /\ x = N * q + r
  BY Division
<1>2. y \in Nat /\ y \div N \in Nat /\ y % N \in 0 .. N - 1
      /\ y = N * (y \div N) + (y % N)
  BY Division
<1> DEFINE u == y \div N
           v == y % N
<1>3. r + t \in 0 .. N - 1 /\ y = N * q + (r + t)
  BY <1>1
<1> HIDE DEF q, r, y, u, v
<1>4. u = q
  <2>1. CASE u < q
    <3>1. (u + 1) * N <= q * N /\ (u + 1) * N = N * u + N /\ q * N = N * q
      BY <1>1, <1>2, <2>1, TimesLess DEF u
    <3> QED BY <1>1, <1>2, <1>3, <3>1 DEF u, v
  <2>2. CASE q < u
    <3>1. (q + 1) * N <= u * N /\ (q + 1) * N = N * q + N /\ u * N = N * u
      BY <1>1, <1>2, <2>2, TimesLess DEF u
    <3> QED BY <1>1, <1>2, <1>3, <3>1 DEF u, v
  <2> QED BY <1>1, <1>2, <2>1, <2>2 DEF u
<1>5. v = r + t
  <2>1. y = N * q + v
    BY <1>2, <1>4 DEF u, v
  <2>2. N * q \in Int /\ v \in Int /\ r + t \in Int
    BY <1>1, <1>2, <1>3 DEF v
  <2> QED BY <1>3, <2>1, <2>2
<1> QED BY <1>4, <1>5 DEF q, r, y, u, v

LEMMA FirstBlock ==
  ASSUME NEW x \in Nat, NEW N \in Nat, N > 0
  PROVE  /\ x < N => x \div N = 0 /\ x % N = x
         /\ x \div N = 0 => x < N /\ x % N = x
<1>1. 0 \div N = 0 /\ 0 % N = 0
  OBVIOUS
<1>2. x < N => x \div N = 0 /\ x % N = x
  BY <1>1, Places
<1>3. x \div N = 0 => x < N /\ x % N = x
  <2>1. x % N \in 0 .. N - 1 /\ x = N * (x \div N) + (x % N)
    BY Division
  <2> QED BY <2>1
<1> QED BY <1>2, <1>3

LEMMA MinFacts ==
  ASSUME NEW S \in SUBSET Nat, S # {}
  PROVE  Min(S) \in S /\ \A x \in S : Min(S) <= x
<1> DEFINE R == OpToRel(<, Nat)
<1>1. \A x, y \in Nat : <<y, x>> \in R <=> y < x
  BY DEF OpToRel
<1>2. IsWellFoundedOn(R, Nat)
  BY NatLessThanWellFounded
<1> HIDE DEF R
<1>3. PICK m \in S : \A y \in S : ~(<<y, m>> \in R)
  BY <1>2, WFMin
<1>4. ASSUME NEW y \in S PROVE m =< y
  <2>1. m \in Nat /\ y \in Nat /\ ~(<<y, m>> \in R)
    BY <1>3
  <2>2. ~(y < m)
    BY <1>1, <2>1
  <2> QED BY <2>1, <2>2
<1> QED BY <1>4 DEF Min

\* The least element is known when one is found.
LEMMA MinIs ==
  ASSUME NEW S \in SUBSET Nat, NEW k \in S, \A x \in S : k <= x
  PROVE  Min(S) = k
<1>1. Min(S) \in S /\ \A x \in S : Min(S) <= x
  BY MinFacts
<1>2. Min(S) \in Nat /\ k \in Nat /\ Min(S) <= k /\ k <= Min(S)
  BY <1>1
<1> QED BY <1>2

-----------------------------------------------------------------------------
(***************************************************************************)
(* The root directory on the disk, slot by slot.                           *)
(***************************************************************************)
HoleSet == Holes(Dir)
SlotSet == Slots(Dir)
Cell(k) == Entry(Dir, k)
Ino(k)  == InumAt(Dir, k)
Nam(k)  == NameAt(Dir, k)

PtrNo == 0 .. NDIRECT + NINDIRECT

\* No entry names inode i.
Nameless(i) == \A k \in SlotSet : Cell(k) # <<>> => Ino(k) # i

(***************************************************************************)
(* WellFormed, in these terms.                                             *)
(***************************************************************************)
DiskType ==
  /\ dinode \in [Inum -> Dinode]
  /\ DOMAIN block = Block /\ \A b \in Block : DOMAIN block[b] = Cells
  /\ \A i \in Inum : dinode[i].type = 0 => dinode[i] = NoDinode

RootShape ==
  /\ Dir.type # 0 /\ Dir.addrs[0] # 0
  /\ BSIZE <= Dir.size /\ Dir.size <= NDIRECT * BSIZE
  /\ \A m \in HoleSet : \A n \in m .. NDIRECT - 1 : Dir.addrs[n] = 0

SlotOrder ==
  /\ \A k, l \in SlotSet : Ino(k) # 0 /\ Ino(l) = 0 => k < l
  /\ HoleSet # {} => \A k \in 0 .. BSIZE - 1 : Ino(k) # 0

EntriesInv ==
  /\ \A k \in SlotSet : Cell(k) # <<>> =>
       Ino(k) \in Inum /\ dinode[Ino(k)].type # 0 /\ dinode[Ino(k)].nlink = 1
  /\ \A k, l \in SlotSet : Cell(k) # <<>> /\ Cell(l) # <<>> =>
       (Ino(k) = Ino(l) /\ Ino(k) # ROOTINO => k = l)

FreeBlocksZero ==
  /\ 0 .. NMETA - 1 \subseteq bitmap
  /\ \A b \in Block \ bitmap : \A c \in 0 .. BSIZE - 1 : block[b][c] = <<>>

PointersApart ==
  \A i, j \in Inum, m, n \in PtrNo :
    Pointer(i, m) # 0 =>
      /\ Pointer(i, m) \in bitmap /\ Pointer(i, m) \in Block
      /\ Pointer(j, n) = Pointer(i, m) => j = i /\ n = m

FilesInv ==
  \A j \in DOMAIN argv :
    /\ InodeOf(j) \in Inum \ {ROOTINO}
    /\ dinode[InodeOf(j)].size = argv[j].size
    /\ \A off \in 0 .. argv[j].size - 1 :
         /\ off \div BSIZE < NDIRECT + NINDIRECT
         /\ Pointer(InodeOf(j), off \div BSIZE) # 0
         /\ block[Pointer(InodeOf(j), off \div BSIZE)][off % BSIZE]
              = Contents(argv[j])[off + 1]

DiskInv ==
  /\ DiskType /\ RootShape /\ SlotOrder /\ EntriesInv
  /\ FreeBlocksZero /\ PointersApart /\ FilesInv

-----------------------------------------------------------------------------
(***************************************************************************)
(* What the kernel keeps in memory.                                        *)
(***************************************************************************)
Labels == {"user", "dirlock", "lookup", "locknew", "dirlink", "linked",
           "putnew", "ilock", "use", "panic", "halt"}

TypeOK ==
  /\ ilk \in [Inum -> Proc \cup {NoProc}]
  /\ pc \in [Proc -> Labels]
  /\ ip \in [Proc -> Inum]
  /\ DOMAIN arg = Proc
  /\ \A p \in Proc : arg[p].major \in Major \cup {0}
  /\ bitmap \subseteq bm

\* The cached root is the one on the disk, but for holes that were filled with
\* blocks free on the disk.
RootIsCopy ==
  /\ root \in Dinode
  /\ root.type = Dir.type /\ root.major = Dir.major
  /\ root.nlink = Dir.nlink /\ root.size = Dir.size
  /\ \A n \in 0 .. NDIRECT :
       IF n \in HoleSet THEN root.addrs[n] = 0 \/ root.addrs[n] \notin bitmap
       ELSE root.addrs[n] = Dir.addrs[n]

RootCopy == root = NoDinode \/ RootIsCopy

\* A process at one of these labels works on the root under its lock.
InRoot == {"lookup", "locknew", "dirlink", "linked"}

\* A new inode is nobody else's until its entry is written, and is complete
\* before that.
Control(p) ==
  /\ pc[p] \in InRoot => ilk[ROOTINO] = p /\ RootIsCopy
  /\ pc[p] \in {"dirlink", "linked", "putnew", "use"} => ilk[ip[p]] = p
  /\ pc[p] \in {"locknew", "dirlink", "linked", "putnew"} => ip[p] # ROOTINO
  /\ pc[p] \in {"locknew", "dirlink"} =>
       /\ dinode[ip[p]].type # 0
       /\ \A k \in SlotSet : Cell(k) # <<>> => Ino(k) # ip[p]
  /\ pc[p] = "dirlink" => dinode[ip[p]].nlink = 1
  /\ pc[p] = "linked" => root = Dir

IInv == DiskInv /\ TypeOK /\ RootCopy /\ \A p \in Proc : Control(p)

-----------------------------------------------------------------------------
(***************************************************************************)
(* The constants.                                                          *)
(***************************************************************************)
LEMMA Constants ==
  /\ BSIZE \in Nat /\ BSIZE > 0 /\ NDIRECT \in Nat /\ NDIRECT > 0
  /\ NINDIRECT \in Nat /\ NINDIRECT > 0 /\ 0 .. BSIZE - 1 \subseteq Cells
  /\ NMETA \in Nat /\ NMETA > 0 /\ FSSIZE \in Nat
  /\ NINODES \in Nat /\ MAXFILE \in Nat /\ MAXFILE <= BSIZE
  /\ ROOTINO = 1 /\ ROOTINO \in Inum /\ 0 \in Inum /\ Inum \subseteq Nat
  /\ Block \subseteq Nat /\ 0 \notin Block /\ NoProc \notin Proc
<1>1. {BSIZE, NDIRECT, NINDIRECT, NMETA} \subseteq Nat \ {0}
  BY MkfsAssumption
<1>2. /\ BSIZE \in Nat \ {0} /\ NDIRECT \in Nat \ {0} /\ NINDIRECT \in Nat \ {0}
      /\ NMETA \in Nat \ {0}
  BY <1>1
<1>3. NINODES \in Nat /\ NINODES > ROOTINO /\ FSSIZE \in Nat
  BY MkfsAssumption
<1>4. MAXFILE \in Nat /\ MAXFILE <= BSIZE /\ NoProc \notin Proc
  BY FsAssumption
<1>5. 0 .. BSIZE - 1 \subseteq Cells
  BY <1>2 DEF Cells
<1> QED BY <1>2, <1>3, <1>4, <1>5 DEF ROOTINO, Inum, Block

(***************************************************************************)
(* Holes, slots and cells of the root lie in direct blocks.                *)
(***************************************************************************)
LEMMA HoleSetIs ==
  HoleSet = {n \in 0 .. NDIRECT - 1 : n * BSIZE < Dir.size /\ Dir.addrs[n] = 0}
<1>1. \A n \in 0 .. NDIRECT - 1 : bmap(Dir, n) = Dir.addrs[n]
  BY Constants DEF bmap
<1> QED BY <1>1 DEF HoleSet, Holes

LEMMA SlotSetIs ==
  SlotSet = {k \in 0 .. Dir.size - 1 : \A n \in HoleSet : k \div BSIZE < n}
BY DEF SlotSet, Slots, HoleSet

LEMMA CellIs ==
  ASSUME NEW k, k \div BSIZE < NDIRECT
  PROVE  Cell(k) = block[Dir.addrs[k \div BSIZE]][k % BSIZE]
BY DEF Cell, Entry, bmap

LEMMA CellIsPrime ==
  ASSUME NEW k, k \div BSIZE < NDIRECT
  PROVE  Cell(k)' = block'[Dir'.addrs[k \div BSIZE]][k % BSIZE]
BY DEF Cell, Entry, bmap, Dir

LEMMA InoIs ==
  ASSUME NEW k
  PROVE  /\ Ino(k) = IF Cell(k) = <<>> THEN 0 ELSE Cell(k)[1]
         /\ Nam(k) = IF Cell(k) = <<>> THEN "" ELSE Cell(k)[2]
BY DEF Ino, InumAt, Nam, NameAt, Cell

LEMMA InoIsPrime ==
  ASSUME NEW k
  PROVE  /\ Ino(k)' = IF Cell(k)' = <<>> THEN 0 ELSE Cell(k)'[1]
         /\ Nam(k)' = IF Cell(k)' = <<>> THEN "" ELSE Cell(k)'[2]
BY DEF Ino, InumAt, Nam, NameAt, Cell, Entry, bmap, Dir

LEMMA RootOnDisk ==
  ASSUME DiskType, RootShape
  PROVE  /\ Dir \in Dinode /\ Dir.size \in Nat
         /\ \A n \in 0 .. NDIRECT : Dir.addrs[n] \in Block \cup {0}
         /\ \A n \in 0 .. NDIRECT - 1 : Pointer(ROOTINO, n) = Dir.addrs[n]
<1>1. Dir \in Dinode
  BY Constants DEF DiskType, Dir
<1>2. \A n \in 0 .. NDIRECT - 1 : Pointer(ROOTINO, n) = Dir.addrs[n]
  BY Constants DEF Pointer, bmap, Dir
<1> QED BY <1>1, <1>2 DEF Dinode

LEMMA SlotFacts ==
  ASSUME DiskType, RootShape, NEW k \in SlotSet
  PROVE  /\ k \in Nat /\ k < Dir.size
         /\ k \div BSIZE \in 0 .. NDIRECT - 1 /\ k \div BSIZE < NDIRECT
         /\ k % BSIZE \in 0 .. BSIZE - 1
         /\ Dir.addrs[k \div BSIZE] # 0
<1> DEFINE q == k \div BSIZE
<1>1. k \in Nat /\ k < Dir.size /\ \A n \in HoleSet : q < n
  BY SlotSetIs, RootOnDisk
<1>2. q \in Nat /\ k % BSIZE \in 0 .. BSIZE - 1 /\ k = BSIZE * q + (k % BSIZE)
  BY <1>1, Division, Constants
<1> HIDE DEF q
<1>3. q * BSIZE = BSIZE * q /\ q * BSIZE <= k /\ q * BSIZE \in Nat
  BY <1>1, <1>2, Constants
<1>4. q < NDIRECT
  <2>1. SUFFICES ASSUME NDIRECT <= q PROVE FALSE
    BY <1>2, Constants
  <2>2. NDIRECT * BSIZE <= q * BSIZE /\ NDIRECT * BSIZE \in Nat
    BY <1>2, <2>1, Constants, TimesLess
  <2> QED BY <1>1, <1>3, <2>2, RootOnDisk DEF RootShape
<1>5. Dir.addrs[q] # 0
  <2>1. SUFFICES ASSUME Dir.addrs[q] = 0 PROVE FALSE
    OBVIOUS
  <2>2. q \in HoleSet
    BY <1>1, <1>2, <1>3, <1>4, <2>1, HoleSetIs, Constants, RootOnDisk
  <2>3. q < q
    BY <1>1, <2>2 DEF q
  <2> QED BY <1>2, <2>3
<1> QED BY <1>1, <1>2, <1>4, <1>5, Constants DEF q

\* The first block is not missing; its places are slots unless nothing is.
LEMMA FirstSlots ==
  ASSUME DiskType, RootShape, NEW k \in 0 .. BSIZE - 1
  PROVE  k \in SlotSet
<1>1. k \in Nat /\ k \div BSIZE = 0 /\ k \in 0 .. Dir.size - 1
  BY Constants, FirstBlock, RootOnDisk DEF RootShape
<1>2. \A n \in HoleSet : 0 < n
  BY HoleSetIs, Constants DEF RootShape
<1> QED BY <1>1, <1>2, SlotSetIs

(***************************************************************************)
(* Pointers.                                                               *)
(***************************************************************************)
LEMMA PointerIs ==
  ASSUME NEW i, NEW n \in PtrNo
  PROVE  Pointer(i, n) =
           IF n < NDIRECT THEN dinode[i].addrs[n]
           ELSE IF n = NDIRECT + NINDIRECT THEN dinode[i].addrs[NDIRECT]
           ELSE IF dinode[i].addrs[NDIRECT] = 0 THEN 0
           ELSE IF block[dinode[i].addrs[NDIRECT]][n - NDIRECT] = <<>> THEN 0
           ELSE block[dinode[i].addrs[NDIRECT]][n - NDIRECT][1]
BY Constants DEF Pointer, bmap, PtrNo

LEMMA PointerIsPrime ==
  ASSUME NEW i, NEW n \in PtrNo
  PROVE  Pointer(i, n)' =
           IF n < NDIRECT THEN dinode'[i].addrs[n]
           ELSE IF n = NDIRECT + NINDIRECT THEN dinode'[i].addrs[NDIRECT]
           ELSE IF dinode'[i].addrs[NDIRECT] = 0 THEN 0
           ELSE IF block'[dinode'[i].addrs[NDIRECT]][n - NDIRECT] = <<>> THEN 0
           ELSE block'[dinode'[i].addrs[NDIRECT]][n - NDIRECT][1]
BY Constants DEF Pointer, bmap, PtrNo

\* Pointers stay when the inodes keep theirs and no indirect block is written.
LEMMA PointersKept ==
  ASSUME \A i \in Inum : dinode'[i].addrs = dinode[i].addrs,
         \A i \in Inum : dinode[i].addrs[NDIRECT] # 0 =>
           block'[dinode[i].addrs[NDIRECT]] = block[dinode[i].addrs[NDIRECT]],
         NEW i \in Inum, NEW n \in PtrNo
  PROVE  Pointer(i, n)' = Pointer(i, n)
<1>1. dinode'[i].addrs = dinode[i].addrs
  OBVIOUS
<1>2. dinode[i].addrs[NDIRECT] # 0 =>
           block'[dinode[i].addrs[NDIRECT]] = block[dinode[i].addrs[NDIRECT]]
  OBVIOUS
<1> QED BY <1>1, <1>2, PointerIs, PointerIsPrime

(***************************************************************************)
(* The directory is found in the same place when the root's inode stays.   *)
(***************************************************************************)
LEMMA SlotsKept ==
  ASSUME dinode'[ROOTINO] = dinode[ROOTINO]
  PROVE  Dir' = Dir /\ HoleSet' = HoleSet /\ SlotSet' = SlotSet
<1>1. Dir' = Dir
  BY DEF Dir
<1>2. HoleSet' = {n \in 0 .. NDIRECT - 1 : n * BSIZE < Dir'.size /\ Dir'.addrs[n] = 0}
  <2>1. \A n \in 0 .. NDIRECT - 1 : n < NDIRECT
    BY Constants
  <2> QED BY <2>1 DEF HoleSet, Holes, bmap, Dir
<1>3. HoleSet' = HoleSet
  BY <1>1, <1>2, HoleSetIs
<1>4. SlotSet' = {k \in 0 .. Dir'.size - 1 : \A n \in HoleSet' : k \div BSIZE < n}
  BY DEF SlotSet, Slots, HoleSet, Holes, bmap, Dir
<1> QED BY <1>1, <1>3, <1>4, SlotSetIs

\* The directory reads as before.
DirSame ==
  /\ Dir' = Dir /\ HoleSet' = HoleSet /\ SlotSet' = SlotSet
  /\ \A k \in SlotSet : Cell(k)' = Cell(k) /\ Ino(k)' = Ino(k) /\ Nam(k)' = Nam(k)

LEMMA DirKept ==
  ASSUME DiskType, RootShape, dinode'[ROOTINO] = dinode[ROOTINO], block' = block
  PROVE  DirSame
<1>1. Dir' = Dir /\ HoleSet' = HoleSet /\ SlotSet' = SlotSet
  BY SlotsKept
<1>2. ASSUME NEW k \in SlotSet
      PROVE  Cell(k)' = Cell(k) /\ Ino(k)' = Ino(k) /\ Nam(k)' = Nam(k)
  <2>1. k \div BSIZE < NDIRECT
    BY SlotFacts
  <2>2. Cell(k)' = Cell(k)
    BY <1>1, <2>1, CellIs, CellIsPrime
  <2> QED BY <2>2, InoIs, InoIsPrime
<1> QED BY <1>1, <1>2 DEF DirSame

-----------------------------------------------------------------------------
(***************************************************************************)
(* Writes of inodes.  ialloc and the two iupdates leave size and pointers  *)
(* as they are, and do not undo an inode that an entry may name.           *)
(***************************************************************************)
InodeWrite ==
  /\ argv' = argv /\ block' = block /\ bitmap' = bitmap
  /\ dinode' \in [Inum -> Dinode]
  /\ dinode'[ROOTINO] = dinode[ROOTINO]
  /\ \A i \in Inum :
       /\ dinode'[i].type = 0 => dinode'[i] = NoDinode
       /\ dinode'[i].addrs = dinode[i].addrs
       /\ dinode'[i].size = dinode[i].size
       /\ dinode[i].type # 0 => dinode'[i].type # 0
       /\ dinode[i].type # 0 /\ dinode[i].nlink = 1 => dinode'[i].nlink = 1

LEMMA InodeWriteKeeps ==
  ASSUME DiskInv, InodeWrite
  PROVE  DiskInv' /\ DirSame
<1> USE DEF DiskInv
<1>1. DirSame
  BY DirKept DEF InodeWrite
<1>2. \A i \in Inum, n \in PtrNo : Pointer(i, n)' = Pointer(i, n)
  BY PointersKept DEF InodeWrite
<1>3. DiskType'
  <2>1. DOMAIN block' = Block /\ \A b \in Block : DOMAIN block'[b] = Cells
    BY DEF DiskType, InodeWrite
  <2>2. dinode' \in [Inum -> Dinode]
    BY DEF InodeWrite
  <2>3. \A i \in Inum : dinode'[i].type = 0 => dinode'[i] = NoDinode
    BY DEF InodeWrite
  <2> QED BY <2>1, <2>2, <2>3 DEF DiskType, Dinode
<1>4. RootShape'
  BY <1>1 DEF RootShape, DirSame
<1>5. SlotOrder'
  <2>1. \A k \in 0 .. BSIZE - 1 : k \in SlotSet
    BY FirstSlots
  <2> QED BY <1>1, <2>1 DEF SlotOrder, DirSame
<1>6. EntriesInv'
  <2>1. ASSUME NEW k \in SlotSet, Cell(k)' # <<>>
        PROVE  /\ Ino(k)' \in Inum
               /\ dinode'[Ino(k)'].type # 0 /\ dinode'[Ino(k)'].nlink = 1
    <3>1. Cell(k) # <<>> /\ Ino(k)' = Ino(k)
      BY <1>1, <2>1 DEF DirSame
    <3>2. Ino(k) \in Inum /\ dinode[Ino(k)].type # 0 /\ dinode[Ino(k)].nlink = 1
      BY <3>1 DEF EntriesInv
    <3> QED BY <3>1, <3>2 DEF InodeWrite
  <2>2. \A k, l \in SlotSet : Cell(k)' # <<>> /\ Cell(l)' # <<>> =>
          (Ino(k)' = Ino(l)' /\ Ino(k)' # ROOTINO => k = l)
    BY <1>1 DEF EntriesInv, DirSame
  <2>3. SlotSet' = SlotSet
    BY <1>1 DEF DirSame
  <2> QED BY <2>1, <2>2, <2>3 DEF EntriesInv
<1>7. FreeBlocksZero'
  BY DEF FreeBlocksZero, InodeWrite
<1>8. PointersApart'
  BY <1>2 DEF PointersApart, InodeWrite
<1>9. FilesInv'
  <2>1. SUFFICES ASSUME NEW j \in DOMAIN argv
        PROVE  /\ InodeOf(j) \in Inum \ {ROOTINO}
               /\ dinode'[InodeOf(j)].size = argv[j].size
               /\ \A off \in 0 .. argv[j].size - 1 :
                    /\ off \div BSIZE < NDIRECT + NINDIRECT
                    /\ Pointer(InodeOf(j), off \div BSIZE)' # 0
                    /\ block[Pointer(InodeOf(j), off \div BSIZE)'][off % BSIZE]
                         = Contents(argv[j])[off + 1]
    BY DEF FilesInv, InodeWrite
  <2>2. InodeOf(j) \in Inum \ {ROOTINO} /\ dinode[InodeOf(j)].size = argv[j].size
    BY DEF FilesInv
  <2>3. dinode'[InodeOf(j)].size = argv[j].size /\ argv[j].size \in Nat
    BY <2>2 DEF InodeWrite, DiskType, Dinode
  <2>4. ASSUME NEW off \in 0 .. argv[j].size - 1
        PROVE  /\ off \div BSIZE < NDIRECT + NINDIRECT
               /\ Pointer(InodeOf(j), off \div BSIZE)' = Pointer(InodeOf(j), off \div BSIZE)
    <3>1. off \in Nat /\ off \div BSIZE \in Nat
      BY <2>3, Division, Constants
    <3>2. off \div BSIZE < NDIRECT + NINDIRECT
      BY DEF FilesInv
    <3>3. off \div BSIZE \in PtrNo
      BY <3>1, <3>2, Constants DEF PtrNo
    <3> QED BY <1>2, <2>2, <3>2, <3>3
  <2> QED BY <2>2, <2>3, <2>4 DEF FilesInv
<1> QED BY <1>1, <1>3, <1>4, <1>5, <1>6, <1>7, <1>8, <1>9

-----------------------------------------------------------------------------
(***************************************************************************)
(* The write of an entry, in the first slot that is free, for an inode     *)
(* that is complete and has no entry yet.                                  *)
(***************************************************************************)
EntryWrite(off, i, nm) ==
  /\ argv' = argv /\ dinode' = dinode /\ bitmap' = bitmap
  /\ block' = [block EXCEPT ![Dir.addrs[0]][off] = <<i, nm>>]
  /\ HoleSet = {}
  /\ off \in 0 .. BSIZE - 1 /\ Ino(off) = 0
  /\ \A k \in SlotSet : Ino(k) = 0 => off <= k
  /\ i \in Inum /\ i # ROOTINO /\ Nameless(i)
  /\ dinode[i].type # 0 /\ dinode[i].nlink = 1

EntryAdded(off, i, nm) ==
  /\ Dir' = Dir /\ HoleSet' = HoleSet /\ SlotSet' = SlotSet
  /\ \A k \in SlotSet \ {off} :
       Cell(k)' = Cell(k) /\ Ino(k)' = Ino(k) /\ Nam(k)' = Nam(k)
  /\ off \in SlotSet
  /\ Cell(off)' # <<>> /\ Ino(off)' = i /\ Nam(off)' = nm

\* The block written is the root's, and no other block changes.
LEMMA EntryWriteBlock ==
  ASSUME DiskInv, NEW off, NEW i, NEW nm, EntryWrite(off, i, nm)
  PROVE  LET x == Dir.addrs[0]
         IN  /\ x \in Block /\ x \in bitmap
             /\ \A j \in Inum, n \in PtrNo :
                  j # ROOTINO \/ n # 0 => Pointer(j, n) # x
             /\ \A b \in Block \ {x} : block'[b] = block[b]
             /\ \A c \in 0 .. BSIZE - 1 :
                  block'[x][c] = IF c = off THEN <<i, nm>> ELSE block[x][c]
             /\ DOMAIN block' = Block
             /\ \A b \in Block : DOMAIN block'[b] = Cells
<1> USE DEF DiskInv
<1> DEFINE x == Dir.addrs[0]
<1>1. x # 0 /\ x = Pointer(ROOTINO, 0) /\ 0 \in PtrNo
  BY RootOnDisk, Constants DEF RootShape, PtrNo
<1>2. x \in Block /\ x \in bitmap
  BY <1>1, Constants DEF PointersApart
<1>3. \A j \in Inum, n \in PtrNo : j # ROOTINO \/ n # 0 => Pointer(j, n) # x
  BY <1>1, Constants DEF PointersApart
<1>4. block' = [block EXCEPT ![x][off] = <<i, nm>>]
  BY DEF EntryWrite
<1>5. DOMAIN block = Block /\ \A b \in Block : DOMAIN block[b] = Cells
  BY DEF DiskType
<1> HIDE DEF x
<1>6. DOMAIN block' = Block /\ \A b \in Block \ {x} : block'[b] = block[b]
  BY <1>4, <1>5
<1>7. block'[x] = [block[x] EXCEPT ![off] = <<i, nm>>]
  BY <1>2, <1>4, <1>5
<1>8. \A c \in 0 .. BSIZE - 1 :
        block'[x][c] = IF c = off THEN <<i, nm>> ELSE block[x][c]
  BY <1>2, <1>5, <1>7, Constants
<1>9. \A b \in Block : DOMAIN block'[b] = Cells
  BY <1>2, <1>5, <1>6, <1>7
<1> QED BY <1>2, <1>3, <1>6, <1>8, <1>9 DEF x

LEMMA EntryWriteDir ==
  ASSUME DiskInv, NEW off, NEW i, NEW nm, EntryWrite(off, i, nm)
  PROVE  EntryAdded(off, i, nm)
<1> USE DEF DiskInv
<1> DEFINE x == Dir.addrs[0]
<1>1. Dir' = Dir /\ HoleSet' = HoleSet /\ SlotSet' = SlotSet
  BY SlotsKept DEF EntryWrite
<1>2. off \in 0 .. BSIZE - 1 /\ off \in Nat /\ off < BSIZE
  BY Constants DEF EntryWrite
<1>3. off \in SlotSet
  BY <1>2, FirstSlots
<1>4. ASSUME NEW k \in SlotSet, k # off
      PROVE  Cell(k)' = Cell(k) /\ Ino(k)' = Ino(k) /\ Nam(k)' = Nam(k)
  <2> DEFINE q == k \div BSIZE
  <2>1. k \in Nat /\ q \in 0 .. NDIRECT - 1 /\ q < NDIRECT
        /\ k % BSIZE \in 0 .. BSIZE - 1 /\ Dir.addrs[q] # 0
    BY SlotFacts
  <2>2. block'[Dir.addrs[q]][k % BSIZE] = block[Dir.addrs[q]][k % BSIZE]
    <3>1. CASE q = 0
      <4>1. k % BSIZE = k
        BY <2>1, <3>1, FirstBlock, Constants
      <4>2. \A c \in 0 .. BSIZE - 1 :
              block'[x][c] = IF c = off THEN <<i, nm>> ELSE block[x][c]
        BY EntryWriteBlock
      <4>3. k \in 0 .. BSIZE - 1
        BY <2>1, <4>1
      <4>4. block'[x][k] = block[x][k]
        BY <1>4, <4>2, <4>3, Zenon
      <4> QED BY <3>1, <4>1, <4>4
    <3>2. CASE q # 0
      <4>1. q \in PtrNo /\ Pointer(ROOTINO, q) = Dir.addrs[q]
        BY <2>1, RootOnDisk, Constants DEF PtrNo
      <4>2. Dir.addrs[q] # x
        BY <3>2, <4>1, EntryWriteBlock, Constants
      <4>3. Dir.addrs[q] \in Block
        BY <2>1, RootOnDisk, Constants
      <4>4. block'[Dir.addrs[q]] = block[Dir.addrs[q]]
        BY <4>2, <4>3, EntryWriteBlock
      <4> QED BY <4>4
    <3> QED BY <3>1, <3>2
  <2>3. Cell(k)' = Cell(k)
    BY <1>1, <2>1, <2>2, CellIs, CellIsPrime
  <2> QED BY <2>3, InoIs, InoIsPrime
<1>5. Cell(off)' = <<i, nm>>
  <2>1. off \div BSIZE = 0 /\ off % BSIZE = off /\ off \div BSIZE < NDIRECT
    BY <1>2, FirstBlock, Constants
  <2>2. Cell(off)' = block'[x][off]
    BY <1>1, <2>1, CellIsPrime
  <2>3. \A c \in 0 .. BSIZE - 1 :
          block'[x][c] = IF c = off THEN <<i, nm>> ELSE block[x][c]
    BY EntryWriteBlock
  <2> QED BY <1>2, <2>2, <2>3, Zenon
<1>6. PICK e : e = <<i, nm>>
  OBVIOUS
<1>7. e # <<>> /\ e[1] = i /\ e[2] = nm
  BY <1>6
<1>8. Cell(off)' # <<>> /\ Ino(off)' = i /\ Nam(off)' = nm
  <2>1. Cell(off)' = e
    BY <1>5, <1>6, Zenon
  <2> QED BY <1>7, <2>1, InoIsPrime, Zenon
<1> QED BY <1>1, <1>3, <1>4, <1>8 DEF EntryAdded

LEMMA EntryWriteKeeps ==
  ASSUME DiskInv, NEW off, NEW i, NEW nm, EntryWrite(off, i, nm)
  PROVE  DiskInv'
<1> USE DEF DiskInv
<1> DEFINE x == Dir.addrs[0]
<1>1. EntryAdded(off, i, nm)
  BY EntryWriteDir
<1>2. \A j \in Inum, n \in PtrNo : Pointer(j, n)' = Pointer(j, n)
  <2>1. ASSUME NEW j \in Inum, dinode[j].addrs[NDIRECT] # 0
        PROVE  block'[dinode[j].addrs[NDIRECT]] = block[dinode[j].addrs[NDIRECT]]
    <3> DEFINE n == NDIRECT + NINDIRECT
    <3>1. n \in PtrNo /\ n # 0 /\ ~(n < NDIRECT)
      BY Constants DEF PtrNo
    <3>2. Pointer(j, n) = dinode[j].addrs[NDIRECT]
      BY <3>1, PointerIs
    <3>3. Pointer(j, n) \in Block /\ Pointer(j, n) # x
      BY <2>1, <3>1, <3>2, EntryWriteBlock DEF PointersApart
    <3> QED BY <3>2, <3>3, EntryWriteBlock
  <2>2. \A j \in Inum : dinode'[j].addrs = dinode[j].addrs
    BY DEF EntryWrite
  <2> QED BY <2>1, <2>2, PointersKept
<1>3. DiskType'
  BY EntryWriteBlock DEF DiskType, EntryWrite, Dinode
<1>4. RootShape'
  BY <1>1 DEF RootShape, EntryAdded
<1>5. SlotOrder'
  <2>1. HoleSet' = {}
    BY <1>1 DEF EntryAdded, EntryWrite
  <2>2. ASSUME NEW k \in SlotSet, NEW l \in SlotSet, Ino(k)' # 0, Ino(l)' = 0
        PROVE  k < l
    <3>1. k \in Nat /\ l \in Nat /\ off \in Nat
      BY SlotFacts, Constants DEF EntryWrite
    <3>2. CASE k = off /\ l # off
      <4>1. Ino(l) = 0
        BY <1>1, <2>2, <3>2 DEF EntryAdded
      <4>2. off <= l
        BY <4>1 DEF EntryWrite
      <4> QED BY <3>1, <3>2, <4>2
    <3>3. CASE k # off /\ l = off
      <4>1. Ino(k) # 0 /\ Ino(off) = 0
        BY <1>1, <2>2, <3>3 DEF EntryAdded, EntryWrite
      <4> QED BY <3>3, <4>1 DEF SlotOrder
    <3>4. CASE k # off /\ l # off
      <4>1. Ino(k) # 0 /\ Ino(l) = 0
        BY <1>1, <2>2, <3>4 DEF EntryAdded
      <4> QED BY <4>1 DEF SlotOrder
    <3> QED BY <2>2, <3>2, <3>3, <3>4
  <2>3. SlotSet' = SlotSet
    BY <1>1 DEF EntryAdded
  <2> QED BY <2>1, <2>2, <2>3 DEF SlotOrder
<1>6. EntriesInv'
  <2>1. ASSUME NEW k \in SlotSet, Cell(k)' # <<>>
        PROVE  /\ Ino(k)' \in Inum
               /\ dinode'[Ino(k)'].type # 0 /\ dinode'[Ino(k)'].nlink = 1
    <3>1. CASE k = off
      BY <1>1, <3>1 DEF EntryAdded, EntryWrite
    <3>2. CASE k # off
      <4>1. Cell(k) # <<>> /\ Ino(k)' = Ino(k)
        BY <1>1, <2>1, <3>2 DEF EntryAdded
      <4> QED BY <4>1 DEF EntriesInv, EntryWrite
    <3> QED BY <3>1, <3>2
  <2>2. ASSUME NEW k \in SlotSet, NEW l \in SlotSet, Cell(k)' # <<>>, Cell(l)' # <<>>,
               Ino(k)' = Ino(l)', Ino(k)' # ROOTINO
        PROVE  k = l
    <3>1. \A m \in SlotSet \ {off} : Cell(m)' # <<>> => Ino(m)' # i
      BY <1>1 DEF EntryAdded, EntryWrite, Nameless
    <3>2. CASE k = off \/ l = off
      BY <1>1, <2>2, <3>1, <3>2 DEF EntryAdded
    <3>3. CASE k # off /\ l # off
      BY <1>1, <2>2, <3>3 DEF EntryAdded, EntriesInv
    <3> QED BY <3>2, <3>3
  <2>3. SlotSet' = SlotSet
    BY <1>1 DEF EntryAdded
  <2> QED BY <2>1, <2>2, <2>3 DEF EntriesInv
<1>7. FreeBlocksZero'
  <2>1. \A b \in Block \ bitmap : block'[b] = block[b]
    BY EntryWriteBlock
  <2>2. bitmap' = bitmap
    BY DEF EntryWrite
  <2>3. \A b \in Block \ bitmap : \A c \in 0 .. BSIZE - 1 : block'[b][c] = <<>>
    BY <2>1 DEF FreeBlocksZero
  <2>4. 0 .. NMETA - 1 \subseteq bitmap
    BY DEF FreeBlocksZero
  <2> QED BY <2>2, <2>3, <2>4 DEF FreeBlocksZero
<1>8. PointersApart'
  BY <1>2 DEF PointersApart, EntryWrite
<1>9. FilesInv'
  <2>1. SUFFICES ASSUME NEW j \in DOMAIN argv
        PROVE  /\ InodeOf(j) \in Inum \ {ROOTINO}
               /\ dinode[InodeOf(j)].size = argv[j].size
               /\ \A off2 \in 0 .. argv[j].size - 1 :
                    /\ off2 \div BSIZE < NDIRECT + NINDIRECT
                    /\ Pointer(InodeOf(j), off2 \div BSIZE)' # 0
                    /\ block'[Pointer(InodeOf(j), off2 \div BSIZE)'][off2 % BSIZE]
                         = Contents(argv[j])[off2 + 1]
    BY DEF FilesInv, EntryWrite
  <2>2. InodeOf(j) \in Inum \ {ROOTINO} /\ dinode[InodeOf(j)].size = argv[j].size
        /\ argv[j].size \in Nat
    BY DEF FilesInv, DiskType, Dinode
  <2>3. ASSUME NEW o \in 0 .. argv[j].size - 1
        PROVE  LET n == o \div BSIZE
               IN  /\ n < NDIRECT + NINDIRECT
                   /\ Pointer(InodeOf(j), n)' # 0
                   /\ block'[Pointer(InodeOf(j), n)'][o % BSIZE]
                        = Contents(argv[j])[o + 1]
    <3> DEFINE n == o \div BSIZE
    <3>1. n \in Nat
      BY <2>2, Division, Constants
    <3>2. /\ n < NDIRECT + NINDIRECT /\ Pointer(InodeOf(j), n) # 0
          /\ block[Pointer(InodeOf(j), n)][o % BSIZE] = Contents(argv[j])[o + 1]
      BY DEF FilesInv
    <3>3. n \in PtrNo
      BY <3>1, <3>2, Constants DEF PtrNo
    <3> HIDE DEF n
    <3>4. Pointer(InodeOf(j), n)' = Pointer(InodeOf(j), n)
      BY <1>2, <2>2, <3>3
    <3>5. Pointer(InodeOf(j), n) \in Block \ {x}
      BY <2>2, <3>2, <3>3, EntryWriteBlock DEF PointersApart
    <3>6. block'[Pointer(InodeOf(j), n)] = block[Pointer(InodeOf(j), n)]
      BY <3>5, EntryWriteBlock
    <3> QED BY <3>2, <3>4, <3>6 DEF n
  <2> QED BY <2>2, <2>3
<1> QED BY <1>3, <1>4, <1>5, <1>6, <1>7, <1>8, <1>9

-----------------------------------------------------------------------------
(***************************************************************************)
(* Steps that leave the disk alone.                                        *)
(***************************************************************************)
LEMMA DiskKept ==
  ASSUME DiskInv, UNCHANGED disk
  PROVE  DiskInv' /\ DirSame
<1>1. InodeWrite
  BY DEF DiskInv, DiskType, disk, InodeWrite
<1> QED BY <1>1, InodeWriteKeeps

LEMMA CopyKept ==
  ASSUME Dir' = Dir, HoleSet' = HoleSet, bitmap' = bitmap, root' = root, RootIsCopy
  PROVE  RootIsCopy'
BY DEF RootIsCopy, Dinode

(***************************************************************************)
(* Process p does not disturb the others: it moves only itself, touches    *)
(* only locks that are free or its own, and changes disk and cached root   *)
(* only when no other process has the root locked.                         *)
(***************************************************************************)
Polite(p) ==
  /\ \A q \in Proc \ {p} : pc'[q] = pc[q] /\ ip'[q] = ip[q]
  /\ \A i \in Inum : ilk'[i] = ilk[i] \/ ilk[i] = p \/ ilk[i] = NoProc
  /\ argv' = argv /\ bitmap' = bitmap
  /\ \/ dinode' = dinode /\ block' = block /\ root' = root
     \/ ilk[ROOTINO] = p \/ ilk[ROOTINO] = NoProc

LEMMA OthersKept ==
  ASSUME IInv, NEW p, NEW q \in Proc, q # p, Polite(p)
  PROVE  Control(q)'
<1>1. Control(q) /\ ip[q] \in Inum /\ q # NoProc
  BY Constants DEF IInv, TypeOK
<1>2. pc'[q] = pc[q] /\ ip'[q] = ip[q]
  BY DEF Polite
<1>3. \A i \in Inum : ilk[i] = q => ilk'[i] = q
  BY <1>1 DEF Polite
<1>4. CASE pc[q] \in InRoot
  <2>1. ilk[ROOTINO] = q /\ RootIsCopy
    BY <1>1, <1>4 DEF Control
  <2>2. UNCHANGED disk /\ root' = root
    BY <1>1, <2>1 DEF Polite, disk
  <2>3. DirSame
    BY <2>2, DiskKept DEF IInv
  <2>4. ilk'[ROOTINO] = q /\ RootIsCopy'
    BY <1>3, <2>1, <2>2, <2>3, CopyKept, Constants DEF DirSame, disk
  <2>5. pc[q] \in {"locknew", "dirlink"} =>
          \A k \in SlotSet' : Cell(k)' # <<>> => Ino(k)' # ip'[q]
    BY <1>1, <1>2, <2>3 DEF Control, DirSame
  <2>6. dinode' = dinode /\ Dir' = Dir
    BY <2>2, <2>3 DEF disk, DirSame
  <2>7. pc[q] \in {"dirlink", "linked", "putnew", "use"} => ilk'[ip'[q]] = q
    BY <1>1, <1>2, <1>3 DEF Control
  <2>8. /\ pc'[q] \in {"locknew", "dirlink", "linked", "putnew"} => ip'[q] # ROOTINO
        /\ pc'[q] \in {"locknew", "dirlink"} => dinode'[ip'[q]].type # 0
        /\ pc'[q] = "dirlink" => dinode'[ip'[q]].nlink = 1
        /\ pc'[q] = "linked" => root' = Dir'
    BY <1>1, <1>2, <2>2, <2>6 DEF Control
  <2> QED BY <1>2, <2>4, <2>5, <2>7, <2>8 DEF Control
<1>5. CASE pc[q] \notin InRoot
  <2>1. pc[q] \in {"putnew", "use"} => ilk'[ip[q]] = q
    BY <1>1, <1>3 DEF Control
  <2>2. pc[q] = "putnew" => ip[q] # ROOTINO
    BY <1>1 DEF Control
  <2> QED BY <1>2, <1>5, <2>1, <2>2 DEF Control, InRoot
<1> QED BY <1>4, <1>5

(***************************************************************************)
(* What is left to show of a step: the parts that concern the process      *)
(* itself.                                                                 *)
(***************************************************************************)
Away == {"user", "dirlock", "ilock", "panic", "halt"}

LEMMA AwayControl ==
  ASSUME NEW p, pc'[p] \in Away
  PROVE  Control(p)'
BY DEF Control, Away, InRoot

LEMMA StepKeeps ==
  ASSUME IInv, NEW p \in Proc, Polite(p),
         DiskInv', TypeOK', RootCopy', Control(p)'
  PROVE  IInv'
BY OthersKept DEF IInv

\* The disk and the root stay, or the root is given back.
LEMMA AwayKeeps ==
  ASSUME IInv, NEW p \in Proc, Polite(p), UNCHANGED disk, TypeOK',
         root' = root \/ root' = NoDinode, pc'[p] \in Away
  PROVE  IInv'
<1>1. DiskInv' /\ DirSame
  BY DiskKept DEF IInv
<1>2. RootCopy'
  <2>1. CASE root' = NoDinode
    BY <2>1 DEF RootCopy, NoDinode
  <2>2. CASE root' = root /\ RootIsCopy
    BY <1>1, <2>2, CopyKept DEF DirSame, RootCopy, disk
  <2> QED BY <2>1, <2>2 DEF IInv, RootCopy
<1> QED BY <1>1, <1>2, AwayControl, StepKeeps

\* The process moves, its arguments and inode number keep their types.
LEMMA TypeStep ==
  ASSUME TypeOK, NEW p \in Proc, NEW l \in Labels,
         pc' = [pc EXCEPT ![p] = l],
         ilk' \in [Inum -> Proc \cup {NoProc}],
         ip' = ip \/ \E i \in Inum : ip' = [ip EXCEPT ![p] = i],
         arg' = arg \/ \E a : /\ arg' = [arg EXCEPT ![p] = a]
                              /\ a.major \in Major \cup {0},
         bitmap' = bitmap, bitmap' \subseteq bm'
  PROVE  TypeOK' /\ pc'[p] = l
<1>1. pc' \in [Proc -> Labels] /\ pc'[p] = l
  BY DEF TypeOK
<1>2. ip' \in [Proc -> Inum]
  BY DEF TypeOK
<1>3. DOMAIN arg' = Proc /\ \A q \in Proc : arg'[q].major \in Major \cup {0}
  <2>1. CASE arg' = arg
    BY <2>1 DEF TypeOK
  <2>2. CASE arg' # arg
    <3>1. PICK a : arg' = [arg EXCEPT ![p] = a] /\ a.major \in Major \cup {0}
      BY <2>2
    <3> QED BY <3>1 DEF TypeOK
  <2> QED BY <2>1, <2>2
<1> QED BY <1>1, <1>2, <1>3 DEF TypeOK

LEMMA EndStep ==
  ASSUME TypeOK, NEW p \in Proc, NEW l \in {"user", "panic", "halt"}, End(p, l),
         ilk' \in [Inum -> Proc \cup {NoProc}], bitmap' = bitmap, bitmap' \subseteq bm'
  PROVE  /\ TypeOK' /\ pc'[p] \in Away
         /\ \A q \in Proc \ {p} : pc'[q] = pc[q] /\ ip'[q] = ip[q]
<1>1. NoArg.major \in Major \cup {0} /\ 0 \in Inum /\ l \in Labels
  BY Constants DEF NoArg, Labels
<1>2. /\ pc' = [pc EXCEPT ![p] = l] /\ ip' = [ip EXCEPT ![p] = 0]
      /\ arg' = [arg EXCEPT ![p] = NoArg]
  BY DEF End, Goto
<1>3. \E i \in Inum : ip' = [ip EXCEPT ![p] = i]
  BY <1>1, <1>2
<1>4. \E a : arg' = [arg EXCEPT ![p] = a] /\ a.major \in Major \cup {0}
  BY <1>1, <1>2, Zenon
<1>5. TypeOK' /\ pc'[p] = l
  BY <1>1, <1>2, <1>3, <1>4, TypeStep, Zenon
<1> QED BY <1>2, <1>5 DEF Away, TypeOK

-----------------------------------------------------------------------------
(***************************************************************************)
(* System calls and the lock of the root.                                  *)
(***************************************************************************)
LEMMA CallKeeps ==
  ASSUME IInv, NEW p \in Proc, NEW o, NEW n, NEW m \in Major \cup {0}, Call(p, o, n, m)
  PROVE  IInv'
<1>1. PICK a : a = [name |-> n, major |-> m]
  OBVIOUS
<1>2. /\ pc' = [pc EXCEPT ![p] = "dirlock"] /\ arg' = [arg EXCEPT ![p] = a]
      /\ UNCHANGED <<disk, bm, root, ilk, ip>>
  BY <1>1 DEF Call, Goto
<1>3. a.major \in Major \cup {0} /\ "dirlock" \in Labels
  BY <1>1 DEF Labels
<1>4. TypeOK
  BY DEF IInv
<1>5. bitmap' = bitmap /\ bitmap' \subseteq bm' /\ ilk' \in [Inum -> Proc \cup {NoProc}]
  BY <1>2, <1>4 DEF disk, TypeOK
<1>6. \E b : arg' = [arg EXCEPT ![p] = b] /\ b.major \in Major \cup {0}
  BY <1>2, <1>3, Zenon
<1>7. TypeOK' /\ pc'[p] = "dirlock"
  BY <1>2, <1>3, <1>4, <1>5, <1>6, TypeStep, Zenon
<1>8. Polite(p)
  BY <1>2, <1>4 DEF Polite, disk, TypeOK
<1> QED BY <1>2, <1>7, <1>8, AwayKeeps DEF Away

LEMMA OpenRootKeeps ==
  ASSUME IInv, NEW p \in Proc, OpenRoot(p)
  PROVE  IInv'
<1>1. /\ pc' = [pc EXCEPT ![p] = "ilock"] /\ ip' = [ip EXCEPT ![p] = ROOTINO]
      /\ UNCHANGED <<disk, bm, root, ilk, arg>>
  BY DEF OpenRoot, Goto
<1>2. TypeOK /\ "ilock" \in Labels
  BY DEF IInv, Labels
<1>3. bitmap' = bitmap /\ bitmap' \subseteq bm' /\ ilk' \in [Inum -> Proc \cup {NoProc}]
  BY <1>1, <1>2 DEF disk, TypeOK
<1>4. \E i \in Inum : ip' = [ip EXCEPT ![p] = i]
  BY <1>1, Constants
<1>5. TypeOK' /\ pc'[p] = "ilock"
  BY <1>1, <1>2, <1>3, <1>4, TypeStep, Zenon
<1>6. Polite(p)
  BY <1>1, <1>2 DEF Polite, disk, TypeOK
<1> QED BY <1>1, <1>5, <1>6, AwayKeeps DEF Away

LEMMA DirLockKeeps ==
  ASSUME IInv, NEW p \in Proc, DirLock(p)
  PROVE  IInv'
<1>1. /\ ilk[ROOTINO] = NoProc /\ ilk' = [ilk EXCEPT ![ROOTINO] = p]
      /\ root' = Dir /\ pc' = [pc EXCEPT ![p] = "lookup"]
      /\ UNCHANGED <<disk, bm, arg, ip>>
  BY DEF DirLock, Goto, local, Dir
<1>2. TypeOK /\ DiskInv /\ "lookup" \in Labels
  BY DEF IInv, Labels
<1>3. bitmap' = bitmap /\ bitmap' \subseteq bm' /\ ilk' \in [Inum -> Proc \cup {NoProc}]
  BY <1>1, <1>2, Constants DEF disk, TypeOK
<1>4. TypeOK' /\ pc'[p] = "lookup"
  BY <1>1, <1>2, <1>3, TypeStep, Zenon
<1>5. Polite(p)
  BY <1>1, <1>2 DEF Polite, disk, TypeOK
<1>6. DiskInv' /\ DirSame
  BY <1>1, <1>2, DiskKept
<1>7. RootIsCopy'
  <2>1. Dir' = Dir /\ HoleSet' = HoleSet /\ bitmap' = bitmap
    BY <1>3, <1>6 DEF DirSame
  <2>2. Dir \in Dinode /\ \A n \in HoleSet : Dir.addrs[n] = 0
    BY <1>2, RootOnDisk, HoleSetIs DEF DiskInv
  <2> QED BY <1>1, <2>1, <2>2 DEF RootIsCopy, Dinode
<1>8. Control(p)'
  <2>1. ilk'[ROOTINO] = p
    BY <1>1, <1>2, Constants DEF TypeOK
  <2> QED BY <1>4, <1>7, <2>1 DEF Control
<1> QED BY <1>4, <1>5, <1>6, <1>7, <1>8, StepKeeps DEF RootCopy

-----------------------------------------------------------------------------
(***************************************************************************)
(* Searches of the cached root.                                            *)
(***************************************************************************)
LEMMA CopyHoles ==
  ASSUME RootIsCopy
  PROVE  Holes(root) = {n \in 0 .. NDIRECT - 1 : n * BSIZE < Dir.size /\ root.addrs[n] = 0}
<1>1. \A n \in 0 .. NDIRECT - 1 : bmap(root, n) = root.addrs[n]
  BY Constants DEF bmap
<1> QED BY <1>1 DEF Holes, RootIsCopy

\* A hole of the copy is one on the disk.
LEMMA CopyHole ==
  ASSUME RootIsCopy, NEW h \in Holes(root)
  PROVE  h \in HoleSet /\ h \in 0 .. NDIRECT - 1 /\ h \in Nat
<1>1. h \in 0 .. NDIRECT - 1 /\ h * BSIZE < Dir.size /\ root.addrs[h] = 0
  BY CopyHoles
<1>2. h \in HoleSet
  BY <1>1, HoleSetIs, Constants DEF RootIsCopy
<1> QED BY <1>1, <1>2

\* What a slot of the copy holds: in a filled hole nothing, else what is on disk.
LEMMA CopySlot ==
  ASSUME DiskInv, RootIsCopy, NEW k \in Slots(root)
  PROVE  /\ k \in Nat
         /\ \/ InumAt(root, k) = 0
            \/ k \in SlotSet /\ InumAt(root, k) = Ino(k) /\ Cell(k) # <<>>
         /\ k \in SlotSet => InumAt(root, k) = Ino(k)
<1> USE DEF DiskInv
<1> DEFINE q == k \div BSIZE
<1>1. root.size = Dir.size /\ Dir.size \in Nat
  BY RootOnDisk DEF RootIsCopy
<1>2. k \in 0 .. Dir.size - 1 /\ \A n \in Holes(root) : q < n
  BY <1>1 DEF Slots
<1>3. k \in Nat /\ k < Dir.size
  BY <1>1, <1>2
<1>4. q \in Nat /\ k % BSIZE \in 0 .. BSIZE - 1 /\ k = BSIZE * q + (k % BSIZE)
  BY <1>3, Division, Constants
<1> HIDE DEF q
<1>5. q * BSIZE <= k /\ q * BSIZE \in Nat
  BY <1>3, <1>4, Constants
<1>6. q \in 0 .. NDIRECT - 1 /\ q < NDIRECT
  <2>1. SUFFICES ASSUME NDIRECT <= q PROVE FALSE
    BY <1>4, Constants
  <2>2. NDIRECT * BSIZE <= q * BSIZE /\ NDIRECT * BSIZE \in Nat
    BY <1>4, <2>1, Constants, TimesLess
  <2> QED BY <1>1, <1>3, <1>5, <2>2 DEF RootShape
<1>7. root.addrs[q] # 0
  <2>1. SUFFICES ASSUME root.addrs[q] = 0 PROVE FALSE
    OBVIOUS
  <2>2. q \in Holes(root)
    BY <1>1, <1>3, <1>5, <1>6, <2>1, CopyHoles, Constants
  <2> QED BY <1>2, <1>4, <2>2
<1>8. Entry(root, k) = block[root.addrs[q]][k % BSIZE]
  BY <1>6 DEF Entry, bmap, q
<1>9. CASE q \in HoleSet
  <2>1. root.addrs[q] \in Block \ bitmap
    BY <1>6, <1>7, <1>9, Constants DEF RootIsCopy, Dinode
  <2>2. Entry(root, k) = <<>>
    BY <1>4, <1>8, <2>1 DEF FreeBlocksZero
  <2>3. InumAt(root, k) = 0
    BY <2>2 DEF InumAt
  <2>4. k \notin SlotSet
    BY <1>4, <1>9, SlotSetIs DEF q
  <2> QED BY <1>3, <2>3, <2>4
<1>10. CASE q \notin HoleSet
  <2>1. root.addrs[q] = Dir.addrs[q]
    BY <1>6, <1>10, Constants DEF RootIsCopy
  <2>2. ASSUME NEW n \in HoleSet PROVE q < n
    <3>1. n \in Nat
      BY HoleSetIs, Constants
    <3>2. SUFFICES ASSUME n <= q PROVE FALSE
      BY <1>4, <3>1
    <3>3. q \in n .. NDIRECT - 1
      BY <1>6, <3>1, <3>2, Constants
    <3> QED BY <1>7, <2>1, <3>3 DEF RootShape
  <2>3. k \in SlotSet
    BY <1>2, <2>2, SlotSetIs DEF q
  <2>4. Cell(k) = block[Dir.addrs[q]][k % BSIZE]
    BY <1>6, CellIs DEF q
  <2>5. Entry(root, k) = Cell(k)
    BY <1>8, <2>1, <2>4
  <2>6. InumAt(root, k) = Ino(k) /\ (Cell(k) = <<>> => Ino(k) = 0)
    BY <2>5, InoIs DEF InumAt
  <2> QED BY <1>3, <2>3, <2>6
<1> QED BY <1>9, <1>10

LEMMA CopyInum ==
  ASSUME DiskInv, RootIsCopy, NEW k \in Slots(root)
  PROVE  InumAt(root, k) \in Inum
BY CopySlot, Constants DEF DiskInv, EntriesInv

\* The number that a search finds.
LEMMA FoundInum ==
  ASSUME DiskInv, RootIsCopy, NEW n, Named(root, n) # {}
  PROVE  InumAt(root, Min(Named(root, n))) \in Inum
<1>1. Named(root, n) \subseteq Slots(root)
  BY DEF Named
<1>2. Slots(root) \subseteq Nat
  BY CopySlot
<1>3. Min(Named(root, n)) \in Named(root, n)
  BY <1>1, <1>2, MinFacts
<1>4. PICK k \in Slots(root) : k = Min(Named(root, n))
  BY <1>1, <1>3
<1> QED BY <1>4, CopyInum

\* Without holes on the disk the copy is exact.
LEMMA CopyExact ==
  ASSUME DiskInv, RootIsCopy, HoleSet = {}
  PROVE  root = Dir
<1>1. root \in Dinode /\ Dir \in Dinode
  BY RootOnDisk DEF DiskInv, RootIsCopy
<1>2. /\ root.addrs \in [0 .. NDIRECT -> Block \cup {0}]
      /\ Dir.addrs \in [0 .. NDIRECT -> Block \cup {0}]
  BY <1>1 DEF Dinode
<1>3. \A n \in 0 .. NDIRECT : root.addrs[n] = Dir.addrs[n]
  BY DEF RootIsCopy
<1>4. root.addrs = Dir.addrs
  <2>1. PICK f : f = root.addrs
    OBVIOUS
  <2>2. PICK g : g = Dir.addrs
    OBVIOUS
  <2>3. /\ f \in [0 .. NDIRECT -> Block \cup {0}]
        /\ g \in [0 .. NDIRECT -> Block \cup {0}]
        /\ \A n \in 0 .. NDIRECT : f[n] = g[n]
    BY <1>2, <1>3, <2>1, <2>2
  <2>4. f = [n \in 0 .. NDIRECT |-> f[n]] /\ g = [n \in 0 .. NDIRECT |-> g[n]]
    BY <2>3
  <2>5. [n \in 0 .. NDIRECT |-> f[n]] = [n \in 0 .. NDIRECT |-> g[n]]
    BY <2>3
  <2> QED BY <2>1, <2>2, <2>4, <2>5
<1> QED BY <1>1, <1>4 DEF RootIsCopy, Dinode

LEMMA FillHoleKeeps ==
  ASSUME IInv, NEW p \in Proc, FillHole(p)
  PROVE  IInv'
<1> DEFINE free == (0 .. FSSIZE - 1) \ bm
<1>1. DiskInv /\ TypeOK /\ Control(p)
  BY DEF IInv
<1>2. pc[p] \in {"lookup", "dirlink"} /\ Holes(root) # {}
  BY DEF FillHole, MeetsHole, At
<1>3. ilk[ROOTINO] = p /\ RootIsCopy
  BY <1>1, <1>2 DEF Control, InRoot
<1>4. UNCHANGED disk /\ ilk' = ilk /\ bitmap' = bitmap
      /\ ilk' \in [Inum -> Proc \cup {NoProc}]
  BY <1>1 DEF FillHole, disk, TypeOK
<1>5. CASE free = {}
  <2>1. End(p, "panic") /\ bm' = bm /\ root' = root
    BY <1>5 DEF FillHole, Panic
  <2>2. bitmap' \subseteq bm'
    BY <1>1, <1>4, <2>1 DEF TypeOK
  <2>3. TypeOK' /\ pc'[p] \in Away
        /\ \A q \in Proc \ {p} : pc'[q] = pc[q] /\ ip'[q] = ip[q]
    BY <1>1, <1>4, <2>1, <2>2, EndStep
  <2>4. Polite(p)
    BY <1>4, <2>1, <2>3 DEF Polite, disk
  <2> QED BY <1>4, <2>1, <2>3, <2>4, AwayKeeps
<1>6. CASE free # {}
  <2> DEFINE b == Min(free)
             h == Min(Holes(root))
  <2>1. /\ bm' = bm \cup {b} /\ root' = [root EXCEPT !.addrs[h] = b]
        /\ pc' = pc /\ ip' = ip /\ arg' = arg
    BY <1>6 DEF FillHole, local
  <2>2. b \in free
    <3>1. free \in SUBSET Nat
      BY Constants
    <3> QED BY <1>6, <3>1, MinFacts
  <2>3. b \in Block \ bitmap
    <3>1. b \in 0 .. FSSIZE - 1 /\ b \notin 0 .. NMETA - 1 /\ b \notin bitmap
      BY <1>1, <2>2 DEF TypeOK, DiskInv, FreeBlocksZero
    <3> QED BY <3>1, Constants DEF Block
  <2>4. h \in HoleSet /\ h \in 0 .. NDIRECT - 1
    <3>1. Holes(root) \in SUBSET Nat
      BY <1>3, CopyHole
    <3>2. h \in Holes(root)
      BY <1>2, <3>1, MinFacts
    <3> QED BY <1>3, <3>2, CopyHole
  <2> HIDE DEF b, h, free
  <2>5. DiskInv' /\ DirSame
    BY <1>1, <1>4, DiskKept
  <2>6. RootIsCopy'
    <3>1. Dir' = Dir /\ HoleSet' = HoleSet
      BY <2>5 DEF DirSame
    <3>2. /\ root \in Dinode
          /\ root.addrs \in [0 .. NDIRECT -> Block \cup {0}]
      BY <1>3 DEF RootIsCopy, Dinode
    <3>3. /\ root'.addrs = [root.addrs EXCEPT ![h] = b]
          /\ root'.type = root.type /\ root'.major = root.major
          /\ root'.nlink = root.nlink /\ root'.size = root.size
      BY <2>1, <3>2 DEF Dinode
    <3>4. root' \in Dinode
      <4>1. root'.addrs \in [0 .. NDIRECT -> Block \cup {0}]
        BY <2>3, <3>2, <3>3
      <4> QED BY <2>1, <3>2, <4>1 DEF Dinode
    <3>5. \A n \in 0 .. NDIRECT :
            IF n \in HoleSet THEN root'.addrs[n] = 0 \/ root'.addrs[n] \notin bitmap
            ELSE root'.addrs[n] = Dir.addrs[n]
      BY <1>3, <2>3, <2>4, <3>2, <3>3 DEF RootIsCopy
    <3> QED BY <1>3, <1>4, <3>1, <3>3, <3>4, <3>5 DEF RootIsCopy, Dinode
  <2>7. TypeOK'
    BY <1>1, <1>4, <2>1 DEF TypeOK
  <2>8. Polite(p)
    BY <1>3, <1>4, <2>1 DEF Polite, disk
  <2>9. Control(p)'
    <3>1. dinode' = dinode
      BY <1>4 DEF disk
    <3>2. pc[p] = "dirlink" => \A k \in SlotSet' : Cell(k)' # <<>> => Ino(k)' # ip'[p]
      BY <1>1, <2>1, <2>5 DEF Control, DirSame
    <3> QED BY <1>1, <1>2, <1>3, <1>4, <2>1, <2>6, <3>1, <3>2 DEF Control, InRoot
  <2> QED BY <2>5, <2>6, <2>7, <2>8, <2>9, StepKeeps DEF RootCopy
<1> QED BY <1>5, <1>6

(***************************************************************************)
(* The root is given back.                                                 *)
(***************************************************************************)
LEMMA UnlockRootFacts ==
  ASSUME TypeOK, UnlockRoot
  PROVE  /\ root' = NoDinode /\ ilk' \in [Inum -> Proc \cup {NoProc}]
         /\ \A i \in Inum : i # ROOTINO => ilk'[i] = ilk[i]
BY Constants DEF UnlockRoot, TypeOK

\* Forget and the inode number that a search found.
LEMMA MoveStep ==
  ASSUME TypeOK, NEW p \in Proc, NEW l \in Labels, NEW i \in Inum,
         Goto(p, l), Forget(p), ip' = [ip EXCEPT ![p] = i],
         ilk' \in [Inum -> Proc \cup {NoProc}], bitmap' = bitmap, bitmap' \subseteq bm'
  PROVE  /\ TypeOK' /\ pc'[p] = l
         /\ \A q \in Proc \ {p} : pc'[q] = pc[q] /\ ip'[q] = ip[q]
<1>1. pc' = [pc EXCEPT ![p] = l] /\ arg' = [arg EXCEPT ![p] = NoArg]
  BY DEF Goto, Forget
<1>2. NoArg.major \in Major \cup {0}
  BY DEF NoArg
<1>3. \E a : arg' = [arg EXCEPT ![p] = a] /\ a.major \in Major \cup {0}
  BY <1>1, <1>2, Zenon
<1>4. \E j \in Inum : ip' = [ip EXCEPT ![p] = j]
  OBVIOUS
<1>5. TypeOK' /\ pc'[p] = l
  BY <1>1, <1>3, <1>4, TypeStep, Zenon
<1> QED BY <1>1, <1>5 DEF TypeOK

LEMMA LookupFoundKeeps ==
  ASSUME IInv, NEW p \in Proc, LookupFound(p)
  PROVE  IInv'
<1>1. DiskInv /\ TypeOK /\ Control(p) /\ pc[p] = "lookup"
  BY DEF IInv, LookupFound, At
<1>2. ilk[ROOTINO] = p /\ RootIsCopy
  BY <1>1 DEF Control, InRoot
<1>3. PICK i \in Inum : ip' = [ip EXCEPT ![p] = i]
  <2>1. PICK n : n = arg[p].name
    OBVIOUS
  <2>2. Named(root, n) # {} /\ ip' = [ip EXCEPT ![p] = InumAt(root, Min(Named(root, n)))]
    BY <2>1 DEF LookupFound
  <2> QED BY <1>1, <1>2, <2>2, FoundInum
<1>4. UnlockRoot /\ Goto(p, "ilock") /\ Forget(p) /\ UNCHANGED disk /\ bm' = bm
      /\ "ilock" \in Labels
  BY DEF LookupFound, Labels
<1>5. /\ root' = NoDinode /\ ilk' \in [Inum -> Proc \cup {NoProc}]
      /\ \A j \in Inum : j # ROOTINO => ilk'[j] = ilk[j]
  BY <1>1, <1>4, UnlockRootFacts
<1>6. bitmap' = bitmap /\ bitmap' \subseteq bm'
  BY <1>1, <1>4 DEF disk, TypeOK
<1>7. /\ TypeOK' /\ pc'[p] = "ilock"
      /\ \A q \in Proc \ {p} : pc'[q] = pc[q] /\ ip'[q] = ip[q]
  BY <1>1, <1>3, <1>4, <1>5, <1>6, MoveStep
<1>8. Polite(p)
  BY <1>2, <1>4, <1>5, <1>6, <1>7 DEF Polite, disk
<1> QED BY <1>4, <1>5, <1>7, <1>8, AwayKeeps DEF Away

LEMMA LookupMissingKeeps ==
  ASSUME IInv, NEW p \in Proc, LookupMissing(p)
  PROVE  IInv'
<1>1. TypeOK /\ Control(p) /\ pc[p] = "lookup"
  BY DEF IInv, LookupMissing, At
<1>2. ilk[ROOTINO] = p
  BY <1>1 DEF Control, InRoot
<1>3. PICK l \in {"user", "panic"} : End(p, l)
  BY DEF LookupMissing, Return, Panic
<1>4. UnlockRoot /\ UNCHANGED disk /\ bm' = bm
  BY DEF LookupMissing
<1>5. /\ root' = NoDinode /\ ilk' \in [Inum -> Proc \cup {NoProc}]
      /\ \A j \in Inum : j # ROOTINO => ilk'[j] = ilk[j]
  BY <1>1, <1>4, UnlockRootFacts
<1>6. bitmap' = bitmap /\ bitmap' \subseteq bm'
  BY <1>1, <1>4 DEF disk, TypeOK
<1>7. /\ TypeOK' /\ pc'[p] \in Away
      /\ \A q \in Proc \ {p} : pc'[q] = pc[q] /\ ip'[q] = ip[q]
  BY <1>1, <1>3, <1>5, <1>6, EndStep
<1>8. Polite(p)
  BY <1>2, <1>4, <1>5, <1>6, <1>7 DEF Polite, disk
<1> QED BY <1>4, <1>5, <1>7, <1>8, AwayKeeps

LEMMA CreateExistingKeeps ==
  ASSUME IInv, NEW p \in Proc, CreateExisting(p)
  PROVE  IInv'
<1>1. DiskInv /\ TypeOK /\ Control(p) /\ pc[p] = "lookup"
  BY DEF IInv, CreateExisting, At
<1>2. RootIsCopy
  BY <1>1 DEF Control, InRoot
<1>3. PICK i \in Inum : ip' = [ip EXCEPT ![p] = i]
  <2>1. PICK n : n = arg[p].name
    OBVIOUS
  <2>2. Named(root, n) # {} /\ ip' = [ip EXCEPT ![p] = InumAt(root, Min(Named(root, n)))]
    BY <2>1 DEF CreateExisting
  <2> QED BY <1>1, <1>2, <2>2, FoundInum
<1>4. /\ Goto(p, "ilock") /\ Forget(p) /\ UNCHANGED <<disk, bm, root, ilk>>
      /\ "ilock" \in Labels
  BY DEF CreateExisting, Labels
<1>5. /\ bitmap' = bitmap /\ bitmap' \subseteq bm'
      /\ ilk' = ilk /\ ilk' \in [Inum -> Proc \cup {NoProc}]
  BY <1>1, <1>4 DEF disk, TypeOK
<1>6. /\ TypeOK' /\ pc'[p] = "ilock"
      /\ \A q \in Proc \ {p} : pc'[q] = pc[q] /\ ip'[q] = ip[q]
  BY <1>1, <1>3, <1>4, <1>5, MoveStep
<1>7. Polite(p)
  BY <1>4, <1>5, <1>6 DEF Polite, disk
<1> QED BY <1>4, <1>6, <1>7, AwayKeeps DEF Away

-----------------------------------------------------------------------------
(***************************************************************************)
(* The inode found is locked, used and unlocked; a new one is put.         *)
(***************************************************************************)
LEMMA PutNewKeeps ==
  ASSUME IInv, NEW p \in Proc, PutNew(p)
  PROVE  IInv'
<1>1. TypeOK /\ Control(p) /\ pc[p] = "putnew"
  BY DEF IInv, PutNew, At
<1>2. ilk[ip[p]] = p
  BY <1>1 DEF Control
<1>3. /\ ilk' = [ilk EXCEPT ![ip[p]] = NoProc] /\ End(p, "user")
      /\ UNCHANGED <<disk, bm, root>>
  BY DEF PutNew, Return
<1>4. /\ bitmap' = bitmap /\ bitmap' \subseteq bm'
      /\ ilk' \in [Inum -> Proc \cup {NoProc}]
      /\ \A j \in Inum : ilk'[j] = ilk[j] \/ ilk[j] = p
  BY <1>1, <1>2, <1>3 DEF disk, TypeOK
<1>5. /\ TypeOK' /\ pc'[p] \in Away
      /\ \A q \in Proc \ {p} : pc'[q] = pc[q] /\ ip'[q] = ip[q]
  BY <1>1, <1>3, <1>4, EndStep
<1>6. Polite(p)
  BY <1>3, <1>4, <1>5 DEF Polite, disk
<1> QED BY <1>3, <1>5, <1>6, AwayKeeps

LEMMA UseKeeps ==
  ASSUME IInv, NEW p \in Proc, Use(p)
  PROVE  IInv'
<1>1. TypeOK /\ Control(p) /\ pc[p] = "use"
  BY DEF IInv, Use, At
<1>2. ilk[ip[p]] = p
  BY <1>1 DEF Control
<1>3. /\ ilk' = [ilk EXCEPT ![ip[p]] = NoProc]
      /\ End(p, "user") \/ End(p, "panic")
      /\ UNCHANGED <<disk, bm, root>>
  BY DEF Use, Return, Panic
<1>4. /\ bitmap' = bitmap /\ bitmap' \subseteq bm'
      /\ ilk' \in [Inum -> Proc \cup {NoProc}]
      /\ \A j \in Inum : ilk'[j] = ilk[j] \/ ilk[j] = p
  BY <1>1, <1>2, <1>3 DEF disk, TypeOK
<1>5. /\ TypeOK' /\ pc'[p] \in Away
      /\ \A q \in Proc \ {p} : pc'[q] = pc[q] /\ ip'[q] = ip[q]
  BY <1>1, <1>3, <1>4, EndStep
<1>6. Polite(p)
  BY <1>3, <1>4, <1>5 DEF Polite, disk
<1> QED BY <1>3, <1>5, <1>6, AwayKeeps

\* The call ends, in user mode or in a panic, with the locks it holds.
LEMMA FailKeeps ==
  ASSUME IInv, NEW p \in Proc, PanicLocked(p) \/ UseNoFd(p) \/ Halt(p)
  PROVE  IInv'
<1>1. PICK l \in {"user", "panic", "halt"} : End(p, l)
  BY DEF PanicLocked, UseNoFd, Halt, Return, Panic
<1>2. TypeOK /\ UNCHANGED <<disk, bm, root, ilk>>
  BY DEF IInv, PanicLocked, UseNoFd, Halt
<1>3. /\ bitmap' = bitmap /\ bitmap' \subseteq bm'
      /\ ilk' \in [Inum -> Proc \cup {NoProc}]
  BY <1>2 DEF disk, TypeOK
<1>4. /\ TypeOK' /\ pc'[p] \in Away
      /\ \A q \in Proc \ {p} : pc'[q] = pc[q] /\ ip'[q] = ip[q]
  BY <1>1, <1>2, <1>3, EndStep
<1>5. Polite(p)
  BY <1>2, <1>4 DEF Polite, disk
<1> QED BY <1>2, <1>4, <1>5, AwayKeeps

LEMMA IlockKeeps ==
  ASSUME IInv, NEW p \in Proc, Ilock(p)
  PROVE  IInv'
<1>1. TypeOK /\ DiskInv /\ RootCopy /\ ip[p] \in Inum
  BY DEF IInv, TypeOK
<1>2. /\ ilk[ip[p]] = NoProc /\ ilk' = [ilk EXCEPT ![ip[p]] = p]
      /\ pc' = [pc EXCEPT ![p] = "use"]
      /\ UNCHANGED <<disk, bm, root, arg, ip>> /\ "use" \in Labels
  BY DEF Ilock, Goto, local, Labels
<1>3. /\ bitmap' = bitmap /\ bitmap' \subseteq bm'
      /\ ilk' \in [Inum -> Proc \cup {NoProc}] /\ ilk'[ip[p]] = p
      /\ \A j \in Inum : ilk'[j] = ilk[j] \/ ilk[j] = NoProc
  BY <1>1, <1>2 DEF disk, TypeOK
<1>4. TypeOK' /\ pc'[p] = "use"
  BY <1>1, <1>2, <1>3, TypeStep, Zenon
<1>5. Polite(p)
  BY <1>1, <1>2, <1>3 DEF Polite, disk, TypeOK
<1>6. DiskInv' /\ DirSame
  BY <1>1, <1>2, DiskKept
<1>7. RootCopy'
  BY <1>1, <1>2, <1>3, <1>6, CopyKept DEF RootCopy, DirSame, NoDinode
<1>8. Control(p)'
  BY <1>2, <1>3, <1>4 DEF Control, InRoot
<1> QED BY <1>4, <1>5, <1>6, <1>7, <1>8, StepKeeps

-----------------------------------------------------------------------------
(***************************************************************************)
(* create: the new inode is written, completed, linked.                    *)
(***************************************************************************)
LEMMA IallocKeeps ==
  ASSUME IInv, NEW p \in Proc, Ialloc(p)
  PROVE  IInv'
<1>1. DiskInv /\ TypeOK /\ Control(p) /\ pc[p] = "lookup"
  BY DEF IInv, Ialloc, Creating, At
<1>2. ilk[ROOTINO] = p /\ RootIsCopy
  BY <1>1 DEF Control, InRoot
<1>3. /\ argv' = argv /\ block' = block /\ bitmap' = bitmap /\ bm' = bm
      /\ root' = root /\ ilk' = ilk
  BY DEF Ialloc
<1>4. bitmap' \subseteq bm' /\ ilk' \in [Inum -> Proc \cup {NoProc}]
  BY <1>1, <1>3 DEF TypeOK
<1>5. CASE FreeInodes = {}
  <2>1. End(p, "panic") /\ dinode' = dinode
    BY <1>5 DEF Ialloc, Panic
  <2>2. /\ TypeOK' /\ pc'[p] \in Away
        /\ \A q \in Proc \ {p} : pc'[q] = pc[q] /\ ip'[q] = ip[q]
    BY <1>1, <1>3, <1>4, <2>1, EndStep
  <2>3. UNCHANGED disk /\ Polite(p)
    BY <1>3, <2>1, <2>2 DEF Polite, disk
  <2> QED BY <1>3, <2>2, <2>3, AwayKeeps
<1>6. CASE FreeInodes # {}
  <2> DEFINE t == IF op[p] = "mknod" THEN T_DEVICE ELSE T_FILE
  <2>1. PICK i : i = Min(FreeInodes)
    OBVIOUS
  <2>2. i \in Inum /\ dinode[i].type = 0
    <3>1. FreeInodes \in SUBSET Nat
      BY Constants DEF FreeInodes
    <3> QED BY <1>6, <2>1, <3>1, MinFacts DEF FreeInodes
  <2>3. /\ dinode' = [dinode EXCEPT ![i] = [NoDinode EXCEPT !.type = t]]
        /\ ip' = [ip EXCEPT ![p] = i] /\ pc' = [pc EXCEPT ![p] = "locknew"]
        /\ arg' = arg /\ "locknew" \in Labels
    BY <1>6, <2>1 DEF Ialloc, Goto, Labels
  <2>4. TypeOK' /\ pc'[p] = "locknew"
    <3>1. \E j \in Inum : ip' = [ip EXCEPT ![p] = j]
      BY <2>2, <2>3
    <3> QED BY <1>1, <1>3, <1>4, <2>3, <3>1, TypeStep, Zenon
  <2>5. t \in 1 .. T_DEVICE
    BY DEF T_DEVICE, T_FILE
  <2> HIDE DEF t
  <2>6. dinode[i] = NoDinode /\ i # ROOTINO
    BY <1>1, <2>2 DEF DiskInv, DiskType, RootShape, Dir
  <2>7. PICK d : d = [NoDinode EXCEPT !.type = t]
    OBVIOUS
  <2>8. d.type = t /\ d.addrs = NoDinode.addrs /\ d.size = NoDinode.size /\ d \in Dinode
    <3>1. PICK z : z = [n \in 0 .. NDIRECT |-> 0]
      OBVIOUS
    <3>2. z \in [0 .. NDIRECT -> Block \cup {0}]
      BY <3>1
    <3>3. NoDinode = [type |-> 0, major |-> 0, nlink |-> 0, size |-> 0, addrs |-> z]
      BY <3>1 DEF NoDinode
    <3>4. d = [type |-> t, major |-> 0, nlink |-> 0, size |-> 0, addrs |-> z]
      BY <2>7, <3>3
    <3>5. t \in 0 .. T_DEVICE
      BY <2>5 DEF T_DEVICE
    <3>6. d \in Dinode
      BY <3>2, <3>4, <3>5 DEF Dinode
    <3> QED BY <3>3, <3>4, <3>6
  <2>9. /\ dinode \in [Inum -> Dinode] /\ dinode' \in [Inum -> Dinode]
        /\ dinode'[i] = d /\ \A j \in Inum : j # i => dinode'[j] = dinode[j]
    BY <1>1, <2>2, <2>3, <2>7, <2>8 DEF DiskInv, DiskType
  <2>10. InodeWrite
    <3>1. d.type # 0
      BY <2>5, <2>8
    <3>2. \A j \in Inum : dinode[j].type = 0 => dinode[j] = NoDinode
      BY <1>1 DEF DiskInv, DiskType
    <3> QED BY <1>3, <2>2, <2>6, <2>8, <2>9, <3>1, <3>2, Constants DEF InodeWrite
  <2>11. DiskInv' /\ DirSame
    BY <1>1, <2>10, InodeWriteKeeps
  <2>12. RootIsCopy'
    BY <1>2, <1>3, <2>11, CopyKept DEF DirSame
  <2>13. Polite(p)
    BY <1>1, <1>2, <1>3, <2>3 DEF Polite, TypeOK
  <2>14. Control(p)'
    <3>1. ip'[p] = i /\ ilk'[ROOTINO] = p /\ dinode'[i].type # 0
      BY <1>1, <1>2, <1>3, <2>3, <2>5, <2>8, <2>9 DEF TypeOK
    <3>2. \A k \in SlotSet' : Cell(k)' # <<>> => Ino(k)' # i
      BY <1>1, <2>2, <2>11 DEF DirSame, DiskInv, EntriesInv
    <3> QED BY <2>4, <2>6, <2>12, <3>1, <3>2 DEF Control
  <2> QED BY <2>4, <2>11, <2>12, <2>13, <2>14, StepKeeps DEF RootCopy
<1> QED BY <1>5, <1>6

LEMMA IupdateKeeps ==
  ASSUME IInv, NEW p \in Proc, Iupdate(p)
  PROVE  IInv'
<1>1. DiskInv /\ TypeOK /\ Control(p) /\ pc[p] = "locknew"
  BY DEF IInv, Iupdate, At
<1>2. PICK i \in Inum : i = ip[p]
  BY <1>1 DEF TypeOK
<1>3. /\ ilk[ROOTINO] = p /\ RootIsCopy /\ i # ROOTINO /\ dinode[i].type # 0
      /\ \A k \in SlotSet : Cell(k) # <<>> => Ino(k) # i
  BY <1>1, <1>2 DEF Control, InRoot
<1>4. PICK m \in Major \cup {0} : m = arg[p].major
  BY <1>1 DEF TypeOK
<1>5. /\ argv' = argv /\ block' = block /\ bitmap' = bitmap /\ bm' = bm
      /\ root' = root /\ arg' = arg /\ ip' = ip
      /\ ilk[i] = NoProc /\ ilk' = [ilk EXCEPT ![i] = p]
      /\ dinode' = [dinode EXCEPT ![i].nlink = 1, ![i].major = m]
      /\ pc' = [pc EXCEPT ![p] = "dirlink"] /\ "dirlink" \in Labels
  BY <1>2, <1>4 DEF Iupdate, Goto, local, Labels
<1>6. /\ bitmap' \subseteq bm' /\ ilk' \in [Inum -> Proc \cup {NoProc}]
      /\ ilk'[i] = p /\ ilk'[ROOTINO] = p
  BY <1>1, <1>3, <1>5, Constants DEF TypeOK
<1>7. TypeOK' /\ pc'[p] = "dirlink"
  BY <1>1, <1>5, <1>6, TypeStep, Zenon
<1>8. dinode \in [Inum -> Dinode]
  BY <1>1 DEF DiskInv, DiskType
<1>9. PICK d : d = [[dinode[i] EXCEPT !.nlink = 1] EXCEPT !.major = m]
  OBVIOUS
<1>10. /\ d \in Dinode /\ d.nlink = 1 /\ d.type = dinode[i].type
       /\ d.size = dinode[i].size /\ d.addrs = dinode[i].addrs
  BY <1>8, <1>9 DEF Dinode
<1>11. /\ dinode' \in [Inum -> Dinode] /\ dinode'[i] = d
       /\ \A j \in Inum : j # i => dinode'[j] = dinode[j]
  <2>1. dinode'[i] = d /\ \A j \in Inum : j # i => dinode'[j] = dinode[j]
    BY <1>5, <1>8, <1>9
  <2>2. DOMAIN dinode' = Inum /\ dinode' = [j \in Inum |-> dinode'[j]]
    BY <1>5, <1>8
  <2>3. \A j \in Inum : dinode'[j] \in Dinode
    BY <1>8, <1>10, <2>1
  <2> QED BY <2>1, <2>2, <2>3
<1>12. InodeWrite
  <2>1. \A j \in Inum : dinode[j].type = 0 => dinode[j] = NoDinode
    BY <1>1 DEF DiskInv, DiskType
  <2> QED BY <1>3, <1>5, <1>10, <1>11, <2>1, Constants DEF InodeWrite
<1>13. DiskInv' /\ DirSame
  BY <1>1, <1>12, InodeWriteKeeps
<1>14. RootIsCopy'
  BY <1>3, <1>5, <1>13, CopyKept DEF DirSame
<1>15. Polite(p)
  BY <1>1, <1>3, <1>5 DEF Polite, TypeOK
<1>16. Control(p)'
  <2>1. ip'[p] = i /\ dinode'[i].type # 0 /\ dinode'[i].nlink = 1
    BY <1>2, <1>3, <1>5, <1>10, <1>11
  <2>2. \A k \in SlotSet' : Cell(k)' # <<>> => Ino(k)' # i
    BY <1>3, <1>13 DEF DirSame
  <2> QED BY <1>3, <1>6, <1>7, <1>14, <2>1, <2>2 DEF Control
<1> QED BY <1>7, <1>13, <1>14, <1>15, <1>16, StepKeeps DEF RootCopy

\* The entry that dirlink writes, if it does not panic.
LEMMA DirlinkWrites ==
  ASSUME IInv, NEW p \in Proc, Dirlink(p), ~Panic(p)
  PROVE  /\ root = Dir
         /\ \E off \in Nat : EntryWrite(off, ip[p], arg[p].name)
<1> DEFINE off == Min(Unused(root) \cup {root.size})
           x == bmap(root, off \div BSIZE)
<1>1. DiskInv /\ TypeOK /\ Control(p) /\ pc[p] = "dirlink"
  BY DEF IInv, Dirlink, At
<1>2. RootIsCopy /\ ip[p] \in Inum /\ ip[p] # ROOTINO /\ Nameless(ip[p])
      /\ dinode[ip[p]].type # 0 /\ dinode[ip[p]].nlink = 1
  BY <1>1 DEF Control, InRoot, TypeOK, Nameless
<1>3. /\ ~(off + 1 > MAXFILE)
      /\ block' = [block EXCEPT ![x][off % BSIZE] = <<ip[p], arg[p].name>>]
      /\ argv' = argv /\ dinode' = dinode /\ bitmap' = bitmap
  BY DEF Dirlink
<1>4. Unused(root) \subseteq Nat /\ root.size \in Nat /\ root.size = Dir.size
  BY <1>1, <1>2, CopySlot, RootOnDisk DEF Unused, RootIsCopy, DiskInv
<1>5. /\ off \in Unused(root) \cup {root.size} /\ off \in Nat
      /\ \A k \in Unused(root) : off <= k
  <2>1. Unused(root) \cup {root.size} \in SUBSET Nat /\ Unused(root) \cup {root.size} # {}
    BY <1>4
  <2> QED BY <2>1, MinFacts
<1> HIDE DEF off
<1>6. off < BSIZE /\ off \in 0 .. BSIZE - 1
  BY <1>3, <1>5, Constants
<1>7. off \in Slots(root) /\ InumAt(root, off) = 0
  <2>1. off # root.size
    BY <1>1, <1>4, <1>6, Constants DEF DiskInv, RootShape
  <2> QED BY <1>5, <2>1 DEF Unused
<1>8. off \in SlotSet /\ Ino(off) = 0
  BY <1>1, <1>2, <1>6, <1>7, FirstSlots, CopySlot DEF DiskInv
<1>9. HoleSet = {}
  BY <1>1, <1>6, <1>8 DEF DiskInv, SlotOrder
<1>10. root = Dir
  BY <1>1, <1>2, <1>9, CopyExact
<1>11. \A k \in SlotSet : Ino(k) = 0 => off <= k
  BY <1>5, <1>10 DEF Unused, SlotSet, Ino
<1>12. off \div BSIZE = 0 /\ off % BSIZE = off
  BY <1>5, <1>6, FirstBlock, Constants
<1>13. x = Dir.addrs[0]
  BY <1>10, <1>12, Constants DEF bmap
<1> HIDE DEF x
<1>14. EntryWrite(off, ip[p], arg[p].name)
  BY <1>2, <1>3, <1>6, <1>8, <1>9, <1>11, <1>12, <1>13 DEF EntryWrite
<1> QED BY <1>5, <1>10, <1>14

LEMMA DirlinkKeeps ==
  ASSUME IInv, NEW p \in Proc, Dirlink(p)
  PROVE  IInv'
<1>1. DiskInv /\ TypeOK /\ Control(p) /\ pc[p] = "dirlink"
  BY DEF IInv, Dirlink, At
<1>2. ilk[ROOTINO] = p /\ RootIsCopy /\ ip[p] # ROOTINO /\ ilk[ip[p]] = p
  BY <1>1 DEF Control, InRoot
<1>3. /\ argv' = argv /\ dinode' = dinode /\ bitmap' = bitmap /\ bm' = bm
      /\ root' = root /\ ilk' = ilk
  BY DEF Dirlink
<1>4. bitmap' \subseteq bm' /\ ilk' \in [Inum -> Proc \cup {NoProc}]
  BY <1>1, <1>3 DEF TypeOK
<1>5. CASE Panic(p) /\ block' = block
  <2>1. End(p, "panic")
    BY <1>5 DEF Panic
  <2>2. /\ TypeOK' /\ pc'[p] \in Away
        /\ \A q \in Proc \ {p} : pc'[q] = pc[q] /\ ip'[q] = ip[q]
    BY <1>1, <1>3, <1>4, <2>1, EndStep
  <2>3. UNCHANGED disk /\ Polite(p)
    BY <1>3, <1>5, <2>2 DEF Polite, disk
  <2> QED BY <1>3, <2>2, <2>3, AwayKeeps
<1>6. CASE ~(Panic(p) /\ block' = block)
  <2>1. Goto(p, "linked") /\ Forget(p) /\ ip' = ip /\ "linked" \in Labels
    BY <1>6 DEF Dirlink, Labels
  <2>2. pc' = [pc EXCEPT ![p] = "linked"] /\ arg' = [arg EXCEPT ![p] = NoArg]
    BY <2>1 DEF Goto, Forget
  <2>3. ~Panic(p)
    <3>1. pc'[p] = "linked"
      BY <1>1, <2>2 DEF TypeOK
    <3>2. Panic(p) => pc'[p] = "panic"
      BY <1>1 DEF Panic, End, Goto, TypeOK
    <3> QED BY <3>1, <3>2
  <2>4. TypeOK' /\ pc'[p] = "linked"
    <3>1. NoArg.major \in Major \cup {0}
      BY DEF NoArg
    <3>2. \E a : arg' = [arg EXCEPT ![p] = a] /\ a.major \in Major \cup {0}
      BY <2>2, <3>1, Zenon
    <3> QED BY <1>1, <1>3, <1>4, <2>1, <2>2, <3>2, TypeStep, Zenon
  <2>5. root = Dir
    BY <2>3, DirlinkWrites
  <2>6. PICK off \in Nat : EntryWrite(off, ip[p], arg[p].name)
    BY <2>3, DirlinkWrites
  <2>7. PICK i : i = ip[p]
    OBVIOUS
  <2>8. PICK n : n = arg[p].name
    OBVIOUS
  <2>9. EntryWrite(off, i, n)
    BY <2>6, <2>7, <2>8
  <2>10. DiskInv' /\ EntryAdded(off, i, n)
    BY <1>1, <2>9, EntryWriteKeeps, EntryWriteDir
  <2>11. Dir' = Dir /\ HoleSet' = HoleSet
    BY <2>10 DEF EntryAdded
  <2>12. RootIsCopy'
    BY <1>2, <1>3, <2>11, CopyKept
  <2>13. Polite(p)
    BY <1>1, <1>2, <1>3, <2>1, <2>2 DEF Polite, TypeOK
  <2>14. Control(p)'
    BY <1>2, <1>3, <2>1, <2>4, <2>5, <2>11, <2>12 DEF Control
  <2> QED BY <2>4, <2>10, <2>12, <2>13, <2>14, StepKeeps DEF RootCopy
<1> QED BY <1>5, <1>6

LEMMA LinkedKeeps ==
  ASSUME IInv, NEW p \in Proc, Linked(p)
  PROVE  IInv' /\ UNCHANGED disk
<1>1. DiskInv /\ TypeOK /\ Control(p) /\ pc[p] = "linked"
  BY DEF IInv, Linked, At
<1>2. /\ ilk[ROOTINO] = p /\ root = Dir
      /\ ip[p] \in Inum /\ ip[p] # ROOTINO /\ ilk[ip[p]] = p
  BY <1>1 DEF Control, InRoot, TypeOK
<1>3. /\ dinode' = [dinode EXCEPT ![ROOTINO] = root] /\ UnlockRoot
      /\ Goto(p, IF op[p] = "mknod" THEN "putnew" ELSE "ilock")
      /\ argv' = argv /\ block' = block /\ bitmap' = bitmap /\ bm' = bm
      /\ arg' = arg /\ ip' = ip
  BY DEF Linked, local
<1>4. dinode' = dinode
  BY <1>1, <1>2, <1>3 DEF Dir, DiskInv, DiskType
<1>5. UNCHANGED disk
  BY <1>3, <1>4 DEF disk
<1>6. /\ root' = NoDinode /\ ilk' \in [Inum -> Proc \cup {NoProc}]
      /\ \A i \in Inum : i # ROOTINO => ilk'[i] = ilk[i]
  BY <1>1, <1>3, UnlockRootFacts
<1>7. PICK l \in {"putnew", "ilock"} : pc' = [pc EXCEPT ![p] = l]
  BY <1>3 DEF Goto
<1>8. TypeOK' /\ pc'[p] = l
  <2>1. l \in Labels /\ bitmap' \subseteq bm'
    BY <1>1, <1>3 DEF Labels, TypeOK
  <2> QED BY <1>1, <1>3, <1>6, <1>7, <2>1, TypeStep, Zenon
<1>9. Polite(p)
  BY <1>1, <1>2, <1>3, <1>6, <1>7 DEF Polite, TypeOK
<1>10. DiskInv' /\ RootCopy'
  BY <1>1, <1>5, <1>6, DiskKept DEF RootCopy, NoDinode
<1>11. Control(p)'
  <2>1. ilk'[ip'[p]] = p /\ ip'[p] # ROOTINO
    BY <1>2, <1>3, <1>6
  <2> QED BY <1>8, <2>1 DEF Control, InRoot
<1> QED BY <1>5, <1>8, <1>9, <1>10, <1>11, StepKeeps

-----------------------------------------------------------------------------
(***************************************************************************)
(* The bitmap's buffer is recycled, the power fails, or nothing happens.   *)
(***************************************************************************)
LEMMA RestKeeps ==
  ASSUME IInv, UNCHANGED disk, UNCHANGED <<root, ilk, pc, arg, ip>>,
         bm' = bm \/ bm' = bitmap
  PROVE  IInv'
<1>1. DiskInv' /\ DirSame
  BY DiskKept DEF IInv
<1>2. Polite(NoProc)
  BY DEF Polite, disk
<1>3. \A q \in Proc : Control(q)'
  BY <1>2, OthersKept, Constants
<1>4. TypeOK'
  BY DEF IInv, TypeOK, disk
<1>5. RootCopy'
  BY <1>1, CopyKept DEF IInv, RootCopy, DirSame, disk, NoDinode
<1> QED BY <1>1, <1>3, <1>4, <1>5 DEF IInv

\* A kernel that has just started.
Started ==
  /\ bm = bitmap /\ root = NoDinode
  /\ ilk = [i \in Inum |-> NoProc]
  /\ pc = [p \in Proc |-> "user"]
  /\ arg = [p \in Proc |-> NoArg]
  /\ ip = [p \in Proc |-> 0]

LEMMA StartedInv ==
  ASSUME DiskInv, Started
  PROVE  IInv
<1>1. TypeOK
  BY Constants DEF Started, TypeOK, Labels, NoArg
<1>2. RootCopy
  BY DEF Started, RootCopy
<1>3. \A p \in Proc : Control(p)
  BY DEF Started, Control, InRoot
<1> QED BY <1>1, <1>2, <1>3 DEF IInv

LEMMA CrashKeeps ==
  ASSUME IInv, Crash
  PROVE  IInv'
<1>1. DiskInv'
  BY DiskKept DEF IInv, Crash
<1>2. bitmap' = bitmap
  BY DEF Crash, disk
<1>3. TypeOK'
  BY <1>2, Constants DEF Crash, TypeOK, Labels, NoArg
<1>4. RootCopy'
  BY DEF Crash, RootCopy, NoDinode
<1>5. \A p \in Proc : Control(p)'
  BY DEF Crash, Control, InRoot
<1> QED BY <1>1, <1>3, <1>4, <1>5 DEF IInv

-----------------------------------------------------------------------------
(***************************************************************************)
(* The invariant.                                                          *)
(***************************************************************************)
LEMMA PointerIsBlock ==
  ASSUME NEW i, NEW n \in Nat, n < NDIRECT + NINDIRECT
  PROVE  Pointer(i, n) = bmap(dinode[i], n)
BY Constants DEF Pointer

LEMMA FilesSame ==
  ASSUME dinode \in [Inum -> Dinode]
  PROVE  FilesFormed <=> FilesInv
<1>1. ASSUME NEW j \in DOMAIN argv, InodeOf(j) \in Inum \ {ROOTINO},
             dinode[InodeOf(j)].size = argv[j].size,
             NEW off \in 0 .. argv[j].size - 1,
             off \div BSIZE < NDIRECT + NINDIRECT
      PROVE  bmap(dinode[InodeOf(j)], off \div BSIZE) = Pointer(InodeOf(j), off \div BSIZE)
  <2>1. argv[j].size \in Nat
    BY <1>1 DEF Dinode
  <2>2. off \in Nat /\ off \div BSIZE \in Nat
    BY <2>1, Division, Constants
  <2> QED BY <1>1, <2>2, PointerIsBlock
<1>2. ASSUME FilesFormed PROVE FilesInv
  <2>1. SUFFICES ASSUME NEW j \in DOMAIN argv
        PROVE  /\ InodeOf(j) \in Inum \ {ROOTINO}
               /\ dinode[InodeOf(j)].size = argv[j].size
               /\ \A off \in 0 .. argv[j].size - 1 :
                    /\ off \div BSIZE < NDIRECT + NINDIRECT
                    /\ Pointer(InodeOf(j), off \div BSIZE) # 0
                    /\ block[Pointer(InodeOf(j), off \div BSIZE)][off % BSIZE]
                         = Contents(argv[j])[off + 1]
    BY DEF FilesInv
  <2>2. /\ InodeOf(j) \in Inum \ {ROOTINO} /\ dinode[InodeOf(j)].size = argv[j].size
        /\ \A off \in 0 .. argv[j].size - 1 :
             /\ off \div BSIZE < NDIRECT + NINDIRECT
             /\ bmap(dinode[InodeOf(j)], off \div BSIZE) # 0
             /\ block[bmap(dinode[InodeOf(j)], off \div BSIZE)][off % BSIZE]
                  = Contents(argv[j])[off + 1]
    BY <1>2 DEF FilesFormed
  <2> QED BY <1>1, <2>2
<1>3. ASSUME FilesInv PROVE FilesFormed
  <2>1. SUFFICES ASSUME NEW j \in DOMAIN argv
        PROVE  /\ InodeOf(j) \in Inum \ {ROOTINO}
               /\ dinode[InodeOf(j)].size = argv[j].size
               /\ \A off \in 0 .. argv[j].size - 1 :
                    /\ off \div BSIZE < NDIRECT + NINDIRECT
                    /\ bmap(dinode[InodeOf(j)], off \div BSIZE) # 0
                    /\ block[bmap(dinode[InodeOf(j)], off \div BSIZE)][off % BSIZE]
                         = Contents(argv[j])[off + 1]
    BY DEF FilesFormed
  <2>2. /\ InodeOf(j) \in Inum \ {ROOTINO} /\ dinode[InodeOf(j)].size = argv[j].size
        /\ \A off \in 0 .. argv[j].size - 1 :
             /\ off \div BSIZE < NDIRECT + NINDIRECT
             /\ Pointer(InodeOf(j), off \div BSIZE) # 0
             /\ block[Pointer(InodeOf(j), off \div BSIZE)][off % BSIZE]
                  = Contents(argv[j])[off + 1]
    BY <1>3 DEF FilesInv
  <2> QED BY <1>1, <2>2
<1> QED BY <1>2, <1>3

LEMMA FormedIsInv == WellFormed <=> DiskInv
<1>1. DiskType <=> /\ dinode \in [Inum -> Dinode]
                   /\ DOMAIN block = Block
                   /\ \A b \in Block : DOMAIN block[b] = Cells
                   /\ \A i \in Inum : dinode[i].type = 0 => dinode[i] = NoDinode
  BY DEF DiskType
<1>2. RootFormed <=> RootShape /\ SlotOrder
  BY DEF RootFormed, RootShape, SlotOrder, HoleSet, SlotSet, Ino
<1>3. EntriesFormed <=> EntriesInv
  <2>1. Entries = {k \in SlotSet : Cell(k) # <<>>}
    BY DEF Entries, SlotSet, Cell
  <2>2. \A k : Ino(k) = InumAt(Dir, k)
    BY DEF Ino
  <2> QED BY <2>1, <2>2 DEF EntriesFormed, EntriesInv
<1>4. BlocksFormed <=> FreeBlocksZero /\ PointersApart
  BY DEF BlocksFormed, FreeBlocksZero, PointersApart, PtrNo
<1>5. DiskType => (FilesFormed <=> FilesInv)
  BY FilesSame DEF DiskType
<1> QED BY <1>1, <1>2, <1>3, <1>4, <1>5 DEF WellFormed, DiskInv

LEMMA NextKeeps ==
  ASSUME IInv, [Next]_vars
  PROVE  IInv'
<1>1. ASSUME NEW p \in Proc, Begin(p) PROVE IInv'
  BY <1>1, CallKeeps, OpenRootKeeps DEF Begin
<1>2. ASSUME NEW p \in Proc, Step(p) \/ Halt(p) PROVE IInv'
  BY <1>2, DirLockKeeps, FillHoleKeeps, LookupFoundKeeps, LookupMissingKeeps,
     CreateExistingKeeps, IallocKeeps, IupdateKeeps, DirlinkKeeps, LinkedKeeps,
     PutNewKeeps, IlockKeeps, UseKeeps, FailKeeps DEF Step
<1>3. CASE BitmapRecycled
  BY <1>3, RestKeeps DEF BitmapRecycled, local
<1>4. CASE Crash
  BY <1>4, CrashKeeps
<1>5. CASE UNCHANGED vars
  BY <1>5, RestKeeps DEF vars, disk
<1> QED BY <1>1, <1>2, <1>3, <1>4, <1>5 DEF Next

LEMMA InitInv ==
  ASSUME WellFormed, Init
  PROVE  IInv
<1>1. Started
  BY DEF Init, Started
<1> QED BY <1>1, FormedIsInv, StartedInv

(***************************************************************************)
(* The inductive invariant holds: on a well-formed image the system calls  *)
(* of any number of processes, interleaved with power failures, keep the   *)
(* disk, the cached root and the locks of inodes in order.                 *)
(***************************************************************************)
THEOREM FsInvariant == WellFormed /\ Spec => []IInv
<1>1. WellFormed /\ Init => IInv
  BY InitInv
<1>2. IInv /\ [Next]_vars => IInv'
  BY NextKeeps
<1> QED BY <1>1, <1>2, PTL DEF Spec

(***************************************************************************)
(* The disk is well formed at every moment, also right after a power       *)
(* failure between any two of its writes.                                  *)
(***************************************************************************)
THEOREM WellFormedHolds == WellFormed /\ Spec => []WellFormed
<1>1. IInv => WellFormed
  BY FormedIsInv DEF IInv
<1> QED BY <1>1, FsInvariant, PTL

(***************************************************************************)
(* What a directory entry names is an inode that ialloc has written as     *)
(* allocated and create as linked.                                         *)
(***************************************************************************)
THEOREM EntriesNameInodesHolds == WellFormed /\ Spec => []EntriesNameInodes
<1>1. IInv => EntriesNameInodes
  <2>1. SUFFICES ASSUME IInv, NEW k \in Entries
        PROVE  dinode[InumAt(Dir, k)].type # 0 /\ dinode[InumAt(Dir, k)].nlink = 1
    BY DEF EntriesNameInodes
  <2>2. k \in SlotSet /\ Cell(k) # <<>> /\ Ino(k) = InumAt(Dir, k)
    BY DEF Entries, SlotSet, Cell, Ino
  <2> QED BY <2>1, <2>2 DEF IInv, DiskInv, EntriesInv
<1> QED BY <1>1, FsInvariant, PTL

-----------------------------------------------------------------------------
(***************************************************************************)
(* Counting.                                                               *)
(***************************************************************************)
LEMMA OneToOne ==
  ASSUME NEW S, NEW T, IsFiniteSet(S), NEW f \in [S -> T],
         \A a, b \in S : f[a] = f[b] => a = b,
         \A t \in T : \E a \in S : f[a] = t
  PROVE  Cardinality(T) = Cardinality(S)
<1>1. f \in Bijection(S, T)
  BY DEF Bijection, Injection, Surjection, IsInjective
<1>2. ExistsBijection(S, T)
  BY <1>1 DEF ExistsBijection
<1> QED BY <1>2, FS_Bijection

(***************************************************************************)
(* No inode but the root gets two entries, whatever mknod duplicates and   *)
(* whatever a power failure leaves half done.                              *)
(***************************************************************************)
THEOREM OneEntryPerFileHolds == WellFormed /\ Spec => []OneEntryPerFile
<1>1. ASSUME IInv PROVE OneEntryPerFile
  <2> DEFINE E == {k \in Entries : InumAt(Dir, k) # ROOTINO}
             T == {InumAt(Dir, k) : k \in E}
             f == [k \in E |-> InumAt(Dir, k)]
  <2>1. \A k \in E : k \in SlotSet /\ Cell(k) # <<>> /\ Ino(k) = InumAt(Dir, k)
    BY DEF Entries, SlotSet, Cell, Ino
  <2>2. IsFiniteSet(E)
    <3>1. Dir.size \in Nat /\ E \subseteq 0 .. Dir.size - 1
      BY <1>1, <2>1, SlotSetIs, RootOnDisk DEF IInv, DiskInv
    <3>2. IsFiniteSet(0 .. Dir.size - 1)
      BY <3>1, FS_Interval
    <3> QED BY <3>1, <3>2, FS_Subset
  <2>3. \A k, l \in E : InumAt(Dir, k) = InumAt(Dir, l) => k = l
    BY <1>1, <2>1 DEF IInv, DiskInv, EntriesInv
  <2> HIDE DEF E
  <2>4. f \in [E -> T] /\ \A t \in T : \E k \in E : f[k] = t
    OBVIOUS
  <2>5. \A k, l \in E : f[k] = f[l] => k = l
    BY <2>3
  <2> HIDE DEF f, T
  <2>6. Cardinality(T) = Cardinality(E)
    BY <2>2, <2>4, <2>5, OneToOne
  <2> QED BY <2>6 DEF OneEntryPerFile, E, T
<1>2. IInv => OneEntryPerFile
  BY <1>1
<1> QED BY <1>2, FsInvariant, PTL

(***************************************************************************)
(* A data block has one use: of one file, as data or as its indirect       *)
(* block, or to fill a hole of the cached root, or none; and balloc sees   *)
(* those of files as taken.                                                *)
(***************************************************************************)
THEOREM BlocksOwnedHolds == WellFormed /\ Spec => []BlocksOwned
<1>1. ASSUME IInv PROVE BlocksOwned
  <2> DEFINE Used   == {u \in Inum \X (0 .. NDIRECT + NINDIRECT) :
                          Pointer(u[1], u[2]) # 0}
             Owned  == {Pointer(u[1], u[2]) : u \in Used}
             Filled == {root.addrs[n] : n \in Holes(Dir)} \ {0}
             f == [u \in Used |-> Pointer(u[1], u[2])]
  <2>1. ASSUME NEW u \in Used
        PROVE  /\ u[1] \in Inum /\ u[2] \in PtrNo /\ u = <<u[1], u[2]>>
               /\ Pointer(u[1], u[2]) # 0
               /\ Pointer(u[1], u[2]) \in bitmap /\ Pointer(u[1], u[2]) \in Block
    BY <1>1 DEF IInv, DiskInv, PointersApart, PtrNo
  <2>2. ASSUME NEW u \in Used, NEW v \in Used, Pointer(u[1], u[2]) = Pointer(v[1], v[2])
        PROVE  u = v
    <3>1. u[1] = v[1] /\ u[2] = v[2]
      BY <1>1, <2>1, <2>2 DEF IInv, DiskInv, PointersApart
    <3> QED BY <2>1, <3>1
  <2>3. IsFiniteSet(Used)
    <3>1. IsFiniteSet(Inum) /\ IsFiniteSet(0 .. NDIRECT + NINDIRECT)
      BY FS_Interval, Constants DEF Inum
    <3>2. IsFiniteSet(Inum \X (0 .. NDIRECT + NINDIRECT))
      BY <3>1, FS_Product
    <3> QED BY <3>2, FS_Subset
  <2>4. Owned \subseteq bm \cap Block /\ Owned \subseteq bitmap
    BY <1>1, <2>1 DEF IInv, TypeOK
  <2>5. \A b \in Filled : b \notin bitmap
    <3>1. SUFFICES ASSUME NEW n \in Holes(Dir), root.addrs[n] # 0
          PROVE  root.addrs[n] \notin bitmap
      OBVIOUS
    <3>2. n \in HoleSet /\ n \in 0 .. NDIRECT
      BY HoleSetIs, Constants DEF HoleSet
    <3>3. NoDinode.addrs[n] = 0
      BY <3>2 DEF NoDinode
    <3>4. RootIsCopy
      BY <1>1, <3>1, <3>3 DEF IInv, RootCopy
    <3> QED BY <3>1, <3>2, <3>4, HoleSetIs DEF RootIsCopy
  <2>6. Owned \cap Filled = {}
    BY <2>4, <2>5
  <2> HIDE DEF Used
  <2>7. f \in [Used -> Owned] /\ \A t \in Owned : \E u \in Used : f[u] = t
    OBVIOUS
  <2>8. \A u, v \in Used : f[u] = f[v] => u = v
    BY <2>2
  <2> HIDE DEF f, Owned, Filled
  <2>9. Cardinality(Owned) = Cardinality(Used)
    BY <2>3, <2>7, <2>8, OneToOne
  <2> QED BY <2>4, <2>6, <2>9 DEF BlocksOwned, Used, Owned, Filled
<1>2. IInv => BlocksOwned
  BY <1>1
<1> QED BY <1>2, FsInvariant, PTL

-----------------------------------------------------------------------------
(***************************************************************************)
(* Names.                                                                  *)
(***************************************************************************)
LEMMA ResolveIs ==
  ASSUME SlotSet \subseteq Nat, NEW n, NEW k \in SlotSet, Nam(k) = n,
         \A l \in SlotSet : Nam(l) = n => k <= l
  PROVE  Resolve(n) = Ino(k)
<1>1. Named(Dir, n) = {l \in SlotSet : Nam(l) = n}
  BY DEF Named, SlotSet, Nam
<1>2. Min(Named(Dir, n)) = k
  <2>1. Named(Dir, n) \in SUBSET Nat /\ k \in Named(Dir, n)
    BY <1>1
  <2> QED BY <1>1, <2>1, MinIs
<1> QED BY <1>1, <1>2 DEF Resolve, Ino

LEMMA ResolveFinds ==
  ASSUME SlotSet \subseteq Nat, NEW n, Resolve(n) # 0
  PROVE  \E k \in SlotSet : /\ Nam(k) = n /\ \A l \in SlotSet : Nam(l) = n => k <= l
                            /\ Resolve(n) = Ino(k)
<1>1. Named(Dir, n) = {l \in SlotSet : Nam(l) = n}
  BY DEF Named, SlotSet, Nam
<1>2. Named(Dir, n) # {}
  BY DEF Resolve
<1>3. PICK k : k = Min(Named(Dir, n))
  OBVIOUS
<1>4. k \in Named(Dir, n) /\ \A l \in Named(Dir, n) : k <= l
  BY <1>1, <1>2, <1>3, MinFacts
<1>5. Resolve(n) = Ino(k)
  BY <1>2, <1>3 DEF Resolve, Ino
<1> QED BY <1>1, <1>4, <1>5

LEMMA ResolveIsPrime ==
  ASSUME SlotSet' \subseteq Nat, NEW n, NEW k \in SlotSet', Nam(k)' = n,
         \A l \in SlotSet' : Nam(l)' = n => k <= l
  PROVE  Resolve(n)' = Ino(k)'
<1>1. PICK N : N = {l \in SlotSet' : Nam(l)' = n}
  OBVIOUS
<1>2. Named(Dir, n)' = N
  BY <1>1 DEF Named, SlotSet, Nam, Slots, Holes, NameAt, Entry, bmap, Dir
<1>3. Min(N) = k /\ N # {}
  <2>1. N \in SUBSET Nat /\ k \in N
    BY <1>1
  <2> QED BY <1>1, <2>1, MinIs
<1>4. Resolve(n)' = InumAt(Dir, Min(Named(Dir, n)))'
  BY <1>2, <1>3 DEF Resolve
<1>5. Min(Named(Dir, n))' = k
  BY <1>2, <1>3
<1>6. InumAt(Dir, Min(Named(Dir, n)))' = Ino(k)'
  BY <1>5 DEF InumAt, Ino, Entry, bmap, Dir
<1> QED BY <1>4, <1>6

\* ialloc and iupdate of a new inode leave the root's inode and all blocks.
LEMMA RootInodeKept ==
  ASSUME IInv, NEW p \in Proc, Ialloc(p) \/ Iupdate(p)
  PROVE  block' = block /\ dinode'[ROOTINO] = dinode[ROOTINO]
<1>1. DiskInv /\ TypeOK /\ Control(p) /\ dinode \in [Inum -> Dinode]
  BY DEF IInv, DiskInv, DiskType
<1>2. CASE Iupdate(p)
  <2>1. ip[p] # ROOTINO
    BY <1>1, <1>2 DEF Iupdate, At, Control
  <2> QED BY <1>1, <1>2, <2>1, Constants DEF Iupdate
<1>3. CASE Ialloc(p) /\ FreeInodes # {}
  <2>1. PICK i : i = Min(FreeInodes)
    OBVIOUS
  <2>2. FreeInodes \in SUBSET Nat /\ ROOTINO \notin FreeInodes
    BY <1>1, Constants DEF FreeInodes, DiskInv, RootShape, Dir
  <2>3. i # ROOTINO
    BY <1>3, <2>1, <2>2, MinFacts
  <2> QED BY <1>1, <1>3, <2>1, <2>3, Constants DEF Ialloc
<1>4. CASE Ialloc(p) /\ FreeInodes = {}
  BY <1>4 DEF Ialloc
<1> QED BY <1>2, <1>3, <1>4

LEMMA SlotsAreNat ==
  ASSUME DiskInv
  PROVE  SlotSet \subseteq Nat
BY SlotFacts DEF DiskInv

LEMMA InodeWriteNames ==
  ASSUME DiskInv, DirSame, NEW n, Resolve(n) # 0
  PROVE  Resolve(n)' = Resolve(n)
<1>1. SlotSet \subseteq Nat
  BY SlotsAreNat
<1>2. PICK k \in SlotSet : /\ Nam(k) = n /\ \A l \in SlotSet : Nam(l) = n => k <= l
                           /\ Resolve(n) = Ino(k)
  BY <1>1, ResolveFinds
<1>3. /\ SlotSet' \subseteq Nat /\ k \in SlotSet' /\ Nam(k)' = n
      /\ \A l \in SlotSet' : Nam(l)' = n => k <= l
      /\ Ino(k)' = Ino(k)
  BY <1>1, <1>2 DEF DirSame
<1>4. Resolve(n)' = Ino(k)'
  BY <1>3, ResolveIsPrime
<1> QED BY <1>2, <1>3, <1>4

\* The new entry comes behind every entry with an inode number other than 0.
LEMMA EntryWriteNames ==
  ASSUME DiskInv, NEW off, NEW i, NEW nm, EntryWrite(off, i, nm), NEW n, Resolve(n) # 0
  PROVE  Resolve(n)' = Resolve(n)
<1>1. SlotSet \subseteq Nat /\ EntryAdded(off, i, nm)
  BY SlotsAreNat, EntryWriteDir
<1>2. PICK k \in SlotSet : /\ Nam(k) = n /\ \A l \in SlotSet : Nam(l) = n => k <= l
                           /\ Resolve(n) = Ino(k)
  BY <1>1, ResolveFinds
<1>3. off \in SlotSet /\ Ino(off) = 0 /\ Ino(k) # 0
  BY <1>1, <1>2 DEF EntryAdded, EntryWrite
<1>4. k < off /\ k # off
  BY <1>1, <1>3 DEF DiskInv, SlotOrder
<1>5. k \in SlotSet' /\ Nam(k)' = n /\ Ino(k)' = Ino(k) /\ SlotSet' = SlotSet
  BY <1>1, <1>2, <1>4 DEF EntryAdded
<1>6. ASSUME NEW l \in SlotSet', Nam(l)' = n PROVE k <= l
  <2>1. CASE l = off
    BY <1>1, <1>3, <1>4, <2>1
  <2>2. CASE l # off
    <3>1. l \in SlotSet /\ Nam(l) = n
      BY <1>1, <1>5, <1>6, <2>2 DEF EntryAdded
    <3> QED BY <1>2, <3>1
  <2> QED BY <2>1, <2>2
<1>7. Resolve(n)' = Ino(k)'
  <2>1. SlotSet' \subseteq Nat
    BY <1>1, <1>5
  <2> QED BY <1>5, <1>6, <2>1, ResolveIsPrime
<1> QED BY <1>2, <1>5, <1>7

(***************************************************************************)
(* What a name stands for does not change, through duplicates made by      *)
(* mknod, creation by other processes and power failures, unless it stands *)
(* for inode 0: dirlink writes a new entry behind the ones in use.         *)
(***************************************************************************)
THEOREM NameStableHolds == WellFormed /\ Spec => NameStable
<1>1. ASSUME IInv, Next
      PROVE  \/ UNCHANGED disk
             \/ \A n \in OpenName \cup ExecName \cup NewName \cup NodName :
                  Resolve(n) # 0 => Resolve(n)' = Resolve(n)
  <2>1. DiskInv
    BY <1>1 DEF IInv
  <2>2. ASSUME NEW p \in Proc, Step(p), ~UNCHANGED disk, NEW n, Resolve(n) # 0
        PROVE  Resolve(n)' = Resolve(n)
    <3>1. Ialloc(p) \/ Iupdate(p) \/ Dirlink(p) \/ Linked(p)
      BY <2>2 DEF Step, DirLock, FillHole, LookupFound, LookupMissing, CreateExisting,
                  PutNew, Ilock, Use, UseNoFd, PanicLocked
    <3>2. CASE Ialloc(p) \/ Iupdate(p)
      <4>1. block' = block /\ dinode'[ROOTINO] = dinode[ROOTINO]
        BY <1>1, <3>2, RootInodeKept
      <4>2. DirSame
        BY <2>1, <4>1, DirKept DEF DiskInv
      <4> QED BY <2>1, <2>2, <4>2, InodeWriteNames
    <3>3. CASE Dirlink(p)
      <4>1. ~Panic(p)
        <5>1. TypeOK
          BY <1>1 DEF IInv
        <5>2. Panic(p) => pc'[p] = "panic"
          BY <5>1 DEF Panic, End, Goto, TypeOK
        <5>3. block' # block
          BY <2>2, <3>3 DEF Dirlink, disk
        <5>4. Goto(p, "linked")
          BY <3>3, <5>3 DEF Dirlink
        <5>5. pc'[p] = "linked"
          BY <5>1, <5>4 DEF Goto, TypeOK
        <5> QED BY <5>2, <5>5
      <4>2. PICK off \in Nat : EntryWrite(off, ip[p], arg[p].name)
        BY <1>1, <3>3, <4>1, DirlinkWrites
      <4>3. PICK i : i = ip[p]
        OBVIOUS
      <4>4. PICK nm : nm = arg[p].name
        OBVIOUS
      <4>5. EntryWrite(off, i, nm)
        BY <4>2, <4>3, <4>4
      <4> QED BY <2>1, <2>2, <4>5, EntryWriteNames
    <3>4. CASE Linked(p)
      BY <1>1, <2>2, <3>4, LinkedKeeps
    <3> QED BY <3>1, <3>2, <3>3, <3>4
  <2>3. ASSUME NEW p \in Proc, Begin(p) \/ Halt(p) PROVE UNCHANGED disk
    BY <2>3 DEF Begin, Call, OpenRoot, Halt
  <2>4. BitmapRecycled \/ Crash => UNCHANGED disk
    BY DEF BitmapRecycled, Crash
  <2> QED BY <1>1, <2>2, <2>3, <2>4 DEF Next
<1>2. IInv /\ [Next]_vars =>
        [\/ UNCHANGED disk
         \/ \A n \in OpenName \cup ExecName \cup NewName \cup NodName :
              Resolve(n) # 0 => Resolve(n)' = Resolve(n)]_vars
  BY <1>1
<1> QED BY <1>2, FsInvariant, PTL DEF Spec, NameStable

-----------------------------------------------------------------------------
(***************************************************************************)
(* File contents.                                                          *)
(***************************************************************************)
LEMMA MinOfTwo ==
  ASSUME NEW a \in Nat, NEW b \in Nat
  PROVE  Min({a, b}) = IF a <= b THEN a ELSE b
<1>1. {a, b} \in SUBSET Nat /\ a \in {a, b} /\ b \in {a, b}
  OBVIOUS
<1>2. CASE a <= b
  <2>1. \A x \in {a, b} : a <= x
    BY <1>2
  <2> QED BY <1>1, <1>2, <2>1, MinIs
<1>3. CASE ~(a <= b)
  <2>1. \A x \in {a, b} : b <= x
    BY <1>3
  <2> QED BY <1>1, <1>3, <2>1, MinIs
<1> QED BY <1>2, <1>3

\* A read that stays in one block, cell by cell.
LEMMA ReadCell ==
  ASSUME DiskInv, NEW j \in DOMAIN argv, NEW off \in Nat, NEW t \in Nat,
         (off % BSIZE) + t < BSIZE, off + t < argv[j].size
  PROVE  block[bmap(dinode[InodeOf(j)], off \div BSIZE)][(off % BSIZE) + t]
           = Contents(argv[j])[off + t + 1]
<1>1. /\ InodeOf(j) \in Inum /\ dinode[InodeOf(j)].size = argv[j].size
      /\ argv[j].size \in Nat
  BY DEF DiskInv, FilesInv, DiskType, Dinode
<1>2. off + t \in Nat /\ off + t \in 0 .. argv[j].size - 1
  BY <1>1
<1>3. (off + t) \div BSIZE = off \div BSIZE /\ (off + t) % BSIZE = (off % BSIZE) + t
  BY Places, Constants
<1>4. PICK o : o = off + t
  OBVIOUS
<1>5. /\ o \div BSIZE < NDIRECT + NINDIRECT
      /\ block[Pointer(InodeOf(j), o \div BSIZE)][o % BSIZE] = Contents(argv[j])[o + 1]
  BY <1>2, <1>4 DEF DiskInv, FilesInv
<1>6. o \div BSIZE \in Nat
  BY <1>2, <1>4, Division, Constants
<1>7. Pointer(InodeOf(j), o \div BSIZE) = bmap(dinode[InodeOf(j)], o \div BSIZE)
  BY <1>5, <1>6, PointerIsBlock
<1> QED BY <1>3, <1>4, <1>5, <1>7

LEMMA SmallRemainder ==
  ASSUME NEW m \in Nat, NEW t \in Nat, t < m
  PROVE  t % m = t
OBVIOUS

LEMMA ReadIs ==
  ASSUME DiskInv, NEW j \in DOMAIN argv, NEW off \in 0 .. argv[j].size,
         NEW n \in 1 .. BSIZE, (off % BSIZE) + n <= BSIZE
  PROVE  readi(dinode[InodeOf(j)], off, n)
           = SubSeq(Contents(argv[j]), off + 1, Min({off + n, argv[j].size}))
<1> DEFINE d == dinode[InodeOf(j)]
           z == argv[j].size
           L == Min({n, z - off})
           c == Contents(argv[j])
<1>1. /\ InodeOf(j) \in Inum /\ d.size = z /\ z \in Nat /\ off \in Nat /\ n \in Nat
      /\ off <= z /\ z - off \in Nat /\ off + n \in Nat /\ off % BSIZE \in 0 .. BSIZE - 1
  <2>1. InodeOf(j) \in Inum /\ d.size = z /\ z \in Nat
    BY DEF DiskInv, FilesInv, DiskType, Dinode
  <2>2. off \in 0 .. z
    OBVIOUS
  <2> HIDE DEF d, z
  <2>3. off \in Nat /\ n \in Nat /\ off <= z /\ z - off \in Nat /\ off + n \in Nat
    BY <2>1, <2>2, Constants
  <2> QED BY <2>1, <2>3, Division, Constants
<1>2. /\ L = IF n <= z - off THEN n ELSE z - off
      /\ Min({off + n, z}) = IF off + n <= z THEN off + n ELSE z
  BY <1>1, MinOfTwo
<1>3. L \in Nat /\ L <= n /\ off + L <= z /\ Min({off + n, z}) = off + L
  BY <1>1, <1>2
<1> HIDE DEF d, z, L, c
<1>4. readi(d, off, n) =
        [t \in 1 .. L |-> block[bmap(d, off \div BSIZE)]
                               [(off % BSIZE) + ((t - 1) % (BSIZE - (off % BSIZE)))]]
  <2>1. ~(off > d.size) /\ Min({n, d.size - off}) = L
    BY <1>1 DEF L
  <2> QED BY <2>1 DEF readi
<1>5. ASSUME NEW t \in 1 .. L
      PROVE  block[bmap(d, off \div BSIZE)]
                  [(off % BSIZE) + ((t - 1) % (BSIZE - (off % BSIZE)))] = c[off + t]
  <2>1. t - 1 \in Nat /\ off + (t - 1) < z /\ (off % BSIZE) + (t - 1) < BSIZE
        /\ BSIZE - (off % BSIZE) \in Nat /\ t - 1 < BSIZE - (off % BSIZE)
    BY <1>1, <1>3, Constants
  <2>2. (t - 1) % (BSIZE - (off % BSIZE)) = t - 1
    BY <2>1, SmallRemainder
  <2>3. block[bmap(d, off \div BSIZE)][(off % BSIZE) + (t - 1)] = c[off + (t - 1) + 1]
    BY <1>1, <2>1, ReadCell DEF d, c, z
  <2>4. off + (t - 1) + 1 = off + t
    BY <1>1, <2>1
  <2> QED BY <2>2, <2>3, <2>4
<1>6. SubSeq(c, off + 1, off + L) = [t \in 1 .. L |-> c[off + t]]
  <2>1. SubSeq(c, off + 1, off + L)
          = [t \in 1 .. (1 + (off + L) - (off + 1)) |-> c[t + (off + 1) - 1]]
    BY <1>1, <1>3 DEF SubSeq
  <2>2. 1 + (off + L) - (off + 1) = L /\ \A t \in 1 .. L : t + (off + 1) - 1 = off + t
    BY <1>1, <1>3
  <2> QED BY <2>1, <2>2
<1> QED BY <1>3, <1>4, <1>5, <1>6 DEF d, z, c

(***************************************************************************)
(* The kernel reads what mkfs wrote, through direct and indirect blocks    *)
(* and up to the end of the file, as long as a read stays in one block,    *)
(* whatever system calls and power failures have come before.              *)
(***************************************************************************)
THEOREM ReadsWhatMkfsWroteHolds == WellFormed /\ Spec => []ReadsWhatMkfsWrote
<1>1. IInv => ReadsWhatMkfsWrote
  BY ReadIs DEF IInv, ReadsWhatMkfsWrote
<1> QED BY <1>1, FsInvariant, PTL

-----------------------------------------------------------------------------
(***************************************************************************)
(* A process that holds the root's lock in open, exec or mknod is at work  *)
(* on the root, or waits for it, or uses it as the file it opened, which   *)
(* mknod never does.                                                       *)
(***************************************************************************)
Giving == {"open", "exec", "mknod"}

AtRoot(p) ==
  /\ ilk[ROOTINO] = p /\ op[p] \in Giving =>
       \/ pc[p] \in InRoot \cup {"dirlock"}
       \/ pc[p] \in {"ilock", "use"} /\ ip[p] = ROOTINO
  /\ pc[p] \in {"ilock", "use"} => op[p] # "mknod"

HolderInv == DOMAIN op = Proc /\ \A p \in Proc : AtRoot(p)

LEMMA EndHolder ==
  ASSUME DOMAIN op = Proc, NEW p \in Proc, NEW l, End(p, l)
  PROVE  /\ DOMAIN op' = Proc /\ op'[p] \notin Giving
         /\ \A q \in Proc \ {p} : op'[q] = op[q]
BY DEF End, Giving

\* The step takes p to user mode, or leaves it there, with the root's lock.
Keeping(p) ==
  ilk[ROOTINO] = p /\ op[p] \in Giving /\ ilk'[ROOTINO] = p /\ pc'[p] = "user"

\* What a step of p does to p itself.
LEMMA SelfHolder ==
  ASSUME IInv, HolderInv, NEW p \in Proc, Step(p) \/ Begin(p) \/ Halt(p)
  PROVE  /\ DOMAIN op' = Proc /\ AtRoot(p)'
         /\ \A q \in Proc \ {p} : op'[q] = op[q]
         /\ Keeping(p) => op[p] = "open" /\ pc[p] = "use" /\ ip[p] = ROOTINO
<1>1. TypeOK /\ Control(p) /\ AtRoot(p) /\ DOMAIN op = Proc /\ ip[p] \in Inum
      /\ p # NoProc /\ ROOTINO \in Inum
  BY Constants DEF IInv, HolderInv, TypeOK
<1> DEFINE Goal ==
      /\ DOMAIN op' = Proc /\ AtRoot(p)'
      /\ \A q \in Proc \ {p} : op'[q] = op[q]
      /\ Keeping(p) => op[p] = "open" /\ pc[p] = "use" /\ ip[p] = ROOTINO
<1>2. ASSUME NEW o, NEW n, NEW m, Call(p, o, n, m) PROVE Goal
  BY <1>1, <1>2 DEF Call, Goto, TypeOK, AtRoot, Keeping
<1>3. CASE OpenRoot(p)
  BY <1>1, <1>3 DEF OpenRoot, Goto, TypeOK, AtRoot, Keeping
<1>4. CASE DirLock(p)
  BY <1>1, <1>4 DEF DirLock, Goto, TypeOK, AtRoot, Keeping, local, InRoot
<1>5. CASE /\ UnlockRoot /\ DOMAIN op' = Proc
           /\ \A q \in Proc \ {p} : op'[q] = op[q]
           /\ pc'[p] \in {"ilock", "use"} => op'[p] # "mknod"
  <2>1. ilk'[ROOTINO] = NoProc
    BY <1>1, <1>5 DEF UnlockRoot, TypeOK
  <2> QED BY <1>1, <1>5, <2>1 DEF AtRoot, Keeping
<1>6. CASE LookupFound(p) \/ Linked(p)
  <2>1. op' = op /\ \E l : pc' = [pc EXCEPT ![p] = l] /\ (l = "ilock" => op[p] # "mknod")
                                                    /\ l # "use"
    BY <1>6 DEF LookupFound, Linked, local, Goto
  <2>2. pc'[p] \in {"ilock", "use"} => op'[p] # "mknod"
    BY <1>1, <2>1 DEF TypeOK
  <2> QED BY <1>1, <1>5, <1>6, <2>1, <2>2 DEF LookupFound, Linked
<1>7. CASE LookupMissing(p)
  <2>1. PICK l : End(p, l)
    BY <1>7 DEF LookupMissing, Return, Panic
  <2>2. /\ DOMAIN op' = Proc /\ \A q \in Proc \ {p} : op'[q] = op[q]
        /\ op'[p] # "mknod"
    BY <1>1, <2>1, EndHolder DEF Giving
  <2> QED BY <1>5, <1>7, <2>2 DEF LookupMissing
<1>8. CASE CreateExisting(p)
  BY <1>1, <1>8 DEF CreateExisting, Goto, TypeOK, AtRoot, Keeping, Giving, At
<1>9. CASE Panic(p)
  <2>1. /\ DOMAIN op' = Proc /\ op'[p] \notin Giving
        /\ \A q \in Proc \ {p} : op'[q] = op[q]
    BY <1>1, <1>9, EndHolder DEF Panic
  <2>2. pc'[p] = "panic"
    BY <1>1, <1>9 DEF Panic, End, Goto, TypeOK
  <2> QED BY <2>1, <2>2 DEF AtRoot, Keeping
<1>10. CASE FillHole(p) /\ ~Panic(p)
  <2>1. pc' = pc /\ op' = op /\ ip' = ip /\ ilk' = ilk /\ pc[p] \in {"lookup", "dirlink"}
    BY <1>10 DEF FillHole, MeetsHole, At, local
  <2> QED BY <1>1, <2>1 DEF AtRoot, Keeping, InRoot
<1>11. CASE (Ialloc(p) \/ Dirlink(p)) /\ ~Panic(p)
  <2>1. op' = op /\ \E l \in InRoot : Goto(p, l)
    BY <1>11 DEF Ialloc, Dirlink, InRoot
  <2>2. op' = op /\ pc'[p] \in InRoot
    BY <1>1, <2>1 DEF Goto, TypeOK
  <2> QED BY <1>1, <2>2 DEF AtRoot, Keeping, InRoot
<1>12. CASE Iupdate(p)
  <2>1. op' = op /\ pc'[p] = "dirlink"
    BY <1>1, <1>12 DEF Iupdate, Goto, TypeOK, local
  <2> QED BY <1>1, <2>1 DEF AtRoot, Keeping, InRoot
<1>13. CASE PutNew(p)
  <2>1. /\ DOMAIN op' = Proc /\ op'[p] \notin Giving
        /\ \A q \in Proc \ {p} : op'[q] = op[q]
    BY <1>1, <1>13, EndHolder DEF PutNew, Return
  <2>2. pc[p] = "putnew"
    BY <1>13 DEF PutNew, At
  <2> QED BY <1>1, <2>1, <2>2 DEF AtRoot, Keeping, Giving, InRoot
<1>14. CASE Ilock(p)
  <2>1. /\ pc[p] = "ilock" /\ pc'[p] = "use" /\ op' = op /\ ip' = ip
        /\ ilk' = [ilk EXCEPT ![ip[p]] = p]
    BY <1>1, <1>14 DEF Ilock, Goto, TypeOK, local, At
  <2>2. ilk'[ROOTINO] = p => ilk[ROOTINO] = p \/ ip[p] = ROOTINO
    BY <1>1, <2>1 DEF TypeOK
  <2> QED BY <1>1, <2>1, <2>2 DEF AtRoot, Keeping, InRoot
<1>15. CASE Use(p) /\ ~Panic(p)
  <2>1. /\ DOMAIN op' = Proc /\ op'[p] \notin Giving
        /\ \A q \in Proc \ {p} : op'[q] = op[q]
    BY <1>1, <1>15, EndHolder DEF Use, Return
  <2>2. pc[p] = "use" /\ ilk' = [ilk EXCEPT ![ip[p]] = NoProc]
    BY <1>15 DEF Use, At
  <2>3. ip[p] = ROOTINO => ilk'[ROOTINO] # p
    BY <1>1, <2>2 DEF TypeOK
  <2> QED BY <1>1, <2>1, <2>2, <2>3 DEF AtRoot, Keeping, Giving, InRoot
<1>16. CASE UseNoFd(p)
  <2>1. /\ DOMAIN op' = Proc /\ op'[p] \notin Giving
        /\ \A q \in Proc \ {p} : op'[q] = op[q]
    BY <1>1, <1>16, EndHolder DEF UseNoFd, Return
  <2>2. pc[p] = "use" /\ op[p] # "exec"
    BY <1>16 DEF UseNoFd, At
  <2> QED BY <1>1, <2>1, <2>2 DEF AtRoot, Keeping, Giving, InRoot
<1>17. CASE Halt(p)
  <2>1. End(p, "halt")
    BY <1>17 DEF Halt
  <2>2. /\ DOMAIN op' = Proc /\ op'[p] \notin Giving
        /\ \A q \in Proc \ {p} : op'[q] = op[q]
    BY <1>1, <2>1, EndHolder
  <2>3. pc'[p] = "halt"
    BY <1>1, <2>1 DEF End, Goto, TypeOK
  <2> QED BY <2>2, <2>3 DEF AtRoot, Keeping
<1>18. PanicLocked(p) => Panic(p)
  BY DEF PanicLocked
<1> QED BY <1>2, <1>3, <1>4, <1>6, <1>7, <1>8, <1>9, <1>10, <1>11, <1>12, <1>13,
           <1>14, <1>15, <1>16, <1>17, <1>18 DEF Step, Begin

\* A step of p takes a lock only for p.
LEMMA LocksForSelf ==
  ASSUME IInv, NEW p \in Proc, NEW q \in Proc, q # p, Step(p) \/ Begin(p) \/ Halt(p)
  PROVE  /\ ilk'[ROOTINO] = q => ilk[ROOTINO] = q
         /\ pc'[q] = pc[q] /\ ip'[q] = ip[q]
<1>1. TypeOK /\ ROOTINO \in Inum /\ q # NoProc /\ ip[p] \in Inum
  BY Constants DEF IInv, TypeOK
<1>2. ilk'[ROOTINO] = q => ilk[ROOTINO] = q
  BY <1>1 DEF Step, Begin, Call, OpenRoot, DirLock, FillHole, LookupFound,
     LookupMissing, CreateExisting, Ialloc, Iupdate, Dirlink, Linked, PutNew, Ilock,
     Use, PanicLocked, UseNoFd, Halt, UnlockRoot, TypeOK
<1>3. /\ pc' = pc \/ \E l : pc' = [pc EXCEPT ![p] = l]
      /\ ip' = ip \/ \E i : ip' = [ip EXCEPT ![p] = i]
  BY DEF Step, Begin, Call, OpenRoot, DirLock, FillHole, LookupFound,
     LookupMissing, CreateExisting, Ialloc, Iupdate, Dirlink, Linked, PutNew, Ilock,
     Use, PanicLocked, UseNoFd, Halt, Goto, End, Return, Panic, local
<1>4. pc'[q] = pc[q] /\ ip'[q] = ip[q]
  BY <1>1, <1>3 DEF TypeOK
<1> QED BY <1>2, <1>4

(***************************************************************************)
(* open, exec and mknod do not return to user mode with the root's lock    *)
(* held, whatever other processes, panics and power failures do meanwhile, *)
(* but for the one way that sys_open has: it opened the root itself and    *)
(* found no free descriptor.                                               *)
(***************************************************************************)
THEOREM RootNotKeptHolds == WellFormed /\ Spec => RootNotKept
<1> DEFINE Given(p) == /\ HoldsRoot(p) /\ op[p] \in {"open", "exec", "mknod"}
                       /\ (HoldsRoot(p) /\ At(p, "user"))'
                       => op[p] = "open" /\ At(p, "use") /\ ip[p] = ROOTINO
<1>1. Init => HolderInv
  BY DEF Init, HolderInv, AtRoot, Giving
<1>2. ASSUME IInv, HolderInv, Next PROVE HolderInv' /\ \A p \in Proc : Given(p)
  <2>1. ASSUME NEW p \in Proc, Step(p) \/ Begin(p) \/ Halt(p)
        PROVE  HolderInv' /\ \A q \in Proc : Given(q)
    <3>1. /\ DOMAIN op' = Proc /\ AtRoot(p)' /\ Given(p)
          /\ \A q \in Proc \ {p} : op'[q] = op[q]
      BY <1>2, <2>1, SelfHolder DEF HoldsRoot, At, Keeping, Giving
    <3>2. ASSUME NEW q \in Proc, q # p PROVE AtRoot(q)' /\ Given(q)
      <4>1. /\ ilk'[ROOTINO] = q => ilk[ROOTINO] = q
            /\ pc'[q] = pc[q] /\ ip'[q] = ip[q] /\ op'[q] = op[q]
        BY <1>2, <2>1, <3>1, <3>2, LocksForSelf
      <4>2. AtRoot(q)
        BY <1>2 DEF HolderInv
      <4> QED BY <4>1, <4>2 DEF AtRoot, HoldsRoot, At, Giving, InRoot
    <3> QED BY <3>1, <3>2 DEF HolderInv
  <2>2. CASE BitmapRecycled
    BY <1>2, <2>2 DEF BitmapRecycled, local, HolderInv, AtRoot, HoldsRoot, At, Giving,
                      InRoot
  <2>3. CASE Crash
    <3>1. DOMAIN op' = Proc /\ \A p \in Proc : ilk'[ROOTINO] # p /\ pc'[p] = "user"
      BY <2>3, Constants DEF Crash
    <3> QED BY <3>1 DEF HolderInv, AtRoot, HoldsRoot
  <2> QED BY <1>2, <2>1, <2>2, <2>3 DEF Next
<1>3. IInv /\ HolderInv /\ [Next]_vars => HolderInv'
  BY <1>2 DEF vars, HolderInv, AtRoot
<1>4. IInv /\ HolderInv /\ [Next]_vars => [\A p \in Proc : Given(p)]_vars
  BY <1>2
<1> QED BY <1>1, <1>3, <1>4, FsInvariant, PTL DEF Spec, RootNotKept
=============================================================================
