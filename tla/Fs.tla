--------------------------------- MODULE Fs ---------------------------------
(***************************************************************************)
(* Directory and file contents: the image of Mkfs under the kernel's       *)
(* inodeByName, create, ialloc, dirlink, readi, writei, bmap and balloc    *)
(* (src/kernel/fs.c, sysfile.c), with power failures.                      *)
(*                                                                         *)
(* A step is the code between two waits for a sleep lock or two writes to  *)
(* the disk.  Inode and directory blocks are written through (Bcache), so  *)
(* dinode and block are what the kernel sees and what survives.  Of the    *)
(* bitmap the kernel sees its buffer, bm, which is never written.  There   *)
(* is no log: after a power failure the kernel starts from what is on the  *)
(* disk.                                                                   *)
(*                                                                         *)
(* Counting of references, descriptors, the size of the caches and read()  *)
(* are the subject of File and Bcache; that a table is full or memory is   *)
(* short is chosen freely here.  As ilock leaves vaild = 0, every ilock    *)
(* reads the inode from the disk; what create reads in ip->type before any *)
(* ilock is whatever the cache entry showed last, and is chosen freely     *)
(* too, but for the root, which create has locked.  panic() spins: the     *)
(* process keeps its locks and the others go on, until one of them halts   *)
(* the CPU: spins with a spin lock held, hence with interrupts off.        *)
(***************************************************************************)
EXTENDS Mkfs

CONSTANTS
  Proc,      \* processes
  NoProc,    \* no process
  Argv,      \* lists of files, [name, size], that mkfs may be given
  OpenName,  \* names that open is called with
  ExecName,  \* names that exec is called with
  NewName,   \* names that open(O_CREATE) is called with
  NodName,   \* names that mknod is called with
  Major,     \* mknod's device numbers, as create's short parameter has them
  NDEV,      \* first major number that open refuses
  MAXFILE,   \* the limit of writei, a number of blocks taken as bytes: cells
  CanCrash   \* whether the power fails

Short == -32768 .. 32767

\* MAXFILE bytes are less than a block (268 of 1024): a directory block that
\* is written exists.  A root of more than NDIRECT blocks would need more
\* entries than there are inodes.
ASSUME FsAssumption ==
  /\ NoProc \notin Proc
  /\ MAXFILE \in Nat /\ MAXFILE <= BSIZE
  /\ NINODES + 2 <= NDIRECT * BSIZE
  /\ Major \subseteq Short
  /\ CanCrash \in BOOLEAN
  /\ \A a \in Argv : Len(a) + ROOTINO < NINODES
  /\ \A a \in Argv : mkfs(a).freeblock <= FSSIZE

VARIABLES
  argv,    \* the files on the image
  dinode,  \* inodes on the disk
  block,   \* data blocks on the disk
  bitmap,  \* blocks marked in the bitmap on the disk
  bm,      \* blocks marked in the buffer of the bitmap
  root,    \* the root's cached inode, while it is locked
  ilk,     \* holder of each inode's sleep lock
  pc,      \* where each process is in the kernel; "user" outside
  op,      \* the call it makes
  arg,     \* its arguments: [name, major]
  ip       \* inode number it works on

disk  == <<argv, dinode, block, bitmap>>
local == <<op, arg, ip>>
vars  == <<argv, dinode, block, bitmap, bm, root, ilk, pc, op, arg, ip>>

NoArg == [name |-> "", major |-> 0]

\* The kernel starts: nothing is cached and no process is in the kernel.
Init ==
  /\ argv \in Argv
  /\ LET s == mkfs(argv)
     IN  dinode = s.dinode /\ block = s.block /\ bitmap = Marked(s)
  /\ bm = bitmap
  /\ root = NoDinode
  /\ ilk = [i \in Inum |-> NoProc]
  /\ pc = [p \in Proc |-> "user"]
  /\ op = [p \in Proc |-> "none"]
  /\ arg = [p \in Proc |-> NoArg]
  /\ ip = [p \in Proc |-> 0]

At(p, l)   == pc[p] = l
Goto(p, l) == pc' = [pc EXCEPT ![p] = l]

\* The call ends, by a return to user mode or in a panic.
End(p, l) ==
  /\ Goto(p, l)
  /\ op' = [op EXCEPT ![p] = "none"]
  /\ arg' = [arg EXCEPT ![p] = NoArg]
  /\ ip' = [ip EXCEPT ![p] = 0]

Return(p) == End(p, "user")
Panic(p)  == End(p, "panic")

\* The name is not needed any more.
Forget(p) == arg' = [arg EXCEPT ![p] = NoArg]

-----------------------------------------------------------------------------
(***************************************************************************)
(* bmap and readi for an inode d.  readi yields the n cells read from      *)
(* offset off.  Its loop does not advance off, so every round copies from  *)
(* the block and the place that off names.                                 *)
(***************************************************************************)
\* Faulty variant: the indirect block is taken for one more direct block.
bmapOnePast(d, n) ==
  IF n <= NDIRECT THEN d.addrs[n]
  ELSE LET c == block[d.addrs[NDIRECT]][n - NDIRECT]
       IN  IF c = <<>> THEN 0 ELSE c[1]

\* Block n of the file, 0 where bmap would have to allocate one.
bmap(d, n) ==
  IF n < NDIRECT THEN d.addrs[n]
  ELSE IF d.addrs[NDIRECT] = 0 THEN 0
  ELSE LET c == block[d.addrs[NDIRECT]][n - NDIRECT]
       IN  IF c = <<>> THEN 0 ELSE c[1]

readi(d, off, n) ==
  IF off > d.size THEN <<>>
  ELSE LET x == bmap(d, off \div BSIZE)
           m == BSIZE - (off % BSIZE)
       IN  [t \in 1 .. Min({n, d.size - off}) |->
              block[x][(off % BSIZE) + ((t - 1) % m)]]

\* The directory d: its slots up to the first block that is missing, the
\* inode number and the name in a slot.
Holes(d) == {n \in 0 .. NDIRECT - 1 :
               n * BSIZE < d.size /\ bmap(d, n) = 0}
Slots(d) == LET holes == Holes(d)
            IN  {k \in 0 .. d.size - 1 : \A n \in holes : k \div BSIZE < n}
Entry(d, k)  == block[bmap(d, k \div BSIZE)][k % BSIZE]
InumAt(d, k) == LET c == Entry(d, k) IN IF c = <<>> THEN 0 ELSE c[1]
NameAt(d, k) == LET c == Entry(d, k) IN IF c = <<>> THEN "" ELSE c[2]

\* inodeByName and dirlink take the first slot that suits.
Named(d, n) == {k \in Slots(d) : NameAt(d, k) = n}

\* Faulty variant: dirlink writes over the last entry, not behind it.
UnusedLast(d) == {Max(Slots(d) \ Named(d, ""))}

Unused(d) == {k \in Slots(d) : InumAt(d, k) = 0}

\* The scan of process p meets a block that bmap has to allocate.
MeetsHole(p) ==
  /\ Holes(root) # {}
  /\ \/ At(p, "lookup") /\ Named(root, arg[p].name) = {}
     \/ At(p, "dirlink") /\ Unused(root) = {}

\* readi, bmap, balloc: the block is marked in the bitmap's buffer and noted
\* in the cached inode; neither is written.
FillHole(p) ==
  /\ MeetsHole(p)
  /\ LET free == (0 .. FSSIZE - 1) \ bm IN
     IF free = {}
     THEN Panic(p) /\ UNCHANGED <<bm, root>>
     ELSE /\ bm' = bm \cup {Min(free)}
          /\ root' = [root EXCEPT !.addrs[Min(Holes(root))] = Min(free)]
          /\ UNCHANGED <<pc, local>>
  /\ UNCHANGED <<disk, ilk>>

-----------------------------------------------------------------------------
(***************************************************************************)
(* System calls: open(name), exec(name), open(name, O_CREATE) - "creat" -  *)
(* and mknod(name, major).  All begin with the lock of the root.           *)
(***************************************************************************)
Call(p, o, n, m) ==
  /\ At(p, "user")
  /\ op' = [op EXCEPT ![p] = o]
  /\ arg' = [arg EXCEPT ![p] = [name |-> n, major |-> m]]
  /\ Goto(p, "dirlock")
  /\ UNCHANGED <<disk, bm, root, ilk, ip>>

\* open("/"): iname returns the root without a search.
OpenRoot(p) ==
  /\ At(p, "user")
  /\ op' = [op EXCEPT ![p] = "open"]
  /\ ip' = [ip EXCEPT ![p] = ROOTINO]
  /\ Goto(p, "ilock")
  /\ UNCHANGED <<disk, bm, root, ilk, arg>>

DirLock(p) ==
  /\ At(p, "dirlock")
  /\ ilk[ROOTINO] = NoProc
  /\ ilk' = [ilk EXCEPT ![ROOTINO] = p]
  /\ root' = dinode[ROOTINO]
  /\ Goto(p, "lookup")
  /\ UNCHANGED <<disk, bm, local>>

\* iunlockput(root), or sleep_unlock in iname.
UnlockRoot ==
  /\ ilk' = [ilk EXCEPT ![ROOTINO] = NoProc]
  /\ root' = NoDinode

\* open and exec, the name found.
LookupFound(p) ==
  /\ At(p, "lookup") /\ op[p] \in {"open", "exec"}
  /\ LET K == Named(root, arg[p].name) IN
     /\ K # {}
     /\ ip' = [ip EXCEPT ![p] = InumAt(root, Min(K))]
  /\ UnlockRoot
  /\ Goto(p, "ilock") /\ Forget(p)
  /\ UNCHANGED <<disk, bm, op>>

\* open returns -1; exec calls ilock(0), which panics.
LookupMissing(p) ==
  /\ At(p, "lookup") /\ op[p] \in {"open", "exec"}
  /\ Named(root, arg[p].name) = {} /\ ~MeetsHole(p)
  /\ UnlockRoot
  /\ IF op[p] = "open" THEN Return(p) ELSE Panic(p)
  /\ UNCHANGED <<disk, bm>>

\* create(T_FILE) of a name that exists, its cached type being T_FILE or
\* T_DEVICE: the inode is returned with the root still locked.
CreateExisting(p) ==
  /\ At(p, "lookup") /\ op[p] = "creat"
  /\ LET K == Named(root, arg[p].name) IN
     /\ K # {} /\ InumAt(root, Min(K)) # ROOTINO
     /\ ip' = [ip EXCEPT ![p] = InumAt(root, Min(K))]
  /\ Goto(p, "ilock") /\ Forget(p)
  /\ UNCHANGED <<disk, bm, root, ilk, op>>

-----------------------------------------------------------------------------
(***************************************************************************)
(* create makes an inode, whether the name was found or not.               *)
(***************************************************************************)
Creating(p) ==
  At(p, "lookup") /\ op[p] \in {"creat", "mknod"} /\ ~MeetsHole(p)

\* Faulty variant: ialloc takes an inode without blocks for a free one.
FreeInodesDevice == {i \in Inum : dinode[i].type \in {0, T_DEVICE}}

FreeInodes == {i \in Inum : dinode[i].type = 0}

\* Faulty variant: ialloc returns the inode without writing its block.
IallocUnwritten(p) ==
  /\ Creating(p)
  /\ IF FreeInodes = {}
     THEN Panic(p)
     ELSE /\ ip' = [ip EXCEPT ![p] = Min(FreeInodes)]
          /\ Goto(p, "locknew")
          /\ UNCHANGED <<op, arg>>
  /\ UNCHANGED <<disk, bm, root, ilk>>

Ialloc(p) ==
  /\ Creating(p)
  /\ IF FreeInodes = {}
     THEN Panic(p) /\ UNCHANGED dinode
     ELSE LET i == Min(FreeInodes)
              t == IF op[p] = "mknod" THEN T_DEVICE ELSE T_FILE
          IN  /\ dinode' = [dinode EXCEPT ![i] = [NoDinode EXCEPT !.type = t]]
              /\ ip' = [ip EXCEPT ![p] = i]
              /\ Goto(p, "locknew")
              /\ UNCHANGED <<op, arg>>
  /\ UNCHANGED <<argv, block, bitmap, bm, root, ilk>>

\* ilock(ip); major, minor and nlink = 1 are set and written.
Iupdate(p) ==
  /\ At(p, "locknew")
  /\ ilk[ip[p]] = NoProc
  /\ ilk' = [ilk EXCEPT ![ip[p]] = p]
  /\ dinode' = [dinode EXCEPT ![ip[p]].nlink = 1,
                              ![ip[p]].major = arg[p].major]
  /\ Goto(p, "dirlink")
  /\ UNCHANGED <<argv, block, bitmap, bm, root, local>>

\* dirlink(dp, name, inum) and in it writei, up to the write of the block.
\* Beyond MAXFILE writei fails and dirlink panics.
Dirlink(p) ==
  /\ At(p, "dirlink") /\ ~MeetsHole(p)
  /\ LET off == Min(Unused(root) \cup {root.size})
         x   == bmap(root, off \div BSIZE)
     IN  IF off + 1 > MAXFILE
         THEN Panic(p) /\ UNCHANGED block
         ELSE /\ block' = [block EXCEPT ![x][off % BSIZE] = <<ip[p], arg[p].name>>]
              /\ Goto(p, "linked") /\ Forget(p)
              /\ UNCHANGED <<op, ip>>
  /\ UNCHANGED <<argv, dinode, bitmap, bm, root, ilk>>

\* Faulty variant: create returns a new inode as it does one that exists.
LinkedKeepsRoot(p) ==
  /\ At(p, "linked")
  /\ dinode' = [dinode EXCEPT ![ROOTINO] = root]
  /\ Goto(p, IF op[p] = "mknod" THEN "putnew" ELSE "ilock")
  /\ UNCHANGED <<argv, block, bitmap, bm, root, ilk, local>>

\* The rest of writei, iupdate(dp), and iunlockput(dp).  mknod then unlocks
\* the new inode, open(O_CREATE) locks it a second time.
Linked(p) ==
  /\ At(p, "linked")
  /\ dinode' = [dinode EXCEPT ![ROOTINO] = root]
  /\ UnlockRoot
  /\ Goto(p, IF op[p] = "mknod" THEN "putnew" ELSE "ilock")
  /\ UNCHANGED <<argv, block, bitmap, bm, local>>

PutNew(p) ==
  /\ At(p, "putnew")
  /\ ilk' = [ilk EXCEPT ![ip[p]] = NoProc]
  /\ Return(p)
  /\ UNCHANGED <<disk, bm, root>>

-----------------------------------------------------------------------------
(***************************************************************************)
(* The inode found is locked, used and unlocked.                           *)
(***************************************************************************)
Ilock(p) ==
  /\ At(p, "ilock")
  /\ ilk[ip[p]] = NoProc
  /\ ilk' = [ilk EXCEPT ![ip[p]] = p]
  /\ Goto(p, "use")
  /\ UNCHANGED <<disk, bm, root, local>>

\* exec panics unless the file holds a program, as those of mkfs do; open
\* panics on a device number out of range.
Refused(p) ==
  LET d == dinode[ip[p]] IN
  IF op[p] = "exec"
  THEN d.type # T_FILE \/ d.size = 0
  ELSE d.type = T_DEVICE /\ (d.major < 0 \/ d.major >= NDEV)

\* The call succeeds, and unlocks the inode; or exec has done so and finds no
\* memory for the stack.
Use(p) ==
  /\ At(p, "use") /\ ~Refused(p)
  /\ Return(p) \/ (op[p] = "exec" /\ Panic(p))
  /\ ilk' = [ilk EXCEPT ![ip[p]] = NoProc]
  /\ UNCHANGED <<disk, bm, root>>

\* open finds no free descriptor and returns -1, the inode still locked.
UseNoFd(p) ==
  /\ At(p, "use") /\ ~Refused(p) /\ op[p] # "exec"
  /\ Return(p)
  /\ UNCHANGED <<disk, bm, root, ilk>>

\* A panic with inodes locked but no spin lock held: bget has no buffer left,
\* exec no memory, or the inode is Refused.
PanicLocked(p) ==
  /\ pc[p] \in {"lookup", "dirlink", "linked", "use"}
  /\ Panic(p)
  /\ UNCHANGED <<disk, bm, root, ilk>>

Halted == \E p \in Proc : At(p, "halt")

\* The only CPU is lost, with a spin lock held: iget panics as the inode cache
\* is full, sys_open, without a free file, calls fileclose(0), which faults, or
\* uartputc loops because of an earlier panic.
Halt(p) ==
  /\ ~Halted
  /\ \/ pc[p] \in {"lookup", "locknew"}
     \/ At(p, "use") /\ op[p] # "exec"
     \/ At(p, "user") /\ \E q \in Proc : At(q, "panic")
  /\ End(p, "halt")
  /\ UNCHANGED <<disk, bm, root, ilk>>

-----------------------------------------------------------------------------
\* The buffer of the bitmap is recycled for another block.
BitmapRecycled ==
  /\ ~Halted
  /\ bm # bitmap
  /\ bm' = bitmap
  /\ UNCHANGED <<disk, root, ilk, pc, local>>

\* The power fails, and the kernel starts again.
Crash ==
  /\ CanCrash
  /\ bm' = bitmap
  /\ root' = NoDinode
  /\ ilk' = [i \in Inum |-> NoProc]
  /\ pc' = [p \in Proc |-> "user"]
  /\ op' = [p \in Proc |-> "none"]
  /\ arg' = [p \in Proc |-> NoArg]
  /\ ip' = [p \in Proc |-> 0]
  /\ UNCHANGED disk

Begin(p) == ~Halted /\
  \/ \E n \in OpenName : Call(p, "open", n, 0)
  \/ \E n \in ExecName : Call(p, "exec", n, 0)
  \/ \E n \in NewName : Call(p, "creat", n, 0)
  \/ \E n \in NodName, m \in Major : Call(p, "mknod", n, m)
  \/ OpenRoot(p)

Step(p) == ~Halted /\
  \/ DirLock(p) \/ FillHole(p) \/ LookupFound(p) \/ LookupMissing(p)
  \/ CreateExisting(p) \/ Ialloc(p) \/ Iupdate(p) \/ Dirlink(p)
  \/ Linked(p) \/ PutNew(p) \/ Ilock(p)
  \/ Use(p) \/ UseNoFd(p) \/ PanicLocked(p)

Next == \/ \E p \in Proc : Begin(p) \/ Step(p) \/ Halt(p)
        \/ BitmapRecycled \/ Crash

Spec == Init /\ [][Next]_vars

\* A process in a system call goes on when it can, and the disk answers.  (In
\* a halted kernel no process can.)
FairSpec == Spec /\ \A p \in Proc : WF_vars(Step(p))

-----------------------------------------------------------------------------
(***************************************************************************)
(* At every moment, hence also after a power failure, what a directory     *)
(* entry names is an inode that ialloc has written as allocated and create *)
(* as linked: the entry is written last.                                   *)
(***************************************************************************)
Dir == dinode[ROOTINO]
Entries == {k \in Slots(Dir) : Entry(Dir, k) # <<>>}

EntriesNameInodes ==
  \A k \in Entries : LET d == dinode[InumAt(Dir, k)]
                     IN  d.type # 0 /\ d.nlink = 1

(***************************************************************************)
(* No inode gets two entries, whatever mknod duplicates and whatever a     *)
(* power failure leaves half done; "." and ".." of mkfs both name the root. *)
(***************************************************************************)
OneEntryPerFile ==
  LET E == {k \in Entries : InumAt(Dir, k) # ROOTINO}
  IN  Cardinality({InumAt(Dir, k) : k \in E}) = Cardinality(E)

(***************************************************************************)
(* What a name stands for does not change, through duplicates made by      *)
(* mknod, creation by other processes and power failures - unless it       *)
(* stands for inode 0, whose entry dirlink takes for a free one.           *)
(***************************************************************************)
Resolve(n) ==
  IF Named(Dir, n) = {} THEN 0 ELSE InumAt(Dir, Min(Named(Dir, n)))

NameStable ==
  [][\/ UNCHANGED disk
     \/ \A n \in OpenName \cup ExecName \cup NewName \cup NodName :
          Resolve(n) # 0 => Resolve(n)' = Resolve(n)]_vars

(***************************************************************************)
(* A data block has one use: it belongs to one file, as data or as its     *)
(* indirect block, or fills the hole in the cached root, or is free; and   *)
(* balloc sees those of files as taken.                                    *)
(***************************************************************************)
\* Pointer n of an inode: a block of the file, or the indirect block.
Pointer(i, n) ==
  IF n = NDIRECT + NINDIRECT THEN dinode[i].addrs[NDIRECT]
  ELSE bmap(dinode[i], n)

BlocksOwned ==
  LET Used   == {u \in Inum \X (0 .. NDIRECT + NINDIRECT) : Pointer(u[1], u[2]) # 0}
      Owned  == {Pointer(u[1], u[2]) : u \in Used}
      Filled == {root.addrs[n] : n \in Holes(Dir)} \ {0}
  IN  /\ Cardinality(Owned) = Cardinality(Used)
      /\ Owned \subseteq bm \cap Block
      /\ Owned \cap Filled = {}

(***************************************************************************)
(* The kernel reads what mkfs wrote, through direct and indirect blocks    *)
(* and up to the end of the file, as long as a read stays in one block,    *)
(* whatever system calls and power failures have come before.              *)
(* (Longer ones, such as loadseg's of a page, get the first block          *)
(* repeated.)                                                              *)
(***************************************************************************)
ReadsWhatMkfsWrote ==
  (\A p \in Proc : At(p, "user")) =>
  \A j \in DOMAIN argv :
    \A off \in 0 .. argv[j].size, n \in 1 .. BSIZE :
      (off % BSIZE) + n <= BSIZE
        => readi(dinode[InodeOf(j)], off, n)
             = SubSeq(Contents(argv[j]), off + 1, Min({off + n, argv[j].size}))

(***************************************************************************)
(* The disk is well formed, at every moment: what inodeByName, dirlink,    *)
(* bmap and readi take for granted of the image mkfs wrote, the kernel and *)
(* a power failure at any point leave so.  OneEntryPerFile is part of it.  *)
(***************************************************************************)
Dinode == [type : 0 .. T_DEVICE, major : Major \cup {0}, nlink : {0, 1},
           size : Nat, addrs : [0 .. NDIRECT -> Block \cup {0}]]

\* The root's first block is there; used entries come before unused ones; where
\* a block is missing so are the ones behind it, and the first one is full.
RootFormed ==
  /\ Dir.type # 0 /\ Dir.addrs[0] # 0
  /\ BSIZE <= Dir.size /\ Dir.size <= NDIRECT * BSIZE
  /\ \A m \in Holes(Dir) : \A n \in m .. NDIRECT - 1 : Dir.addrs[n] = 0
  /\ \A k, l \in Slots(Dir) : InumAt(Dir, k) # 0 /\ InumAt(Dir, l) = 0 => k < l
  /\ Holes(Dir) # {} => \A k \in 0 .. BSIZE - 1 : InumAt(Dir, k) # 0

EntriesFormed ==
  /\ \A k \in Entries :
       /\ InumAt(Dir, k) \in Inum
       /\ dinode[InumAt(Dir, k)].type # 0 /\ dinode[InumAt(Dir, k)].nlink = 1
  /\ \A k, l \in Entries :
       InumAt(Dir, k) = InumAt(Dir, l) /\ InumAt(Dir, k) # ROOTINO => k = l

BlocksFormed ==
  /\ 0 .. NMETA - 1 \subseteq bitmap
  /\ \A b \in Block \ bitmap : \A c \in 0 .. BSIZE - 1 : block[b][c] = <<>>
  /\ \A i \in Inum, m \in 0 .. NDIRECT + NINDIRECT :
       Pointer(i, m) # 0 =>
         /\ Pointer(i, m) \in bitmap \cap Block
         /\ \A j \in Inum, n \in 0 .. NDIRECT + NINDIRECT :
              Pointer(j, n) = Pointer(i, m) => j = i /\ n = m

FilesFormed ==
  \A j \in DOMAIN argv :
    LET d == dinode[InodeOf(j)]
    IN  /\ InodeOf(j) \in Inum \ {ROOTINO} /\ d.size = argv[j].size
        /\ \A off \in 0 .. d.size - 1 :
             LET n == off \div BSIZE
             IN  /\ n < NDIRECT + NINDIRECT /\ bmap(d, n) # 0
                 /\ block[bmap(d, n)][off % BSIZE] = Contents(argv[j])[off + 1]

WellFormed ==
  /\ dinode \in [Inum -> Dinode]
  /\ DOMAIN block = Block /\ \A b \in Block : DOMAIN block[b] = Cells
  /\ \A i \in Inum : dinode[i].type = 0 => dinode[i] = NoDinode
  /\ RootFormed /\ EntriesFormed /\ BlocksFormed /\ FilesFormed

(***************************************************************************)
(* Whoever locks the root in a system call gives it back, although create  *)
(* waits for another inode meanwhile.                                      *)
(***************************************************************************)
HoldsRoot(p) == ilk[ROOTINO] = p

\* The two ways to take the root along to user mode: open(O_CREATE) of a name
\* that exists, and an open of the root itself that finds no descriptor.
\* exec and mknod never do, nor does an open that has searched the root.
RootNotKept ==
  [][\A p \in Proc :
       /\ HoldsRoot(p) /\ op[p] \in {"open", "exec", "mknod"}
       /\ (HoldsRoot(p) /\ At(p, "user"))'
       => op[p] = "open" /\ At(p, "use") /\ ip[p] = ROOTINO]_vars

\* The holder of inode i is at work with it in its call.  (Otherwise it has
\* panicked, or returned with the lock, or waits for a lock of its own.)
InUse(i) ==
  LET q == ilk[i] IN
  \/ i = ip[q] /\ pc[q] \in {"dirlink", "linked", "putnew", "use"}
  \/ i = ROOTINO /\ pc[q] \in {"lookup", "locknew", "dirlink", "linked"}

\* p has panicked, or waits for an inode that is locked and not in use.
Blocked(p) ==
  \/ At(p, "panic")
  \/ LET i == IF At(p, "dirlock") THEN ROOTINO ELSE ip[p]
     IN  /\ pc[p] \in {"dirlock", "ilock", "locknew"}
         /\ ilk[i] # NoProc /\ ~InUse(i)

\* RootNotKept, and progress: a holder in the kernel gives the root back or
\* takes it along, unless it panics, or waits for a lock that is not in use,
\* or the CPU is lost.
RootGivenBack ==
  /\ RootNotKept
  /\ \A p \in Proc : (HoldsRoot(p) /\ pc[p] # "user")
                      ~> (~HoldsRoot(p) \/ At(p, "user") \/ Blocked(p) \/ Halted)

(***************************************************************************)
(* dinode.nlink is the "Number of links to inode in file system" (fs.h:96) *)
(* while nobody is creating a file.  Not so: the first file created has    *)
(* inode 0, and the next creation overwrites its entry.                    *)
(***************************************************************************)
NlinkIsCount ==
  (\A p \in Proc : At(p, "user"))
    => \A i \in Inum \ {ROOTINO} :
         dinode[i].nlink = Cardinality({k \in Entries : InumAt(Dir, k) = i})
=============================================================================
