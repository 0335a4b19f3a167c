-------------------------------- MODULE File --------------------------------
(***************************************************************************)
(* Open files: the descriptor tables of the processes, the file table of   *)
(* src/kernel/file.c, the inode cache of fs.c and the system calls of      *)
(* sysfile.c and proc.c that count references to them: open (without       *)
(* O_CREATE), close, dup, read, fstat, fork and exit.  write to a file     *)
(* changes nothing.                                                        *)
(*                                                                         *)
(* A step is one critical section of filecache.slock, of inodecache.slock  *)
(* or of an inode's sleep lock, with the private work of the process that  *)
(* follows it.  A sleep lock blocks here; Bcache models how it sleeps.     *)
(* Files are on-disk inodes of one directory, the root, whose entries do   *)
(* not change.  Left out: offsets, access modes and device numbers: a      *)
(* device file counts references like any other, and that open refuses its *)
(* number is chosen freely.  iput's truncation needs vaild = 1, which      *)
(* ilock never leaves behind.                                              *)
(***************************************************************************)
EXTENDS Naturals, FiniteSets, FiniteSetsExt

CONSTANTS
  Proc, initp,  \* processes and the first of them
  NoProc,       \* nobody holds a sleep lock
  NFILE,        \* entries of filecache.files
  INODES,       \* entries of inodecache.inodes
  OPENFILE,     \* descriptors of a process
  Inum, ROOTINO,\* inode numbers on the disk, and the root's
  MaxRef        \* bound on an inode's reference count

ASSUME FileAssumption ==
  /\ initp \in Proc /\ NoProc \notin Proc /\ IsFiniteSet(Proc)
  /\ NFILE \in Nat \ {0} /\ INODES \in Nat \ {0} /\ OPENFILE \in Nat \ {0}
  /\ ROOTINO \in Inum
  /\ MaxRef \in Nat \ {0}

Files  == 1 .. NFILE
Inodes == 1 .. INODES
Fd     == 1 .. OPENFILE
Nil    == 0              \* the null pointer

VARIABLES
  openfs,   \* p->openfs
  pwd,      \* p->pwd
  fref,     \* f->ref
  ftype,    \* f->type: "none" or "inode"
  fip,      \* f->ip
  iref,     \* i->ref
  inum,     \* i->inum
  ilk,      \* process that holds i->splock
  vaild,    \* i->vaild
  pc,       \* where each process is; "gone" if there is no such process
  ret,      \* where it returns to from fileclose and iput
  ip, dp,   \* inodes it works on
  nf,       \* file it works on
  fd,       \* loop variable over descriptors in fork and exit
  kid       \* the child it creates

ftable == <<fref, ftype, fip>>
itable == <<iref, inum, ilk, vaild>>
local  == <<pc, ret, ip, dp, nf, fd, kid>>
vars   == <<openfs, pwd, fref, ftype, fip, iref, inum, ilk, vaild, pc, ret, ip,
            dp, nf, fd, kid>>

\* userinit: the first process has the root as its directory.
Init ==
  /\ openfs = [p \in Proc |-> [d \in Fd |-> Nil]]
  /\ pwd = [p \in Proc |-> IF p = initp THEN 1 ELSE Nil]
  /\ fref = [f \in Files |-> 0]
  /\ ftype = [f \in Files |-> "none"]
  /\ fip = [f \in Files |-> Nil]
  /\ iref = [i \in Inodes |-> IF i = 1 THEN 1 ELSE 0]
  /\ inum = [i \in Inodes |-> ROOTINO]
  /\ ilk = [i \in Inodes |-> NoProc]
  /\ vaild = [i \in Inodes |-> 0]
  /\ pc = [p \in Proc |-> IF p = initp THEN "idle" ELSE "gone"]
  /\ ret = [p \in Proc |-> "idle"]
  /\ ip = [p \in Proc |-> Nil]
  /\ dp = [p \in Proc |-> Nil]
  /\ nf = [p \in Proc |-> Nil]
  /\ fd = [p \in Proc |-> 1]
  /\ kid = [p \in Proc |-> p]

At(p, l) == pc[p] = l

\* At "panic" interrupts are off on the only CPU: nothing runs any more.
On(p, l) == At(p, l) /\ \A q \in Proc : ~At(q, "panic")

Goto(p, l) == pc' = [pc EXCEPT ![p] = l]

Set(v, p, x) == [v EXCEPT ![p] = x]

-----------------------------------------------------------------------------
(***************************************************************************)
(* The inode cache.                                                        *)
(***************************************************************************)
\* iget(dev, k): the entry in use for k, or the first one not in use.
Hits(k) == {i \in Inodes : iref[i] > 0 /\ inum[i] = k}

Idle == {i \in Inodes : iref[i] = 0}

CanGet(k) == Hits(k) # {} \/ Idle # {}

\* Faulty variant: the scan stops at the first entry that is not in use.
GotFresh(k) == IF Idle # {} THEN Min(Idle) ELSE Min(Hits(k))

Got(k) == IF Hits(k) # {} THEN Min(Hits(k)) ELSE Min(Idle)

iget(k) ==
  /\ iref' = [iref EXCEPT ![Got(k)] = @ + 1]
  /\ inum' = [inum EXCEPT ![Got(k)] = k]
  /\ vaild' = [vaild EXCEPT ![Got(k)] = IF Hits(k) # {} THEN @ ELSE 0]

\* ilock(i) on the way to l.  It panics, with no spin lock held, for an entry
\* that is not in use; once the sleep lock is free, the inode is read from the
\* disk, and vaild is set to 0 again.
ilock(p, i, l) ==
  IF iref[i] < 1
  THEN Goto(p, "stuck") /\ UNCHANGED <<ilk, vaild>>
  ELSE /\ ilk[i] = NoProc
       /\ ilk' = [ilk EXCEPT ![i] = p]
       /\ vaild' = [vaild EXCEPT ![i] = 0]
       /\ Goto(p, l)

\* iput(i) on the way to ret[p].
Iput(p) ==
  /\ On(p, "iput")
  /\ iref' = [iref EXCEPT ![ip[p]] = @ - 1]
  /\ ip' = Set(ip, p, Nil)
  /\ Goto(p, ret[p])
  /\ ret' = Set(ret, p, "idle")
  /\ UNCHANGED <<openfs, pwd, ftable, inum, ilk, vaild, dp, nf, fd, kid>>

-----------------------------------------------------------------------------
(***************************************************************************)
(* sys_open.                                                               *)
(***************************************************************************)
\* iname: a reference to the root, which is the result for a path with '/'.
OpenRoot(p) ==
  /\ On(p, "idle")
  /\ CanGet(ROOTINO) /\ iref[Got(ROOTINO)] < MaxRef
  /\ iget(ROOTINO)
  /\ ip' = Set(ip, p, Got(ROOTINO))
  /\ Goto(p, "ilock")
  /\ UNCHANGED <<openfs, pwd, ftable, ilk, ret, dp, nf, fd, kid>>

OpenName(p) ==
  /\ On(p, "idle")
  /\ CanGet(ROOTINO) /\ iref[Got(ROOTINO)] < MaxRef
  /\ iget(ROOTINO)
  /\ dp' = Set(dp, p, Got(ROOTINO))
  /\ Goto(p, "dirlock")
  /\ UNCHANGED <<openfs, pwd, ftable, ilk, ret, ip, nf, fd, kid>>

DirLock(p) ==
  /\ On(p, "dirlock")
  /\ ilock(p, dp[p], "lookup")
  /\ UNCHANGED <<openfs, pwd, ftable, iref, inum, ret, ip, dp, nf, fd, kid>>

\* inodeByName finds inode k; then sleep_unlock(&dp->splock).  The reference
\* to the root stays.  iget panics when the cache is full.
LookupFound(p, k) ==
  /\ On(p, "lookup")
  /\ IF CanGet(k)
     THEN /\ iref[Got(k)] < MaxRef
          /\ iget(k)
          /\ ip' = Set(ip, p, Got(k))
          /\ ilk' = [ilk EXCEPT ![dp[p]] = NoProc]
          /\ Goto(p, "ilock")
     ELSE Goto(p, "panic") /\ UNCHANGED <<itable, ip>>
  /\ dp' = Set(dp, p, Nil)
  /\ UNCHANGED <<openfs, pwd, ftable, ret, nf, fd, kid>>

LookupMissing(p) ==
  /\ On(p, "lookup")
  /\ ilk' = [ilk EXCEPT ![dp[p]] = NoProc]
  /\ dp' = Set(dp, p, Nil)
  /\ Goto(p, "idle")
  /\ UNCHANGED <<openfs, pwd, ftable, iref, inum, vaild, ret, ip, nf, fd, kid>>

OpenLock(p) ==
  /\ On(p, "ilock")
  /\ ilock(p, ip[p], "filealloc")
  /\ UNCHANGED <<openfs, pwd, ftable, iref, inum, ret, ip, dp, nf, fd, kid>>

\* The inode is a device with a number out of range: sys_open panics, with the
\* inode locked and interrupts on.
OpenBadMajor(p) ==
  /\ On(p, "filealloc")
  /\ ip' = Set(ip, p, Nil)
  /\ Goto(p, "stuck")
  /\ UNCHANGED <<openfs, pwd, ftable, itable, ret, dp, nf, fd, kid>>

\* filealloc; without a free entry sys_open calls fileclose(0), which faults.
FreeFiles == {f \in Files : fref[f] = 0}

FileAlloc(p) ==
  /\ On(p, "filealloc")
  /\ IF FreeFiles # {}
     THEN /\ fref' = [fref EXCEPT ![Min(FreeFiles)] = 1]
          /\ nf' = Set(nf, p, Min(FreeFiles))
          /\ Goto(p, "fdalloc")
     ELSE Goto(p, "panic") /\ UNCHANGED <<fref, nf>>
  /\ UNCHANGED <<openfs, pwd, ftype, fip, itable, ret, ip, dp, fd, kid>>

\* fdalloc takes the lowest free descriptor; sys_open fills in the file and
\* unlocks the inode.
FreeFds(p) == {d \in Fd : openfs[p][d] = Nil}

OpenDone(p) ==
  /\ On(p, "fdalloc")
  /\ FreeFds(p) # {}
  /\ openfs' = [openfs EXCEPT ![p][Min(FreeFds(p))] = nf[p]]
  /\ ftype' = [ftype EXCEPT ![nf[p]] = "inode"]
  /\ fip' = [fip EXCEPT ![nf[p]] = ip[p]]
  /\ ilk' = [ilk EXCEPT ![ip[p]] = NoProc]
  /\ ip' = Set(ip, p, Nil)
  /\ nf' = Set(nf, p, Nil)
  /\ Goto(p, "idle")
  /\ UNCHANGED <<pwd, fref, iref, inum, vaild, ret, dp, fd, kid>>

\* No descriptor is free: the file is closed, the inode stays locked and its
\* reference is not given back.
OpenNoFd(p) ==
  /\ On(p, "fdalloc")
  /\ FreeFds(p) = {}
  /\ ip' = Set(ip, p, Nil)
  /\ Goto(p, "fileclose")
  /\ UNCHANGED <<openfs, pwd, ftable, itable, ret, dp, nf, fd, kid>>

-----------------------------------------------------------------------------
(***************************************************************************)
(* fileclose(nf[p]); the last reference leads to iput.                     *)
(***************************************************************************)
\* Faulty variant: the inode is put with every descriptor, not the last one.
FilecloseAlwaysPuts(p) ==
  LET f == nf[p] IN
  /\ On(p, "fileclose")
  /\ nf' = Set(nf, p, Nil)
  /\ fref' = [fref EXCEPT ![f] = @ - 1]
  /\ ftype' = [ftype EXCEPT ![f] = IF fref[f] > 1 THEN @ ELSE "none"]
  /\ IF ftype[f] = "inode"
     THEN ip' = Set(ip, p, fip[f]) /\ Goto(p, "iput") /\ UNCHANGED ret
     ELSE Goto(p, ret[p]) /\ ret' = Set(ret, p, "idle") /\ UNCHANGED ip
  /\ UNCHANGED <<openfs, pwd, fip, itable, dp, fd, kid>>

Fileclose(p) ==
  LET f == nf[p] IN
  /\ On(p, "fileclose")
  /\ nf' = Set(nf, p, Nil)
  /\ IF fref[f] < 1
     THEN Goto(p, "panic") /\ UNCHANGED <<fref, ftype, ip, ret>>
     ELSE /\ fref' = [fref EXCEPT ![f] = @ - 1]
          /\ IF fref[f] > 1
             THEN /\ Goto(p, ret[p])
                  /\ ret' = Set(ret, p, "idle")
                  /\ UNCHANGED <<ftype, ip>>
             ELSE /\ ftype' = [ftype EXCEPT ![f] = "none"]
                  /\ IF ftype[f] = "inode"
                     THEN /\ ip' = Set(ip, p, fip[f])
                          /\ Goto(p, "iput")
                          /\ UNCHANGED ret
                     ELSE /\ Goto(p, ret[p])
                          /\ ret' = Set(ret, p, "idle")
                          /\ UNCHANGED ip
  /\ UNCHANGED <<openfs, pwd, fip, itable, dp, fd, kid>>

\* sys_close
Close(p, d) ==
  /\ On(p, "idle")
  /\ openfs[p][d] # Nil
  /\ openfs' = [openfs EXCEPT ![p][d] = Nil]
  /\ nf' = Set(nf, p, openfs[p][d])
  /\ Goto(p, "fileclose")
  /\ UNCHANGED <<pwd, ftable, itable, ret, ip, dp, fd, kid>>

\* sys_dup: the new descriptor first, the reference after it.
Dup(p, d) ==
  /\ On(p, "idle")
  /\ openfs[p][d] # Nil
  /\ FreeFds(p) # {}
  /\ openfs' = [openfs EXCEPT ![p][Min(FreeFds(p))] = openfs[p][d]]
  /\ nf' = Set(nf, p, openfs[p][d])
  /\ Goto(p, "filedup")
  /\ UNCHANGED <<pwd, ftable, itable, ret, ip, dp, fd, kid>>

\* Faulty variant: dup does not count the new descriptor.
FiledupUncounted(p) ==
  /\ On(p, "filedup")
  /\ Goto(p, "idle")
  /\ nf' = Set(nf, p, Nil)
  /\ UNCHANGED <<openfs, pwd, ftable, itable, ret, ip, dp, fd, kid>>

Filedup(p) ==
  /\ On(p, "filedup")
  /\ IF fref[nf[p]] < 1
     THEN Goto(p, "panic") /\ UNCHANGED fref
     ELSE Goto(p, "idle") /\ fref' = [fref EXCEPT ![nf[p]] = @ + 1]
  /\ nf' = Set(nf, p, Nil)
  /\ UNCHANGED <<openfs, pwd, ftype, fip, itable, ret, ip, dp, fd, kid>>

\* fileread: ilock, readi, iunlock.
Read(p, d) ==
  /\ On(p, "idle")
  /\ openfs[p][d] # Nil
  /\ ip' = Set(ip, p, fip[openfs[p][d]])
  /\ Goto(p, "readlock")
  /\ UNCHANGED <<openfs, pwd, ftable, itable, ret, dp, nf, fd, kid>>

\* filestat: ilock, stati, iunlock.  A bad descriptor is only refused.
Fstat(p, d) ==
  /\ On(p, "idle")
  /\ openfs[p][d] # Nil
  /\ ip' = Set(ip, p, fip[openfs[p][d]])
  /\ Goto(p, "readlock")
  /\ UNCHANGED <<openfs, pwd, ftable, itable, ret, dp, nf, fd, kid>>

\* sys_read panics when the descriptor is not open.  Interrupts are on and no
\* lock is held: only this process is stuck.
ReadBadFd(p, d) ==
  /\ On(p, "idle")
  /\ openfs[p][d] = Nil
  /\ Goto(p, "stuck")
  /\ UNCHANGED <<openfs, pwd, ftable, itable, ret, ip, dp, nf, fd, kid>>

ReadLock(p) ==
  /\ On(p, "readlock")
  /\ ilock(p, ip[p], "readi")
  /\ UNCHANGED <<openfs, pwd, ftable, iref, inum, ret, ip, dp, nf, fd, kid>>

\* iunlock panics unless the caller holds the lock and a reference exists.
ReadDone(p) ==
  /\ On(p, "readi")
  /\ IF ilk[ip[p]] # p \/ iref[ip[p]] < 1
     THEN Goto(p, "panic") /\ UNCHANGED ilk
     ELSE Goto(p, "idle") /\ ilk' = [ilk EXCEPT ![ip[p]] = NoProc]
  /\ ip' = Set(ip, p, Nil)
  /\ UNCHANGED <<openfs, pwd, ftable, iref, inum, vaild, ret, dp, nf, fd, kid>>

-----------------------------------------------------------------------------
(***************************************************************************)
(* fork: allocproc, one filedup for each descriptor, idup of the           *)
(* directory.                                                              *)
(***************************************************************************)
Fork(p, q) ==
  /\ On(p, "idle") /\ At(q, "gone")
  /\ kid' = Set(kid, p, q)
  /\ fd' = Set(fd, p, 1)
  /\ pc' = [pc EXCEPT ![p] = "fork", ![q] = "embryo"]
  /\ UNCHANGED <<openfs, pwd, ftable, itable, ret, ip, dp, nf>>

ForkDup(p) ==
  LET f == openfs[p][fd[p]] IN
  /\ On(p, "fork")
  /\ fd[p] <= OPENFILE
  /\ IF f = Nil
     THEN UNCHANGED <<openfs, fref, pc>>
     ELSE IF fref[f] < 1
     THEN Goto(p, "panic") /\ UNCHANGED <<openfs, fref>>
     ELSE /\ openfs' = [openfs EXCEPT ![kid[p]][fd[p]] = f]
          /\ fref' = [fref EXCEPT ![f] = @ + 1]
          /\ UNCHANGED pc
  /\ fd' = Set(fd, p, fd[p] + 1)
  /\ UNCHANGED <<pwd, ftype, fip, itable, ret, ip, dp, nf, kid>>

ForkDone(p) ==
  /\ On(p, "fork")
  /\ fd[p] > OPENFILE
  /\ iref[pwd[p]] < MaxRef
  /\ iref' = [iref EXCEPT ![pwd[p]] = @ + 1]
  /\ pwd' = Set(pwd, kid[p], pwd[p])
  /\ pc' = [pc EXCEPT ![p] = "idle", ![kid[p]] = "idle"]
  /\ kid' = Set(kid, p, p)
  /\ fd' = Set(fd, p, 1)
  /\ UNCHANGED <<openfs, ftable, inum, ilk, vaild, ret, ip, dp, nf>>

(***************************************************************************)
(* exit: one fileclose for each descriptor, iput of the directory.         *)
(***************************************************************************)
Exit(p) ==
  /\ On(p, "idle")
  /\ p # initp
  /\ fd' = Set(fd, p, 1)
  /\ Goto(p, "exit")
  /\ UNCHANGED <<openfs, pwd, ftable, itable, ret, ip, dp, nf, kid>>

ExitClose(p) ==
  LET f == openfs[p][fd[p]] IN
  /\ On(p, "exit")
  /\ fd[p] <= OPENFILE
  /\ openfs' = [openfs EXCEPT ![p][fd[p]] = Nil]
  /\ fd' = Set(fd, p, fd[p] + 1)
  /\ IF f = Nil
     THEN UNCHANGED <<pc, ret, nf>>
     ELSE /\ nf' = Set(nf, p, f)
          /\ ret' = Set(ret, p, "exit")
          /\ Goto(p, "fileclose")
  /\ UNCHANGED <<pwd, ftable, itable, ip, dp, kid>>

ExitPwd(p) ==
  /\ On(p, "exit")
  /\ fd[p] > OPENFILE
  /\ ip' = Set(ip, p, pwd[p])
  /\ pwd' = Set(pwd, p, Nil)
  /\ ret' = Set(ret, p, "gone")
  /\ fd' = Set(fd, p, 1)
  /\ Goto(p, "iput")
  /\ UNCHANGED <<openfs, ftable, itable, dp, nf, kid>>

-----------------------------------------------------------------------------
Open(p) == \/ OpenRoot(p) \/ OpenName(p) \/ DirLock(p) \/ LookupMissing(p)
           \/ \E k \in Inum : LookupFound(p, k)
           \/ OpenLock(p) \/ OpenBadMajor(p) \/ FileAlloc(p)
           \/ OpenDone(p) \/ OpenNoFd(p)

Use(p) == \/ \E d \in Fd :
               Close(p, d) \/ Dup(p, d) \/ Read(p, d) \/ ReadBadFd(p, d) \/ Fstat(p, d)
          \/ Fileclose(p) \/ Filedup(p) \/ Iput(p)
          \/ ReadLock(p) \/ ReadDone(p)

Life(p) == \/ \E q \in Proc : Fork(p, q)
           \/ ForkDup(p) \/ ForkDone(p)
           \/ Exit(p) \/ ExitClose(p) \/ ExitPwd(p)

Next == \E p \in Proc : Open(p) \/ Use(p) \/ Life(p)

Spec == Init /\ [][Next]_vars

-----------------------------------------------------------------------------
(***************************************************************************)
(* A file's reference count is the number of descriptors that name it in   *)
(* all processes, counting one that open or close has in hand and not one  *)
(* that dup has installed but not counted yet.  So the entry is reused     *)
(* neither too early nor never.                                            *)
(***************************************************************************)
Slots(f) == {x \in Proc \X Fd : openfs[x[1]][x[2]] = f}

FileRefExact ==
  \A f \in Files :
    fref[f] + Cardinality({p \in Proc : At(p, "filedup") /\ nf[p] = f})
      = Cardinality(Slots(f))
          + Cardinality({p \in Proc : pc[p] \in {"fdalloc", "fileclose"}
                                        /\ nf[p] = f})

(***************************************************************************)
(* Inode k is in one entry of the cache at a time, so that its sleep lock  *)
(* protects it: two processes that open the same file meet in iget.        *)
(***************************************************************************)
OneEntryPerInode ==
  \A i, j \in Inodes :
    iref[i] > 0 /\ iref[j] > 0 /\ inum[i] = inum[j] => i = j

(***************************************************************************)
(* An inode is not taken away from those who use it: its reference count   *)
(* covers every open file, every current directory and every system call   *)
(* in progress that points to it.                                          *)
(***************************************************************************)
IRefs(i) ==
  Cardinality({f \in Files : fref[f] > 0 /\ ftype[f] = "inode" /\ fip[f] = i})
    + Cardinality({p \in Proc : pwd[p] = i})
    + Cardinality({p \in Proc : dp[p] = i})
    + Cardinality({p \in Proc :
        ip[p] = i /\ pc[p] \in {"ilock", "filealloc", "fdalloc", "iput"}})

RefCovers == \A i \in Inodes : iref[i] >= IRefs(i)

(***************************************************************************)
(* i->ref, "ref count" (fs.h:78), is the number of references to the       *)
(* inode.  Not so: iname's reference to the root is never given back, nor  *)
(* is the file's when sys_open finds no descriptor.                        *)
(***************************************************************************)
RefIsCount == \A i \in Inodes : iref[i] = IRefs(i)
=============================================================================
