------------------------------- MODULE Bcache -------------------------------
(***************************************************************************)
(* The buffer cache of src/kernel/fs.c (bget, bread, bwrite, brelease)     *)
(* with the sleep locks of sleeplock.c its buffers carry.                  *)
(*                                                                         *)
(* A thread is a process in a file system call.  Calls hold one buffer at  *)
(* a time, and writei, iupdate and ialloc write a buffer that they have    *)
(* changed before they release it.  The exception is the bitmap: balloc    *)
(* changes it and does not call bwrite, so that its change is lost when    *)
(* the buffer is recycled.  That is modelled in Fs; the blocks here are    *)
(* those of inodes, directories and files.                                 *)
(*                                                                         *)
(* A step is one critical section of bcache.slock or of a sleep lock's     *)
(* spinlock, or one transfer of the disk; sleep() under the lock's         *)
(* spinlock and wakeup() under the same lock are part of those steps.      *)
(* VirtDisk models how a transfer is made.                                 *)
(* One device exists, so dev is left out; at start-up the buffers have     *)
(* dev 0, which no request names: NoBlock.                                 *)
(***************************************************************************)
EXTENDS Naturals, FiniteSets

CONSTANTS
  NBUF,      \* number of buffers
  Thread,    \* processes that use the file system
  NoThread,  \* no process
  Block,     \* block numbers
  NoBlock,   \* what a buffer holds before its first use
  Value,     \* contents of a block
  NoValue    \* what an uninitialised buffer shows

ASSUME BcacheAssumption ==
  /\ NBUF \in Nat \ {0}
  /\ IsFiniteSet(Thread) /\ NoThread \notin Thread
  /\ NoBlock \notin Block
  /\ Value # {} /\ NoValue \notin Value

Buf   == 1 .. NBUF    \* bcache.bufs
NoBuf == 0            \* the null struct buf pointer

VARIABLES
  lru,       \* the list from bcache.head.next to bcache.head.prev
  blockno,   \* b->blockno
  vaild,     \* b->vaild
  refcnt,    \* b->refcnt
  holder,    \* process that holds b->sk
  data,      \* b->data
  disk,      \* contents of the disk
  pc,        \* where each thread is
  r          \* the buffer each thread has a reference to

vars == <<lru, blockno, vaild, refcnt, holder, data, disk, pc, r>>

\* init_bcache puts one buffer after the other at the front of the list.
Init ==
  /\ lru = [i \in Buf |-> NBUF + 1 - i]
  /\ blockno = [b \in Buf |-> NoBlock]
  /\ vaild = [b \in Buf |-> 0]
  /\ refcnt = [b \in Buf |-> 0]
  /\ holder = [b \in Buf |-> NoThread]
  /\ data = [b \in Buf |-> NoValue]
  /\ disk \in [Block -> Value]
  /\ pc = [t \in Thread |-> "idle"]
  /\ r = [t \in Thread |-> NoBuf]

At(t, l)   == pc[t] = l
Goto(t, l) == pc' = [pc EXCEPT ![t] = l]

-----------------------------------------------------------------------------
(***************************************************************************)
(* bget(dev, k), up to the release of bcache.slock.                        *)
(***************************************************************************)
Cached(k) == {b \in Buf : blockno[b] = k}

\* The place in the list where the second loop, which goes from the rear to
\* the front, stops: the last unused buffer.
LastUnused(i) ==
  /\ refcnt[lru[i]] = 0
  /\ \A j \in Buf : j > i => refcnt[lru[j]] # 0

\* Faulty variant: a recycled buffer keeps its reference count of 0.
BgetRecycleNoRef(t, k) ==
  /\ At(t, "idle")
  /\ Cached(k) = {}
  /\ \E i \in Buf :
       LET b == lru[i]
       IN  /\ LastUnused(i)
           /\ vaild' = [vaild EXCEPT ![b] = 0]
           /\ blockno' = [blockno EXCEPT ![b] = k]
           /\ r' = [r EXCEPT ![t] = b]
  /\ Goto(t, "lock")
  /\ UNCHANGED <<lru, refcnt, holder, data, disk>>

\* Faulty variant: a recycled buffer keeps its valid flag.
BgetRecycleVaild(t, k) ==
  /\ At(t, "idle")
  /\ Cached(k) = {}
  /\ \E i \in Buf :
       LET b == lru[i]
       IN  /\ LastUnused(i)
           /\ refcnt' = [refcnt EXCEPT ![b] = 1]
           /\ blockno' = [blockno EXCEPT ![b] = k]
           /\ r' = [r EXCEPT ![t] = b]
  /\ Goto(t, "lock")
  /\ UNCHANGED <<lru, vaild, holder, data, disk>>

\* Faulty variant: the search for the block is not under the same lock, and
\* its result is stale when the buffer is recycled.
BgetRecycleStale(t, k) ==
  /\ At(t, "idle")
  /\ \E i \in Buf :
       LET b == lru[i]
       IN  /\ LastUnused(i)
           /\ refcnt' = [refcnt EXCEPT ![b] = 1]
           /\ vaild' = [vaild EXCEPT ![b] = 0]
           /\ blockno' = [blockno EXCEPT ![b] = k]
           /\ r' = [r EXCEPT ![t] = b]
  /\ Goto(t, "lock")
  /\ UNCHANGED <<lru, holder, data, disk>>

\* The first loop finds the block.
BgetHit(t, k) ==
  /\ At(t, "idle")
  /\ \E b \in Cached(k) :
       /\ refcnt' = [refcnt EXCEPT ![b] = @ + 1]
       /\ r' = [r EXCEPT ![t] = b]
  /\ Goto(t, "lock")
  /\ UNCHANGED <<lru, blockno, vaild, holder, data, disk>>

\* The second loop takes the buffer unused for longest.
BgetRecycle(t, k) ==
  /\ At(t, "idle")
  /\ Cached(k) = {}
  /\ \E i \in Buf :
       LET b == lru[i]
       IN  /\ LastUnused(i)
           /\ refcnt' = [refcnt EXCEPT ![b] = 1]
           /\ vaild' = [vaild EXCEPT ![b] = 0]
           /\ blockno' = [blockno EXCEPT ![b] = k]
           /\ r' = [r EXCEPT ![t] = b]
  /\ Goto(t, "lock")
  /\ UNCHANGED <<lru, holder, data, disk>>

\* No buffer is left: panic, which spins outside bcache.slock.
BgetPanic(t, k) ==
  /\ At(t, "idle")
  /\ Cached(k) = {}
  /\ \A i \in Buf : refcnt[lru[i]] # 0
  /\ Goto(t, "panic")
  /\ UNCHANGED <<lru, blockno, vaild, refcnt, holder, data, disk, r>>

-----------------------------------------------------------------------------
(***************************************************************************)
(* sleep_lock(&b->sk), and the test of b->vaild after it.                  *)
(***************************************************************************)
SleepLock(t) ==
  /\ At(t, "lock")
  /\ holder[r[t]] = NoThread
  /\ holder' = [holder EXCEPT ![r[t]] = t]
  /\ Goto(t, IF vaild[r[t]] = 1 THEN "have" ELSE "read")
  /\ UNCHANGED <<lru, blockno, vaild, refcnt, data, disk, r>>

\* while (sl->locked) sleep(sl, &sl->splock).
SleepWait(t) ==
  /\ At(t, "lock")
  /\ holder[r[t]] # NoThread
  /\ Goto(t, "asleep")
  /\ UNCHANGED <<lru, blockno, vaild, refcnt, holder, data, disk, r>>

\* virt_disk_rw(r, 0): the transfer, then b->vaild = 1.
DiskRead(t) ==
  /\ At(t, "read")
  /\ data' = [data EXCEPT ![r[t]] = disk[blockno[r[t]]]]
  /\ Goto(t, "filled")
  /\ UNCHANGED <<lru, blockno, vaild, refcnt, holder, disk, r>>

Bread(t) ==
  /\ At(t, "filled")
  /\ vaild' = [vaild EXCEPT ![r[t]] = 1]
  /\ Goto(t, "have")
  /\ UNCHANGED <<lru, blockno, refcnt, holder, data, disk, r>>

-----------------------------------------------------------------------------
(***************************************************************************)
(* The caller changes the block and writes it through: bwrite.             *)
(***************************************************************************)
Modify(t, v) ==
  /\ At(t, "have")
  /\ data' = [data EXCEPT ![r[t]] = v]
  /\ Goto(t, "dirty")
  /\ UNCHANGED <<lru, blockno, vaild, refcnt, holder, disk, r>>

Bwrite(t) ==
  /\ At(t, "dirty")
  /\ IF holder[r[t]] = t
     THEN /\ disk' = [disk EXCEPT ![blockno[r[t]]] = data[r[t]]]
          /\ Goto(t, "written")
     ELSE Goto(t, "panic") /\ UNCHANGED disk
  /\ UNCHANGED <<lru, blockno, vaild, refcnt, holder, data, r>>

-----------------------------------------------------------------------------
(***************************************************************************)
(* brelease(b): sleep_unlock wakes every process that sleeps on the lock;  *)
(* then, under bcache.slock, the reference is dropped, and a buffer that   *)
(* nobody uses any more goes to the front of the list.                     *)
(***************************************************************************)
\* Faulty variant: sleep_unlock without wakeup.
SleepUnlockQuiet(t) ==
  /\ At(t, "have") \/ At(t, "written")
  /\ holder[r[t]] = t
  /\ holder' = [holder EXCEPT ![r[t]] = NoThread]
  /\ Goto(t, "drop")
  /\ UNCHANGED <<lru, blockno, vaild, refcnt, data, disk, r>>

SleepUnlock(t) ==
  /\ At(t, "have") \/ At(t, "written")
  /\ IF holder[r[t]] = t
     THEN /\ holder' = [holder EXCEPT ![r[t]] = NoThread]
          /\ pc' = [u \in Thread |->
                      IF u = t THEN "drop"
                      ELSE IF pc[u] = "asleep" /\ r[u] = r[t] THEN "lock"
                      ELSE pc[u]]
     ELSE Goto(t, "panic") /\ UNCHANGED holder
  /\ UNCHANGED <<lru, blockno, vaild, refcnt, data, disk, r>>

\* b->next and b->prev joined, and b put after bcache.head: the buffers that
\* were before b move back one place.
ToFront(b) ==
  LET p == CHOOSE i \in Buf : lru[i] = b
  IN  [i \in Buf |-> IF i = 1 THEN b
                     ELSE IF i <= p THEN lru[i - 1] ELSE lru[i]]

\* Faulty variant: the last reference is not dropped.
BreleaseKeepsRef(t) ==
  /\ At(t, "drop")
  /\ refcnt' = [refcnt EXCEPT ![r[t]] = IF @ = 1 THEN 1 ELSE @ - 1]
  /\ lru' = IF refcnt[r[t]] = 1 THEN ToFront(r[t]) ELSE lru
  /\ r' = [r EXCEPT ![t] = NoBuf]
  /\ Goto(t, "idle")
  /\ UNCHANGED <<blockno, vaild, holder, data, disk>>

Brelease(t) ==
  /\ At(t, "drop")
  /\ refcnt' = [refcnt EXCEPT ![r[t]] = @ - 1]
  /\ lru' = IF refcnt[r[t]] = 1 THEN ToFront(r[t]) ELSE lru
  /\ r' = [r EXCEPT ![t] = NoBuf]
  /\ Goto(t, "idle")
  /\ UNCHANGED <<blockno, vaild, holder, data, disk>>

-----------------------------------------------------------------------------
Bget(t, k) == BgetHit(t, k) \/ BgetRecycle(t, k) \/ BgetPanic(t, k)

Step(t) == \/ SleepLock(t) \/ SleepWait(t) \/ DiskRead(t) \/ Bread(t)
           \/ Bwrite(t) \/ SleepUnlock(t) \/ Brelease(t)

Next == \E t \in Thread :
          \/ \E k \in Block : Bget(t, k)
          \/ \E v \in Value : Modify(t, v)
          \/ Step(t)

Spec == Init /\ [][Next]_vars

-----------------------------------------------------------------------------
(***************************************************************************)
(* A block has at most one buffer: bget's miss under bcache.slock leaves   *)
(* no time for a second thread to cache the same block elsewhere.          *)
(***************************************************************************)
OneBufPerBlock ==
  \A b, c \in Buf : b # c /\ blockno[b] = blockno[c] => blockno[b] = NoBlock

(***************************************************************************)
(* The reference count is exact: bget and brelease leave neither a buffer  *)
(* that can never be recycled nor one that is recycled while a thread      *)
(* holds it, waits for it or has yet to drop it.                           *)
(***************************************************************************)
RefcntExact ==
  \A b \in Buf : refcnt[b] = Cardinality({t \in Thread : r[t] = b})

(***************************************************************************)
(* sleep_lock loses no wakeup: a process that sleeps on a buffer's lock    *)
(* sleeps on a lock that some process, not itself, still has to unlock,    *)
(* although all sleepers are woken and only one of them gets the lock.     *)
(***************************************************************************)
SleeperHasHolder ==
  \A t \in Thread : At(t, "asleep") => holder[r[t]] \notin {t, NoThread}

(***************************************************************************)
(* bget panics only when every buffer is in use by some other process:     *)
(* brelease gives back what bget took, so the cache never runs dry by      *)
(* itself.  The panics of bwrite and brelease (the lock is not held) would *)
(* break this too.                                                         *)
(***************************************************************************)
PanicNeedsAll ==
  [][\A t \in Thread :
       ~At(t, "panic") /\ At(t, "panic")'
         => \A b \in Buf : \E u \in Thread \ {t} : r[u] = b]_vars

-----------------------------------------------------------------------------
(***************************************************************************)
(* The cache implements BlockStore: between bread and brelease a thread    *)
(* has the block to itself and sees the value last written to it, through  *)
(* recycling, re-reading and waiting for the lock.                         *)
(***************************************************************************)
Holding == {"have", "dirty", "written"}

AbsStore == [k \in Block |->
  IF \E b \in Buf : blockno[b] = k /\ vaild[b] = 1
  THEN data[CHOOSE b \in Buf : blockno[b] = k /\ vaild[b] = 1]
  ELSE disk[k]]

AbsOwner == [k \in Block |->
  IF \E t \in Thread : pc[t] \in Holding /\ blockno[r[t]] = k
  THEN CHOOSE t \in Thread : pc[t] \in Holding /\ blockno[r[t]] = k
  ELSE NoThread]

AbsSeen == [t \in Thread |->
  IF pc[t] \in Holding THEN data[r[t]] ELSE NoValue]

Abs == INSTANCE BlockStore WITH store <- AbsStore, owner <- AbsOwner,
                                seen <- AbsSeen

ImplementsBlockStore == Abs!Spec
=============================================================================
