# haloOS in TLA+

haloOS is a small RISC-V kernel in C: processes with a round-robin scheduler,
spin locks and sleep locks, a virtio disk, a buffer cache, an inode file system,
a console and a UART. This directory models the parts of the kernel in which
several actors meet — CPUs, processes, interrupt handlers, devices, power
failures — checks them with TLC on small instances, and proves with TLAPS, for
every number of CPUs, processes, buffers, descriptors, files, blocks and pages,
the safety of the process table, the spin locks, the disk driver, the buffer
cache, the open files and inode cache, the directory and the contents of files,
the console, the UART and the page allocator.

Paths below are relative to `src/kernel/`, that of `mkfs.c` to `src/`.

## 1. The system: inventory

| Component | State | Operations | Meets others through |
|---|---|---|---|
| process table (`proc.c`) | `procs[]` (state, parent, chan, slock), `wait_lock`, `cpus[].p` | allocproc, fork, exit, reparent, wait, sleep, wakeup, yield, sched, scheduler | every blocking call sleeps and wakes here |
| spin locks (`spinlock.c`, `trap.c`) | `locked`, `cpu`, per-CPU `noff`/`intena`, the SIE bit | acquire, release, push_off, pop_off; traps and switches | all shared state |
| disk driver (`virt.c`) | descriptors, available and used rings, `info[]`, `disklock` | virt_disk_rw, virtio_disk_isr | the device's interrupt; `b->disk` |
| buffer cache (`fs.c`, `sleeplock.c`) | 16 buffers in an LRU list, refcnt, vaild, sleep locks | bget, bread, bwrite, brelease | disk driver below, inodes above |
| open files, inode cache (`file.c`, `fs.c`, `sysfile.c`) | descriptors, `filecache`, `inodecache`, counts | open, close, dup, read, fstat, fork, exit | processes share files; inodes share the cache |
| directory and contents (`fs.c`, `sysfile.c`) | root directory, inodes and blocks on disk | inodeByName, create, ialloc, iupdate, dirlink, readi, writei, bmap, balloc | open, exec and mknod share the root; the disk survives a power failure |
| disk image (`mkfs.c`) | image file, next free inode and block | ialloc, iappend, balloc | the kernel finds what it wrote |
| console (`console.c`) | ring with `r`, `w`, `e` | consoleintr, consoleread | UART interrupt, sleeping readers |
| UART output (`memlayout.c`) | ring with `uart_tx_r/w`, THR | uartputc, uartstart, uartinterrupt, uartputc_sync | transmit interrupt, sleeping writers |
| virtual memory, exec (`vm.c`, `exec.c`, `spaceswap.c`) | free list, page tables | kalloc, kfree, uvmcopy, uvmalloc, exec, copyin/out | fork, exit, sbrk |
| traps, timer, start-up | `ticks`, CSRs | usertrap, kerneltrap, clockintr, main | yield on every tick |
| user programs | — | init, sh, ls; umem | system calls |

What is hard here: the sleep/wakeup protocol (a condition, a condition lock and
the process's own lock), a spin lock that is taken by one context and released
by another (across `swtch`), interrupts on the same CPU as the code they
disturb, buffers and inodes that are recycled while others wait for them,
counters that wrap, error paths that leave half of the work done, panics that
spin with locks held, and writes to the disk that a power failure separates.
`PROJECT.json` lists these hazards at their lines, with the properties that
would catch them.

What makes each component correct:

- *processes*: one CPU per kernel stack, no lost wakeup, no orphan, each zombie
  reaped once; everything runnable runs, `wait` and `exit` end, as long as no panic
  has taken the CPU;
- *spin locks*: mutual exclusion, interrupts off under a lock and as the context
  set them without one;
- *disk*: descriptors neither leak nor are reused early, requests return
  while the descriptors suffice;
- *buffer cache*: a store of blocks, each owned by one process at a time;
- *files*: counts are never too low (use after free) nor too high (leak);
- *directory*: entries name allocated inodes, one each, and keep their meaning;
  blocks have one owner; files keep their contents; who may return with the
  root locked is known;
- *console, UART*: a queue of lines, a queue of characters, without stalls;
- *memory*: a page has one use at a time, what `sz` promises is mapped, and no
  failure path loses pages.

## 2. Modules

```
Proc <- ProcInv <- ProcProofs, MCProc        Spinlock <- SpinlockProofs, MCSpinlock
BlockStore <= Bcache <- BcacheProofs, MCBcache
LineQueue  <= Console <- TtyProofs, MCConsole
TxQueue    <= Uart <- TtyProofs, MCUart
VirtDisk <- VirtDiskProofs, MCVirtDisk       Vm <- VmProofs, MCVm
File <- FileProofs, MCFile                   Mkfs <- Fs <- FsProofs, MCFs
```

`A <- B` says that B extends A, `A <= B` that B implements A.

Every module begins with the correspondence to the code and what it leaves out.

- **Proc** — `proc.c`. A process is its slot. Its kernel thread is at a label
  `pc[p]`, executed by the CPU `c` with `curp[c] = p`. Each action is the code
  from one `acquire` to the next point where another CPU can see a difference;
  locks held across several actions stay in the state. `wakeup`, `reparent`,
  `allocproc` and `wait` scan `procs[]` slot by slot, one action for each, as
  the code does with one lock at a time. Timer preemption (`Yield`) may happen
  wherever no lock is held. User programs may call fork, exit and wait at any
  time; init may exit, which is the code's panic. A panic that holds no spin
  lock costs one process. One that holds some takes the CPU: `AllocPanic`
  (`allocproc` out of memory, with the child's slock) and `WaitFault` (`walkaddr`
  on an unmapped address inside `copyoutpg`, with `wait_lock` and the child's
  slock). After any panic `uartputc` loops with its lock held, so a process that
  writes takes the CPU too (`OutputHangs`). `Halted` is the name of these states.
- **Spinlock** — `spinlock.c` to the level of single visible stores
  (`locked`, `cpu`), with `noff`, `intena` and the SIE bit, and the traps and
  `sched`/`scheduler` switches that save, restore or carry them to another CPU.
  What kernel code does between lock operations is free, within the kernel's
  lock order. `p->state` belongs to Proc, so `sched`'s panic for `RUNNING` is not
  here.
- **VirtDisk** — `virt.c`: three-descriptor chains, both rings with `uint16`
  indices (modulo `IdxMod`), the handler in four steps without `disklock`, and
  an external device that completes in any order. A request that finds fewer
  than three descriptors stays in `alloc3`'s retry loop with `disklock` held
  (`Alloc3Retry`). `Smp` says whether another
  CPU could take the interrupt; the kernel is run with `-smp 1` (Makefile:95),
  so the checked instance has `Smp = FALSE`.
- **Bcache**, **BlockStore** — `bget`/`bread`/`bwrite`/`brelease` with the LRU
  list as a sequence. The refinement mapping takes a block's value from its
  valid buffer, or from the disk if it has none, and its owner from the
  process between `bread` and `brelease`. Every caller but `balloc` writes a
  buffer that it changed; the exception is in Fs.
- **File** — reference counts of files and inodes through open (without
  `O_CREATE`), close, dup, read, fstat, fork and exit, with every failure path:
  table full, descriptor table full, name not found, inode cache full, and the
  panics of `ilock` and of a device number out of range, after which the process
  is `"stuck"` with what it holds. Whether a device number is out of range is
  chosen freely; Fs has the numbers.
- **Mkfs** — the image as a function of the arguments of `mkfs`, by folds of
  `ialloc` and `iappend`. It counts in cells of 16 bytes, the size of a
  directory entry, so that a file is a number of cells and a block has a few.
- **Fs** — the directory and the contents of files, starting from an image of
  Mkfs: open, exec, `open(O_CREATE)` and mknod, each cut where the code waits for
  a sleep lock and where a write reaches the disk. `dinode` and `block` are on
  the disk; `bm` is the buffer of the bitmap, which the kernel changes and never
  writes; `root` is the cached inode of the directory while it is locked.
  `Crash` may come between any two steps and keeps only the disk. That a
  descriptor table, the file table, a cache or memory is exhausted is chosen
  freely: `UseNoFd` is open returning -1 with the inode locked, `PanicLocked` a
  panic that spins with inodes locked while the others go on, `Halt` one that
  holds a spin lock and takes the CPU. What `create` reads in `ip->type` before it
  has locked the inode is chosen freely too.
- **Vm** — who uses which physical page: the allocator, the page tables with
  their intermediate tables on the user's and on the trampoline's side, and
  fork, exec, sbrk, exit and freeproc down to single `kalloc`s and `kfree`s, each
  of which may fail. Sizes are in pages. `uvmcopy` and `uvmalloc` are one loop;
  `freewalk` and `uvmunmap` free page by page. A process that panics keeps its
  pages and the others go on.
- **Console**, **LineQueue** — the input ring; `r..w` maps to the queue of
  complete lines and `w..e` to the line being typed. A read into an address from
  `MAXVA` on returns -1 (`ReadFault`), one into an unmapped page panics in
  `walkaddr` with `cons.slock` held (`ReadPanic`).
- **Uart**, **TxQueue** — the output ring and the transmit register; THR
  followed by the ring maps to the queue. (Its names have a `Tx` where Console
  has the same, so that one module can reason about both rings.)

Definitions called "Faulty variant" are mutants: each is a plausible error in
the operation that follows it. No specification uses them; with one put in the
place of the operation, TLC finds the property named in `PROJECT.json`
violated.

## 3. Runs

| Run | Instance | Distinct states | Shows |
|---|---|---|---|
| proc | 2 CPUs, 3 slots | 164,692 | OneCpuPerProc, SwitchHoldsOnlySlock, NoLostWakeup, NoOrphan, ReapedByParent, TypeOK |
| proc_live | 1 CPU, 3 slots | 29,900 | RunnableRuns, WaitReturns, ExitTerminates |
| spinlock | 2 CPUs, 2 threads, 2 more locks | 503,184 | MutualExclusion, HeldMeansOff, NoPanic, InterruptsAsSet |
| virt_disk | 8 descriptors, 3 threads | 22,416 | DeviceOwnsChain, NoDescriptorLeak, NoLostCompletion, RequestReturns |
| bcache | 3 threads, 2 buffers, 4 blocks, 2 values, with symmetry | 12,701 | ImplementsBlockStore, OneBufPerBlock, RefcntExact, SleeperHasHolder, PanicNeedsAll |
| file | 2 processes, 2 files, 2 inode entries, 2 descriptors | 76,980 | FileRefExact, OneEntryPerInode, RefCovers |
| fs | 2 processes, 2 images, 4 inodes, 9 blocks of 4 cells, power failures | 186,613 | EntriesNameInodes, NameStable, BlocksOwned, ReadsWhatMkfsWrote, WellFormed (with OneEntryPerFile in it), RootGivenBack |
| console | ring of 3, 2 readers | 207,904 | ImplementsLineQueue, NoSleepOnInput, WokenReaderReturns |
| uart | ring of 3, 2 writers | 30,877 | ImplementsTxQueue, NoStall, WriterWakes |
| vm | 2 processes, 22 pages, 2 levels of tables below the root | 173,421 | PageExclusive, MappedBelowSz, LostOnlyInAllocproc |
| file_ref | as file | violated | RefIsCount: `iname` leaks a reference to the root |
| fs_nlink | as fs, without power failures | violated | NlinkIsCount: the entry of inode 0 is overwritten |

**Bounds.** *proc*: three slots hold init, a parent and its child, so that a
process can die while its own child is dead, alive or being made, and the table
can be full; two CPUs suffice for every pairwise race (the theorems cover the
rest). *virt_disk*: eight descriptors are the code's own `NUM`; two threads use
six of them and the third finds two, so that the retry loop is reached; `IdxMod =
16` lets the indices wrap twice round the ring. *bcache*: with one buffer less
than threads the last free buffer is fought for and `bget`'s panic is reached;
twice as many blocks as buffers force recycling. Threads, blocks and values are
interchangeable, hence the symmetry; there is no liveness property in this run.
*file*: tables of two entries are full after two opens; `MaxRef = 4` caps the
leaked references of an inode (an open, or a fork's idup, that would pass it is
not taken). *console*, *uart*: rings of three wrap every few steps, `IdxMod = 6`
and `TxMod = 6` make the counters wrap too. *fs*: the image `Shell` has one file
that needs two direct blocks, the indirect block and two blocks behind it, and
leaves one entry of the root free. On `FullBlock` two files fill the first block
of the root, so that mkfs's rounding leaves a hole that lookups fill through
`balloc`, and `writei` refuses the next entry (`MAXFILE`, in the code 16 entries
of 64). The names are one that exists (`sh`, executed and created again), one that
does not until mknod makes it, and the empty one, which an unused entry has; two
processes make every pair of calls meet. With four inodes two files can be made:
the first gets inode 0 and its entry is overwritten by the second, which is the
case that `NameStable` excepts. The number of power failures is not bounded. *vm*:
a process after userinit has 7 pages and an exec needs 8 more, so that with 22
pages two processes live, one of them can just execute a program, and memory runs
out at every `kalloc` of the others; `MAXPAGE = 23` is more than there is memory,
as 4 GB are more than 128 MB. There states that differ in the names of pages are
identified by a `VIEW`: all operations treat pages alike, and a state in which a
page has two uses is never identified with another. `CHECK_DEADLOCK FALSE` is said
only for *file*, *vm* and *fs_nlink*, where the code does stop: after a panic, and
on an inode that open leaves locked. (In *fs* the power may always fail; in Proc,
Console and VirtDisk the loop of a panic, or of `alloc3`, is a step.)

**Fairness.** *proc_live*: an idle CPU keeps scanning (WF); a timer interrupt
stays pending until interrupts are enabled (SF of `Yield`); a switch that began
ends (WF); and a thread that gets the CPU again and again gets through its kernel
path (SF), because a tick is much longer than such a path. User programs are under
no obligation. All three properties except `Halted`: with the only CPU in a
panic's loop, interrupts off, nobody runs. *virt_disk*: the device ends what it
starts, a pending interrupt is taken when interrupts come back on, threads are
scheduled. `RequestReturns` excepts `Stuck`: a request in `alloc3` with fewer than
three descriptors left keeps `disklock`, which everyone who could free some needs.
*fs*: WF of each process's own steps — it is scheduled and the disk answers; the
sleep locks are not assumed to be fair. That is enough for `RootGivenBack`, since
everybody needs the root first, or a lock that its holder gives up without the
root; the property excepts a holder that has panicked, one that waits for a lock
whose holder will not give it up (`Blocked`), and the loss of the CPU. The power
need not fail, and nobody need make a call. *console*: SF of a reader, because on
one CPU a running reader finds `cons.slock` free; `WokenReaderReturns` excepts a
read that has panicked. *uart*: the device sends, interrupts are taken, the holder
of the lock goes on; `WriterWakes` is conditional on synchronous kernel output
coming to an end, and is false without that condition. A panic in another part of
the kernel stops these parts as well; each model has the panics of its own code,
and its fairness stands for a kernel in which the others have not happened.

## 4. Proofs

Each theorem is about the specification that the run of its component checks, for
every value of the constants that satisfies the component's named `ASSUME`. The
assumptions are those of the code: tables and rings have an entry, an index
counts modulo a multiple of its ring, threads, locks and processes are finitely
many, a null is not a thing it stands beside.

| Module | Theorems (`Spec => ...`) |
|---|---|
| ProcProofs | TypeCorrect, OneCpuPerProcHolds, SwitchHoldsOnlySlockHolds, NoLostWakeupHolds, NoOrphanHolds, ReapedByParentHolds |
| SpinlockProofs | MutualExclusionHolds, HeldMeansOffHolds, NoPanicHolds, InterruptsAsSetHolds |
| BcacheProofs | OneBufPerBlockHolds, RefcntExactHolds, SleeperHasHolderHolds, PanicNeedsAllHolds, Refinement (of BlockStore) |
| TtyProofs | NoSleepOnInputHolds, ConsoleRefinement (of LineQueue); NoStallHolds, UartRefinement (of TxQueue) |
| VirtDiskProofs | DeviceOwnsChainHolds, NoDescriptorLeakHolds, NoLostCompletionHolds, all for one CPU (`~Smp`) |
| VmProofs | PageExclusiveHolds, MappedBelowSzHolds, LostOnlyHolds |
| FileProofs | FileRefExactHolds, OneEntryPerInodeHolds, RefCoversHolds, NoFilePanicHolds |
| FsProofs | WellFormedHolds, EntriesNameInodesHolds, OneEntryPerFileHolds, BlocksOwnedHolds, NameStableHolds, ReadsWhatMkfsWroteHolds, RootNotKeptHolds, all for a well-formed image (`WellFormed /\ Spec => ...`) |

Every one follows from an inductive invariant `IInv`, with one lemma for each part
of it and, in the lemma, one step for each action.

**Proc** (`IInv` in `ProcInv`):

- `CpuInv` — which combinations of state and label occur on and off a CPU;
- `LockInv` — each spin lock is held exactly where the labels say. Without it
  no step could rely on its lock: `OneCpuPerProc` needs that the slock is held
  until `SwitchOut`;
- `ForkInv` — a `USED` slot belongs to one fork in progress, seen through
  preemption (`Lab`), or to an `allocproc` that panicked;
- `TreeInv` — init is alive and the root, and `reparent` has handed over all
  children below its loop variable;
- `WaitInv` — what `wait` has learnt below its loop variable stays true while
  it holds `wait_lock` and until it is asleep; a parent stays awake between the
  `wakeup` of its exiting child and that child's `ZOMBIE`; init may be given a
  zombie while asleep only while the wakeup in `reparent` is still to reach it.

`NoLostWakeup` alone is not inductive: it is only claimed while `wait_lock` is
free, and `WaitInv` says what holds while it is taken.

**Spinlock.** `locked` and `lk->cpu` name the holder but for the two moments
between the two stores (`LockedIsHeld`, `OwnerIsHolder`); that is why `holdinglock`
answers correctly although it reads them without a lock, and why no panic is
reached. `InterruptsAsSet` needs to know where the `intena` of each context is: in
the CPU while push_off and pop_off are unbalanced (`IntenaOfContext`), in `sched`'s
local variable while no CPU runs the thread (`IntenaOfSleeper`).

**Bcache.** The list keeps every buffer (`ListHasAll`), so that a walk that finds
nothing has seen all of them; a buffer with a reference keeps its block
(`RefBlock`), so that a thread that has slept for the lock gets the block it asked
for; a valid buffer has what the disk has, unless its holder has yet to write it
(`CacheIsDisk`). With these each step of the cache is a step of BlockStore or none.

**Console, Uart.** The indices wrap at `IdxMod` or `TxMod`, the entries at the length
of the ring. The first part of TtyProofs is what both rely on: the distance between
two indices grows and shrinks by one with them, and the entries between them, read
as a sequence, lose their head, gain a last element, or do not notice a store beside
them. The invariants say that the ring is not overfull (`Room`, `TxRoom`) and holds
characters between the indices (`Filled`, `TxFilled`), with who holds the lock. In
Console a full ring has no unfinished line, since the character that fills it ends it.

**VirtDisk.** A request's chain is in one place at a time — offered, in flight or
handed back (`OnePlace`) — and threads wait exactly for the chains in these places
(`PlacedOwned`, `WaitingPlaced`). The used entries of a ring are a window of it
(`AvailOK`, `UsedOK`); the window cannot overrun the ring because its entries are
different descriptors and the descriptor table is as long (`EntryLeft`, by
cardinality). The handler does not take `disklock`: on one CPU it runs only while
the lock is free (`LockOK`), and `IrqOK` says that an unread completion keeps the
interrupt pending. With `Smp` the properties are false, as the hazards say.

**Vm.** A step moves one page from one use to another (`Moves`), which keeps uses
exclusive; the proof reduces each action to such a move and to a short form of what
it does to its process. `Tables` says whom a page table belongs to: nobody has the
one that exec and fork build or that exec frees. `SizeOK` and `LoopOK` follow the
loops of uvmalloc, uvmcopy and their undoing; that `mappages` never runs out of
addresses is the pigeonhole `RoomLeft` (`MAXPAGE > PHYSPAGES`, true of 4 GB and
128 MB). For `LostOnlyInAllocproc`, a page taken is held afterwards, one given back
is free, and the tables a process has or works on stay known to somebody
(`TablesKnown`) except in allocproc. The theorems hold for every order of the free
list (`Pick`).

**File.** The three properties are themselves inductive once one knows what each
process has in hand (`Control`): the file of an open, close or dup in progress
(`FileInHand`), the descriptors that exit has closed (`ExitCloses`), and that the
table a fork fills belongs to nobody else (`KidApart`). Both counts are sums over
processes and descriptors, so each action is reduced to what it does to a set: one
element more, one less, or another of the same size. `RefCovers` is an inequality
because of the leaked references; that it never tips over is what keeps iget from
recycling an entry in use. From exact counts follows `NoFilePanic`: the panics of
filedup and fileclose are unreachable.

**Fs.** The theorems have the form `WellFormed /\ Spec => ...`: they start from an
image that is well formed and say what the kernel and power failures make of it, for
every geometry. `DiskInv` is `WellFormed` slot by slot. It is inductive only with what
the kernel has in memory: the cached root is the root on the disk but for holes
filled with blocks that are free there (`RootIsCopy`), and a new inode is allocated,
linked and in no entry before `dirlink` writes its entry (`Control`). That used
entries come before unused ones makes `dirlink` write behind all names in use, from
which `NameStable` follows; that free blocks are zeroed makes a filled hole show no
entry. A power failure keeps `DiskInv`, which is about the disk alone, and empties the
rest. Of the geometry it is assumed, as is true of the code, that what writei admits
fits in a block (`MAXFILE <= BSIZE`, 16 entries of 64), and that the entries of all
inodes fit in the direct blocks of the root. `RootNotKeptHolds` says that exec and
mknod never return to user mode with the root locked, and open only if it opened
the root itself and found no descriptor; it needs to know at which labels each call
holds the root (`Keeping`, `AtRoot`).

**Only model-checked.**

- Liveness (`RunnableRuns`, `WaitReturns`, `ExitTerminates`, `RequestReturns`,
  `WokenReaderReturns`, `WriterWakes`, and the leads-to half of `RootGivenBack`, whose
  action half is `RootNotKept`): fairness and ENABLED are outside the prover's reach.
- That the images of mkfs are `WellFormed`: an image is a fold over the arguments of
  mkfs, and what it computes for every argument needs induction over data. The run
  *fs* evaluates it on its two images, as it checks `WellFormed` in every state.

## 5. Findings

- `iname` never gives back its reference to the root, and a failed `sys_open`
  keeps the file's (run *file_ref*): `ref` is not the "ref count" of `fs.h:78`.
- the first file created gets inode 0, whose directory entry counts as free, and
  the next creation overwrites it (run *fs_nlink*): `nlink` is not the "Number of
  links to inode in file system" of `fs.h:96`.

Seen on the way in File and Fs; the properties say what still holds:

- `ilock` leaves `vaild = 0` after reading (`fs.c:294`; compare `fs.h:80`), so
  every `ilock` reads the disk and `iput`'s truncation, `itrunc` and `bfree`
  never run. `Iput` has no truncating branch for that reason;
- `create` returns an existing file with the root locked, and a new one locked by
  the process that `sys_open` makes lock it again (`sysfile.c:118`, `141`, `189`);
- `sys_open` without a free descriptor returns -1 and does not unlock the inode
  (`sysfile.c:197`): `open("/")` then leaves the root locked for good, `open("")`
  inode 0, on which the first mknod blocks with the root in hand. `RootGivenBack`
  says that a call returns with the root locked only in this way or the previous
  one, and otherwise gives it up unless it panics, blocks on such a lock or loses
  the CPU;
- `writei` compares bytes with `MAXFILE`, a number of blocks (`fs.c:403`): the
  17th entry of the root is refused with a panic, the root locked and the new
  inode allocated;
- mknod of a name that exists makes a second entry behind the first, which no
  lookup finds (`NameStable`);
- `readi` does not advance `off` in its loop (`fs.c:167`): a read over the end of
  a block repeats the first one, as `loadseg`'s of a page would.
  `ReadsWhatMkfsWrote` is about reads within a block;
- `open("")` finds the first unused entry and opens inode 0; exec of a name that
  does not exist panics in `ilock(0)`;
- mkfs adds a block to the root also when its entries fill one exactly
  (`mkfs.c:166`); each failed lookup then takes a block from the bitmap's buffer,
  until it is recycled or `balloc` panics;
- the layout in `fs.h:17` puts the bitmap in block 46 and the data from 47; mkfs
  writes 13 blocks of inodes, so that they are in 45 and from 46.

Panics and loops that take the CPU, met in the liveness properties:

- `walkaddr` panics on an unmapped or non-user page instead of returning 0
  (`vm.c:249-259`): `wait` with such an address spins with `wait_lock` and the
  child's slock (`proc.c:184`), a console read with `cons.slock` (`console.c:50`);
- `allocproc` without memory panics with the new slot's slock held (`proc.c:301`);
- a third disk request at a time retries `alloc3` under `disklock` (`virt.c:98`),
  and the handler's `wakeup` cannot help it, since the waiters need that lock;
- after any panic, `uartputc` loops under `uart_tx_lock` (`memlayout.c:24`): the
  next write to the console takes the CPU.

Seen in Vm:

- `growproc` compares where it means to assign (`proc.c:130`): a successful
  `sbrk` returns -1 and leaves pages above `sz`, the next one panics with
  `remap`, an exec with `freewalk: leaf` (actions `Remap`, `FreeLeaf`);
- a negative `sbrk` beyond `sz` wraps, exhausts memory and leaves `sz = 0`;
- `freeproc` leaves the page table in the slot, and the next `allocproc` there
  loses it with all its pages: `LostOnlyInAllocproc` says that this is the only
  leak, in particular that the failure paths of `uvmcopy` and `uvmalloc` have none.

## 6. Not modelled, and the plan

All the safety properties of the passing runs are proved; section 4 says what stays
with TLC. What could still be added is a model of `copyin` and its relatives, and of
what the log of `fs.h` would have to guarantee, once the kernel has one.

Not modelled:

- `copyin`, `copyinstr` and `copyoutpg`: they copy between one process's pages
  and a kernel buffer and change no table. That `walkaddr` panics in them is in
  Proc and Console, where a lock is held meanwhile, and in Vm. (`copyin` computes the room in a page
  as `PGSIZE - (srcva + va0)`, which wraps; its callers copy at most 8 bytes.)
- `itrunc`, `bfree` and the `T_DIR` branch of `create`: no system call gets
  there. `uvmcpy` and the log of `fs.h` are never called or do not exist.
- register save and restore in assembler, the PLIC and timer registers, printing,
  and the start-up sequence, whose result is the `Init` of the modules.
- user programs: in Proc, File, Fs and Vm a process may make any system call at
  any time. The allocator of `umem.c` never gets memory, because `sbrk(n > 0)`
  returns -1.
