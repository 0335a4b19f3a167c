-------------------------------- MODULE Proc --------------------------------
(***************************************************************************)
(* The process table of src/kernel/proc.c: allocproc, fork, exit, wait,    *)
(* sleep, wakeup, yield, sched and the per-CPU scheduler loop.             *)
(*                                                                         *)
(* A process is its slot in procs[].  Its kernel thread is at a label      *)
(* pc[p]; a step of the thread is taken by the CPU c with curp[c] = p.     *)
(* Spin locks hold the CPU that acquired them, as lock->cpu does.  A step  *)
(* begins where the code acquires a lock: acquiring it, working on what it *)
(* protects and releasing it is one step, and a lock held across several   *)
(* steps (wait_lock in exit and wait, p->slock across swtch, the child's   *)
(* slock in fork) stays held in the state between them.  The locals idx,   *)
(* ridx and havekids are set back where their scope ends.                  *)
(*                                                                         *)
(* Left out: pids, names, exit codes, page tables and open files (data     *)
(* that no branch below tests), and `killed', which is 0 for ever because  *)
(* its only assignment of 1 (trap.c:129) follows a call of panic.          *)
(***************************************************************************)
EXTENDS Naturals

CONSTANTS
  NPROC,   \* number of slots of procs[]
  Cpu,     \* the harts that run scheduler()
  NoCpu    \* owner of a free spin lock

ASSUME ProcAssumption ==
  /\ NPROC \in Nat \ {0}
  /\ NoCpu \notin Cpu

Slot  == 1 .. NPROC
None  == 0              \* the null struct proc pointer
initp == 1              \* userinit() takes the first slot of the empty table

VARIABLES
  state,    \* p->state
  parent,   \* p->parent, protected by wait_lock
  chan,     \* p->chan; wait() is the only sleeper here and its channel is p
  slock,    \* CPU that holds p->slock
  wlock,    \* CPU that holds wait_lock
  curp,     \* cpus[c].p, the process whose thread CPU c executes
  sidx,     \* the loop variable p of scheduler() on each CPU
  pc,       \* label of p's kernel thread
  ret,      \* label to which p returns when yield() is over
  idx,      \* loop variable of p's current scan of procs[]
  ridx,     \* loop variable pp of reparent()
  np,       \* the child p is creating in fork()
  havekids  \* wait()'s local of that name

vars == <<state, parent, chan, slock, wlock, curp, sidx, pc, ret, idx, ridx,
          np, havekids>>

States == {"UNUSED", "USED", "SLEEPING", "RUNNABLE", "RUNNING", "ZOMBIE"}

(***************************************************************************)
(* Labels, by the locks the executing CPU holds there.                     *)
(***************************************************************************)
FreeLabels ==      \* no lock held, interrupts on: the timer may preempt here
  {"user", "alloc", "link", "ready", "xlock", "wait", "panic"}
WaitLabels ==      \* wait_lock held
  {"reparent", "wakeinit", "wakeparent", "zombie", "scan", "sleep", "fault"}
SwtchLabels ==     \* inside sched(): waiting to be switched out, or back in
  {"sleeping", "yielding", "exiting"}
OwnLabels == SwtchLabels \cup {"forkret", "marking"}    \* own slock held
HaltLabels ==      \* for ever with interrupts off: in panic() with
                   \* slock[idx[p]] held, or in uartputc() after a panic
  {"fault", "oom", "output"}
Labels == FreeLabels \cup WaitLabels \cup OwnLabels \cup HaltLabels
            \cup {"copy", "none"}

Init ==
  /\ state = [p \in Slot |-> IF p = initp THEN "RUNNABLE" ELSE "UNUSED"]
  /\ parent = [p \in Slot |-> None]
  /\ chan = [p \in Slot |-> None]
  /\ slock = [p \in Slot |-> NoCpu]
  /\ wlock = NoCpu
  /\ curp = [c \in Cpu |-> None]
  /\ sidx = [c \in Cpu |-> 1]
  /\ pc = [p \in Slot |-> IF p = initp THEN "forkret" ELSE "none"]
  /\ ret = [p \in Slot |-> "user"]
  /\ idx = [p \in Slot |-> 1]
  /\ ridx = [p \in Slot |-> 1]
  /\ np = [p \in Slot |-> None]
  /\ havekids = [p \in Slot |-> FALSE]

(***************************************************************************)
(* p's thread runs on CPU c and is about to execute the code at label l.   *)
(***************************************************************************)
At(c, p, l) == curp[c] = p /\ pc[p] = l /\ state[p] = "RUNNING"

Goto(p, l) == pc' = [pc EXCEPT ![p] = l]

\* Faulty variant: the scan runs past the end of procs[].
NextSlotPastEnd(i) == i + 1

NextSlot(i) == IF i = NPROC THEN 1 ELSE i + 1

-----------------------------------------------------------------------------
(***************************************************************************)
(* scheduler(): look at one slot; a RUNNABLE one is run, and its thread    *)
(* resumes with its slock held by this CPU.                                *)
(***************************************************************************)
SchedulerSkip(c) ==
  LET p == sidx[c] IN
  /\ curp[c] = None
  /\ slock[p] = NoCpu
  /\ state[p] # "RUNNABLE"
  /\ sidx' = [sidx EXCEPT ![c] = NextSlot(p)]
  /\ UNCHANGED <<state, parent, chan, slock, wlock, curp, pc, ret, idx, ridx,
                 np, havekids>>

SchedulerRun(c) ==
  LET p == sidx[c] IN
  /\ curp[c] = None
  /\ slock[p] = NoCpu
  /\ state[p] = "RUNNABLE"
  /\ state' = [state EXCEPT ![p] = "RUNNING"]
  /\ curp' = [curp EXCEPT ![c] = p]
  /\ slock' = [slock EXCEPT ![p] = c]
  /\ UNCHANGED <<parent, chan, wlock, sidx, pc, ret, idx, ridx, np, havekids>>

\* Faulty variant: every scan starts again at the first slot.
SwitchOutRestart(c, p) ==
  /\ curp[c] = p
  /\ pc[p] \in SwtchLabels
  /\ state[p] # "RUNNING"
  /\ curp' = [curp EXCEPT ![c] = None]
  /\ slock' = [slock EXCEPT ![p] = NoCpu]
  /\ sidx' = [sidx EXCEPT ![c] = 1]
  /\ UNCHANGED <<state, parent, chan, wlock, pc, ret, idx, ridx, np, havekids>>

(***************************************************************************)
(* sched() has saved the thread's context; back in scheduler(), the CPU    *)
(* forgets the process and only now releases its slock.                    *)
(***************************************************************************)
SwitchOut(c, p) ==
  /\ curp[c] = p
  /\ pc[p] \in SwtchLabels
  /\ state[p] # "RUNNING"
  /\ curp' = [curp EXCEPT ![c] = None]
  /\ slock' = [slock EXCEPT ![p] = NoCpu]
  /\ sidx' = [sidx EXCEPT ![c] = NextSlot(p)]
  /\ UNCHANGED <<state, parent, chan, wlock, pc, ret, idx, ridx, np, havekids>>

(***************************************************************************)
(* forkret(): first activation of a new process.                           *)
(***************************************************************************)
ForkRet(c, p) ==
  /\ At(c, p, "forkret")
  /\ slock' = [slock EXCEPT ![p] = NoCpu]
  /\ Goto(p, "user")
  /\ UNCHANGED <<state, parent, chan, wlock, curp, sidx, ret, idx, ridx, np,
                 havekids>>

-----------------------------------------------------------------------------
\* Faulty variant: yield() marks the process RUNNABLE without its slock.
YieldUnlocked(c, p) ==
  /\ \E l \in FreeLabels : At(c, p, l)
  /\ state' = [state EXCEPT ![p] = "RUNNABLE"]
  /\ ret' = [ret EXCEPT ![p] = pc[p]]
  /\ Goto(p, "yielding")
  /\ UNCHANGED <<parent, chan, slock, wlock, curp, sidx, idx, ridx, np,
                 havekids>>

(***************************************************************************)
(* yield(), called by usertrap and kerneltrap on a timer interrupt.        *)
(***************************************************************************)
Yield(c, p) ==
  /\ \E l \in FreeLabels : At(c, p, l)
  /\ slock[p] = NoCpu
  /\ slock' = [slock EXCEPT ![p] = c]
  /\ state' = [state EXCEPT ![p] = "RUNNABLE"]
  /\ ret' = [ret EXCEPT ![p] = pc[p]]
  /\ Goto(p, "yielding")
  /\ UNCHANGED <<parent, chan, wlock, curp, sidx, idx, ridx, np, havekids>>

YieldReturn(c, p) ==
  /\ At(c, p, "yielding")
  /\ slock' = [slock EXCEPT ![p] = NoCpu]
  /\ Goto(p, ret[p])
  /\ ret' = [ret EXCEPT ![p] = "user"]
  /\ UNCHANGED <<state, parent, chan, wlock, curp, sidx, idx, ridx, np,
                 havekids>>

-----------------------------------------------------------------------------
(***************************************************************************)
(* fork() and allocproc().                                                 *)
(***************************************************************************)
ForkCall(c, p) ==
  /\ At(c, p, "user")
  /\ Goto(p, "alloc")
  /\ idx' = [idx EXCEPT ![p] = 1]
  /\ UNCHANGED <<state, parent, chan, slock, wlock, curp, sidx, ret, ridx, np,
                 havekids>>

AllocSkip(c, p) ==
  /\ At(c, p, "alloc")
  /\ idx[p] \in Slot
  /\ slock[idx[p]] = NoCpu
  /\ state[idx[p]] # "UNUSED"
  /\ idx' = [idx EXCEPT ![p] = @ + 1]
  /\ UNCHANGED <<state, parent, chan, slock, wlock, curp, sidx, pc, ret, ridx,
                 np, havekids>>

\* allocproc returns the slot with its slock held and its context at forkret.
AllocTake(c, p) ==
  LET q == idx[p] IN
  /\ At(c, p, "alloc")
  /\ q \in Slot
  /\ slock[q] = NoCpu
  /\ state[q] = "UNUSED"
  /\ state' = [state EXCEPT ![q] = "USED"]
  /\ slock' = [slock EXCEPT ![q] = c]
  /\ np' = [np EXCEPT ![p] = q]
  /\ pc' = [pc EXCEPT ![q] = "forkret", ![p] = "copy"]
  /\ idx' = [idx EXCEPT ![p] = 1]
  /\ UNCHANGED <<parent, chan, wlock, curp, sidx, ret, ridx, havekids>>

\* kalloc() or proc_pagetable() finds no memory: panic() with the slot USED
\* and its slock held; its context is not set up yet.
AllocPanic(c, p) ==
  LET q == idx[p] IN
  /\ At(c, p, "alloc")
  /\ q \in Slot
  /\ slock[q] = NoCpu
  /\ state[q] = "UNUSED"
  /\ state' = [state EXCEPT ![q] = "USED"]
  /\ slock' = [slock EXCEPT ![q] = c]
  /\ Goto(p, "oom")
  /\ UNCHANGED <<parent, chan, wlock, curp, sidx, ret, idx, ridx, np, havekids>>

\* The table is full: allocproc returns 0 and fork returns -1.
AllocFull(c, p) ==
  /\ At(c, p, "alloc")
  /\ idx[p] \notin Slot
  /\ Goto(p, "user")
  /\ idx' = [idx EXCEPT ![p] = 1]
  /\ UNCHANGED <<state, parent, chan, slock, wlock, curp, sidx, ret, ridx, np,
                 havekids>>

\* uvmcopy succeeded; the child's slock is released before wait_lock is taken.
ForkCopy(c, p) ==
  /\ At(c, p, "copy")
  /\ slock' = [slock EXCEPT ![np[p]] = NoCpu]
  /\ Goto(p, "link")
  /\ UNCHANGED <<state, parent, chan, wlock, curp, sidx, ret, idx, ridx, np,
                 havekids>>

\* uvmcopy ran out of memory: freeproc(child), fork returns -1.
ForkFail(c, p) ==
  /\ At(c, p, "copy")
  /\ slock' = [slock EXCEPT ![np[p]] = NoCpu]
  /\ state' = [state EXCEPT ![np[p]] = "UNUSED"]
  /\ parent' = [parent EXCEPT ![np[p]] = None]
  /\ chan' = [chan EXCEPT ![np[p]] = None]
  /\ np' = [np EXCEPT ![p] = None]
  /\ Goto(p, "user")
  /\ UNCHANGED <<wlock, curp, sidx, ret, idx, ridx, havekids>>

ForkLink(c, p) ==
  /\ At(c, p, "link")
  /\ wlock = NoCpu
  /\ parent' = [parent EXCEPT ![np[p]] = p]
  /\ Goto(p, "ready")
  /\ UNCHANGED <<state, chan, slock, wlock, curp, sidx, ret, idx, ridx, np,
                 havekids>>

ForkReady(c, p) ==
  /\ At(c, p, "ready")
  /\ slock[np[p]] = NoCpu
  /\ state' = [state EXCEPT ![np[p]] = "RUNNABLE"]
  /\ np' = [np EXCEPT ![p] = None]
  /\ Goto(p, "user")
  /\ UNCHANGED <<parent, chan, slock, wlock, curp, sidx, ret, idx, ridx,
                 havekids>>

-----------------------------------------------------------------------------
(***************************************************************************)
(* exit(), reparent() and wakeup().  panic() spins with interrupts on, so  *)
(* an init process that exits keeps its slot and can still be preempted.   *)
(***************************************************************************)
ExitCall(c, p) ==
  /\ At(c, p, "user")
  /\ Goto(p, IF p = initp THEN "panic" ELSE "xlock")
  /\ UNCHANGED <<state, parent, chan, slock, wlock, curp, sidx, ret, idx, ridx,
                 np, havekids>>

\* Faulty variant: exit() does not call reparent().
ExitLockNoReparent(c, p) ==
  /\ At(c, p, "xlock")
  /\ wlock = NoCpu
  /\ wlock' = c
  /\ idx' = [idx EXCEPT ![p] = 1]
  /\ Goto(p, "wakeparent")
  /\ UNCHANGED <<state, parent, chan, slock, curp, sidx, ret, ridx, np,
                 havekids>>

ExitLock(c, p) ==
  /\ At(c, p, "xlock")
  /\ wlock = NoCpu
  /\ wlock' = c
  /\ ridx' = [ridx EXCEPT ![p] = 1]
  /\ Goto(p, "reparent")
  /\ UNCHANGED <<state, parent, chan, slock, curp, sidx, ret, idx, np,
                 havekids>>

ReparentSkip(c, p) ==
  /\ At(c, p, "reparent")
  /\ ridx[p] \in Slot
  /\ parent[ridx[p]] # p
  /\ ridx' = [ridx EXCEPT ![p] = @ + 1]
  /\ UNCHANGED <<state, parent, chan, slock, wlock, curp, sidx, pc, ret, idx,
                 np, havekids>>

ReparentChild(c, p) ==
  /\ At(c, p, "reparent")
  /\ ridx[p] \in Slot
  /\ parent[ridx[p]] = p
  /\ parent' = [parent EXCEPT ![ridx[p]] = initp]
  /\ idx' = [idx EXCEPT ![p] = 1]
  /\ Goto(p, "wakeinit")
  /\ UNCHANGED <<state, chan, slock, wlock, curp, sidx, ret, ridx, np,
                 havekids>>

ReparentDone(c, p) ==
  /\ At(c, p, "reparent")
  /\ ridx[p] \notin Slot
  /\ idx' = [idx EXCEPT ![p] = 1]
  /\ Goto(p, "wakeparent")
  /\ UNCHANGED <<state, parent, chan, slock, wlock, curp, sidx, ret, ridx, np,
                 havekids>>

\* Faulty variant: exit() wakes its own channel.
WakeChanSelf(p) == IF pc[p] = "wakeinit" THEN initp ELSE p

\* The channel p passes to wakeup(): initp in reparent, p->parent in exit.
WakeChan(p) == IF pc[p] = "wakeinit" THEN initp ELSE parent[p]

\* One iteration of wakeup's loop.  The caller's own slot is not locked.
WakeupStep(c, p) ==
  LET q == idx[p] IN
  /\ At(c, p, "wakeinit") \/ At(c, p, "wakeparent")
  /\ q \in Slot
  /\ q # p => slock[q] = NoCpu
  /\ state' = IF q # p /\ state[q] = "SLEEPING" /\ chan[q] = WakeChan(p)
              THEN [state EXCEPT ![q] = "RUNNABLE"]
              ELSE state
  /\ idx' = [idx EXCEPT ![p] = @ + 1]
  /\ UNCHANGED <<parent, chan, slock, wlock, curp, sidx, pc, ret, ridx, np,
                 havekids>>

WakeupInitDone(c, p) ==
  /\ At(c, p, "wakeinit")
  /\ idx[p] \notin Slot
  /\ ridx' = [ridx EXCEPT ![p] = @ + 1]
  /\ Goto(p, "reparent")
  /\ idx' = [idx EXCEPT ![p] = 1]
  /\ UNCHANGED <<state, parent, chan, slock, wlock, curp, sidx, ret, np,
                 havekids>>

WakeupParentDone(c, p) ==
  /\ At(c, p, "wakeparent")
  /\ idx[p] \notin Slot
  /\ Goto(p, "zombie")
  /\ idx' = [idx EXCEPT ![p] = 1]
  /\ ridx' = [ridx EXCEPT ![p] = 1]
  /\ UNCHANGED <<state, parent, chan, slock, wlock, curp, sidx, ret, np,
                 havekids>>

\* Faulty variant: exit() calls sched() with wait_lock held.
ExitZombieKeepsLock(c, p) ==
  /\ At(c, p, "zombie")
  /\ slock[p] = NoCpu
  /\ slock' = [slock EXCEPT ![p] = c]
  /\ state' = [state EXCEPT ![p] = "ZOMBIE"]
  /\ Goto(p, "exiting")
  /\ UNCHANGED <<parent, chan, wlock, curp, sidx, ret, idx, ridx, np,
                 havekids>>

ExitZombie(c, p) ==
  /\ At(c, p, "zombie")
  /\ slock[p] = NoCpu
  /\ slock' = [slock EXCEPT ![p] = c]
  /\ state' = [state EXCEPT ![p] = "ZOMBIE"]
  /\ wlock' = NoCpu
  /\ Goto(p, "exiting")
  /\ UNCHANGED <<parent, chan, curp, sidx, ret, idx, ridx, np, havekids>>

-----------------------------------------------------------------------------
(***************************************************************************)
(* wait() and the sleep() it calls.                                        *)
(***************************************************************************)
WaitCall(c, p) ==
  /\ At(c, p, "user")
  /\ Goto(p, "wait")
  /\ UNCHANGED <<state, parent, chan, slock, wlock, curp, sidx, ret, idx, ridx,
                 np, havekids>>

\* acquire(&wait_lock), at the call and again at the end of sleep().
WaitLock(c, p) ==
  /\ At(c, p, "wait")
  /\ wlock = NoCpu
  /\ wlock' = c
  /\ idx' = [idx EXCEPT ![p] = 1]
  /\ havekids' = [havekids EXCEPT ![p] = FALSE]
  /\ Goto(p, "scan")
  /\ UNCHANGED <<state, parent, chan, slock, curp, sidx, ret, ridx, np>>

WaitSkip(c, p) ==
  /\ At(c, p, "scan")
  /\ idx[p] \in Slot
  /\ parent[idx[p]] # p
  /\ idx' = [idx EXCEPT ![p] = @ + 1]
  /\ UNCHANGED <<state, parent, chan, slock, wlock, curp, sidx, pc, ret, ridx,
                 np, havekids>>

WaitLiveChild(c, p) ==
  /\ At(c, p, "scan")
  /\ idx[p] \in Slot
  /\ parent[idx[p]] = p
  /\ slock[idx[p]] = NoCpu
  /\ state[idx[p]] # "ZOMBIE"
  /\ idx' = [idx EXCEPT ![p] = @ + 1]
  /\ havekids' = [havekids EXCEPT ![p] = TRUE]
  /\ UNCHANGED <<state, parent, chan, slock, wlock, curp, sidx, pc, ret, ridx,
                 np>>

\* Faulty variant: wait() reaps the children of others as well.
WaitReapAny(c, p) ==
  LET q == idx[p] IN
  /\ At(c, p, "scan")
  /\ q \in Slot
  /\ slock[q] = NoCpu
  /\ state[q] = "ZOMBIE"
  /\ state' = [state EXCEPT ![q] = "UNUSED"]
  /\ parent' = [parent EXCEPT ![q] = None]
  /\ chan' = [chan EXCEPT ![q] = None]
  /\ wlock' = NoCpu
  /\ Goto(p, "user")
  /\ UNCHANGED <<slock, curp, sidx, ret, idx, ridx, np, havekids>>

\* freeproc(child); wait returns the child's pid.
WaitReap(c, p) ==
  LET q == idx[p] IN
  /\ At(c, p, "scan")
  /\ q \in Slot
  /\ parent[q] = p
  /\ slock[q] = NoCpu
  /\ state[q] = "ZOMBIE"
  /\ state' = [state EXCEPT ![q] = "UNUSED"]
  /\ parent' = [parent EXCEPT ![q] = None]
  /\ chan' = [chan EXCEPT ![q] = None]
  /\ wlock' = NoCpu
  /\ Goto(p, "user")
  /\ idx' = [idx EXCEPT ![p] = 1]
  /\ havekids' = [havekids EXCEPT ![p] = FALSE]
  /\ UNCHANGED <<slock, curp, sidx, ret, ridx, np>>

\* copyoutpg returns -1 for an address from MAXVA on: wait() releases both
\* locks and calls panic(); the child stays a ZOMBIE.
WaitPanic(c, p) ==
  /\ At(c, p, "scan")
  /\ idx[p] \in Slot
  /\ parent[idx[p]] = p
  /\ slock[idx[p]] = NoCpu
  /\ state[idx[p]] = "ZOMBIE"
  /\ wlock' = NoCpu
  /\ Goto(p, "panic")
  /\ idx' = [idx EXCEPT ![p] = 1]
  /\ havekids' = [havekids EXCEPT ![p] = FALSE]
  /\ UNCHANGED <<state, parent, chan, slock, curp, sidx, ret, ridx, np>>

\* An address below MAXVA that no user page backs: walkaddr() itself panics
\* inside copyoutpg, with wait_lock and the child's slock held.
WaitFault(c, p) ==
  LET q == idx[p] IN
  /\ At(c, p, "scan")
  /\ q \in Slot
  /\ parent[q] = p
  /\ slock[q] = NoCpu
  /\ state[q] = "ZOMBIE"
  /\ slock' = [slock EXCEPT ![q] = c]
  /\ Goto(p, "fault")
  /\ UNCHANGED <<state, parent, chan, wlock, curp, sidx, ret, idx, ridx, np,
                 havekids>>

\* Faulty variant: the early return of wait() keeps wait_lock.
WaitNoKidsKeepsLock(c, p) ==
  /\ At(c, p, "scan")
  /\ idx[p] \notin Slot
  /\ ~havekids[p]
  /\ Goto(p, "user")
  /\ idx' = [idx EXCEPT ![p] = 1]
  /\ UNCHANGED <<state, parent, chan, slock, wlock, curp, sidx, ret, ridx, np,
                 havekids>>

WaitNoKids(c, p) ==
  /\ At(c, p, "scan")
  /\ idx[p] \notin Slot
  /\ ~havekids[p]
  /\ wlock' = NoCpu
  /\ Goto(p, "user")
  /\ idx' = [idx EXCEPT ![p] = 1]
  /\ UNCHANGED <<state, parent, chan, slock, curp, sidx, ret, ridx, np,
                 havekids>>

WaitSleep(c, p) ==
  /\ At(c, p, "scan")
  /\ idx[p] \notin Slot
  /\ havekids[p]
  /\ Goto(p, "sleep")
  /\ idx' = [idx EXCEPT ![p] = 1]
  /\ havekids' = [havekids EXCEPT ![p] = FALSE]
  /\ UNCHANGED <<state, parent, chan, slock, wlock, curp, sidx, ret, ridx,
                 np>>

\* Faulty variant: sleep() releases lk before it holds pc->slock.
SleepLockLate(c, p) ==
  /\ At(c, p, "sleep")
  /\ wlock' = NoCpu
  /\ Goto(p, "marking")
  /\ UNCHANGED <<state, parent, chan, slock, curp, sidx, ret, idx, ridx, np,
                 havekids>>

\* sleep(): acquire(&pc->slock) and only then release(lk).
SleepLock(c, p) ==
  /\ At(c, p, "sleep")
  /\ slock[p] = NoCpu
  /\ slock' = [slock EXCEPT ![p] = c]
  /\ wlock' = NoCpu
  /\ Goto(p, "marking")
  /\ UNCHANGED <<state, parent, chan, curp, sidx, ret, idx, ridx, np,
                 havekids>>

SleepMark(c, p) ==
  /\ At(c, p, "marking")
  /\ chan' = [chan EXCEPT ![p] = p]
  /\ state' = [state EXCEPT ![p] = "SLEEPING"]
  /\ Goto(p, "sleeping")
  /\ UNCHANGED <<parent, slock, wlock, curp, sidx, ret, idx, ridx, np,
                 havekids>>

\* sched() returned; next is acquire(lk) with lk = &wait_lock.
SleepReturn(c, p) ==
  /\ At(c, p, "sleeping")
  /\ chan' = [chan EXCEPT ![p] = None]
  /\ slock' = [slock EXCEPT ![p] = NoCpu]
  /\ Goto(p, "wait")
  /\ UNCHANGED <<state, parent, wlock, curp, sidx, ret, idx, ridx, np,
                 havekids>>

-----------------------------------------------------------------------------
Scheduler(c) == SchedulerSkip(c) \/ SchedulerRun(c)

\* System calls a user program may make.
\* Some thread has called panic(), which set panicked and never returns.
Panicked ==
  \E q \in Slot :
    \/ pc[q] \in {"panic"} \cup HaltLabels
    \/ pc[q] = "yielding" /\ ret[q] = "panic"

\* write() to the console after a panic: uartputc() tests panicked and loops
\* with uart_tx_lock held.
OutputHangs(c, p) ==
  /\ At(c, p, "user")
  /\ Panicked
  /\ Goto(p, "output")
  /\ UNCHANGED <<state, parent, chan, slock, wlock, curp, sidx, ret, idx, ridx,
                 np, havekids>>

UserCall(c, p) ==
  ForkCall(c, p) \/ ExitCall(c, p) \/ WaitCall(c, p) \/ OutputHangs(c, p)

\* Leaving the CPU, and getting it for the first time or after a yield.
Switch(c, p) == SwitchOut(c, p) \/ ForkRet(c, p) \/ YieldReturn(c, p)

\* The steps of fork(), exit() and wait() that p's thread takes by itself.
ForkStep(c, p) ==
  \/ AllocSkip(c, p) \/ AllocTake(c, p) \/ AllocPanic(c, p)
  \/ AllocFull(c, p)
  \/ ForkCopy(c, p) \/ ForkFail(c, p) \/ ForkLink(c, p) \/ ForkReady(c, p)

ExitStep(c, p) ==
  \/ ExitLock(c, p)
  \/ ReparentSkip(c, p) \/ ReparentChild(c, p) \/ ReparentDone(c, p)
  \/ WakeupStep(c, p) \/ WakeupInitDone(c, p) \/ WakeupParentDone(c, p)
  \/ ExitZombie(c, p)

WaitStep(c, p) ==
  \/ WaitLock(c, p) \/ WaitSkip(c, p) \/ WaitLiveChild(c, p)
  \/ WaitReap(c, p) \/ WaitPanic(c, p) \/ WaitFault(c, p)
  \/ WaitNoKids(c, p) \/ WaitSleep(c, p)
  \/ SleepLock(c, p) \/ SleepMark(c, p) \/ SleepReturn(c, p)

\* The loop with interrupts off: this CPU does nothing else again.
Halt(c, p) == (\E l \in HaltLabels : At(c, p, l)) /\ UNCHANGED vars

Kernel(c, p) == ForkStep(c, p) \/ ExitStep(c, p) \/ WaitStep(c, p)

Next ==
  \E c \in Cpu :
    \/ Scheduler(c)
    \/ \E p \in Slot :
         \/ UserCall(c, p) \/ Yield(c, p) \/ Switch(c, p) \/ Kernel(c, p)
         \/ Halt(c, p)

Spec == Init /\ [][Next]_vars

(***************************************************************************)
(* Fairness: a CPU that idles keeps scanning; a timer interrupt stays      *)
(* pending until interrupts are on, so a thread that passes such points    *)
(* again and again is preempted; and a thread that gets the CPU again and  *)
(* again does get through its kernel path, because a time slice (INTERVAL  *)
(* cycles) is far longer than any of them.  No program is obliged to make  *)
(* a system call.                                                          *)
(***************************************************************************)
Fairness ==
  \A c \in Cpu :
    /\ WF_vars(Scheduler(c))
    /\ \A p \in Slot :
         SF_vars(Yield(c, p)) /\ WF_vars(Switch(c, p)) /\ SF_vars(Kernel(c, p))

FairSpec == Spec /\ Fairness

-----------------------------------------------------------------------------
TypeOK ==
  /\ state \in [Slot -> States]
  /\ parent \in [Slot -> Slot \cup {None}]
  /\ chan \in [Slot -> Slot \cup {None}]
  /\ slock \in [Slot -> Cpu \cup {NoCpu}]
  /\ wlock \in Cpu \cup {NoCpu}
  /\ curp \in [Cpu -> Slot \cup {None}]
  /\ sidx \in [Cpu -> Slot]
  /\ pc \in [Slot -> Labels]
  /\ ret \in [Slot -> FreeLabels]
  /\ idx \in [Slot -> 1 .. NPROC + 1]
  /\ ridx \in [Slot -> 1 .. NPROC + 1]
  /\ \A p \in Slot : pc[p] = "wakeinit" => ridx[p] \in Slot
  /\ np \in [Slot -> Slot \cup {None}]
  /\ havekids \in [Slot -> BOOLEAN]

(***************************************************************************)
(* A kernel stack is never executed by two CPUs: the slock that covers the *)
(* switch is released by scheduler() only after the thread left its stack. *)
(***************************************************************************)
OneCpuPerProc ==
  \A c, d \in Cpu : curp[c] = curp[d] /\ curp[c] # None => c = d

(***************************************************************************)
(* sched() never switches away from a thread that still holds another spin *)
(* lock.  (Unlike holdinglock, state and SIE, the code does not test this: *)
(* a lock kept across swtch would be spun on for ever.)                    *)
(***************************************************************************)
SwitchHoldsOnlySlock ==
  \A c \in Cpu : \A p \in Slot :
    curp[c] = p /\ pc[p] \in SwtchLabels /\ state[p] # "RUNNING" =>
      wlock # c /\ \A q \in Slot : slock[q] = c <=> q = p

(***************************************************************************)
(* No lost wakeup between wait() and exit(): while wait_lock is free, a    *)
(* process asleep in wait() has a child, and no child of it is a ZOMBIE    *)
(* whose exit has already called wakeup(parent).                           *)
(***************************************************************************)
NoLostWakeup ==
  wlock = NoCpu =>
    \A p \in Slot : state[p] = "SLEEPING" =>
      /\ \E q \in Slot : parent[q] = p
      /\ \A q \in Slot : parent[q] = p => state[q] # "ZOMBIE"

(***************************************************************************)
(* No orphans: whoever is somebody's parent is neither dead nor a free     *)
(* slot, so it can still call wait(), and every process that can run and   *)
(* every ZOMBIE, init excepted, has a parent.  exit() must have handed     *)
(* over all children before it dies, and fork() must have linked the child *)
(* before it can run.                                                      *)
(***************************************************************************)
NoOrphan ==
  \A q \in Slot :
    /\ parent[q] # None =>
         state[parent[q]] \notin {"UNUSED", "USED", "ZOMBIE"}
    /\ q # initp /\ state[q] \notin {"UNUSED", "USED"} => parent[q] # None

(***************************************************************************)
(* A slot changes from ZOMBIE only to UNUSED, and only by a step of its    *)
(* parent, which holds wait_lock: no zombie is reaped twice, reaped by     *)
(* another or run again (panic("proc exit") is unreachable).               *)
(***************************************************************************)
ReapedByParent ==
  [][\A q \in Slot : state[q] = "ZOMBIE" /\ state'[q] # "ZOMBIE" =>
       /\ state'[q] = "UNUSED"
       /\ wlock # NoCpu
       /\ curp[wlock] = parent[q]
       /\ pc[parent[q]] = "scan"]_vars

(***************************************************************************)
(* A CPU is lost: it spins with interrupts off, in panic() with a slock    *)
(* (in wait() also wait_lock) held, or in uartputc() after a panic.  The   *)
(* kernel promises no progress then: the CPU schedules nobody, and whoever *)
(* needs the lock spins as well.                                           *)
(***************************************************************************)
Halted == \E c \in Cpu : \E p \in Slot : curp[c] = p /\ pc[p] \in HaltLabels

(***************************************************************************)
(* Round robin without starvation: a RUNNABLE process eventually runs,     *)
(* unless a CPU is lost.                                                   *)
(***************************************************************************)
RunnableRuns ==
  \A p \in Slot : state[p] = "RUNNABLE" ~> state[p] = "RUNNING" \/ Halted

(***************************************************************************)
(* Wherever it was preempted, p is somewhere inside wait().                *)
(***************************************************************************)
InWait(p) ==
  LET l == IF pc[p] = "yielding" THEN ret[p] ELSE pc[p]
  IN  l \in {"wait", "scan", "sleep", "marking", "sleeping", "fault"}

(***************************************************************************)
(* A parent inside wait() whose child is dead gets out of wait(), with the *)
(* child's pid or, when its address lies from MAXVA on, by the panic that  *)
(* has released the locks, unless a CPU is lost.                           *)
(***************************************************************************)
WaitReturns ==
  \A p \in Slot :
    (InWait(p) /\ \E q \in Slot : parent[q] = p /\ state[q] = "ZOMBIE")
      ~> ~InWait(p) \/ Halted

(***************************************************************************)
(* exit() terminates: the process becomes a ZOMBIE, unless a CPU is lost.  *)
(* Every way out of wait() and fork() but the panics of Halted gives back  *)
(* the locks that exit() needs.                                            *)
(***************************************************************************)
ExitTerminates ==
  \A p \in Slot : pc[p] = "xlock" ~> state[p] = "ZOMBIE" \/ Halted
=============================================================================
