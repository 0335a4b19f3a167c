------------------------------ MODULE Spinlock ------------------------------
(***************************************************************************)
(* The spin locks of src/kernel/spinlock.c and the interrupt-enable bit    *)
(* they manage, where traps (trap.c) and context switches (sched and       *)
(* scheduler in proc.c) meet them.                                         *)
(*                                                                         *)
(* Each CPU runs scheduler() or a thread, and an interrupt handler on top  *)
(* of either.  What the code does between two lock operations is left out: *)
(* a context in the kernel may acquire and release locks in any way that   *)
(* respects the kernel's lock order (a lock of Outer, then one process's   *)
(* slock, then a lock of Inner).  A thread's slock is named by the thread. *)
(* A step of acquire or release ends where another CPU can see it.         *)
(***************************************************************************)
EXTENDS Naturals, FiniteSets

CONSTANTS
  Cpu, NoCpu,
  Thread, None,   \* processes; None: the CPU runs scheduler()
  Outer,          \* locks held when a slock is acquired: wait_lock, disklock
  Inner           \* locks acquired under a slock: pid_lock, kmem's lock

ASSUME SpinlockAssumption ==
  /\ NoCpu \notin Cpu /\ None \notin Thread \cup Outer \cup Inner
  /\ IsFiniteSet(Thread) /\ IsFiniteSet(Outer) /\ IsFiniteSet(Inner)
  /\ Cpu \cap Thread = {}
  /\ Outer \cap Inner = {} /\ (Outer \cup Inner) \cap Thread = {}

Lock == Outer \cup Thread \cup Inner

VARIABLES
  locked,   \* lk->locked
  owner,    \* lk->cpu
  sie,      \* the CPU's interrupt-enable bit
  noff,     \* cpu->noff
  intena,   \* cpu->intena
  cpup,     \* cpu->p
  pc,       \* where the CPU is in acquire or release
  lk,       \* the lock it is about, None outside them
  held,     \* locks between the CPU's atomic swap and its locked = 0
  mode,     \* what a thread does in the kernel, or "user"
  trap,     \* contexts (a thread, or a CPU's scheduler) inside kerneltrap
  saved     \* sched()'s local intena; 2 before the thread's first swtch

vars == <<locked, owner, sie, noff, intena, cpup, pc, lk, held, mode, trap,
          saved>>

Init ==
  /\ locked = [l \in Lock |-> 0]
  /\ owner = [l \in Lock |-> NoCpu]
  /\ sie = [c \in Cpu |-> 0]
  /\ noff = [c \in Cpu |-> 0]
  /\ intena = [c \in Cpu |-> 0]
  /\ cpup = [c \in Cpu |-> None]
  /\ pc = [c \in Cpu |-> "run"]
  /\ lk = [c \in Cpu |-> None]
  /\ held = [c \in Cpu |-> {}]
  /\ mode = [t \in Thread |-> "new"]
  /\ trap = {}
  /\ saved = [t \in Thread |-> 2]

\* The context that CPU c executes.
Ctx(c) == IF cpup[c] = None THEN c ELSE cpup[c]

\* Code of the kernel, outside acquire and release.
InKernel(c) ==
  /\ pc[c] = "run"
  /\ cpup[c] # None => mode[cpup[c]] # "user"

holdinglock(c, l) == locked[l] = 1 /\ owner[l] = c

GotoL(c, p, l) == pc' = [pc EXCEPT ![c] = p] /\ lk' = [lk EXCEPT ![c] = l]

Goto(c, p) == pc' = [pc EXCEPT ![c] = p] /\ UNCHANGED lk

Rank(l) == IF l \in Outer THEN 1 ELSE IF l \in Thread THEN 2 ELSE 3

InOrder(c, l) == \A h \in held[c] : Rank(h) < Rank(l)

\* scheduler() itself acquires slocks only, one at a time.
MayAcquire(c, l) ==
  /\ InOrder(c, l)
  /\ Ctx(c) = c /\ c \notin trap => l \in Thread /\ held[c] = {}

-----------------------------------------------------------------------------
(***************************************************************************)
(* acquire(l): push_off(), the test for a second acquire, the swap, and    *)
(* the note of the owner.                                                  *)
(***************************************************************************)
push_off(c) ==
  /\ sie' = [sie EXCEPT ![c] = 0]
  /\ intena' = [intena EXCEPT ![c] = IF noff[c] = 0 THEN sie[c] ELSE @]
  /\ noff' = [noff EXCEPT ![c] = @ + 1]

Acquire(c, l) ==
  /\ InKernel(c)
  /\ MayAcquire(c, l)
  /\ push_off(c)
  /\ GotoL(c, IF holdinglock(c, l) THEN "panic" ELSE "spin", l)
  /\ UNCHANGED <<locked, owner, cpup, held, mode, trap, saved>>

\* Faulty variant: the lock is taken without looking at what the swap returned.
SwapBlind(c) ==
  /\ pc[c] = "spin"
  /\ locked' = [locked EXCEPT ![lk[c]] = 1]
  /\ held' = [held EXCEPT ![c] = @ \cup {lk[c]}]
  /\ Goto(c, "swapped")
  /\ UNCHANGED <<owner, sie, noff, intena, cpup, mode, trap, saved>>

Swap(c) ==
  /\ pc[c] = "spin"
  /\ locked[lk[c]] = 0
  /\ locked' = [locked EXCEPT ![lk[c]] = 1]
  /\ held' = [held EXCEPT ![c] = @ \cup {lk[c]}]
  /\ Goto(c, "swapped")
  /\ UNCHANGED <<owner, sie, noff, intena, cpup, mode, trap, saved>>

SetOwner(c) ==
  /\ pc[c] = "swapped"
  /\ owner' = [owner EXCEPT ![lk[c]] = c]
  /\ GotoL(c, "run", None)
  /\ UNCHANGED <<locked, sie, noff, intena, cpup, held, mode, trap, saved>>

(***************************************************************************)
(* release(l): the test, lk->cpu = 0, then locked = 0 and pop_off().       *)
(***************************************************************************)
\* Faulty variant: release leaves lk->cpu as it is.
ClearOwnerNot(c, l) ==
  IF holdinglock(c, l)
  THEN UNCHANGED owner /\ GotoL(c, "disowned", l)
  ELSE UNCHANGED owner /\ GotoL(c, "panic", l)

ClearOwner(c, l) ==
  IF holdinglock(c, l)
  THEN owner' = [owner EXCEPT ![l] = NoCpu] /\ GotoL(c, "disowned", l)
  ELSE UNCHANGED owner /\ GotoL(c, "panic", l)

Release(c, l) ==
  /\ InKernel(c)
  /\ l \in held[c]
  /\ ClearOwner(c, l)
  /\ UNCHANGED <<locked, sie, noff, intena, cpup, held, mode, trap, saved>>

\* Faulty variant: interrupts come back on with the first release.
pop_offEager(c) ==
  IF sie[c] = 1 \/ noff[c] < 1
  THEN Goto(c, "panic") /\ UNCHANGED <<sie, noff>>
  ELSE /\ noff' = [noff EXCEPT ![c] = @ - 1]
       /\ sie' = [sie EXCEPT ![c] = IF intena[c] = 1 THEN 1 ELSE @]
       /\ GotoL(c, "run", None)

pop_off(c) ==
  IF sie[c] = 1 \/ noff[c] < 1
  THEN Goto(c, "panic") /\ UNCHANGED <<sie, noff>>
  ELSE /\ noff' = [noff EXCEPT ![c] = @ - 1]
       /\ sie' = [sie EXCEPT ![c] = IF noff[c] = 1 /\ intena[c] = 1 THEN 1
                                    ELSE @]
       /\ GotoL(c, "run", None)

Unlock(c) ==
  /\ pc[c] = "disowned"
  /\ locked' = [locked EXCEPT ![lk[c]] = 0]
  /\ held' = [held EXCEPT ![c] = @ \ {lk[c]}]
  /\ pop_off(c)
  /\ UNCHANGED <<owner, intena, cpup, mode, trap, saved>>

-----------------------------------------------------------------------------
(***************************************************************************)
(* Traps.  A trap clears the enable bit; an interrupt is taken in user     *)
(* mode at any time and in the kernel when the bit is set.                 *)
(***************************************************************************)
InUser(c) == pc[c] = "run" /\ cpup[c] # None /\ mode[cpup[c]] = "user"

SetMode(c, m) == mode' = [mode EXCEPT ![cpup[c]] = m]

\* usertrap for a system call: intr_on(); syscall().
Syscall(c) ==
  /\ InUser(c)
  /\ SetMode(c, "sys")
  /\ sie' = [sie EXCEPT ![c] = 1]
  /\ UNCHANGED <<locked, owner, noff, intena, cpup, pc, lk, held, trap, saved>>

\* usertrap for a device: devintr(), and yield() after a timer interrupt.
Usertrap(c) ==
  /\ InUser(c)
  /\ SetMode(c, "utrap")
  /\ sie' = [sie EXCEPT ![c] = 0]
  /\ UNCHANGED <<locked, owner, noff, intena, cpup, pc, lk, held, trap, saved>>

\* usertrapret: intr_off(), back to user mode.  A new thread comes here from
\* forkret.
Usertrapret(c) ==
  /\ InKernel(c) /\ cpup[c] # None
  /\ cpup[c] \notin trap
  /\ held[c] = {}
  /\ SetMode(c, "user")
  /\ sie' = [sie EXCEPT ![c] = 0]
  /\ UNCHANGED <<locked, owner, noff, intena, cpup, pc, lk, held, trap, saved>>

\* kerneltrap, from a thread or from scheduler().
Kerneltrap(c) ==
  /\ InKernel(c)
  /\ sie[c] = 1
  /\ trap' = trap \cup {Ctx(c)}
  /\ sie' = [sie EXCEPT ![c] = 0]
  /\ UNCHANGED <<locked, owner, noff, intena, cpup, pc, lk, held, mode, saved>>

\* w_sstatus(sstatus) and sret: the trap was taken with the bit set.
KerneltrapReturn(c) ==
  /\ InKernel(c)
  /\ Ctx(c) \in trap
  /\ held[c] = {}
  /\ trap' = trap \ {Ctx(c)}
  /\ sie' = [sie EXCEPT ![c] = 1]
  /\ UNCHANGED <<locked, owner, noff, intena, cpup, pc, lk, held, mode, saved>>

-----------------------------------------------------------------------------
(***************************************************************************)
(* sched() and scheduler().                                                *)
(***************************************************************************)
\* The thread, with its slock alone, switches to scheduler(), which goes on
\* with c->p = 0 and the release of that slock.  Its callers set p->state
\* under the slock just before (Proc has them), so the panic for RUNNING is
\* left out with the state itself.
Sched(c) ==
  LET t == cpup[c] IN
  /\ InKernel(c) /\ t # None
  /\ held[c] = {t}
  /\ IF ~holdinglock(c, t) \/ sie[c] = 1
     THEN GotoL(c, "panic", t) /\ UNCHANGED <<saved, cpup, owner>>
     ELSE /\ saved' = [saved EXCEPT ![t] = intena[c]]
          /\ cpup' = [cpup EXCEPT ![c] = None]
          /\ ClearOwner(c, t)
  /\ UNCHANGED <<locked, sie, noff, intena, held, mode, trap>>

\* Faulty variant: sched() does not restore intena after swtch.
SwitchForgetsIntena(c, t) ==
  /\ InKernel(c) /\ cpup[c] = None /\ c \notin trap
  /\ held[c] = {t}
  /\ \A d \in Cpu : cpup[d] # t
  /\ cpup' = [cpup EXCEPT ![c] = t]
  /\ UNCHANGED <<locked, owner, sie, noff, intena, pc, lk, held, mode, trap,
                 saved>>

\* scheduler() has the slock of a RUNNABLE thread, one that no CPU runs;
\* sched() in that thread goes on and restores intena, or forkret begins.
Switch(c, t) ==
  /\ InKernel(c) /\ cpup[c] = None /\ c \notin trap
  /\ held[c] = {t}
  /\ \A d \in Cpu : cpup[d] # t
  /\ cpup' = [cpup EXCEPT ![c] = t]
  /\ intena' = [intena EXCEPT ![c] = IF saved[t] = 2 THEN @ ELSE saved[t]]
  /\ UNCHANGED <<locked, owner, sie, noff, pc, lk, held, mode, trap, saved>>

\* The intr_on() of scheduler()'s outer loop.
SchedulerIntrOn(c) ==
  /\ InKernel(c) /\ cpup[c] = None /\ c \notin trap
  /\ held[c] = {}
  /\ sie' = [sie EXCEPT ![c] = 1]
  /\ UNCHANGED <<locked, owner, noff, intena, cpup, pc, lk, held, mode, trap,
                 saved>>

-----------------------------------------------------------------------------
LockStep(c) == \/ \E l \in Lock : Acquire(c, l) \/ Release(c, l)
               \/ Swap(c) \/ SetOwner(c) \/ Unlock(c)

TrapStep(c) == \/ Syscall(c) \/ Usertrap(c) \/ Usertrapret(c)
               \/ Kerneltrap(c) \/ KerneltrapReturn(c)

SwitchStep(c) == \/ Sched(c) \/ SchedulerIntrOn(c)
                 \/ \E t \in Thread : Switch(c, t)

Next == \E c \in Cpu : LockStep(c) \/ TrapStep(c) \/ SwitchStep(c)

Spec == Init /\ [][Next]_vars

-----------------------------------------------------------------------------
TypeOK ==
  /\ locked \in [Lock -> {0, 1}]
  /\ owner \in [Lock -> Cpu \cup {NoCpu}]
  /\ sie \in [Cpu -> {0, 1}]
  /\ noff \in [Cpu -> Nat]
  /\ intena \in [Cpu -> {0, 1}]
  /\ cpup \in [Cpu -> Thread \cup {None}]
  /\ pc \in [Cpu -> {"run", "spin", "swapped", "disowned", "panic"}]
  /\ lk \in [Cpu -> Lock \cup {None}]
  /\ held \in [Cpu -> SUBSET Lock]
  /\ mode \in [Thread -> {"new", "user", "sys", "utrap"}]
  /\ trap \subseteq Cpu \cup Thread
  /\ saved \in [Thread -> {0, 1, 2}]

(***************************************************************************)
(* A lock is held by one CPU at a time, across the switches that hand it   *)
(* from a thread to scheduler() and back.                                  *)
(***************************************************************************)
MutualExclusion ==
  \A c, d \in Cpu : c # d => held[c] \cap held[d] = {}

(***************************************************************************)
(* Interrupts are off on a CPU that holds a lock or spins for one, and     *)
(* noff counts exactly these: otherwise a handler could spin for a lock    *)
(* that the code it interrupted holds.                                     *)
(***************************************************************************)
HeldMeansOff ==
  \A c \in Cpu :
    /\ held[c] # {} \/ pc[c] = "spin" => sie[c] = 0
    /\ noff[c] = Cardinality(held[c]) + (IF pc[c] = "spin" THEN 1 ELSE 0)

(***************************************************************************)
(* None of the panics of acquire, release, pop_off and sched is reached:   *)
(* lk->cpu names the holder whenever holdinglock is asked, although other  *)
(* CPUs take and leave the lock meanwhile.                                 *)
(***************************************************************************)
NoPanic == \A c \in Cpu : pc[c] # "panic"

(***************************************************************************)
(* A context that holds no lock has interrupts as it set them, however     *)
(* often it slept, was preempted or changed its CPU since: on in a system  *)
(* call, off inside a trap.                                                *)
(***************************************************************************)
InterruptsAsSet ==
  \A c \in Cpu : held[c] = {} /\ pc[c] = "run" =>
    /\ Ctx(c) \in trap => sie[c] = 0
    /\ Ctx(c) \notin trap /\ cpup[c] # None =>
         /\ mode[cpup[c]] = "sys" => sie[c] = 1
         /\ mode[cpup[c]] = "utrap" => sie[c] = 0
=============================================================================
