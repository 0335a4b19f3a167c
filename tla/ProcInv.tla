------------------------------ MODULE ProcInv ------------------------------
(***************************************************************************)
(* The inductive invariant of Proc, in parts: who runs where (CpuInv), who *)
(* holds which spin lock (LockInv), the child under construction in fork   *)
(* (ForkInv), the tree of parents (TreeInv) and what wait and exit rely on *)
(* about each other (WaitInv).                                             *)
(***************************************************************************)
EXTENDS Proc

(***************************************************************************)
(* States of a process whose thread is on a CPU: it runs, or has marked    *)
(* itself and is about to be switched out.                                 *)
(***************************************************************************)
OnCpu(p) ==
  \/ state[p] = "RUNNING" /\ pc[p] \notin {"none", "exiting"}
  \/ state[p] = "SLEEPING" /\ pc[p] = "sleeping"
  \/ state[p] = "RUNNABLE" /\ pc[p] = "yielding"
  \/ state[p] = "ZOMBIE" /\ pc[p] = "exiting"

(***************************************************************************)
(* States of a slot that no CPU executes.                                  *)
(***************************************************************************)
OffCpu(p) ==
  \/ state[p] = "UNUSED" /\ pc[p] \in {"none", "forkret", "exiting"}
  \/ state[p] = "USED" /\ pc[p] \in {"none", "forkret", "exiting"}
  \/ state[p] = "RUNNABLE" /\ pc[p] \in {"forkret", "sleeping", "yielding"}
  \/ state[p] = "SLEEPING" /\ pc[p] = "sleeping"
  \/ state[p] = "ZOMBIE" /\ pc[p] = "exiting"

OnCpuOK == \A c \in Cpu : curp[c] # None => OnCpu(curp[c])

OffCpuOK == \A p \in Slot : (\A c \in Cpu : curp[c] # p) => OffCpu(p)

CpuInv == OneCpuPerProc /\ OnCpuOK /\ OffCpuOK

(***************************************************************************)
(* The spin locks are held exactly where the labels say.                   *)
(***************************************************************************)
HoldsOwn ==
  \A c \in Cpu : curp[c] # None /\ pc[curp[c]] \in OwnLabels =>
    slock[curp[c]] = c

HoldsChild ==
  \A c \in Cpu : curp[c] # None /\ pc[curp[c]] = "copy" =>
    slock[np[curp[c]]] = c

HoldsWait ==
  \A c \in Cpu : curp[c] # None /\ pc[curp[c]] \in WaitLabels => wlock = c

SlockHeldBy ==
  \A p \in Slot : slock[p] # NoCpu =>
    \/ curp[slock[p]] = p /\ pc[p] \in OwnLabels
    \/ \E q \in Slot : curp[slock[p]] = q /\ pc[q] = "copy" /\ np[q] = p
    \/ \E q \in Slot : curp[slock[p]] = q /\ pc[q] \in HaltLabels /\ idx[q] = p

WlockHeldBy ==
  wlock # NoCpu => curp[wlock] # None /\ pc[curp[wlock]] \in WaitLabels

LockInv ==
  HoldsOwn /\ HoldsChild /\ HoldsWait /\ SlockHeldBy /\ WlockHeldBy

(***************************************************************************)
(* The label of p's thread, seen through a preemption.                     *)
(***************************************************************************)
Lab(p) == IF pc[p] = "yielding" THEN ret[p] ELSE pc[p]

Forking(p) == Lab(p) \in {"copy", "link", "ready"}

(***************************************************************************)
(* A USED slot is the child of exactly one fork() in progress, or the one  *)
(* with which allocproc() panicked; the child starts at forkret and is not *)
(* linked to its parent before wait_lock has been taken for that.          *)
(***************************************************************************)
ForkChild ==
  \A p \in Slot : Forking(p) =>
    /\ np[p] \in Slot
    /\ state[np[p]] = "USED"
    /\ pc[np[p]] = "forkret"
    /\ parent[np[p]] = IF Lab(p) = "ready" THEN p ELSE None

ForkUnique ==
  \A p, q \in Slot : Forking(p) /\ Forking(q) /\ np[p] = np[q] => p = q

ForkOwner ==
  \A q \in Slot : state[q] = "USED" =>
    \E p \in Slot :
      \/ Forking(p) /\ np[p] = q
      \/ pc[p] = "oom" /\ idx[p] = q

ForkInv == ForkChild /\ ForkUnique /\ ForkOwner

(***************************************************************************)
(* The tree of parents: init is its root for ever, and the children that   *)
(* reparent() has passed belong to init.                                   *)
(***************************************************************************)
InitLives ==
  parent[initp] = None /\ state[initp] \notin {"UNUSED", "USED", "ZOMBIE"}

FreeUnlinked == \A q \in Slot : state[q] = "UNUSED" => parent[q] = None

ExitLabels == {"reparent", "wakeinit", "wakeparent", "zombie"}

ExitNotInit ==
  \A p \in Slot : Lab(p) = "xlock" \/ pc[p] \in ExitLabels => p # initp

HandedOver ==
  \A p, q \in Slot :
    \/ pc[p] = "reparent" /\ q < ridx[p]
    \/ pc[p] = "wakeinit" /\ q <= ridx[p]
    \/ pc[p] \in {"wakeparent", "zombie"}
    => parent[q] # p

TreeInv == NoOrphan /\ InitLives /\ FreeUnlinked /\ ExitNotInit /\ HandedOver

(***************************************************************************)
(* p has committed itself to sleep in wait() and was not woken since.      *)
(***************************************************************************)
Waiting(p) == pc[p] = "marking" \/ state[p] = "SLEEPING"

(***************************************************************************)
(* An exit() that has given init a child and not yet tried to wake init.   *)
(***************************************************************************)
InitWakePending == \E x \in Slot : pc[x] = "wakeinit" /\ idx[x] <= initp

(***************************************************************************)
(* What wait() has found out under wait_lock stays true until p is asleep; *)
(* a parent is awake when its child becomes a ZOMBIE; and init, which may  *)
(* be given a ZOMBIE while asleep, is woken before wait_lock is released.  *)
(***************************************************************************)
SleepChan == \A p \in Slot : state[p] = "SLEEPING" => chan[p] = p

NoZombieChild ==
  \A p, q \in Slot :
    \/ pc[p] = "scan" /\ q < idx[p]
    \/ pc[p] = "sleep"
    \/ Waiting(p) /\ ~ (p = initp /\ InitWakePending)
    => ~ (parent[q] = p /\ state[q] = "ZOMBIE")

HasChild ==
  \A p \in Slot :
    \/ pc[p] = "scan" /\ havekids[p]
    \/ pc[p] = "sleep"
    \/ Waiting(p)
    => \E q \in Slot : parent[q] = p

ParentAwake ==
  \A x \in Slot :
    \/ pc[x] = "wakeparent" /\ parent[x] < idx[x]
    \/ pc[x] = "zombie"
    => ~ Waiting(parent[x])

WaitInv == SleepChan /\ NoZombieChild /\ HasChild /\ ParentAwake

IInv == TypeOK /\ CpuInv /\ LockInv /\ ForkInv /\ TreeInv /\ WaitInv
=============================================================================
