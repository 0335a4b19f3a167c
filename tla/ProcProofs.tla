----------------------------- MODULE ProcProofs -----------------------------
(***************************************************************************)
(* Proofs about Proc for every NPROC and every set of CPUs: the invariant  *)
(* IInv of ProcInv is inductive, and the safety properties follow.  One    *)
(* lemma per part of IInv shows that every step keeps it; its USE line     *)
(* names the parts of IInv it rests on.                                    *)
(***************************************************************************)
EXTENDS ProcInv, TLAPS

(***************************************************************************)
(* Facts about the constants, so that no other proof expands Slot.         *)
(***************************************************************************)
LEMMA SlotFacts ==
  /\ initp \in Slot /\ None \notin Slot
  /\ 1 \in 1 .. NPROC + 1
  /\ \A i \in Slot : NextSlot(i) \in Slot /\ i + 1 \in 1 .. NPROC + 1
BY ProcAssumption DEF Slot, initp, None, NextSlot

(***************************************************************************)
(* How the scans of procs[] advance and end, and that init is the first    *)
(* slot of every scan.                                                     *)
(***************************************************************************)
LEMMA IndexFacts ==
  /\ \A q \in Slot : ~ (q < 1)
  /\ \A i \in 1 .. NPROC + 1 : \A q \in Slot : i \notin Slot => q < i
  /\ \A i, q \in Slot :
       (q < i + 1 <=> q < i \/ q = i) /\ (q <= i <=> q < i \/ q = i)
  /\ \A i \in 1 .. NPROC + 1 : i <= initp <=> i = initp
  /\ \A i \in Slot : i + 1 # initp
  /\ initp = 1
BY ProcAssumption DEF Slot, initp

(***************************************************************************)
(* The labels and states that steps assign are members of their sets.      *)
(***************************************************************************)
LEMMA LabelFacts ==
  /\ FreeLabels \subseteq Labels /\ OwnLabels \subseteq Labels
  /\ WaitLabels \subseteq Labels /\ SwtchLabels \subseteq OwnLabels
  /\ {"user", "alloc", "link", "ready", "xlock", "wait", "panic"}
       \subseteq FreeLabels
  /\ {"reparent", "wakeinit", "wakeparent", "zombie", "scan", "sleep",
      "fault"} \subseteq WaitLabels
  /\ {"sleeping", "yielding", "exiting", "forkret", "marking"}
       \subseteq OwnLabels
  /\ {"copy", "fault", "oom", "output"} \subseteq Labels
  /\ "wakeinit" \notin FreeLabels
  /\ {"UNUSED", "USED", "SLEEPING", "RUNNABLE", "RUNNING", "ZOMBIE"}
       \subseteq States
BY DEF FreeLabels, WaitLabels, SwtchLabels, OwnLabels, HaltLabels, Labels,
    States

-----------------------------------------------------------------------------
(***************************************************************************)
(* Every variable keeps its type.                                          *)
(***************************************************************************)
LEMMA TypeNext == TypeOK /\ [Next]_vars => TypeOK'
<1> SUFFICES ASSUME TypeOK, [Next]_vars PROVE TypeOK'
  OBVIOUS
<1> USE LabelFacts, SlotFacts DEF TypeOK, At, Goto
<1>1. CASE UNCHANGED vars
  BY <1>1 DEF vars
<1>2. ASSUME NEW c \in Cpu, Scheduler(c) PROVE TypeOK'
  BY <1>2 DEF Scheduler, SchedulerSkip, SchedulerRun
<1>3. ASSUME NEW c \in Cpu, NEW p \in Slot, UserCall(c, p) PROVE TypeOK'
  BY <1>3 DEF UserCall, ForkCall, ExitCall, WaitCall, OutputHangs
<1>4. ASSUME NEW c \in Cpu, NEW p \in Slot, Yield(c, p) PROVE TypeOK'
  BY <1>4 DEF Yield
<1>5. ASSUME NEW c \in Cpu, NEW p \in Slot, Switch(c, p) PROVE TypeOK'
  BY <1>5 DEF Switch, SwitchOut, ForkRet, YieldReturn
<1>6. ASSUME NEW c \in Cpu, NEW p \in Slot, ForkStep(c, p) PROVE TypeOK'
  BY <1>6 DEF ForkStep, AllocSkip, AllocTake, AllocPanic, AllocFull, ForkCopy,
      ForkFail, ForkLink, ForkReady
<1>7. ASSUME NEW c \in Cpu, NEW p \in Slot, ExitStep(c, p) PROVE TypeOK'
  BY <1>7 DEF ExitStep, ExitLock, ReparentSkip, ReparentChild, ReparentDone,
      WakeupStep, WakeupInitDone, WakeupParentDone, ExitZombie, WakeChan
<1>8. ASSUME NEW c \in Cpu, NEW p \in Slot, WaitStep(c, p) PROVE TypeOK'
  <2>1. CASE WaitLock(c, p)
    BY <2>1 DEF WaitLock
  <2>2. CASE WaitSkip(c, p)
    BY <2>2 DEF WaitSkip
  <2>3. CASE WaitLiveChild(c, p)
    BY <2>3 DEF WaitLiveChild
  <2>4. CASE WaitReap(c, p)
    BY <2>4 DEF WaitReap
  <2>5. CASE WaitPanic(c, p)
    BY <2>5 DEF WaitPanic
  <2>5a. CASE WaitFault(c, p)
    BY <2>5a DEF WaitFault
  <2>6. CASE WaitNoKids(c, p)
    BY <2>6 DEF WaitNoKids
  <2>7. CASE WaitSleep(c, p)
    BY <2>7 DEF WaitSleep
  <2>8. CASE SleepLock(c, p)
    BY <2>8 DEF SleepLock
  <2>9. CASE SleepMark(c, p)
    BY <2>9 DEF SleepMark
  <2>10. CASE SleepReturn(c, p)
    BY <2>10 DEF SleepReturn
  <2> QED BY <1>8, <2>1, <2>2, <2>3, <2>4, <2>5, <2>5a, <2>6, <2>7, <2>8, <2>9,
    <2>10 DEF WaitStep
<1> HIDE DEF At, Goto
<1> QED
  BY <1>1, <1>2, <1>3, <1>4, <1>5, <1>6, <1>7, <1>8 DEF Next, Kernel, Halt

(***************************************************************************)
(* No process is started on a second CPU: a RUNNABLE process that is still *)
(* on its CPU has its slock held.                                          *)
(***************************************************************************)
LEMMA OneCpuNext == IInv /\ [Next]_vars => OneCpuPerProc'
<1> SUFFICES ASSUME IInv, [Next]_vars PROVE OneCpuPerProc'
  OBVIOUS
<1> USE SlotFacts, ProcAssumption DEF IInv, TypeOK, CpuInv, OneCpuPerProc,
    OnCpuOK, OffCpuOK, OnCpu, OffCpu, LockInv, HoldsOwn, HoldsChild,
    HoldsWait, SlockHeldBy, WlockHeldBy, ForkInv, ForkChild, ForkUnique, Lab,
    Forking, FreeLabels, WaitLabels, SwtchLabels, OwnLabels, HaltLabels, At,
    Goto
<1>1. CASE UNCHANGED vars
  BY <1>1 DEF vars
<1>2. ASSUME NEW c \in Cpu, Scheduler(c) PROVE OneCpuPerProc'
  BY <1>2 DEF Scheduler, SchedulerSkip, SchedulerRun
<1>3. ASSUME NEW c \in Cpu, NEW p \in Slot, UserCall(c, p) PROVE OneCpuPerProc'
  BY <1>3 DEF UserCall, ForkCall, ExitCall, WaitCall, OutputHangs
<1>4. ASSUME NEW c \in Cpu, NEW p \in Slot, Yield(c, p) PROVE OneCpuPerProc'
  BY <1>4 DEF Yield
<1>5. ASSUME NEW c \in Cpu, NEW p \in Slot, Switch(c, p) PROVE OneCpuPerProc'
  BY <1>5 DEF Switch, SwitchOut, ForkRet, YieldReturn
<1>6. ASSUME NEW c \in Cpu, NEW p \in Slot, ForkStep(c, p) PROVE OneCpuPerProc'
  BY <1>6 DEF ForkStep, AllocSkip, AllocTake, AllocPanic, AllocFull, ForkCopy,
      ForkFail, ForkLink, ForkReady
<1>7. ASSUME NEW c \in Cpu, NEW p \in Slot, ExitStep(c, p) PROVE OneCpuPerProc'
  BY <1>7 DEF ExitStep, ExitLock, ReparentSkip, ReparentChild, ReparentDone,
      WakeupStep, WakeupInitDone, WakeupParentDone, ExitZombie, WakeChan
<1>8. ASSUME NEW c \in Cpu, NEW p \in Slot, WaitStep(c, p) PROVE OneCpuPerProc'
  BY <1>8 DEF WaitStep, WaitLock, WaitSkip, WaitLiveChild, WaitReap,
      WaitPanic, WaitFault, WaitNoKids, WaitSleep, SleepLock, SleepMark,
      SleepReturn
<1> HIDE DEF IInv, At, Goto
<1> QED
  BY <1>1, <1>2, <1>3, <1>4, <1>5, <1>6, <1>7, <1>8 DEF Next, Kernel, Halt

(***************************************************************************)
(* A thread that runs stays in one of the four situations of OnCpu; nobody *)
(* else changes the state of a process on a CPU.                           *)
(***************************************************************************)
LEMMA OnCpuNext == IInv /\ [Next]_vars => OnCpuOK'
<1> SUFFICES ASSUME IInv, [Next]_vars PROVE OnCpuOK'
  OBVIOUS
<1> USE SlotFacts, ProcAssumption DEF IInv, TypeOK, CpuInv, OneCpuPerProc,
    OnCpuOK, OffCpuOK, OnCpu, OffCpu, LockInv, HoldsOwn, HoldsChild,
    HoldsWait, SlockHeldBy, WlockHeldBy, ForkInv, ForkChild, ForkUnique, Lab,
    Forking, FreeLabels, WaitLabels, SwtchLabels, OwnLabels, HaltLabels, At,
    Goto
<1>1. CASE UNCHANGED vars
  BY <1>1 DEF vars
<1>2. ASSUME NEW c \in Cpu, Scheduler(c) PROVE OnCpuOK'
  BY <1>2 DEF Scheduler, SchedulerSkip, SchedulerRun
<1>3. ASSUME NEW c \in Cpu, NEW p \in Slot, UserCall(c, p) PROVE OnCpuOK'
  BY <1>3 DEF UserCall, ForkCall, ExitCall, WaitCall, OutputHangs
<1>4. ASSUME NEW c \in Cpu, NEW p \in Slot, Yield(c, p) PROVE OnCpuOK'
  BY <1>4 DEF Yield
<1>5. ASSUME NEW c \in Cpu, NEW p \in Slot, Switch(c, p) PROVE OnCpuOK'
  BY <1>5 DEF Switch, SwitchOut, ForkRet, YieldReturn
<1>6. ASSUME NEW c \in Cpu, NEW p \in Slot, ForkStep(c, p) PROVE OnCpuOK'
  BY <1>6 DEF ForkStep, AllocSkip, AllocTake, AllocPanic, AllocFull, ForkCopy,
      ForkFail, ForkLink, ForkReady
<1>7. ASSUME NEW c \in Cpu, NEW p \in Slot, ExitStep(c, p) PROVE OnCpuOK'
  BY <1>7 DEF ExitStep, ExitLock, ReparentSkip, ReparentChild, ReparentDone,
      WakeupStep, WakeupInitDone, WakeupParentDone, ExitZombie, WakeChan
<1>8. ASSUME NEW c \in Cpu, NEW p \in Slot, WaitStep(c, p) PROVE OnCpuOK'
  BY <1>8 DEF WaitStep, WaitLock, WaitSkip, WaitLiveChild, WaitReap,
      WaitPanic, WaitFault, WaitNoKids, WaitSleep, SleepLock, SleepMark,
      SleepReturn
<1> HIDE DEF IInv, At, Goto
<1> QED
  BY <1>1, <1>2, <1>3, <1>4, <1>5, <1>6, <1>7, <1>8 DEF Next, Kernel, Halt

(***************************************************************************)
(* What a slot looks like while no CPU executes it.                        *)
(***************************************************************************)
LEMMA OffCpuNext == IInv /\ [Next]_vars => OffCpuOK'
<1> SUFFICES ASSUME IInv, [Next]_vars PROVE OffCpuOK'
  OBVIOUS
<1> USE SlotFacts, ProcAssumption DEF IInv, TypeOK, CpuInv, OneCpuPerProc,
    OnCpuOK, OffCpuOK, OnCpu, OffCpu, LockInv, HoldsOwn, HoldsChild,
    HoldsWait, SlockHeldBy, WlockHeldBy, ForkInv, ForkChild, ForkUnique, Lab,
    Forking, FreeLabels, WaitLabels, SwtchLabels, OwnLabels, HaltLabels, At,
    Goto
<1>1. CASE UNCHANGED vars
  BY <1>1 DEF vars
<1>2. ASSUME NEW c \in Cpu, Scheduler(c) PROVE OffCpuOK'
  BY <1>2 DEF Scheduler, SchedulerSkip, SchedulerRun
<1>3. ASSUME NEW c \in Cpu, NEW p \in Slot, UserCall(c, p) PROVE OffCpuOK'
  BY <1>3 DEF UserCall, ForkCall, ExitCall, WaitCall, OutputHangs
<1>4. ASSUME NEW c \in Cpu, NEW p \in Slot, Yield(c, p) PROVE OffCpuOK'
  BY <1>4 DEF Yield
<1>5. ASSUME NEW c \in Cpu, NEW p \in Slot, Switch(c, p) PROVE OffCpuOK'
  BY <1>5 DEF Switch, SwitchOut, ForkRet, YieldReturn
<1>6. ASSUME NEW c \in Cpu, NEW p \in Slot, ForkStep(c, p) PROVE OffCpuOK'
  BY <1>6 DEF ForkStep, AllocSkip, AllocTake, AllocPanic, AllocFull, ForkCopy,
      ForkFail, ForkLink, ForkReady
<1>7. ASSUME NEW c \in Cpu, NEW p \in Slot, ExitStep(c, p) PROVE OffCpuOK'
  BY <1>7 DEF ExitStep, ExitLock, ReparentSkip, ReparentChild, ReparentDone,
      WakeupStep, WakeupInitDone, WakeupParentDone, ExitZombie, WakeChan
<1>8. ASSUME NEW c \in Cpu, NEW p \in Slot, WaitStep(c, p) PROVE OffCpuOK'
  BY <1>8 DEF WaitStep, WaitLock, WaitSkip, WaitLiveChild, WaitReap,
      WaitPanic, WaitFault, WaitNoKids, WaitSleep, SleepLock, SleepMark,
      SleepReturn
<1> HIDE DEF IInv, At, Goto
<1> QED
  BY <1>1, <1>2, <1>3, <1>4, <1>5, <1>6, <1>7, <1>8 DEF Next, Kernel, Halt

(***************************************************************************)
(* A thread at an OwnLabel keeps its slock.                                *)
(***************************************************************************)
LEMMA HoldsOwnNext == IInv /\ [Next]_vars => HoldsOwn'
<1> SUFFICES ASSUME IInv, [Next]_vars PROVE HoldsOwn'
  OBVIOUS
<1> USE SlotFacts, ProcAssumption DEF IInv, TypeOK, CpuInv, OneCpuPerProc,
    OnCpuOK, OffCpuOK, OnCpu, OffCpu, LockInv, HoldsOwn, HoldsChild,
    HoldsWait, SlockHeldBy, WlockHeldBy, ForkInv, ForkChild, ForkUnique, Lab,
    Forking, FreeLabels, WaitLabels, SwtchLabels, OwnLabels, HaltLabels, At,
    Goto
<1>1. CASE UNCHANGED vars
  BY <1>1 DEF vars
<1>2. ASSUME NEW c \in Cpu, Scheduler(c) PROVE HoldsOwn'
  BY <1>2 DEF Scheduler, SchedulerSkip, SchedulerRun
<1>3. ASSUME NEW c \in Cpu, NEW p \in Slot, UserCall(c, p) PROVE HoldsOwn'
  BY <1>3 DEF UserCall, ForkCall, ExitCall, WaitCall, OutputHangs
<1>4. ASSUME NEW c \in Cpu, NEW p \in Slot, Yield(c, p) PROVE HoldsOwn'
  BY <1>4 DEF Yield
<1>5. ASSUME NEW c \in Cpu, NEW p \in Slot, Switch(c, p) PROVE HoldsOwn'
  BY <1>5, SMTT(30) DEF Switch, SwitchOut, ForkRet, YieldReturn
<1>6. ASSUME NEW c \in Cpu, NEW p \in Slot, ForkStep(c, p) PROVE HoldsOwn'
  BY <1>6 DEF ForkStep, AllocSkip, AllocTake, AllocPanic, AllocFull, ForkCopy,
      ForkFail, ForkLink, ForkReady
<1>7. ASSUME NEW c \in Cpu, NEW p \in Slot, ExitStep(c, p) PROVE HoldsOwn'
  BY <1>7 DEF ExitStep, ExitLock, ReparentSkip, ReparentChild, ReparentDone,
      WakeupStep, WakeupInitDone, WakeupParentDone, ExitZombie, WakeChan
<1>8. ASSUME NEW c \in Cpu, NEW p \in Slot, WaitStep(c, p) PROVE HoldsOwn'
  BY <1>8 DEF WaitStep, WaitLock, WaitSkip, WaitLiveChild, WaitReap,
      WaitPanic, WaitFault, WaitNoKids, WaitSleep, SleepLock, SleepMark,
      SleepReturn
<1> HIDE DEF IInv, At, Goto
<1> QED
  BY <1>1, <1>2, <1>3, <1>4, <1>5, <1>6, <1>7, <1>8 DEF Next, Kernel, Halt

(***************************************************************************)
(* fork() keeps the child's slock until it has copied the process.         *)
(***************************************************************************)
LEMMA HoldsChildNext == IInv /\ [Next]_vars => HoldsChild'
<1> SUFFICES ASSUME IInv, [Next]_vars PROVE HoldsChild'
  OBVIOUS
<1> USE SlotFacts, ProcAssumption DEF IInv, TypeOK, CpuInv, OneCpuPerProc,
    OnCpuOK, OffCpuOK, OnCpu, OffCpu, LockInv, HoldsOwn, HoldsChild,
    HoldsWait, SlockHeldBy, WlockHeldBy, ForkInv, ForkChild, ForkUnique, Lab,
    Forking, FreeLabels, WaitLabels, SwtchLabels, OwnLabels, HaltLabels, At,
    Goto
<1>1. CASE UNCHANGED vars
  BY <1>1 DEF vars
<1>2. ASSUME NEW c \in Cpu, Scheduler(c) PROVE HoldsChild'
  BY <1>2 DEF Scheduler, SchedulerSkip, SchedulerRun
<1>3. ASSUME NEW c \in Cpu, NEW p \in Slot, UserCall(c, p) PROVE HoldsChild'
  BY <1>3 DEF UserCall, ForkCall, ExitCall, WaitCall, OutputHangs
<1>4. ASSUME NEW c \in Cpu, NEW p \in Slot, Yield(c, p) PROVE HoldsChild'
  BY <1>4 DEF Yield
<1>5. ASSUME NEW c \in Cpu, NEW p \in Slot, Switch(c, p) PROVE HoldsChild'
  <2>1. CASE SwitchOut(c, p)
    BY <2>1 DEF SwitchOut
  <2>2. CASE ForkRet(c, p)
    BY <2>2 DEF ForkRet
  <2>3. CASE YieldReturn(c, p)
    <3>1. pc'[p] \in FreeLabels /\ \A x \in Slot \ {p} : pc'[x] = pc[x]
      BY <2>3 DEF YieldReturn
    <3>2. \A x \in Slot : pc[x] = "copy" => np[x] # p
      BY <2>3 DEF YieldReturn
    <3> QED BY <2>3, <3>1, <3>2 DEF YieldReturn
  <2> QED BY <1>5, <2>1, <2>2, <2>3 DEF Switch
<1>6. ASSUME NEW c \in Cpu, NEW p \in Slot, ForkStep(c, p) PROVE HoldsChild'
  BY <1>6 DEF ForkStep, AllocSkip, AllocTake, AllocPanic, AllocFull, ForkCopy,
      ForkFail, ForkLink, ForkReady
<1>7. ASSUME NEW c \in Cpu, NEW p \in Slot, ExitStep(c, p) PROVE HoldsChild'
  BY <1>7 DEF ExitStep, ExitLock, ReparentSkip, ReparentChild, ReparentDone,
      WakeupStep, WakeupInitDone, WakeupParentDone, ExitZombie, WakeChan
<1>8. ASSUME NEW c \in Cpu, NEW p \in Slot, WaitStep(c, p) PROVE HoldsChild'
  BY <1>8 DEF WaitStep, WaitLock, WaitSkip, WaitLiveChild, WaitReap,
      WaitPanic, WaitFault, WaitNoKids, WaitSleep, SleepLock, SleepMark,
      SleepReturn
<1> HIDE DEF IInv, At, Goto
<1> QED
  BY <1>1, <1>2, <1>3, <1>4, <1>5, <1>6, <1>7, <1>8 DEF Next, Kernel, Halt

(***************************************************************************)
(* A thread at a WaitLabel keeps wait_lock.                                *)
(***************************************************************************)
LEMMA HoldsWaitNext == IInv /\ [Next]_vars => HoldsWait'
<1> SUFFICES ASSUME IInv, [Next]_vars PROVE HoldsWait'
  OBVIOUS
<1> USE SlotFacts, ProcAssumption DEF IInv, TypeOK, CpuInv, OneCpuPerProc,
    OnCpuOK, OffCpuOK, OnCpu, OffCpu, LockInv, HoldsOwn, HoldsChild,
    HoldsWait, SlockHeldBy, WlockHeldBy, ForkInv, ForkChild, ForkUnique, Lab,
    Forking, FreeLabels, WaitLabels, SwtchLabels, OwnLabels, HaltLabels, At,
    Goto
<1>1. CASE UNCHANGED vars
  BY <1>1 DEF vars
<1>2. ASSUME NEW c \in Cpu, Scheduler(c) PROVE HoldsWait'
  BY <1>2 DEF Scheduler, SchedulerSkip, SchedulerRun
<1>3. ASSUME NEW c \in Cpu, NEW p \in Slot, UserCall(c, p) PROVE HoldsWait'
  BY <1>3 DEF UserCall, ForkCall, ExitCall, WaitCall, OutputHangs
<1>4. ASSUME NEW c \in Cpu, NEW p \in Slot, Yield(c, p) PROVE HoldsWait'
  BY <1>4 DEF Yield
<1>5. ASSUME NEW c \in Cpu, NEW p \in Slot, Switch(c, p) PROVE HoldsWait'
  <2>1. CASE SwitchOut(c, p)
    BY <2>1 DEF SwitchOut
  <2>2. CASE ForkRet(c, p)
    BY <2>2 DEF ForkRet
  <2>3. CASE YieldReturn(c, p)
    BY <2>3 DEF YieldReturn
  <2> QED BY <1>5, <2>1, <2>2, <2>3 DEF Switch
<1>6. ASSUME NEW c \in Cpu, NEW p \in Slot, ForkStep(c, p) PROVE HoldsWait'
  BY <1>6 DEF ForkStep, AllocSkip, AllocTake, AllocPanic, AllocFull, ForkCopy,
      ForkFail, ForkLink, ForkReady
<1>7. ASSUME NEW c \in Cpu, NEW p \in Slot, ExitStep(c, p) PROVE HoldsWait'
  BY <1>7 DEF ExitStep, ExitLock, ReparentSkip, ReparentChild, ReparentDone,
      WakeupStep, WakeupInitDone, WakeupParentDone, ExitZombie, WakeChan
<1>8. ASSUME NEW c \in Cpu, NEW p \in Slot, WaitStep(c, p) PROVE HoldsWait'
  BY <1>8 DEF WaitStep, WaitLock, WaitSkip, WaitLiveChild, WaitReap,
      WaitPanic, WaitFault, WaitNoKids, WaitSleep, SleepLock, SleepMark,
      SleepReturn
<1> HIDE DEF IInv, At, Goto
<1> QED
  BY <1>1, <1>2, <1>3, <1>4, <1>5, <1>6, <1>7, <1>8 DEF Next, Kernel, Halt

(***************************************************************************)
(* A held slock belongs to a thread at a label that says so.               *)
(***************************************************************************)
LEMMA SlockHeldByNext == IInv /\ [Next]_vars => SlockHeldBy'
<1> SUFFICES ASSUME IInv, [Next]_vars PROVE SlockHeldBy'
  OBVIOUS
<1> USE SlotFacts, ProcAssumption DEF IInv, TypeOK, CpuInv, OneCpuPerProc,
    OnCpuOK, OffCpuOK, OnCpu, OffCpu, LockInv, HoldsOwn, HoldsChild,
    HoldsWait, SlockHeldBy, WlockHeldBy, ForkInv, ForkChild, ForkUnique, Lab,
    Forking, FreeLabels, WaitLabels, SwtchLabels, OwnLabels, HaltLabels, At,
    Goto
<1>1. CASE UNCHANGED vars
  BY <1>1 DEF vars
<1>2. ASSUME NEW c \in Cpu, Scheduler(c) PROVE SlockHeldBy'
  <2>1. CASE SchedulerSkip(c)
    BY <2>1 DEF SchedulerSkip
  <2>2. CASE SchedulerRun(c)
    BY <2>2 DEF SchedulerRun
  <2> QED BY <1>2, <2>1, <2>2 DEF Scheduler
<1>3. ASSUME NEW c \in Cpu, NEW p \in Slot, UserCall(c, p) PROVE SlockHeldBy'
  BY <1>3 DEF UserCall, ForkCall, ExitCall, WaitCall, OutputHangs
<1>4. ASSUME NEW c \in Cpu, NEW p \in Slot, Yield(c, p) PROVE SlockHeldBy'
  BY <1>4 DEF Yield
<1>5. ASSUME NEW c \in Cpu, NEW p \in Slot, Switch(c, p) PROVE SlockHeldBy'
  BY <1>5 DEF Switch, SwitchOut, ForkRet, YieldReturn
<1>6. ASSUME NEW c \in Cpu, NEW p \in Slot, ForkStep(c, p) PROVE SlockHeldBy'
  BY <1>6 DEF ForkStep, AllocSkip, AllocTake, AllocPanic, AllocFull, ForkCopy,
      ForkFail, ForkLink, ForkReady
<1>7. ASSUME NEW c \in Cpu, NEW p \in Slot, ExitStep(c, p) PROVE SlockHeldBy'
  BY <1>7 DEF ExitStep, ExitLock, ReparentSkip, ReparentChild, ReparentDone,
      WakeupStep, WakeupInitDone, WakeupParentDone, ExitZombie, WakeChan
<1>8. ASSUME NEW c \in Cpu, NEW p \in Slot, WaitStep(c, p) PROVE SlockHeldBy'
  BY <1>8 DEF WaitStep, WaitLock, WaitSkip, WaitLiveChild, WaitReap,
      WaitPanic, WaitFault, WaitNoKids, WaitSleep, SleepLock, SleepMark,
      SleepReturn
<1> HIDE DEF IInv, At, Goto
<1> QED
  BY <1>1, <1>2, <1>3, <1>4, <1>5, <1>6, <1>7, <1>8 DEF Next, Kernel, Halt

(***************************************************************************)
(* A held wait_lock belongs to a thread at a WaitLabel.                    *)
(***************************************************************************)
LEMMA WlockHeldByNext == IInv /\ [Next]_vars => WlockHeldBy'
<1> SUFFICES ASSUME IInv, [Next]_vars PROVE WlockHeldBy'
  OBVIOUS
<1> USE SlotFacts, ProcAssumption DEF IInv, TypeOK, CpuInv, OneCpuPerProc,
    OnCpuOK, OffCpuOK, OnCpu, OffCpu, LockInv, HoldsOwn, HoldsChild,
    HoldsWait, SlockHeldBy, WlockHeldBy, ForkInv, ForkChild, ForkUnique, Lab,
    Forking, FreeLabels, WaitLabels, SwtchLabels, OwnLabels, HaltLabels, At,
    Goto
<1>1. CASE UNCHANGED vars
  BY <1>1 DEF vars
<1>2. ASSUME NEW c \in Cpu, Scheduler(c) PROVE WlockHeldBy'
  BY <1>2 DEF Scheduler, SchedulerSkip, SchedulerRun
<1>3. ASSUME NEW c \in Cpu, NEW p \in Slot, UserCall(c, p) PROVE WlockHeldBy'
  BY <1>3 DEF UserCall, ForkCall, ExitCall, WaitCall, OutputHangs
<1>4. ASSUME NEW c \in Cpu, NEW p \in Slot, Yield(c, p) PROVE WlockHeldBy'
  BY <1>4 DEF Yield
<1>5. ASSUME NEW c \in Cpu, NEW p \in Slot, Switch(c, p) PROVE WlockHeldBy'
  BY <1>5 DEF Switch, SwitchOut, ForkRet, YieldReturn
<1>6. ASSUME NEW c \in Cpu, NEW p \in Slot, ForkStep(c, p) PROVE WlockHeldBy'
  BY <1>6 DEF ForkStep, AllocSkip, AllocTake, AllocPanic, AllocFull, ForkCopy,
      ForkFail, ForkLink, ForkReady
<1>7. ASSUME NEW c \in Cpu, NEW p \in Slot, ExitStep(c, p) PROVE WlockHeldBy'
  BY <1>7 DEF ExitStep, ExitLock, ReparentSkip, ReparentChild, ReparentDone,
      WakeupStep, WakeupInitDone, WakeupParentDone, ExitZombie, WakeChan
<1>8. ASSUME NEW c \in Cpu, NEW p \in Slot, WaitStep(c, p) PROVE WlockHeldBy'
  BY <1>8 DEF WaitStep, WaitLock, WaitSkip, WaitLiveChild, WaitReap,
      WaitPanic, WaitFault, WaitNoKids, WaitSleep, SleepLock, SleepMark,
      SleepReturn
<1> HIDE DEF IInv, At, Goto
<1> QED
  BY <1>1, <1>2, <1>3, <1>4, <1>5, <1>6, <1>7, <1>8 DEF Next, Kernel, Halt

-----------------------------------------------------------------------------
(***************************************************************************)
(* The child of a fork() in progress stays USED, and linked once linked.   *)
(***************************************************************************)
LEMMA ForkChildNext == IInv /\ [Next]_vars => ForkChild'
<1> SUFFICES ASSUME IInv, [Next]_vars PROVE ForkChild'
  OBVIOUS
<1> USE SlotFacts, ProcAssumption DEF IInv, TypeOK, CpuInv, OneCpuPerProc,
    OnCpuOK, OffCpuOK, OnCpu, OffCpu, ForkInv, ForkChild, ForkUnique, Lab,
    Forking, TreeInv, NoOrphan, FreeUnlinked, FreeLabels, WaitLabels,
    SwtchLabels, OwnLabels, HaltLabels, At, Goto
<1>1. CASE UNCHANGED vars
  BY <1>1 DEF vars
<1>2. ASSUME NEW c \in Cpu, Scheduler(c) PROVE ForkChild'
  BY <1>2 DEF Scheduler, SchedulerSkip, SchedulerRun
<1>3. ASSUME NEW c \in Cpu, NEW p \in Slot, UserCall(c, p) PROVE ForkChild'
  BY <1>3 DEF UserCall, ForkCall, ExitCall, WaitCall, OutputHangs
<1>4. ASSUME NEW c \in Cpu, NEW p \in Slot, Yield(c, p) PROVE ForkChild'
  BY <1>4 DEF Yield
<1>5. ASSUME NEW c \in Cpu, NEW p \in Slot, Switch(c, p) PROVE ForkChild'
  <2>1. CASE SwitchOut(c, p)
    BY <2>1 DEF SwitchOut
  <2>2. CASE ForkRet(c, p)
    BY <2>2 DEF ForkRet
  <2>3. CASE YieldReturn(c, p)
    BY <2>3 DEF YieldReturn
  <2> QED BY <1>5, <2>1, <2>2, <2>3 DEF Switch
<1>6. ASSUME NEW c \in Cpu, NEW p \in Slot, ForkStep(c, p) PROVE ForkChild'
  BY <1>6 DEF ForkStep, AllocSkip, AllocTake, AllocPanic, AllocFull, ForkCopy,
      ForkFail, ForkLink, ForkReady
<1>7. ASSUME NEW c \in Cpu, NEW p \in Slot, ExitStep(c, p) PROVE ForkChild'
  BY <1>7 DEF ExitStep, ExitLock, ReparentSkip, ReparentChild, ReparentDone,
      WakeupStep, WakeupInitDone, WakeupParentDone, ExitZombie, WakeChan
<1>8. ASSUME NEW c \in Cpu, NEW p \in Slot, WaitStep(c, p) PROVE ForkChild'
  BY <1>8 DEF WaitStep, WaitLock, WaitSkip, WaitLiveChild, WaitReap,
      WaitPanic, WaitFault, WaitNoKids, WaitSleep, SleepLock, SleepMark,
      SleepReturn
<1> HIDE DEF IInv, At, Goto
<1> QED
  BY <1>1, <1>2, <1>3, <1>4, <1>5, <1>6, <1>7, <1>8 DEF Next, Kernel, Halt

(***************************************************************************)
(* Two forks never work on the same child.                                 *)
(***************************************************************************)
LEMMA ForkUniqueNext == IInv /\ [Next]_vars => ForkUnique'
<1> SUFFICES ASSUME IInv, [Next]_vars PROVE ForkUnique'
  OBVIOUS
<1> USE SlotFacts, ProcAssumption DEF IInv, TypeOK, CpuInv, OneCpuPerProc,
    OnCpuOK, OffCpuOK, OnCpu, OffCpu, ForkInv, ForkChild, ForkUnique, Lab,
    Forking, FreeLabels, WaitLabels, SwtchLabels, OwnLabels, HaltLabels, At,
    Goto
<1>1. CASE UNCHANGED vars
  BY <1>1 DEF vars
<1>2. ASSUME NEW c \in Cpu, Scheduler(c) PROVE ForkUnique'
  BY <1>2 DEF Scheduler, SchedulerSkip, SchedulerRun
<1>3. ASSUME NEW c \in Cpu, NEW p \in Slot, UserCall(c, p) PROVE ForkUnique'
  BY <1>3 DEF UserCall, ForkCall, ExitCall, WaitCall, OutputHangs
<1>4. ASSUME NEW c \in Cpu, NEW p \in Slot, Yield(c, p) PROVE ForkUnique'
  BY <1>4 DEF Yield
<1>5. ASSUME NEW c \in Cpu, NEW p \in Slot, Switch(c, p) PROVE ForkUnique'
  BY <1>5 DEF Switch, SwitchOut, ForkRet, YieldReturn
<1>6. ASSUME NEW c \in Cpu, NEW p \in Slot, ForkStep(c, p) PROVE ForkUnique'
  BY <1>6 DEF ForkStep, AllocSkip, AllocTake, AllocPanic, AllocFull, ForkCopy,
      ForkFail, ForkLink, ForkReady
<1>7. ASSUME NEW c \in Cpu, NEW p \in Slot, ExitStep(c, p) PROVE ForkUnique'
  BY <1>7 DEF ExitStep, ExitLock, ReparentSkip, ReparentChild, ReparentDone,
      WakeupStep, WakeupInitDone, WakeupParentDone, ExitZombie, WakeChan
<1>8. ASSUME NEW c \in Cpu, NEW p \in Slot, WaitStep(c, p) PROVE ForkUnique'
  BY <1>8 DEF WaitStep, WaitLock, WaitSkip, WaitLiveChild, WaitReap,
      WaitPanic, WaitFault, WaitNoKids, WaitSleep, SleepLock, SleepMark,
      SleepReturn
<1> HIDE DEF IInv, At, Goto
<1> QED
  BY <1>1, <1>2, <1>3, <1>4, <1>5, <1>6, <1>7, <1>8 DEF Next, Kernel, Halt

(***************************************************************************)
(* The thread of an UNUSED slot is not in the kernel.                      *)
(***************************************************************************)
LEMMA UnusedOff ==
  CpuInv => \A q \in Slot :
    state[q] = "UNUSED" => pc[q] \in {"none", "forkret", "exiting"}
<1> SUFFICES ASSUME CpuInv, NEW q \in Slot, state[q] = "UNUSED"
             PROVE  pc[q] \in {"none", "forkret", "exiting"}
  OBVIOUS
<1>1. ~ OnCpu(q)
  BY DEF OnCpu
<1>2. OffCpu(q)
  BY <1>1, SlotFacts DEF CpuInv, OnCpuOK, OffCpuOK
<1> QED
  BY <1>2 DEF OffCpu

(***************************************************************************)
(* A USED slot always belongs to a fork() in progress, or to one whose     *)
(* allocproc() has panicked.                                               *)
(***************************************************************************)
LEMMA ForkOwnerNext == IInv /\ [Next]_vars => ForkOwner'
<1> SUFFICES ASSUME IInv, [Next]_vars PROVE ForkOwner'
  OBVIOUS
<1> USE SlotFacts, ProcAssumption DEF IInv, TypeOK, ForkOwner, ForkInv,
    ForkChild, ForkUnique, Lab, Forking, FreeLabels, WaitLabels, SwtchLabels,
    OwnLabels, HaltLabels, At, Goto
<1>1. CASE UNCHANGED vars
  BY <1>1 DEF vars
<1>2. ASSUME NEW c \in Cpu, Scheduler(c) PROVE ForkOwner'
  BY <1>2 DEF Scheduler, SchedulerSkip, SchedulerRun
<1>3. ASSUME NEW c \in Cpu, NEW p \in Slot, UserCall(c, p) PROVE ForkOwner'
  BY <1>3 DEF UserCall, ForkCall, ExitCall, WaitCall, OutputHangs
<1>4. ASSUME NEW c \in Cpu, NEW p \in Slot, Yield(c, p) PROVE ForkOwner'
  BY <1>4 DEF Yield
<1>5. ASSUME NEW c \in Cpu, NEW p \in Slot, Switch(c, p) PROVE ForkOwner'
  BY <1>5 DEF Switch, SwitchOut, ForkRet, YieldReturn
<1>6. ASSUME NEW c \in Cpu, NEW p \in Slot, ForkStep(c, p) PROVE ForkOwner'
  <2>1. CASE AllocSkip(c, p)
    BY <2>1 DEF AllocSkip
  <2>2. CASE AllocTake(c, p)
    <3>1. Forking(p)' /\ np'[p] = idx[p] /\ ~ Forking(p)
      BY <2>2 DEF AllocTake
    <3>2. \A r \in Slot \ {p, idx[p]} :
            Forking(r)' = Forking(r) /\ np'[r] = np[r]
      BY <2>2 DEF AllocTake
    <3>3. ~ Forking(idx[p]) /\ pc[idx[p]] # "oom"
      <4>1. pc[idx[p]] \in {"none", "forkret", "exiting"}
        BY <2>2, UnusedOff DEF AllocTake
      <4> QED BY <4>1
    <3>3a. \A r \in Slot : pc[r] = "oom" => pc'[r] = "oom" /\ idx'[r] = idx[r]
      BY <2>2, <3>3 DEF AllocTake
    <3>4. \A q \in Slot \ {idx[p]} : state'[q] = "USED" => state[q] = "USED"
      BY <2>2 DEF AllocTake
    <3> HIDE DEF Forking
    <3> QED BY <2>2, <3>1, <3>2, <3>3, <3>3a, <3>4 DEF AllocTake
  <2>2a. CASE AllocPanic(c, p)
    <3>1. pc'[p] = "oom" /\ idx'[p] = idx[p] /\ pc[p] # "oom" /\ ~ Forking(p)
      BY <2>2a DEF AllocPanic
    <3>2. \A q \in Slot \ {idx[p]} : state'[q] = "USED" => state[q] = "USED"
      BY <2>2a DEF AllocPanic
    <3>3. \A t \in Slot \ {p} :
            Forking(t)' = Forking(t) /\ np'[t] = np[t] /\ pc'[t] = pc[t]
      BY <2>2a DEF AllocPanic
    <3> HIDE DEF Forking
    <3> QED BY <2>2a, <3>1, <3>2, <3>3 DEF AllocPanic
  <2>3. CASE AllocFull(c, p)
    BY <2>3 DEF AllocFull
  <2>4. CASE ForkCopy(c, p)
    BY <2>4 DEF ForkCopy
  <2>5. CASE ForkFail(c, p)
    BY <2>5 DEF ForkFail
  <2>6. CASE ForkLink(c, p)
    BY <2>6 DEF ForkLink
  <2>7. CASE ForkReady(c, p)
    BY <2>7 DEF ForkReady
  <2> QED BY <1>6, <2>1, <2>2, <2>2a, <2>3, <2>4, <2>5, <2>6, <2>7
    DEF ForkStep
<1>7. ASSUME NEW c \in Cpu, NEW p \in Slot, ExitStep(c, p) PROVE ForkOwner'
  BY <1>7 DEF ExitStep, ExitLock, ReparentSkip, ReparentChild, ReparentDone,
      WakeupStep, WakeupInitDone, WakeupParentDone, ExitZombie, WakeChan
<1>8. ASSUME NEW c \in Cpu, NEW p \in Slot, WaitStep(c, p) PROVE ForkOwner'
  BY <1>8 DEF WaitStep, WaitLock, WaitSkip, WaitLiveChild, WaitReap,
      WaitPanic, WaitFault, WaitNoKids, WaitSleep, SleepLock, SleepMark,
      SleepReturn
<1> HIDE DEF IInv, At, Goto
<1> QED
  BY <1>1, <1>2, <1>3, <1>4, <1>5, <1>6, <1>7, <1>8 DEF Next, Kernel, Halt

-----------------------------------------------------------------------------
(***************************************************************************)
(* No parent disappears before its children have been handed to init.      *)
(***************************************************************************)
LEMMA NoOrphanNext == IInv /\ [Next]_vars => NoOrphan'
<1> SUFFICES ASSUME IInv, [Next]_vars PROVE NoOrphan'
  OBVIOUS
<1> USE SlotFacts, ProcAssumption DEF IInv, TypeOK, CpuInv, OneCpuPerProc,
    OnCpuOK, OffCpuOK, OnCpu, OffCpu, ForkInv, ForkChild, ForkUnique, Lab,
    Forking, TreeInv, NoOrphan, InitLives, FreeUnlinked, ExitNotInit,
    ExitLabels, HandedOver, FreeLabels, WaitLabels, SwtchLabels, OwnLabels,
    HaltLabels, At, Goto
<1>1. CASE UNCHANGED vars
  BY <1>1 DEF vars
<1>2. ASSUME NEW c \in Cpu, Scheduler(c) PROVE NoOrphan'
  BY <1>2 DEF Scheduler, SchedulerSkip, SchedulerRun
<1>3. ASSUME NEW c \in Cpu, NEW p \in Slot, UserCall(c, p) PROVE NoOrphan'
  BY <1>3 DEF UserCall, ForkCall, ExitCall, WaitCall, OutputHangs
<1>4. ASSUME NEW c \in Cpu, NEW p \in Slot, Yield(c, p) PROVE NoOrphan'
  BY <1>4 DEF Yield
<1>5. ASSUME NEW c \in Cpu, NEW p \in Slot, Switch(c, p) PROVE NoOrphan'
  BY <1>5 DEF Switch, SwitchOut, ForkRet, YieldReturn
<1>6. ASSUME NEW c \in Cpu, NEW p \in Slot, ForkStep(c, p) PROVE NoOrphan'
  <2>1. CASE AllocSkip(c, p)
    BY <2>1 DEF AllocSkip
  <2>2. CASE AllocTake(c, p)
    BY <2>2 DEF AllocTake
  <2>2a. CASE AllocPanic(c, p)
    BY <2>2a DEF AllocPanic
  <2>3. CASE AllocFull(c, p)
    BY <2>3 DEF AllocFull
  <2>4. CASE ForkCopy(c, p)
    BY <2>4 DEF ForkCopy
  <2>5. CASE ForkFail(c, p)
    BY <2>5 DEF ForkFail
  <2>6. CASE ForkLink(c, p)
    BY <2>6 DEF ForkLink
  <2>7. CASE ForkReady(c, p)
    BY <2>7 DEF ForkReady
  <2> QED BY <1>6, <2>1, <2>2, <2>2a, <2>3, <2>4, <2>5, <2>6, <2>7
    DEF ForkStep
<1>7. ASSUME NEW c \in Cpu, NEW p \in Slot, ExitStep(c, p) PROVE NoOrphan'
  BY <1>7 DEF ExitStep, ExitLock, ReparentSkip, ReparentChild, ReparentDone,
      WakeupStep, WakeupInitDone, WakeupParentDone, ExitZombie, WakeChan
<1>8. ASSUME NEW c \in Cpu, NEW p \in Slot, WaitStep(c, p) PROVE NoOrphan'
  <2>1. CASE WaitReap(c, p)
    BY <2>1 DEF WaitReap
  <2>2. CASE SleepMark(c, p)
    BY <2>2 DEF SleepMark
  <2>3. CASE ~ WaitReap(c, p) /\ ~ SleepMark(c, p)
    BY <1>8, <2>3 DEF WaitStep, WaitLock, WaitSkip, WaitLiveChild, WaitPanic,
        WaitFault, WaitNoKids, WaitSleep, SleepLock, SleepReturn
  <2> QED BY <2>1, <2>2, <2>3
<1> HIDE DEF IInv, At, Goto
<1> QED
  BY <1>1, <1>2, <1>3, <1>4, <1>5, <1>6, <1>7, <1>8 DEF Next, Kernel, Halt

(***************************************************************************)
(* init never dies and never gets a parent.                                *)
(***************************************************************************)
LEMMA InitLivesNext == IInv /\ [Next]_vars => InitLives'
<1> SUFFICES ASSUME IInv, [Next]_vars PROVE InitLives'
  OBVIOUS
<1> USE SlotFacts, ProcAssumption DEF IInv, TypeOK, CpuInv, OneCpuPerProc,
    OnCpuOK, OffCpuOK, OnCpu, OffCpu, ForkInv, ForkChild, ForkUnique, Lab,
    Forking, TreeInv, NoOrphan, InitLives, FreeUnlinked, ExitNotInit,
    ExitLabels, HandedOver, FreeLabels, WaitLabels, SwtchLabels, OwnLabels,
    HaltLabels, At, Goto
<1>1. CASE UNCHANGED vars
  BY <1>1 DEF vars
<1>2. ASSUME NEW c \in Cpu, Scheduler(c) PROVE InitLives'
  BY <1>2 DEF Scheduler, SchedulerSkip, SchedulerRun
<1>3. ASSUME NEW c \in Cpu, NEW p \in Slot, UserCall(c, p) PROVE InitLives'
  BY <1>3 DEF UserCall, ForkCall, ExitCall, WaitCall, OutputHangs
<1>4. ASSUME NEW c \in Cpu, NEW p \in Slot, Yield(c, p) PROVE InitLives'
  BY <1>4 DEF Yield
<1>5. ASSUME NEW c \in Cpu, NEW p \in Slot, Switch(c, p) PROVE InitLives'
  BY <1>5 DEF Switch, SwitchOut, ForkRet, YieldReturn
<1>6. ASSUME NEW c \in Cpu, NEW p \in Slot, ForkStep(c, p) PROVE InitLives'
  BY <1>6 DEF ForkStep, AllocSkip, AllocTake, AllocPanic, AllocFull, ForkCopy,
      ForkFail, ForkLink, ForkReady
<1>7. ASSUME NEW c \in Cpu, NEW p \in Slot, ExitStep(c, p) PROVE InitLives'
  BY <1>7 DEF ExitStep, ExitLock, ReparentSkip, ReparentChild, ReparentDone,
      WakeupStep, WakeupInitDone, WakeupParentDone, ExitZombie, WakeChan
<1>8. ASSUME NEW c \in Cpu, NEW p \in Slot, WaitStep(c, p) PROVE InitLives'
  BY <1>8 DEF WaitStep, WaitLock, WaitSkip, WaitLiveChild, WaitReap,
      WaitPanic, WaitFault, WaitNoKids, WaitSleep, SleepLock, SleepMark,
      SleepReturn
<1> HIDE DEF IInv, At, Goto
<1> QED
  BY <1>1, <1>2, <1>3, <1>4, <1>5, <1>6, <1>7, <1>8 DEF Next, Kernel, Halt

(***************************************************************************)
(* A free slot has no parent.                                              *)
(***************************************************************************)
LEMMA FreeUnlinkedNext == IInv /\ [Next]_vars => FreeUnlinked'
<1> SUFFICES ASSUME IInv, [Next]_vars PROVE FreeUnlinked'
  OBVIOUS
<1> USE SlotFacts, ProcAssumption DEF IInv, TypeOK, CpuInv, OneCpuPerProc,
    OnCpuOK, OffCpuOK, OnCpu, OffCpu, ForkInv, ForkChild, ForkUnique, Lab,
    Forking, TreeInv, NoOrphan, InitLives, FreeUnlinked, ExitNotInit,
    ExitLabels, HandedOver, FreeLabels, WaitLabels, SwtchLabels, OwnLabels,
    HaltLabels, At, Goto
<1>1. CASE UNCHANGED vars
  BY <1>1 DEF vars
<1>2. ASSUME NEW c \in Cpu, Scheduler(c) PROVE FreeUnlinked'
  BY <1>2 DEF Scheduler, SchedulerSkip, SchedulerRun
<1>3. ASSUME NEW c \in Cpu, NEW p \in Slot, UserCall(c, p) PROVE FreeUnlinked'
  BY <1>3 DEF UserCall, ForkCall, ExitCall, WaitCall, OutputHangs
<1>4. ASSUME NEW c \in Cpu, NEW p \in Slot, Yield(c, p) PROVE FreeUnlinked'
  BY <1>4 DEF Yield
<1>5. ASSUME NEW c \in Cpu, NEW p \in Slot, Switch(c, p) PROVE FreeUnlinked'
  BY <1>5 DEF Switch, SwitchOut, ForkRet, YieldReturn
<1>6. ASSUME NEW c \in Cpu, NEW p \in Slot, ForkStep(c, p) PROVE FreeUnlinked'
  BY <1>6 DEF ForkStep, AllocSkip, AllocTake, AllocPanic, AllocFull, ForkCopy,
      ForkFail, ForkLink, ForkReady
<1>7. ASSUME NEW c \in Cpu, NEW p \in Slot, ExitStep(c, p) PROVE FreeUnlinked'
  BY <1>7 DEF ExitStep, ExitLock, ReparentSkip, ReparentChild, ReparentDone,
      WakeupStep, WakeupInitDone, WakeupParentDone, ExitZombie, WakeChan
<1>8. ASSUME NEW c \in Cpu, NEW p \in Slot, WaitStep(c, p) PROVE FreeUnlinked'
  BY <1>8 DEF WaitStep, WaitLock, WaitSkip, WaitLiveChild, WaitReap,
      WaitPanic, WaitFault, WaitNoKids, WaitSleep, SleepLock, SleepMark,
      SleepReturn
<1> HIDE DEF IInv, At, Goto
<1> QED
  BY <1>1, <1>2, <1>3, <1>4, <1>5, <1>6, <1>7, <1>8 DEF Next, Kernel, Halt

(***************************************************************************)
(* init never gets past the panic in exit().                               *)
(***************************************************************************)
LEMMA ExitNotInitNext == IInv /\ [Next]_vars => ExitNotInit'
<1> SUFFICES ASSUME IInv, [Next]_vars PROVE ExitNotInit'
  OBVIOUS
<1> USE SlotFacts, ProcAssumption DEF IInv, TypeOK, CpuInv, OneCpuPerProc,
    OnCpuOK, OffCpuOK, OnCpu, OffCpu, ForkInv, ForkChild, ForkUnique, Lab,
    Forking, TreeInv, NoOrphan, InitLives, FreeUnlinked, ExitNotInit,
    ExitLabels, HandedOver, FreeLabels, WaitLabels, SwtchLabels, OwnLabels,
    HaltLabels, At, Goto
<1>1. CASE UNCHANGED vars
  BY <1>1 DEF vars
<1>2. ASSUME NEW c \in Cpu, Scheduler(c) PROVE ExitNotInit'
  BY <1>2 DEF Scheduler, SchedulerSkip, SchedulerRun
<1>3. ASSUME NEW c \in Cpu, NEW p \in Slot, UserCall(c, p) PROVE ExitNotInit'
  BY <1>3 DEF UserCall, ForkCall, ExitCall, WaitCall, OutputHangs
<1>4. ASSUME NEW c \in Cpu, NEW p \in Slot, Yield(c, p) PROVE ExitNotInit'
  BY <1>4 DEF Yield
<1>5. ASSUME NEW c \in Cpu, NEW p \in Slot, Switch(c, p) PROVE ExitNotInit'
  BY <1>5 DEF Switch, SwitchOut, ForkRet, YieldReturn
<1>6. ASSUME NEW c \in Cpu, NEW p \in Slot, ForkStep(c, p) PROVE ExitNotInit'
  BY <1>6 DEF ForkStep, AllocSkip, AllocTake, AllocPanic, AllocFull, ForkCopy,
      ForkFail, ForkLink, ForkReady
<1>7. ASSUME NEW c \in Cpu, NEW p \in Slot, ExitStep(c, p) PROVE ExitNotInit'
  BY <1>7 DEF ExitStep, ExitLock, ReparentSkip, ReparentChild, ReparentDone,
      WakeupStep, WakeupInitDone, WakeupParentDone, ExitZombie, WakeChan
<1>8. ASSUME NEW c \in Cpu, NEW p \in Slot, WaitStep(c, p) PROVE ExitNotInit'
  BY <1>8 DEF WaitStep, WaitLock, WaitSkip, WaitLiveChild, WaitReap,
      WaitPanic, WaitFault, WaitNoKids, WaitSleep, SleepLock, SleepMark,
      SleepReturn
<1> HIDE DEF IInv, At, Goto
<1> QED
  BY <1>1, <1>2, <1>3, <1>4, <1>5, <1>6, <1>7, <1>8 DEF Next, Kernel, Halt

(***************************************************************************)
(* While exit() holds wait_lock no slot that reparent() has passed becomes *)
(* a child again.                                                          *)
(***************************************************************************)
LEMMA HandedOverNext == IInv /\ [Next]_vars => HandedOver'
<1> SUFFICES ASSUME IInv, [Next]_vars PROVE HandedOver'
  OBVIOUS
<1> USE SlotFacts, IndexFacts, ProcAssumption DEF IInv, LockInv, HoldsWait,
    WlockHeldBy, TypeOK, CpuInv, OneCpuPerProc, OnCpuOK, OffCpuOK, OnCpu,
    OffCpu, ForkInv, ForkChild, ForkUnique, Lab, Forking, TreeInv, NoOrphan,
    InitLives, FreeUnlinked, ExitNotInit, ExitLabels, HandedOver, FreeLabels,
    WaitLabels, SwtchLabels, OwnLabels, HaltLabels, At, Goto
<1>1. CASE UNCHANGED vars
  BY <1>1 DEF vars
<1>2. ASSUME NEW c \in Cpu, Scheduler(c) PROVE HandedOver'
  BY <1>2 DEF Scheduler, SchedulerSkip, SchedulerRun
<1>3. ASSUME NEW c \in Cpu, NEW p \in Slot, UserCall(c, p) PROVE HandedOver'
  BY <1>3 DEF UserCall, ForkCall, ExitCall, WaitCall, OutputHangs
<1>4. ASSUME NEW c \in Cpu, NEW p \in Slot, Yield(c, p) PROVE HandedOver'
  BY <1>4 DEF Yield
<1>5. ASSUME NEW c \in Cpu, NEW p \in Slot, Switch(c, p) PROVE HandedOver'
  BY <1>5 DEF Switch, SwitchOut, ForkRet, YieldReturn
<1>6. ASSUME NEW c \in Cpu, NEW p \in Slot, ForkStep(c, p) PROVE HandedOver'
  BY <1>6 DEF ForkStep, AllocSkip, AllocTake, AllocPanic, AllocFull, ForkCopy,
      ForkFail, ForkLink, ForkReady
<1>7. ASSUME NEW c \in Cpu, NEW p \in Slot, ExitStep(c, p) PROVE HandedOver'
  BY <1>7 DEF ExitStep, ExitLock, ReparentSkip, ReparentChild, ReparentDone,
      WakeupStep, WakeupInitDone, WakeupParentDone, ExitZombie, WakeChan
<1>8. ASSUME NEW c \in Cpu, NEW p \in Slot, WaitStep(c, p) PROVE HandedOver'
  BY <1>8 DEF WaitStep, WaitLock, WaitSkip, WaitLiveChild, WaitReap,
      WaitPanic, WaitFault, WaitNoKids, WaitSleep, SleepLock, SleepMark,
      SleepReturn
<1> HIDE DEF IInv, At, Goto
<1> QED
  BY <1>1, <1>2, <1>3, <1>4, <1>5, <1>6, <1>7, <1>8 DEF Next, Kernel, Halt

-----------------------------------------------------------------------------
(***************************************************************************)
(* A process asleep in wait() sleeps on itself.                            *)
(***************************************************************************)
LEMMA SleepChanNext == IInv /\ [Next]_vars => SleepChan'
<1> SUFFICES ASSUME IInv, [Next]_vars PROVE SleepChan'
  OBVIOUS
<1> USE SlotFacts, ProcAssumption DEF IInv, TypeOK, CpuInv, OneCpuPerProc,
    OnCpuOK, OffCpuOK, OnCpu, OffCpu, LockInv, HoldsOwn, HoldsChild,
    HoldsWait, SlockHeldBy, WlockHeldBy, ForkInv, ForkChild, ForkUnique, Lab,
    Forking, WaitInv, SleepChan, FreeLabels, WaitLabels, SwtchLabels,
    OwnLabels, HaltLabels, At, Goto
<1>1. CASE UNCHANGED vars
  BY <1>1 DEF vars
<1>2. ASSUME NEW c \in Cpu, Scheduler(c) PROVE SleepChan'
  BY <1>2 DEF Scheduler, SchedulerSkip, SchedulerRun
<1>3. ASSUME NEW c \in Cpu, NEW p \in Slot, UserCall(c, p) PROVE SleepChan'
  BY <1>3 DEF UserCall, ForkCall, ExitCall, WaitCall, OutputHangs
<1>4. ASSUME NEW c \in Cpu, NEW p \in Slot, Yield(c, p) PROVE SleepChan'
  BY <1>4 DEF Yield
<1>5. ASSUME NEW c \in Cpu, NEW p \in Slot, Switch(c, p) PROVE SleepChan'
  BY <1>5 DEF Switch, SwitchOut, ForkRet, YieldReturn
<1>6. ASSUME NEW c \in Cpu, NEW p \in Slot, ForkStep(c, p) PROVE SleepChan'
  BY <1>6 DEF ForkStep, AllocSkip, AllocTake, AllocPanic, AllocFull, ForkCopy,
      ForkFail, ForkLink, ForkReady
<1>7. ASSUME NEW c \in Cpu, NEW p \in Slot, ExitStep(c, p) PROVE SleepChan'
  BY <1>7 DEF ExitStep, ExitLock, ReparentSkip, ReparentChild, ReparentDone,
      WakeupStep, WakeupInitDone, WakeupParentDone, ExitZombie, WakeChan
<1>8. ASSUME NEW c \in Cpu, NEW p \in Slot, WaitStep(c, p) PROVE SleepChan'
  BY <1>8 DEF WaitStep, WaitLock, WaitSkip, WaitLiveChild, WaitReap,
      WaitPanic, WaitFault, WaitNoKids, WaitSleep, SleepLock, SleepMark,
      SleepReturn
<1> HIDE DEF IInv, At, Goto
<1> QED
  BY <1>1, <1>2, <1>3, <1>4, <1>5, <1>6, <1>7, <1>8 DEF Next, Kernel, Halt

(***************************************************************************)
(* From the scan of wait() until the process is woken, no child that was   *)
(* seen alive becomes a ZOMBIE unnoticed.                                  *)
(***************************************************************************)
LEMMA NoZombieChildNext == IInv /\ [Next]_vars => NoZombieChild'
<1> SUFFICES ASSUME IInv, [Next]_vars PROVE NoZombieChild'
  OBVIOUS
<1> USE SlotFacts, IndexFacts, ProcAssumption DEF IInv, TypeOK, CpuInv,
    OneCpuPerProc, OnCpuOK, OffCpuOK, OnCpu, OffCpu, LockInv, HoldsOwn,
    HoldsChild, HoldsWait, SlockHeldBy, WlockHeldBy, ForkInv, ForkChild,
    ForkUnique, Lab, Forking, WaitInv, SleepChan, NoZombieChild, ParentAwake,
    Waiting, InitWakePending, TreeInv, NoOrphan, ExitNotInit, FreeLabels,
    WaitLabels, SwtchLabels, OwnLabels, HaltLabels, At, Goto
<1>1. CASE UNCHANGED vars
  BY <1>1 DEF vars
<1>2. ASSUME NEW c \in Cpu, Scheduler(c) PROVE NoZombieChild'
  BY <1>2 DEF Scheduler, SchedulerSkip, SchedulerRun
<1>3. ASSUME NEW c \in Cpu, NEW p \in Slot, UserCall(c, p) PROVE NoZombieChild'
  BY <1>3 DEF UserCall, ForkCall, ExitCall, WaitCall, OutputHangs
<1>4. ASSUME NEW c \in Cpu, NEW p \in Slot, Yield(c, p) PROVE NoZombieChild'
  BY <1>4 DEF Yield
<1>5. ASSUME NEW c \in Cpu, NEW p \in Slot, Switch(c, p) PROVE NoZombieChild'
  BY <1>5 DEF Switch, SwitchOut, ForkRet, YieldReturn
<1>6. ASSUME NEW c \in Cpu, NEW p \in Slot, ForkStep(c, p) PROVE NoZombieChild'
  BY <1>6 DEF ForkStep, AllocSkip, AllocTake, AllocPanic, AllocFull, ForkCopy,
      ForkFail, ForkLink, ForkReady
<1>7. ASSUME NEW c \in Cpu, NEW p \in Slot, ExitStep(c, p) PROVE NoZombieChild'
  BY <1>7 DEF ExitStep, ExitLock, ReparentSkip, ReparentChild, ReparentDone,
      WakeupStep, WakeupInitDone, WakeupParentDone, ExitZombie, WakeChan
<1>8. ASSUME NEW c \in Cpu, NEW p \in Slot, WaitStep(c, p) PROVE NoZombieChild'
  BY <1>8 DEF WaitStep, WaitLock, WaitSkip, WaitLiveChild, WaitReap,
      WaitPanic, WaitFault, WaitNoKids, WaitSleep, SleepLock, SleepMark,
      SleepReturn
<1> HIDE DEF IInv, At, Goto
<1> QED
  BY <1>1, <1>2, <1>3, <1>4, <1>5, <1>6, <1>7, <1>8 DEF Next, Kernel, Halt

(***************************************************************************)
(* The child that made wait() sleep is still its child.                    *)
(***************************************************************************)
LEMMA HasChildNext == IInv /\ [Next]_vars => HasChild'
<1> SUFFICES ASSUME IInv, [Next]_vars PROVE HasChild'
  OBVIOUS
<1> USE SlotFacts, IndexFacts, ProcAssumption DEF IInv, TypeOK, CpuInv,
    OneCpuPerProc, OnCpuOK, OffCpuOK, OnCpu, OffCpu, LockInv, HoldsOwn,
    HoldsChild, HoldsWait, SlockHeldBy, WlockHeldBy, ForkInv, ForkChild,
    ForkUnique, Lab, Forking, WaitInv, HasChild, Waiting, FreeLabels,
    WaitLabels, SwtchLabels, OwnLabels, HaltLabels, At, Goto
<1>1. CASE UNCHANGED vars
  BY <1>1 DEF vars
<1>2. ASSUME NEW c \in Cpu, Scheduler(c) PROVE HasChild'
  BY <1>2 DEF Scheduler, SchedulerSkip, SchedulerRun
<1>3. ASSUME NEW c \in Cpu, NEW p \in Slot, UserCall(c, p) PROVE HasChild'
  BY <1>3 DEF UserCall, ForkCall, ExitCall, WaitCall, OutputHangs
<1>4. ASSUME NEW c \in Cpu, NEW p \in Slot, Yield(c, p) PROVE HasChild'
  BY <1>4 DEF Yield
<1>5. ASSUME NEW c \in Cpu, NEW p \in Slot, Switch(c, p) PROVE HasChild'
  BY <1>5 DEF Switch, SwitchOut, ForkRet, YieldReturn
<1>6. ASSUME NEW c \in Cpu, NEW p \in Slot, ForkStep(c, p) PROVE HasChild'
  BY <1>6 DEF ForkStep, AllocSkip, AllocTake, AllocPanic, AllocFull, ForkCopy,
      ForkFail, ForkLink, ForkReady
<1>7. ASSUME NEW c \in Cpu, NEW p \in Slot, ExitStep(c, p) PROVE HasChild'
  BY <1>7 DEF ExitStep, ExitLock, ReparentSkip, ReparentChild, ReparentDone,
      WakeupStep, WakeupInitDone, WakeupParentDone, ExitZombie, WakeChan
<1>8. ASSUME NEW c \in Cpu, NEW p \in Slot, WaitStep(c, p) PROVE HasChild'
  BY <1>8 DEF WaitStep, WaitLock, WaitSkip, WaitLiveChild, WaitReap,
      WaitPanic, WaitFault, WaitNoKids, WaitSleep, SleepLock, SleepMark,
      SleepReturn
<1> HIDE DEF IInv, At, Goto
<1> QED
  BY <1>1, <1>2, <1>3, <1>4, <1>5, <1>6, <1>7, <1>8 DEF Next, Kernel, Halt

(***************************************************************************)
(* A thread inside exit() runs, and has a parent.                          *)
(***************************************************************************)
LEMMA ExitHasParent ==
  IInv => \A x \in Slot : pc[x] \in ExitLabels =>
            state[x] = "RUNNING" /\ parent[x] \in Slot /\ x # initp
BY SlotFacts DEF IInv, TypeOK, CpuInv, OnCpuOK, OffCpuOK, OnCpu, OffCpu,
    TreeInv, NoOrphan, ExitNotInit, ExitLabels

(***************************************************************************)
(* Threads at WaitLabels exclude each other and whoever needs wait_lock.   *)
(***************************************************************************)
LEMMA WaitExclusive ==
  IInv => \A x \in Slot : pc[x] \in WaitLabels =>
            /\ wlock # NoCpu
            /\ \A y \in Slot : pc[y] \in WaitLabels => x = y
<1> SUFFICES ASSUME IInv, NEW x \in Slot, pc[x] \in WaitLabels
             PROVE  /\ wlock # NoCpu
                    /\ \A y \in Slot : pc[y] \in WaitLabels => x = y
  OBVIOUS
<1>1. \A y \in Slot : pc[y] \in WaitLabels => \E c \in Cpu : curp[c] = y
  BY DEF IInv, CpuInv, OffCpuOK, OffCpu, WaitLabels
<1> QED
  BY <1>1, SlotFacts, ProcAssumption DEF IInv, TypeOK, LockInv, HoldsWait

(***************************************************************************)
(* A process that is falling asleep holds its slock.                       *)
(***************************************************************************)
LEMMA MarkingLocked ==
  IInv => \A x \in Slot : pc[x] = "marking" =>
            slock[x] # NoCpu /\ state[x] = "RUNNING"
BY SlotFacts, ProcAssumption DEF IInv, TypeOK, CpuInv, OnCpuOK, OffCpuOK,
    OnCpu, OffCpu, LockInv, HoldsOwn, OwnLabels

(***************************************************************************)
(* Once wakeup(p->parent) has passed the parent, the parent stays awake    *)
(* until the child is a ZOMBIE and wait_lock is free again.                *)
(***************************************************************************)
LEMMA ParentAwakeNext == IInv /\ [Next]_vars => ParentAwake'
<1> SUFFICES ASSUME IInv, [Next]_vars PROVE ParentAwake'
  OBVIOUS
<1>a. /\ TypeOK /\ SleepChan /\ ParentAwake /\ ForkChild
      /\ \A x \in Slot : pc[x] \in ExitLabels =>
           state[x] = "RUNNING" /\ parent[x] \in Slot /\ x # initp
      /\ \A x \in Slot : pc[x] \in WaitLabels => wlock # NoCpu
      /\ \A x, y \in Slot :
           pc[x] \in WaitLabels /\ pc[y] \in WaitLabels => x = y
      /\ \A x \in Slot : pc[x] = "marking" =>
           slock[x] # NoCpu /\ state[x] = "RUNNING"
  BY ExitHasParent, WaitExclusive, MarkingLocked DEF IInv, WaitInv, ForkInv
<1> SUFFICES ASSUME NEW x \in Slot,
                    \/ pc'[x] = "wakeparent" /\ parent'[x] < idx'[x]
                    \/ pc'[x] = "zombie",
                    Waiting(parent[x])'
             PROVE  FALSE
  BY DEF ParentAwake
<1> USE SlotFacts, ProcAssumption, <1>a DEF TypeOK,
    ForkChild, Forking, Lab, SleepChan, ParentAwake, Waiting, ExitLabels,
    WaitLabels, FreeLabels, At, Goto
<1>1. CASE UNCHANGED vars
  BY <1>1 DEF vars
<1>2. ASSUME NEW c \in Cpu, Scheduler(c) PROVE FALSE
  BY <1>2 DEF Scheduler, SchedulerSkip, SchedulerRun
<1>3. ASSUME NEW c \in Cpu, NEW p \in Slot, UserCall(c, p) PROVE FALSE
  BY <1>3 DEF UserCall, ForkCall, ExitCall, WaitCall, OutputHangs
<1>4. ASSUME NEW c \in Cpu, NEW p \in Slot, Yield(c, p) PROVE FALSE
  BY <1>4 DEF Yield
<1>5. ASSUME NEW c \in Cpu, NEW p \in Slot, Switch(c, p) PROVE FALSE
  BY <1>5 DEF Switch, SwitchOut, ForkRet, YieldReturn
<1>6. ASSUME NEW c \in Cpu, NEW p \in Slot, ForkStep(c, p) PROVE FALSE
  <2>1. CASE AllocSkip(c, p)
    BY <2>1 DEF AllocSkip
  <2>2. CASE AllocTake(c, p)
    BY <2>2 DEF AllocTake
  <2>2a. CASE AllocPanic(c, p)
    BY <2>2a DEF AllocPanic
  <2>3. CASE AllocFull(c, p)
    BY <2>3 DEF AllocFull
  <2>4. CASE ForkCopy(c, p)
    BY <2>4 DEF ForkCopy
  <2>5. CASE ForkFail(c, p)
    BY <2>5 DEF ForkFail
  <2>6. CASE ForkLink(c, p)
    BY <2>6 DEF ForkLink
  <2>7. CASE ForkReady(c, p)
    BY <2>7 DEF ForkReady
  <2> QED BY <1>6, <2>1, <2>2, <2>2a, <2>3, <2>4, <2>5, <2>6, <2>7
    DEF ForkStep
<1>7. ASSUME NEW c \in Cpu, NEW p \in Slot, ExitStep(c, p) PROVE FALSE
  <2>1. CASE ExitLock(c, p)
    BY <2>1 DEF ExitLock
  <2>2. CASE ReparentSkip(c, p)
    BY <2>2 DEF ReparentSkip
  <2>3. CASE ReparentChild(c, p)
    BY <2>3 DEF ReparentChild
  <2>4. CASE ReparentDone(c, p)
    <3>1. x = p /\ idx'[p] = 1 /\ parent'[x] = parent[x]
      BY <2>4 DEF ReparentDone
    <3>2. parent[p] \in Slot
      BY <2>4 DEF ReparentDone
    <3>3. ~ (parent[p] < 1)
      BY <3>2, IndexFacts
    <3> QED BY <2>4, <3>1, <3>3 DEF ReparentDone
  <2>5. CASE WakeupStep(c, p)
    <3>1. /\ x = p /\ pc[p] = "wakeparent"
          /\ parent[p] \in Slot /\ idx[p] \in Slot
      BY <2>5 DEF WakeupStep
    <3>2. parent[p] < idx[p] + 1 /\ parent'[p] = parent[p]
      BY <2>5, <3>1 DEF WakeupStep
    <3>3. parent[p] < idx[p] \/ parent[p] = idx[p]
      BY <3>1, <3>2, IndexFacts
    <3>4. CASE parent[p] < idx[p]
      BY <2>5, <3>1, <3>4 DEF WakeupStep
    <3>5. CASE parent[p] = idx[p]
      BY <2>5, <3>1, <3>5 DEF WakeupStep, WakeChan
    <3> QED BY <3>3, <3>4, <3>5
  <2>6. CASE WakeupInitDone(c, p)
    BY <2>6 DEF WakeupInitDone
  <2>7. CASE WakeupParentDone(c, p)
    <3>1. /\ x = p /\ pc[p] = "wakeparent"
          /\ parent[p] \in Slot /\ idx[p] \notin Slot
      BY <2>7 DEF WakeupParentDone
    <3>2. idx[p] \in 1 .. NPROC + 1
      OBVIOUS
    <3>3. parent[p] < idx[p]
      BY <3>1, <3>2, IndexFacts, Zenon
    <3> QED BY <2>7, <3>1, <3>3 DEF WakeupParentDone
  <2>8. CASE ExitZombie(c, p)
    BY <2>8 DEF ExitZombie
  <2> QED BY <1>7, <2>1, <2>2, <2>3, <2>4, <2>5, <2>6, <2>7, <2>8
    DEF ExitStep
<1>8. ASSUME NEW c \in Cpu, NEW p \in Slot, WaitStep(c, p) PROVE FALSE
  BY <1>8 DEF WaitStep, WaitLock, WaitSkip, WaitLiveChild, WaitReap,
      WaitPanic, WaitFault, WaitNoKids, WaitSleep, SleepLock, SleepMark,
      SleepReturn
<1> HIDE DEF At, Goto
<1> QED
  BY <1>1, <1>2, <1>3, <1>4, <1>5, <1>6, <1>7, <1>8 DEF Next, Kernel, Halt

-----------------------------------------------------------------------------
(***************************************************************************)
(* The state that main() leaves satisfies the invariant.                   *)
(***************************************************************************)
LEMMA InitIInv == Init => IInv
<1> SUFFICES ASSUME Init PROVE IInv
  OBVIOUS
<1> USE SlotFacts, IndexFacts, LabelFacts, ProcAssumption DEF Init
<1>1. TypeOK
  BY DEF TypeOK, Labels
<1>2. CpuInv
  BY DEF CpuInv, OneCpuPerProc, OnCpuOK, OffCpuOK, OffCpu
<1>3. LockInv
  BY DEF LockInv, HoldsOwn, HoldsChild, HoldsWait, SlockHeldBy, WlockHeldBy
<1>4. ForkInv
  BY DEF ForkInv, ForkChild, ForkUnique, ForkOwner, Forking, Lab
<1>5. TreeInv
  BY DEF TreeInv, NoOrphan, InitLives, FreeUnlinked, ExitNotInit, ExitLabels,
      HandedOver, Lab
<1>6. WaitInv
  BY DEF WaitInv, SleepChan, NoZombieChild, HasChild, ParentAwake, Waiting
<1> QED BY <1>1, <1>2, <1>3, <1>4, <1>5, <1>6 DEF IInv

(***************************************************************************)
(* IInv is an invariant of the process table.                              *)
(***************************************************************************)
THEOREM IInvHolds == Spec => []IInv
<1>1. IInv /\ [Next]_vars => IInv'
  <2> SUFFICES ASSUME IInv, [Next]_vars PROVE IInv'
    OBVIOUS
  <2>1. TypeOK'
    BY TypeNext DEF IInv
  <2>2. CpuInv'
    BY OneCpuNext, OnCpuNext, OffCpuNext DEF CpuInv
  <2>3. LockInv'
    BY HoldsOwnNext, HoldsChildNext, HoldsWaitNext, SlockHeldByNext,
       WlockHeldByNext DEF LockInv
  <2>4. ForkInv'
    BY ForkChildNext, ForkUniqueNext, ForkOwnerNext DEF ForkInv
  <2>5. TreeInv'
    BY NoOrphanNext, InitLivesNext, FreeUnlinkedNext, ExitNotInitNext,
       HandedOverNext DEF TreeInv
  <2>6. WaitInv'
    BY SleepChanNext, NoZombieChildNext, HasChildNext, ParentAwakeNext
    DEF WaitInv
  <2> QED BY <2>1, <2>2, <2>3, <2>4, <2>5, <2>6 DEF IInv
<1> QED BY InitIInv, <1>1, PTL DEF Spec

(***************************************************************************)
(* Every variable keeps its type; in particular the scans of procs[] stay  *)
(* within the table.                                                       *)
(***************************************************************************)
THEOREM TypeCorrect == Spec => []TypeOK
<1>1. IInv => TypeOK
  BY DEF IInv
<1> QED BY IInvHolds, <1>1, PTL

(***************************************************************************)
(* No kernel stack is ever executed by two CPUs.                           *)
(***************************************************************************)
THEOREM OneCpuPerProcHolds == Spec => []OneCpuPerProc
<1>1. IInv => OneCpuPerProc
  BY DEF IInv, CpuInv
<1> QED BY IInvHolds, <1>1, PTL

(***************************************************************************)
(* A thread is never switched out with a spin lock other than its slock.   *)
(***************************************************************************)
THEOREM SwitchHoldsOnlySlockHolds == Spec => []SwitchHoldsOnlySlock
<1>1. IInv => SwitchHoldsOnlySlock
  BY SlotFacts, ProcAssumption
  DEF IInv, TypeOK, LockInv, HoldsOwn, SlockHeldBy, WlockHeldBy,
      SwitchHoldsOnlySlock, SwtchLabels, OwnLabels, WaitLabels, HaltLabels
<1> QED BY IInvHolds, <1>1, PTL

(***************************************************************************)
(* The wakeup of exit() is never lost on a parent that goes to sleep.      *)
(***************************************************************************)
THEOREM NoLostWakeupHolds == Spec => []NoLostWakeup
<1>1. IInv => NoLostWakeup
  <2> SUFFICES ASSUME IInv, wlock = NoCpu PROVE NoLostWakeup
    BY DEF NoLostWakeup
  <2>1. ~ InitWakePending
    BY SlotFacts, ProcAssumption
    DEF IInv, TypeOK, LockInv, HoldsWait, CpuInv, OffCpuOK, OffCpu,
        InitWakePending, WaitLabels
  <2> QED
    BY <2>1 DEF IInv, WaitInv, NoZombieChild, HasChild, Waiting, NoLostWakeup
<1> QED BY IInvHolds, <1>1, PTL

(***************************************************************************)
(* Nobody is ever the child of a dead process or of a free slot.           *)
(***************************************************************************)
THEOREM NoOrphanHolds == Spec => []NoOrphan
<1>1. IInv => NoOrphan
  BY DEF IInv, TreeInv
<1> QED BY IInvHolds, <1>1, PTL

(***************************************************************************)
(* A ZOMBIE is reaped once, by its parent, under wait_lock.                *)
(***************************************************************************)
THEOREM ReapedByParentHolds == Spec => ReapedByParent
<1> DEFINE Reap ==
      \A q \in Slot : state[q] = "ZOMBIE" /\ state'[q] # "ZOMBIE" =>
        /\ state'[q] = "UNUSED"
        /\ wlock # NoCpu
        /\ curp[wlock] = parent[q]
        /\ pc[parent[q]] = "scan"
<1>1. IInv /\ [Next]_vars => [Reap]_vars
  <2> SUFFICES ASSUME IInv, [Next]_vars PROVE Reap
    OBVIOUS
  <2> USE SlotFacts, ProcAssumption
      DEF IInv, TypeOK, CpuInv, OnCpuOK, OnCpu, LockInv, HoldsWait, ForkInv,
          ForkChild, Forking, Lab, FreeLabels, WaitLabels, At, Goto
  <2>1. CASE UNCHANGED vars
    BY <2>1 DEF vars
  <2>2. ASSUME NEW c \in Cpu, Scheduler(c) PROVE Reap
    BY <2>2 DEF Scheduler, SchedulerSkip, SchedulerRun
  <2>3. ASSUME NEW c \in Cpu, NEW p \in Slot, UserCall(c, p) PROVE Reap
    BY <2>3 DEF UserCall, ForkCall, ExitCall, WaitCall, OutputHangs
  <2>4. ASSUME NEW c \in Cpu, NEW p \in Slot, Yield(c, p) PROVE Reap
    BY <2>4 DEF Yield
  <2>5. ASSUME NEW c \in Cpu, NEW p \in Slot, Switch(c, p) PROVE Reap
    BY <2>5 DEF Switch, SwitchOut, ForkRet, YieldReturn
  <2>6. ASSUME NEW c \in Cpu, NEW p \in Slot, ForkStep(c, p) PROVE Reap
    BY <2>6 DEF ForkStep, AllocSkip, AllocTake, AllocPanic, AllocFull,
        ForkCopy, ForkFail, ForkLink, ForkReady
  <2>7. ASSUME NEW c \in Cpu, NEW p \in Slot, ExitStep(c, p) PROVE Reap
    BY <2>7 DEF ExitStep, ExitLock, ReparentSkip, ReparentChild, ReparentDone,
        WakeupStep, WakeupInitDone, WakeupParentDone, ExitZombie, WakeChan
  <2>8. ASSUME NEW c \in Cpu, NEW p \in Slot, WaitStep(c, p) PROVE Reap
    BY <2>8 DEF WaitStep, WaitLock, WaitSkip, WaitLiveChild, WaitReap,
        WaitPanic, WaitFault, WaitNoKids, WaitSleep, SleepLock, SleepMark,
        SleepReturn
  <2> HIDE DEF IInv, At, Goto
  <2> QED
    BY <2>1, <2>2, <2>3, <2>4, <2>5, <2>6, <2>7, <2>8 DEF Next, Kernel, Halt
<1> QED BY IInvHolds, <1>1, PTL DEF Spec, ReapedByParent
=============================================================================
