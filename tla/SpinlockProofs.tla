--------------------------- MODULE SpinlockProofs ---------------------------
(***************************************************************************)
(* Spinlock's invariants for any number of CPUs, threads and locks: its    *)
(* inductive invariant, and the proof that the specification keeps it.     *)
(***************************************************************************)
EXTENDS Spinlock, FiniteSetTheorems, TLAPS

-----------------------------------------------------------------------------
(***************************************************************************)
(* The parts of the inductive invariant beside the properties themselves.  *)
(***************************************************************************)
\* locked says that some CPU is between its swap and its locked = 0.
LockedIsHeld == \A l \in Lock : locked[l] = 1 <=> \E c \in Cpu : l \in held[c]

\* lk->cpu names the holder but for the two moments when only locked is set.
Between(c, l) == pc[c] \in {"swapped", "disowned"} /\ lk[c] = l

OwnerIsHolder ==
  \A l \in Lock, c \in Cpu :
    owner[l] = c <=> l \in held[c] /\ ~Between(c, l)

\* The lock that acquire or release is about.
AboutLock ==
  \A c \in Cpu :
    /\ pc[c] \in {"swapped", "disowned"} => lk[c] \in held[c]
    /\ pc[c] = "spin" => lk[c] \in Lock \ held[c]

\* No two CPUs run one thread.
OneCpuPerThread ==
  \A c, d \in Cpu : c # d /\ cpup[c] = cpup[d] => cpup[c] = None

\* A CPU's own trap is one of scheduler(); a thread's is one of its kernel
\* code with interrupts on, so neither in user mode nor inside usertrap.
TrapsNest ==
  /\ \A c \in Cpu : c \in trap => cpup[c] = None
  /\ \A t \in Thread : t \in trap => mode[t] \notin {"utrap", "user"}

\* User code holds no lock and is never switched away from.
UserHoldsNothing ==
  /\ \A c \in Cpu : cpup[c] # None /\ mode[cpup[c]] = "user"
                      => held[c] = {} /\ pc[c] = "run"
  /\ \A t \in Thread : mode[t] = "user" => \E c \in Cpu : cpup[c] = t

\* What intena must be for thread t when pop_off comes to use it.
IntenaFor(t, i) ==
  /\ t \in trap => i = 0
  /\ t \notin trap /\ mode[t] = "sys" => i = 1
  /\ t \notin trap /\ mode[t] = "utrap" => i = 0

\* intena is the running context's while push_off and pop_off are unbalanced.
IntenaOfContext ==
  \A c \in Cpu : held[c] # {} \/ pc[c] = "spin" =>
    /\ c \in trap => intena[c] = 0
    /\ cpup[c] # None => IntenaFor(cpup[c], intena[c])

\* A thread that no CPU runs has its intena in sched()'s local, unless it has
\* yet to run at all.
IntenaOfSleeper ==
  \A t \in Thread : (\A c \in Cpu : cpup[c] # t) =>
    /\ saved[t] = 2 => mode[t] = "new" /\ t \notin trap
    /\ saved[t] # 2 => IntenaFor(t, saved[t])

IInv ==
  /\ TypeOK
  /\ MutualExclusion /\ HeldMeansOff /\ NoPanic /\ InterruptsAsSet
  /\ LockedIsHeld /\ OwnerIsHolder /\ AboutLock
  /\ OneCpuPerThread /\ TrapsNest /\ UserHoldsNothing
  /\ IntenaOfContext /\ IntenaOfSleeper

-----------------------------------------------------------------------------
(***************************************************************************)
(* The constants: a CPU is neither a thread nor a lock's None, and a CPU's *)
(* set of locks is finite.                                                 *)
(***************************************************************************)
LEMMA ConstantFacts ==
  /\ NoCpu \notin Cpu /\ None \notin Lock /\ None \notin Thread
  /\ \A t \in Thread : t \in Lock /\ t \notin Cpu
  /\ IsFiniteSet(Lock)
BY SpinlockAssumption, FS_Union DEF Lock

(***************************************************************************)
(* The number of locks held, and what a swap and a release make of it.     *)
(***************************************************************************)
LEMMA HeldCount ==
  ASSUME NEW S \in SUBSET Lock, NEW l
  PROVE  /\ Cardinality(S) \in Nat
         /\ Cardinality(S) = 0 <=> S = {}
         /\ l \notin S => Cardinality(S \cup {l}) = Cardinality(S) + 1
         /\ l \in S => Cardinality(S \ {l}) = Cardinality(S) - 1
<1>1. IsFiniteSet(S)
  BY ConstantFacts, FS_Subset
<1> QED BY <1>1, FS_CardinalityType, FS_EmptySet, FS_AddElement,
           FS_RemoveElement

(***************************************************************************)
(* What the steps with a panic in them come to when IInv holds.            *)
(***************************************************************************)
AcquireOk(c, l) ==
  /\ InKernel(c) /\ l \notin held[c]
  /\ pc' = [pc EXCEPT ![c] = "spin"] /\ lk' = [lk EXCEPT ![c] = l]
  /\ push_off(c)
  /\ UNCHANGED <<locked, owner, cpup, held, mode, trap, saved>>

ReleaseOk(c, l) ==
  /\ pc[c] = "run" /\ l \in held[c]
  /\ owner' = [owner EXCEPT ![l] = NoCpu]
  /\ pc' = [pc EXCEPT ![c] = "disowned"] /\ lk' = [lk EXCEPT ![c] = l]
  /\ UNCHANGED <<locked, sie, noff, intena, cpup, held, mode, trap, saved>>

UnlockOk(c) ==
  /\ pc[c] = "disowned" /\ lk[c] \in held[c]
  /\ locked' = [locked EXCEPT ![lk[c]] = 0]
  /\ held' = [held EXCEPT ![c] = @ \ {lk[c]}]
  /\ noff[c] = Cardinality(held[c]) /\ noff[c] \in Nat \ {0}
  /\ noff'[c] = Cardinality(held'[c])
  /\ noff' = [noff EXCEPT ![c] = @ - 1]
  /\ sie' = [sie EXCEPT ![c] = IF held'[c] = {} THEN intena[c] ELSE 0]
  /\ pc' = [pc EXCEPT ![c] = "run"] /\ lk' = [lk EXCEPT ![c] = None]
  /\ UNCHANGED <<owner, intena, cpup, mode, trap, saved>>

SchedOk(c, t) ==
  /\ pc[c] = "run" /\ cpup[c] = t /\ mode[t] # "user"
  /\ held[c] = {t}
  /\ saved' = [saved EXCEPT ![t] = intena[c]]
  /\ cpup' = [cpup EXCEPT ![c] = None]
  /\ owner' = [owner EXCEPT ![t] = NoCpu]
  /\ pc' = [pc EXCEPT ![c] = "disowned"] /\ lk' = [lk EXCEPT ![c] = t]
  /\ UNCHANGED <<locked, sie, noff, intena, held, mode, trap>>

(***************************************************************************)
(* acquire does not find its CPU holding the lock: that would break the    *)
(* lock order.                                                             *)
(***************************************************************************)
LEMMA AcquireSpins ==
  ASSUME IInv, NEW c \in Cpu, NEW l \in Lock, Acquire(c, l)
  PROVE  AcquireOk(c, l)
<1>1. Rank(l) \in Nat
  BY DEF Rank
<1>2. l \notin held[c]
  BY <1>1 DEF Acquire, MayAcquire, InOrder
<1>3. ~holdinglock(c, l)
  BY <1>2 DEF IInv, OwnerIsHolder, holdinglock
<1> QED BY <1>2, <1>3 DEF Acquire, AcquireOk, GotoL

(***************************************************************************)
(* lk->cpu names the CPU for a lock it holds outside acquire and release.  *)
(***************************************************************************)
LEMMA HolderIsOwner ==
  ASSUME IInv, NEW c \in Cpu, NEW l \in held[c], pc[c] = "run"
  PROVE  l \in Lock /\ holdinglock(c, l)
BY DEF IInv, TypeOK, OwnerIsHolder, LockedIsHeld, Between, holdinglock

(***************************************************************************)
(* release passes its test of the holder.                                  *)
(***************************************************************************)
LEMMA ReleaseClears ==
  ASSUME IInv, NEW c \in Cpu, NEW l \in Lock, Release(c, l)
  PROVE  ReleaseOk(c, l)
BY HolderIsOwner DEF Release, ReleaseOk, InKernel, ClearOwner, GotoL

(***************************************************************************)
(* pop_off finds interrupts off and noff counting the lock just released,  *)
(* and restores intena when it was the last one.                           *)
(***************************************************************************)
LEMMA UnlockPops ==
  ASSUME IInv, NEW c \in Cpu, Unlock(c)
  PROVE  UnlockOk(c)
<1>1. pc[c] = "disowned" /\ lk[c] \in held[c] /\ sie[c] = 0
  BY DEF IInv, TypeOK, AboutLock, HeldMeansOff, Unlock
<1>2. held[c] \in SUBSET Lock /\ held'[c] = held[c] \ {lk[c]}
  BY DEF IInv, TypeOK, Unlock
<1>3. /\ Cardinality(held[c]) \in Nat /\ Cardinality(held[c]) # 0
      /\ Cardinality(held'[c]) = Cardinality(held[c]) - 1
      /\ Cardinality(held'[c]) = 0 <=> held'[c] = {}
  <2>1. held'[c] \in SUBSET Lock
    BY <1>2
  <2>2. /\ Cardinality(held[c]) \in Nat
        /\ Cardinality(held[c]) = 0 <=> held[c] = {}
        /\ Cardinality(held[c] \ {lk[c]}) = Cardinality(held[c]) - 1
    BY <1>1, <1>2, HeldCount
  <2>3. Cardinality(held'[c]) = 0 <=> held'[c] = {}
    BY <2>1, HeldCount
  <2> QED BY <1>1, <1>2, <2>2, <2>3
<1>4. noff[c] = Cardinality(held[c]) /\ noff \in [Cpu -> Nat]
  BY <1>1, <1>3 DEF IInv, TypeOK, HeldMeansOff
<1>5. ~(noff[c] < 1) /\ (noff[c] = 1 <=> held'[c] = {})
  BY <1>3, <1>4
<1>6. intena[c] \in {0, 1}
  BY DEF IInv, TypeOK
<1>7. /\ noff' = [noff EXCEPT ![c] = @ - 1]
      /\ sie' = [sie EXCEPT ![c] = IF held'[c] = {} THEN intena[c] ELSE 0]
      /\ pc' = [pc EXCEPT ![c] = "run"] /\ lk' = [lk EXCEPT ![c] = None]
  BY <1>1, <1>5, <1>6 DEF Unlock, pop_off, GotoL
<1>8. noff'[c] = Cardinality(held'[c])
  BY <1>3, <1>4, <1>7
<1> QED BY <1>1, <1>3, <1>4, <1>7, <1>8 DEF Unlock, UnlockOk

(***************************************************************************)
(* sched() finds the slock held and interrupts off, and scheduler()        *)
(* releases the slock.                                                     *)
(***************************************************************************)
LEMMA SchedSwitches ==
  ASSUME IInv, NEW c \in Cpu, Sched(c)
  PROVE  cpup[c] \in Thread /\ SchedOk(c, cpup[c])
<1>1. /\ pc[c] = "run" /\ cpup[c] \in Thread /\ mode[cpup[c]] # "user"
      /\ held[c] = {cpup[c]}
  BY DEF Sched, InKernel, IInv, TypeOK
<1>2. holdinglock(c, cpup[c]) /\ sie[c] # 1
  BY <1>1, HolderIsOwner DEF IInv, HeldMeansOff
<1> QED BY <1>1, <1>2 DEF Sched, SchedOk, ClearOwner, GotoL

(***************************************************************************)
(* A step from a state of IInv is one of these.                            *)
(***************************************************************************)
StepOk ==
  \/ UNCHANGED vars
  \/ \E c \in Cpu :
       \/ \E l \in Lock : AcquireOk(c, l) \/ ReleaseOk(c, l)
       \/ Swap(c) \/ SetOwner(c) \/ UnlockOk(c) \/ TrapStep(c)
       \/ SchedulerIntrOn(c)
       \/ \E t \in Thread : SchedOk(c, t) \/ Switch(c, t)

LEMMA StepForms == IInv /\ [Next]_vars => StepOk
BY AcquireSpins, ReleaseClears, UnlockPops, SchedSwitches
DEF Next, LockStep, SwitchStep, StepOk

-----------------------------------------------------------------------------
(***************************************************************************)
(* Every step keeps every part of IInv.                                    *)
(***************************************************************************)

(***************************************************************************)
(* Types. AboutLock is there for the lock that SetOwner and the swap name, *)
(* UnlockPops for noff.                                                    *)
(***************************************************************************)
LEMMA TypeNext == IInv /\ [Next]_vars => TypeOK'
<1> SUFFICES ASSUME IInv, [Next]_vars PROVE TypeOK'
  OBVIOUS
<1>0. TypeOK /\ AboutLock
  BY DEF IInv
<1> USE <1>0, ConstantFacts DEF TypeOK, AboutLock
<1>1. CASE UNCHANGED vars
  BY <1>1 DEF vars
<1>2. ASSUME NEW c \in Cpu, NEW l \in Lock, AcquireOk(c, l) PROVE TypeOK'
  BY <1>2 DEF AcquireOk, push_off
<1>3. ASSUME NEW c \in Cpu, NEW l \in Lock, ReleaseOk(c, l) PROVE TypeOK'
  BY <1>3 DEF ReleaseOk
<1>4. ASSUME NEW c \in Cpu, Swap(c) PROVE TypeOK'
  BY <1>4 DEF Swap, Goto
<1>5. ASSUME NEW c \in Cpu, SetOwner(c) PROVE TypeOK'
  BY <1>5 DEF SetOwner, GotoL
<1>6. ASSUME NEW c \in Cpu, UnlockOk(c) PROVE TypeOK'
  <2>1. noff[c] - 1 \in Nat
    BY <1>6 DEF UnlockOk
  <2> QED BY <1>6, <2>1 DEF UnlockOk
<1>7. ASSUME NEW c \in Cpu, TrapStep(c) PROVE TypeOK'
  BY <1>7 DEF TrapStep, Syscall, Usertrap, Usertrapret, Kerneltrap,
      KerneltrapReturn, SetMode, Ctx, InKernel, InUser
<1>8. ASSUME NEW c \in Cpu, NEW t \in Thread, SchedOk(c, t) PROVE TypeOK'
  BY <1>8 DEF SchedOk
<1>9. ASSUME NEW c \in Cpu, SchedulerIntrOn(c) PROVE TypeOK'
  BY <1>9 DEF SchedulerIntrOn
<1>10. ASSUME NEW c \in Cpu, NEW t \in Thread, Switch(c, t) PROVE TypeOK'
  BY <1>10 DEF Switch
<1> QED
  BY <1>1, <1>2, <1>3, <1>4, <1>5, <1>6, <1>7, <1>8, <1>9, <1>10, StepForms
     DEF StepOk

(***************************************************************************)
(* The swap succeeds on a lock that no CPU holds, for locked is held.      *)
(***************************************************************************)
LEMMA MutexNext == IInv /\ [Next]_vars => MutualExclusion'
<1> SUFFICES ASSUME IInv, [Next]_vars PROVE MutualExclusion'
  OBVIOUS
<1>0. TypeOK /\ LockedIsHeld /\ AboutLock /\ MutualExclusion
  BY DEF IInv
<1> USE <1>0, ConstantFacts DEF TypeOK, LockedIsHeld, AboutLock,
    MutualExclusion
<1>1. CASE UNCHANGED vars
  BY <1>1 DEF vars
<1>2. ASSUME NEW c \in Cpu, NEW l \in Lock, AcquireOk(c, l)
      PROVE  MutualExclusion'
  BY <1>2 DEF AcquireOk, push_off
<1>3. ASSUME NEW c \in Cpu, NEW l \in Lock, ReleaseOk(c, l)
      PROVE  MutualExclusion'
  BY <1>3 DEF ReleaseOk
<1>4. ASSUME NEW c \in Cpu, Swap(c) PROVE MutualExclusion'
  BY <1>4 DEF Swap, Goto
<1>5. ASSUME NEW c \in Cpu, SetOwner(c) PROVE MutualExclusion'
  BY <1>5 DEF SetOwner, GotoL
<1>6. ASSUME NEW c \in Cpu, UnlockOk(c) PROVE MutualExclusion'
  BY <1>6 DEF UnlockOk
<1>7. ASSUME NEW c \in Cpu, TrapStep(c) PROVE MutualExclusion'
  BY <1>7 DEF TrapStep, Syscall, Usertrap, Usertrapret, Kerneltrap,
      KerneltrapReturn
<1>8. ASSUME NEW c \in Cpu, NEW t \in Thread, SchedOk(c, t)
      PROVE  MutualExclusion'
  BY <1>8 DEF SchedOk
<1>9. ASSUME NEW c \in Cpu, SchedulerIntrOn(c) PROVE MutualExclusion'
  BY <1>9 DEF SchedulerIntrOn
<1>10. ASSUME NEW c \in Cpu, NEW t \in Thread, Switch(c, t)
      PROVE  MutualExclusion'
  BY <1>10 DEF Switch
<1> QED
  BY <1>1, <1>2, <1>3, <1>4, <1>5, <1>6, <1>7, <1>8, <1>9, <1>10, StepForms
     DEF StepOk

(***************************************************************************)
(* locked changes with held; it is cleared by the one CPU that held it.    *)
(***************************************************************************)
LEMMA LockedNext == IInv /\ [Next]_vars => LockedIsHeld'
<1> SUFFICES ASSUME IInv, [Next]_vars PROVE LockedIsHeld'
  OBVIOUS
<1>0. TypeOK /\ MutualExclusion /\ AboutLock /\ LockedIsHeld
  BY DEF IInv
<1> USE <1>0, ConstantFacts DEF TypeOK, MutualExclusion, AboutLock,
    LockedIsHeld
<1>1. CASE UNCHANGED vars
  BY <1>1 DEF vars
<1>2. ASSUME NEW c \in Cpu, NEW l \in Lock, AcquireOk(c, l)
      PROVE  LockedIsHeld'
  BY <1>2 DEF AcquireOk, push_off
<1>3. ASSUME NEW c \in Cpu, NEW l \in Lock, ReleaseOk(c, l)
      PROVE  LockedIsHeld'
  BY <1>3 DEF ReleaseOk
<1>4. ASSUME NEW c \in Cpu, Swap(c) PROVE LockedIsHeld'
  BY <1>4 DEF Swap, Goto
<1>5. ASSUME NEW c \in Cpu, SetOwner(c) PROVE LockedIsHeld'
  BY <1>5 DEF SetOwner, GotoL
<1>6. ASSUME NEW c \in Cpu, UnlockOk(c) PROVE LockedIsHeld'
  BY <1>6 DEF UnlockOk
<1>7. ASSUME NEW c \in Cpu, TrapStep(c) PROVE LockedIsHeld'
  BY <1>7 DEF TrapStep, Syscall, Usertrap, Usertrapret, Kerneltrap,
      KerneltrapReturn
<1>8. ASSUME NEW c \in Cpu, NEW t \in Thread, SchedOk(c, t)
      PROVE  LockedIsHeld'
  BY <1>8 DEF SchedOk
<1>9. ASSUME NEW c \in Cpu, SchedulerIntrOn(c) PROVE LockedIsHeld'
  BY <1>9 DEF SchedulerIntrOn
<1>10. ASSUME NEW c \in Cpu, NEW t \in Thread, Switch(c, t)
      PROVE  LockedIsHeld'
  BY <1>10 DEF Switch
<1> QED
  BY <1>1, <1>2, <1>3, <1>4, <1>5, <1>6, <1>7, <1>8, <1>9, <1>10, StepForms
     DEF StepOk

(***************************************************************************)
(* lk->cpu changes with the step that enters or leaves Between.            *)
(***************************************************************************)
LEMMA OwnerNext == IInv /\ [Next]_vars => OwnerIsHolder'
<1> SUFFICES ASSUME IInv, [Next]_vars PROVE OwnerIsHolder'
  OBVIOUS
<1>0. TypeOK /\ MutualExclusion /\ AboutLock /\ LockedIsHeld /\
      OwnerIsHolder
  BY DEF IInv
<1> USE <1>0, ConstantFacts DEF TypeOK, MutualExclusion, AboutLock,
    LockedIsHeld, OwnerIsHolder, Between
<1>1. CASE UNCHANGED vars
  BY <1>1 DEF vars
<1>2. ASSUME NEW c \in Cpu, NEW l \in Lock, AcquireOk(c, l)
      PROVE  OwnerIsHolder'
  BY <1>2 DEF AcquireOk, push_off, InKernel
<1>3. ASSUME NEW c \in Cpu, NEW l \in Lock, ReleaseOk(c, l)
      PROVE  OwnerIsHolder'
  BY <1>3 DEF ReleaseOk
<1>4. ASSUME NEW c \in Cpu, Swap(c) PROVE OwnerIsHolder'
  BY <1>4 DEF Swap, Goto
<1>5. ASSUME NEW c \in Cpu, SetOwner(c) PROVE OwnerIsHolder'
  BY <1>5 DEF SetOwner, GotoL
<1>6. ASSUME NEW c \in Cpu, UnlockOk(c) PROVE OwnerIsHolder'
  BY <1>6 DEF UnlockOk
<1>7. ASSUME NEW c \in Cpu, TrapStep(c) PROVE OwnerIsHolder'
  BY <1>7 DEF TrapStep, Syscall, Usertrap, Usertrapret, Kerneltrap,
      KerneltrapReturn
<1>8. ASSUME NEW c \in Cpu, NEW t \in Thread, SchedOk(c, t)
      PROVE  OwnerIsHolder'
  BY <1>8 DEF SchedOk
<1>9. ASSUME NEW c \in Cpu, SchedulerIntrOn(c) PROVE OwnerIsHolder'
  BY <1>9 DEF SchedulerIntrOn
<1>10. ASSUME NEW c \in Cpu, NEW t \in Thread, Switch(c, t)
      PROVE  OwnerIsHolder'
  BY <1>10 DEF Switch
<1> QED
  BY <1>1, <1>2, <1>3, <1>4, <1>5, <1>6, <1>7, <1>8, <1>9, <1>10, StepForms
     DEF StepOk

(***************************************************************************)
(* A CPU spins for a lock it does not hold: it respects the lock order.    *)
(***************************************************************************)
LEMMA AboutNext == IInv /\ [Next]_vars => AboutLock'
<1> SUFFICES ASSUME IInv, [Next]_vars PROVE AboutLock'
  OBVIOUS
<1>0. TypeOK /\ AboutLock
  BY DEF IInv
<1> USE <1>0, ConstantFacts DEF TypeOK, AboutLock
<1>1. CASE UNCHANGED vars
  BY <1>1 DEF vars
<1>2. ASSUME NEW c \in Cpu, NEW l \in Lock, AcquireOk(c, l) PROVE AboutLock'
  BY <1>2 DEF AcquireOk, push_off
<1>3. ASSUME NEW c \in Cpu, NEW l \in Lock, ReleaseOk(c, l) PROVE AboutLock'
  BY <1>3 DEF ReleaseOk
<1>4. ASSUME NEW c \in Cpu, Swap(c) PROVE AboutLock'
  BY <1>4 DEF Swap, Goto
<1>5. ASSUME NEW c \in Cpu, SetOwner(c) PROVE AboutLock'
  BY <1>5 DEF SetOwner, GotoL
<1>6. ASSUME NEW c \in Cpu, UnlockOk(c) PROVE AboutLock'
  BY <1>6 DEF UnlockOk
<1>7. ASSUME NEW c \in Cpu, TrapStep(c) PROVE AboutLock'
  BY <1>7 DEF TrapStep, Syscall, Usertrap, Usertrapret, Kerneltrap,
      KerneltrapReturn
<1>8. ASSUME NEW c \in Cpu, NEW t \in Thread, SchedOk(c, t) PROVE AboutLock'
  BY <1>8 DEF SchedOk
<1>9. ASSUME NEW c \in Cpu, SchedulerIntrOn(c) PROVE AboutLock'
  BY <1>9 DEF SchedulerIntrOn
<1>10. ASSUME NEW c \in Cpu, NEW t \in Thread, Switch(c, t) PROVE AboutLock'
  BY <1>10 DEF Switch
<1> QED
  BY <1>1, <1>2, <1>3, <1>4, <1>5, <1>6, <1>7, <1>8, <1>9, <1>10, StepForms
     DEF StepOk

(***************************************************************************)
(* The tests of acquire, release, pop_off and sched all succeed.           *)
(***************************************************************************)
LEMMA PanicNext == IInv /\ [Next]_vars => NoPanic'
<1> SUFFICES ASSUME IInv, [Next]_vars PROVE NoPanic'
  OBVIOUS
<1>0. TypeOK /\ NoPanic
  BY DEF IInv
<1> USE <1>0, ConstantFacts DEF TypeOK, NoPanic
<1>1. CASE UNCHANGED vars
  BY <1>1 DEF vars
<1>2. ASSUME NEW c \in Cpu, NEW l \in Lock, AcquireOk(c, l) PROVE NoPanic'
  BY <1>2 DEF AcquireOk, push_off
<1>3. ASSUME NEW c \in Cpu, NEW l \in Lock, ReleaseOk(c, l) PROVE NoPanic'
  BY <1>3 DEF ReleaseOk
<1>4. ASSUME NEW c \in Cpu, Swap(c) PROVE NoPanic'
  BY <1>4 DEF Swap, Goto
<1>5. ASSUME NEW c \in Cpu, SetOwner(c) PROVE NoPanic'
  BY <1>5 DEF SetOwner, GotoL
<1>6. ASSUME NEW c \in Cpu, UnlockOk(c) PROVE NoPanic'
  BY <1>6 DEF UnlockOk
<1>7. ASSUME NEW c \in Cpu, TrapStep(c) PROVE NoPanic'
  BY <1>7 DEF TrapStep, Syscall, Usertrap, Usertrapret, Kerneltrap,
      KerneltrapReturn
<1>8. ASSUME NEW c \in Cpu, NEW t \in Thread, SchedOk(c, t) PROVE NoPanic'
  BY <1>8 DEF SchedOk
<1>9. ASSUME NEW c \in Cpu, SchedulerIntrOn(c) PROVE NoPanic'
  BY <1>9 DEF SchedulerIntrOn
<1>10. ASSUME NEW c \in Cpu, NEW t \in Thread, Switch(c, t) PROVE NoPanic'
  BY <1>10 DEF Switch
<1> QED
  BY <1>1, <1>2, <1>3, <1>4, <1>5, <1>6, <1>7, <1>8, <1>9, <1>10, StepForms
     DEF StepOk

(***************************************************************************)
(* scheduler() takes a thread that no CPU runs.                            *)
(***************************************************************************)
LEMMA OneCpuNext == IInv /\ [Next]_vars => OneCpuPerThread'
<1> SUFFICES ASSUME IInv, [Next]_vars PROVE OneCpuPerThread'
  OBVIOUS
<1>0. TypeOK /\ OneCpuPerThread
  BY DEF IInv
<1> USE <1>0, ConstantFacts DEF TypeOK, OneCpuPerThread
<1>1. CASE UNCHANGED vars
  BY <1>1 DEF vars
<1>2. ASSUME NEW c \in Cpu, NEW l \in Lock, AcquireOk(c, l)
      PROVE  OneCpuPerThread'
  BY <1>2 DEF AcquireOk, push_off
<1>3. ASSUME NEW c \in Cpu, NEW l \in Lock, ReleaseOk(c, l)
      PROVE  OneCpuPerThread'
  BY <1>3 DEF ReleaseOk
<1>4. ASSUME NEW c \in Cpu, Swap(c) PROVE OneCpuPerThread'
  BY <1>4 DEF Swap, Goto
<1>5. ASSUME NEW c \in Cpu, SetOwner(c) PROVE OneCpuPerThread'
  BY <1>5 DEF SetOwner, GotoL
<1>6. ASSUME NEW c \in Cpu, UnlockOk(c) PROVE OneCpuPerThread'
  BY <1>6 DEF UnlockOk
<1>7. ASSUME NEW c \in Cpu, TrapStep(c) PROVE OneCpuPerThread'
  BY <1>7 DEF TrapStep, Syscall, Usertrap, Usertrapret, Kerneltrap,
      KerneltrapReturn
<1>8. ASSUME NEW c \in Cpu, NEW t \in Thread, SchedOk(c, t)
      PROVE  OneCpuPerThread'
  BY <1>8 DEF SchedOk
<1>9. ASSUME NEW c \in Cpu, SchedulerIntrOn(c) PROVE OneCpuPerThread'
  BY <1>9 DEF SchedulerIntrOn
<1>10. ASSUME NEW c \in Cpu, NEW t \in Thread, Switch(c, t)
      PROVE  OneCpuPerThread'
  BY <1>10 DEF Switch
<1> QED
  BY <1>1, <1>2, <1>3, <1>4, <1>5, <1>6, <1>7, <1>8, <1>9, <1>10, StepForms
     DEF StepOk

(***************************************************************************)
(* A kernel trap comes with interrupts on, which usertrap never has.       *)
(***************************************************************************)
LEMMA TrapsNext == IInv /\ [Next]_vars => TrapsNest'
<1> SUFFICES ASSUME IInv, [Next]_vars PROVE TrapsNest'
  OBVIOUS
<1>0. TypeOK /\ InterruptsAsSet /\ HeldMeansOff /\ OneCpuPerThread /\
      UserHoldsNothing /\ TrapsNest
  BY DEF IInv
<1> USE <1>0, ConstantFacts DEF TypeOK, InterruptsAsSet, HeldMeansOff,
    OneCpuPerThread, UserHoldsNothing, TrapsNest, InKernel, Ctx
<1>1. CASE UNCHANGED vars
  BY <1>1 DEF vars
<1>2. ASSUME NEW c \in Cpu, NEW l \in Lock, AcquireOk(c, l) PROVE TrapsNest'
  BY <1>2 DEF AcquireOk, push_off
<1>3. ASSUME NEW c \in Cpu, NEW l \in Lock, ReleaseOk(c, l) PROVE TrapsNest'
  BY <1>3 DEF ReleaseOk
<1>4. ASSUME NEW c \in Cpu, Swap(c) PROVE TrapsNest'
  BY <1>4 DEF Swap, Goto
<1>5. ASSUME NEW c \in Cpu, SetOwner(c) PROVE TrapsNest'
  BY <1>5 DEF SetOwner, GotoL
<1>6. ASSUME NEW c \in Cpu, UnlockOk(c) PROVE TrapsNest'
  BY <1>6 DEF UnlockOk
<1>7. ASSUME NEW c \in Cpu, TrapStep(c) PROVE TrapsNest'
  BY <1>7 DEF TrapStep, Syscall, Usertrap, Usertrapret, Kerneltrap,
      KerneltrapReturn, InUser, SetMode
<1>8. ASSUME NEW c \in Cpu, NEW t \in Thread, SchedOk(c, t) PROVE TrapsNest'
  BY <1>8 DEF SchedOk
<1>9. ASSUME NEW c \in Cpu, SchedulerIntrOn(c) PROVE TrapsNest'
  BY <1>9 DEF SchedulerIntrOn
<1>10. ASSUME NEW c \in Cpu, NEW t \in Thread, Switch(c, t) PROVE TrapsNest'
  BY <1>10 DEF Switch
<1> QED
  BY <1>1, <1>2, <1>3, <1>4, <1>5, <1>6, <1>7, <1>8, <1>9, <1>10, StepForms
     DEF StepOk

(***************************************************************************)
(* usertrapret leaves the kernel with no lock.                             *)
(***************************************************************************)
LEMMA UserNext == IInv /\ [Next]_vars => UserHoldsNothing'
<1> SUFFICES ASSUME IInv, [Next]_vars PROVE UserHoldsNothing'
  OBVIOUS
<1>0. TypeOK /\ OneCpuPerThread /\ UserHoldsNothing
  BY DEF IInv
<1> USE <1>0, ConstantFacts DEF TypeOK, OneCpuPerThread, UserHoldsNothing,
    InKernel
<1>1. CASE UNCHANGED vars
  BY <1>1 DEF vars
<1>2. ASSUME NEW c \in Cpu, NEW l \in Lock, AcquireOk(c, l)
      PROVE  UserHoldsNothing'
  BY <1>2 DEF AcquireOk, push_off
<1>3. ASSUME NEW c \in Cpu, NEW l \in Lock, ReleaseOk(c, l)
      PROVE  UserHoldsNothing'
  BY <1>3 DEF ReleaseOk
<1>4. ASSUME NEW c \in Cpu, Swap(c) PROVE UserHoldsNothing'
  BY <1>4 DEF Swap, Goto
<1>5. ASSUME NEW c \in Cpu, SetOwner(c) PROVE UserHoldsNothing'
  BY <1>5 DEF SetOwner, GotoL
<1>6. ASSUME NEW c \in Cpu, UnlockOk(c) PROVE UserHoldsNothing'
  BY <1>6 DEF UnlockOk
<1>7. ASSUME NEW c \in Cpu, TrapStep(c) PROVE UserHoldsNothing'
  BY <1>7 DEF TrapStep, Syscall, Usertrap, Usertrapret, Kerneltrap,
      KerneltrapReturn, InUser, SetMode
<1>8. ASSUME NEW c \in Cpu, NEW t \in Thread, SchedOk(c, t)
      PROVE  UserHoldsNothing'
  BY <1>8 DEF SchedOk
<1>9. ASSUME NEW c \in Cpu, SchedulerIntrOn(c) PROVE UserHoldsNothing'
  BY <1>9 DEF SchedulerIntrOn
<1>10. ASSUME NEW c \in Cpu, NEW t \in Thread, Switch(c, t)
      PROVE  UserHoldsNothing'
  BY <1>10 DEF Switch
<1> QED
  BY <1>1, <1>2, <1>3, <1>4, <1>5, <1>6, <1>7, <1>8, <1>9, <1>10, StepForms
     DEF StepOk

(***************************************************************************)
(* push_off records the bit as the context set it; a switch brings the     *)
(* intena of the thread along.                                             *)
(***************************************************************************)
LEMMA IntenaNext == IInv /\ [Next]_vars => IntenaOfContext'
<1> SUFFICES ASSUME IInv, [Next]_vars PROVE IntenaOfContext'
  OBVIOUS
<1>0. TypeOK /\ InterruptsAsSet /\ HeldMeansOff /\ AboutLock /\ TrapsNest /\
      OneCpuPerThread /\ UserHoldsNothing /\ IntenaOfSleeper /\
      IntenaOfContext
  BY DEF IInv
<1> USE <1>0, ConstantFacts DEF TypeOK, InterruptsAsSet, HeldMeansOff,
    AboutLock, TrapsNest, OneCpuPerThread, UserHoldsNothing,
    IntenaOfSleeper, IntenaOfContext, IntenaFor, Ctx, InKernel
<1>1. CASE UNCHANGED vars
  BY <1>1 DEF vars
<1>2. ASSUME NEW c \in Cpu, NEW l \in Lock, AcquireOk(c, l)
      PROVE  IntenaOfContext'
  <2>1. held[c] \in SUBSET Lock /\ pc[c] = "run"
    BY <1>2 DEF AcquireOk
  <2>2. /\ Cardinality(held[c]) \in Nat
        /\ Cardinality(held[c]) = 0 <=> held[c] = {}
    BY <2>1, HeldCount
  <2>3. noff[c] = 0 <=> held[c] = {}
    BY <2>1, <2>2
  <2> QED BY <1>2, <2>3 DEF AcquireOk, push_off
<1>3. ASSUME NEW c \in Cpu, NEW l \in Lock, ReleaseOk(c, l)
      PROVE  IntenaOfContext'
  BY <1>3 DEF ReleaseOk
<1>4. ASSUME NEW c \in Cpu, Swap(c) PROVE IntenaOfContext'
  BY <1>4 DEF Swap, Goto
<1>5. ASSUME NEW c \in Cpu, SetOwner(c) PROVE IntenaOfContext'
  BY <1>5 DEF SetOwner, GotoL
<1>6. ASSUME NEW c \in Cpu, UnlockOk(c) PROVE IntenaOfContext'
  BY <1>6 DEF UnlockOk
<1>7. ASSUME NEW c \in Cpu, TrapStep(c) PROVE IntenaOfContext'
  BY <1>7 DEF TrapStep, Syscall, Usertrap, Usertrapret, Kerneltrap,
      KerneltrapReturn, InUser, SetMode
<1>8. ASSUME NEW c \in Cpu, NEW t \in Thread, SchedOk(c, t)
      PROVE  IntenaOfContext'
  BY <1>8 DEF SchedOk
<1>9. ASSUME NEW c \in Cpu, SchedulerIntrOn(c) PROVE IntenaOfContext'
  BY <1>9 DEF SchedulerIntrOn
<1>10. ASSUME NEW c \in Cpu, NEW t \in Thread, Switch(c, t)
      PROVE  IntenaOfContext'
  BY <1>10 DEF Switch
<1> QED
  BY <1>1, <1>2, <1>3, <1>4, <1>5, <1>6, <1>7, <1>8, <1>9, <1>10, StepForms
     DEF StepOk

(***************************************************************************)
(* sched() saves what IntenaOfContext says of the thread that leaves.      *)
(***************************************************************************)
LEMMA SleeperNext == IInv /\ [Next]_vars => IntenaOfSleeper'
<1> SUFFICES ASSUME IInv, [Next]_vars PROVE IntenaOfSleeper'
  OBVIOUS
<1>0. TypeOK /\ OneCpuPerThread /\ IntenaOfContext /\ UserHoldsNothing /\
      TrapsNest /\ IntenaOfSleeper
  BY DEF IInv
<1> USE <1>0, ConstantFacts DEF TypeOK, OneCpuPerThread, IntenaOfContext,
    UserHoldsNothing, TrapsNest, IntenaOfSleeper, IntenaFor, Ctx, InKernel
<1>1. CASE UNCHANGED vars
  BY <1>1 DEF vars
<1>2. ASSUME NEW c \in Cpu, NEW l \in Lock, AcquireOk(c, l)
      PROVE  IntenaOfSleeper'
  BY <1>2 DEF AcquireOk, push_off
<1>3. ASSUME NEW c \in Cpu, NEW l \in Lock, ReleaseOk(c, l)
      PROVE  IntenaOfSleeper'
  BY <1>3 DEF ReleaseOk
<1>4. ASSUME NEW c \in Cpu, Swap(c) PROVE IntenaOfSleeper'
  BY <1>4 DEF Swap, Goto
<1>5. ASSUME NEW c \in Cpu, SetOwner(c) PROVE IntenaOfSleeper'
  BY <1>5 DEF SetOwner, GotoL
<1>6. ASSUME NEW c \in Cpu, UnlockOk(c) PROVE IntenaOfSleeper'
  BY <1>6 DEF UnlockOk
<1>7. ASSUME NEW c \in Cpu, TrapStep(c) PROVE IntenaOfSleeper'
  BY <1>7 DEF TrapStep, Syscall, Usertrap, Usertrapret, Kerneltrap,
      KerneltrapReturn, InUser, SetMode
<1>8. ASSUME NEW c \in Cpu, NEW t \in Thread, SchedOk(c, t)
      PROVE  IntenaOfSleeper'
  <2> SUFFICES ASSUME NEW u \in Thread, \A d \in Cpu : cpup'[d] # u
               PROVE  /\ saved'[u] = 2 => mode[u] = "new" /\ u \notin trap
                      /\ saved'[u] # 2 => IntenaFor(u, saved'[u])
    BY <1>8 DEF SchedOk
  <2>1. CASE u = t
    <3>1. saved'[u] = intena[c] /\ intena[c] \in {0, 1}
      BY <1>8, <2>1 DEF SchedOk
    <3>2. held[c] # {} /\ cpup[c] = u /\ u # None
      BY <1>8, <2>1 DEF SchedOk
    <3> QED BY <3>1, <3>2
  <2>2. CASE u # t
    <3>1. \A d \in Cpu : cpup[d] # u
      BY <1>8, <2>2 DEF SchedOk
    <3>2. saved'[u] = saved[u]
      BY <1>8, <2>2 DEF SchedOk
    <3> QED BY <3>1, <3>2
  <2> QED BY <2>1, <2>2
<1>9. ASSUME NEW c \in Cpu, SchedulerIntrOn(c) PROVE IntenaOfSleeper'
  BY <1>9 DEF SchedulerIntrOn
<1>10. ASSUME NEW c \in Cpu, NEW t \in Thread, Switch(c, t)
      PROVE  IntenaOfSleeper'
  BY <1>10 DEF Switch
<1> QED
  BY <1>1, <1>2, <1>3, <1>4, <1>5, <1>6, <1>7, <1>8, <1>9, <1>10, StepForms
     DEF StepOk

(***************************************************************************)
(* The last pop_off restores the bit as the context had it.                *)
(***************************************************************************)
LEMMA AsSetNext == IInv /\ [Next]_vars => InterruptsAsSet'
<1> SUFFICES ASSUME IInv, [Next]_vars PROVE InterruptsAsSet'
  OBVIOUS
<1>0. TypeOK /\ HeldMeansOff /\ AboutLock /\ TrapsNest /\ OneCpuPerThread /\
      UserHoldsNothing /\ IntenaOfContext /\ InterruptsAsSet
  BY DEF IInv
<1> USE <1>0, ConstantFacts DEF TypeOK, HeldMeansOff, AboutLock, TrapsNest,
    OneCpuPerThread, UserHoldsNothing, IntenaOfContext, InterruptsAsSet,
    IntenaFor, Ctx, InKernel
<1>1. CASE UNCHANGED vars
  BY <1>1 DEF vars
<1>2. ASSUME NEW c \in Cpu, NEW l \in Lock, AcquireOk(c, l)
      PROVE  InterruptsAsSet'
  BY <1>2 DEF AcquireOk, push_off
<1>3. ASSUME NEW c \in Cpu, NEW l \in Lock, ReleaseOk(c, l)
      PROVE  InterruptsAsSet'
  BY <1>3 DEF ReleaseOk
<1>4. ASSUME NEW c \in Cpu, Swap(c) PROVE InterruptsAsSet'
  BY <1>4 DEF Swap, Goto
<1>5. ASSUME NEW c \in Cpu, SetOwner(c) PROVE InterruptsAsSet'
  BY <1>5 DEF SetOwner, GotoL
<1>6. ASSUME NEW c \in Cpu, UnlockOk(c) PROVE InterruptsAsSet'
  BY <1>6 DEF UnlockOk
<1>7. ASSUME NEW c \in Cpu, TrapStep(c) PROVE InterruptsAsSet'
  BY <1>7 DEF TrapStep, Syscall, Usertrap, Usertrapret, Kerneltrap,
      KerneltrapReturn, InUser, SetMode
<1>8. ASSUME NEW c \in Cpu, NEW t \in Thread, SchedOk(c, t)
      PROVE  InterruptsAsSet'
  BY <1>8 DEF SchedOk
<1>9. ASSUME NEW c \in Cpu, SchedulerIntrOn(c) PROVE InterruptsAsSet'
  BY <1>9 DEF SchedulerIntrOn
<1>10. ASSUME NEW c \in Cpu, NEW t \in Thread, Switch(c, t)
      PROVE  InterruptsAsSet'
  BY <1>10 DEF Switch
<1> QED
  BY <1>1, <1>2, <1>3, <1>4, <1>5, <1>6, <1>7, <1>8, <1>9, <1>10, StepForms
     DEF StepOk

(***************************************************************************)
(* noff moves with the number of locks held, and the bit is set only by a  *)
(* CPU with none.                                                          *)
(***************************************************************************)
LEMMA OffNext == IInv /\ [Next]_vars => HeldMeansOff'
<1> SUFFICES ASSUME IInv, [Next]_vars PROVE HeldMeansOff'
  OBVIOUS
<1>0. TypeOK /\ AboutLock /\ UserHoldsNothing /\ HeldMeansOff
  BY DEF IInv
<1> USE <1>0, ConstantFacts DEF TypeOK, AboutLock, UserHoldsNothing,
    HeldMeansOff, InKernel, InUser
<1>1. CASE UNCHANGED vars
  BY <1>1 DEF vars
<1>2. ASSUME NEW c \in Cpu, NEW l \in Lock, AcquireOk(c, l)
      PROVE  HeldMeansOff'
  <2>1. Cardinality(held[c]) \in Nat
    BY HeldCount
  <2> QED BY <1>2, <2>1 DEF AcquireOk, push_off
<1>3. ASSUME NEW c \in Cpu, NEW l \in Lock, ReleaseOk(c, l)
      PROVE  HeldMeansOff'
  BY <1>3 DEF ReleaseOk
<1>4. ASSUME NEW c \in Cpu, Swap(c) PROVE HeldMeansOff'
  <2>1. /\ held[c] \in SUBSET Lock /\ lk[c] \in Lock \ held[c]
        /\ held'[c] = held[c] \cup {lk[c]}
    BY <1>4 DEF Swap
  <2>2. /\ Cardinality(held[c]) \in Nat
        /\ Cardinality(held[c] \cup {lk[c]}) = Cardinality(held[c]) + 1
    BY <2>1, HeldCount
  <2> QED BY <1>4, <2>1, <2>2 DEF Swap, Goto
<1>5. ASSUME NEW c \in Cpu, SetOwner(c) PROVE HeldMeansOff'
  BY <1>5 DEF SetOwner, GotoL
<1>6. ASSUME NEW c \in Cpu, UnlockOk(c) PROVE HeldMeansOff'
  BY <1>6 DEF UnlockOk
<1>7. ASSUME NEW c \in Cpu, TrapStep(c) PROVE HeldMeansOff'
  BY <1>7 DEF TrapStep, Syscall, Usertrap, Usertrapret, Kerneltrap,
      KerneltrapReturn
<1>8. ASSUME NEW c \in Cpu, NEW t \in Thread, SchedOk(c, t)
      PROVE  HeldMeansOff'
  BY <1>8 DEF SchedOk
<1>9. ASSUME NEW c \in Cpu, SchedulerIntrOn(c) PROVE HeldMeansOff'
  BY <1>9 DEF SchedulerIntrOn
<1>10. ASSUME NEW c \in Cpu, NEW t \in Thread, Switch(c, t)
      PROVE  HeldMeansOff'
  BY <1>10 DEF Switch
<1> QED
  BY <1>1, <1>2, <1>3, <1>4, <1>5, <1>6, <1>7, <1>8, <1>9, <1>10, StepForms
     DEF StepOk

-----------------------------------------------------------------------------
(***************************************************************************)
(* The kernel starts in IInv: locks free, CPUs in scheduler().             *)
(***************************************************************************)
LEMMA InitIInv == Init => IInv
<1> SUFFICES ASSUME Init PROVE IInv
  OBVIOUS
<1> USE ConstantFacts, FS_EmptySet DEF Init
<1>1. TypeOK
  BY DEF TypeOK
<1>2. MutualExclusion /\ HeldMeansOff /\ NoPanic /\ InterruptsAsSet
  BY DEF MutualExclusion, HeldMeansOff, NoPanic, InterruptsAsSet, Ctx
<1>3. LockedIsHeld /\ OwnerIsHolder /\ AboutLock
  BY DEF LockedIsHeld, OwnerIsHolder, AboutLock, Between
<1>4. OneCpuPerThread /\ TrapsNest /\ UserHoldsNothing
  BY DEF OneCpuPerThread, TrapsNest, UserHoldsNothing
<1>5. IntenaOfContext /\ IntenaOfSleeper
  BY DEF IntenaOfContext, IntenaOfSleeper
<1> QED BY <1>1, <1>2, <1>3, <1>4, <1>5 DEF IInv

(***************************************************************************)
(* IInv holds throughout.                                                  *)
(***************************************************************************)
LEMMA IInvHolds == Spec => []IInv
<1>1. IInv /\ [Next]_vars => IInv'
  BY TypeNext, MutexNext, OffNext, PanicNext, AsSetNext, LockedNext,
     OwnerNext, AboutNext, OneCpuNext, TrapsNext, UserNext, IntenaNext,
     SleeperNext DEF IInv
<1> QED BY InitIInv, <1>1, PTL DEF Spec

(***************************************************************************)
(* A spin lock is held by one CPU at a time, whatever runs on the CPUs and *)
(* however threads are switched while they hold a slock.                   *)
(***************************************************************************)
THEOREM MutualExclusionHolds == Spec => []MutualExclusion
<1>1. IInv => MutualExclusion
  BY DEF IInv
<1> QED BY IInvHolds, <1>1, PTL

(***************************************************************************)
(* Interrupts are off while a CPU holds or spins for a lock, and noff is   *)
(* exactly the number of push_off calls without their pop_off.             *)
(***************************************************************************)
THEOREM HeldMeansOffHolds == Spec => []HeldMeansOff
<1>1. IInv => HeldMeansOff
  BY DEF IInv
<1> QED BY IInvHolds, <1>1, PTL

(***************************************************************************)
(* The panics of acquire, release, pop_off and sched are unreachable for   *)
(* code that respects the lock order.                                      *)
(***************************************************************************)
THEOREM NoPanicHolds == Spec => []NoPanic
<1>1. IInv => NoPanic
  BY DEF IInv
<1> QED BY IInvHolds, <1>1, PTL

(***************************************************************************)
(* sched()'s saving of intena brings every context its interrupt enable    *)
(* back, on whichever CPU it goes on.                                      *)
(***************************************************************************)
THEOREM InterruptsAsSetHolds == Spec => []InterruptsAsSet
<1>1. IInv => InterruptsAsSet
  BY DEF IInv
<1> QED BY IInvHolds, <1>1, PTL
=============================================================================
