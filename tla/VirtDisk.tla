------------------------------ MODULE VirtDisk ------------------------------
(***************************************************************************)
(* The virtio disk driver of src/kernel/virt.c: virt_disk_rw on one side   *)
(* of the queue, the device in the middle, virtio_disk_isr on the other.   *)
(*                                                                         *)
(* A thread's request moves its own buffer, which it holds locked, so a    *)
(* buffer is named by its thread.  A step of a thread or of the interrupt  *)
(* handler ends where another actor can see the difference; disklock is    *)
(* held in the states between.  On one CPU (Smp = FALSE) interrupts are    *)
(* off while disklock is held, and threads stand still while the handler   *)
(* runs; with Smp the handler runs beside them: it takes no lock.          *)
(*                                                                         *)
(* The device is external: it takes published chains in ring order, ends   *)
(* them in any order, and raises its interrupt with each.  Left out: the   *)
(* direction, the sector and the data of a transfer, and start-up.         *)
(***************************************************************************)
EXTENDS Naturals, FiniteSets, FiniteSetsExt

CONSTANTS
  NUM,       \* number of descriptors and of ring entries
  IdxMod,    \* ring indices are uint16: 2^16 in the code
  Thread,    \* threads that may call virt_disk_rw
  NoThread,  \* the null struct buf pointer
  Smp        \* does another CPU take the disk's interrupts?

ASSUME VirtDiskAssumption ==
  /\ NUM \in Nat /\ NUM >= 3
  /\ IdxMod \in Nat /\ IdxMod > NUM /\ IdxMod % NUM = 0
  /\ IsFiniteSet(Thread) /\ NoThread \notin Thread
  /\ Smp \in BOOLEAN

Desc == 0 .. NUM - 1
Nil  == NUM              \* no descriptor

VARIABLES
  free,       \* descriptors with disk.free[i] = 1
  next,       \* desc[i].next while VRING_DESC_F_NEXT is set, else Nil
  infob,      \* info[i].b
  bdisk,      \* b->disk of each thread's buffer
  availRing,  \* avail->ring; an entry is cleared once the device has read it
  availIdx,   \* avail->index
  usedRing,   \* used->ring; cleared once the driver has read it
  usedIdx,    \* used->idx
  used_idx,   \* disk.used_idx, how far the driver has read
  devIdx,     \* how far the device has read the avail ring
  inflight,   \* heads of the chains the device works on
  irq,        \* the interrupt status bit
  lock,       \* thread that holds disklock
  head,       \* idx[0] of each thread's request
  pc,         \* where each thread is in virt_disk_rw
  isr,        \* where the interrupt handler is
  isrb        \* the handler's local b

vars == <<free, next, infob, bdisk, availRing, availIdx, usedRing, usedIdx,
          used_idx, devIdx, inflight, irq, lock, head, pc, isr, isrb>>

queue  == <<free, next, infob, availRing, availIdx>>
device == <<usedRing, usedIdx, devIdx, inflight, irq>>
driver == <<used_idx, isr, isrb>>

Init ==
  /\ free = Desc
  /\ next = [i \in Desc |-> Nil]
  /\ infob = [i \in Desc |-> NoThread]
  /\ bdisk = [t \in Thread |-> 0]
  /\ availRing = [i \in Desc |-> Nil]
  /\ availIdx = 0
  /\ usedRing = [i \in Desc |-> Nil]
  /\ usedIdx = 0
  /\ used_idx = 0
  /\ devIdx = 0
  /\ inflight = {}
  /\ irq = FALSE
  /\ lock = NoThread
  /\ head = [t \in Thread |-> Nil]
  /\ pc = [t \in Thread |-> "idle"]
  /\ isr = "off"
  /\ isrb = NoThread

\* avail->index, used->idx and disk.used_idx count without % NUM.
Succ(i) == (i + 1) % IdxMod

\* Threads run unless the only CPU is in the interrupt handler.
Runs(t, l) == pc[t] = l /\ (Smp \/ isr = "off")

Goto(t, l) == pc' = [pc EXCEPT ![t] = l]

-----------------------------------------------------------------------------
(***************************************************************************)
(* virt_disk_rw(b, write).                                                 *)
(***************************************************************************)
Lock(t) ==
  /\ Runs(t, "idle")
  /\ lock = NoThread
  /\ lock' = t
  /\ Goto(t, "alloc")
  /\ UNCHANGED <<queue, bdisk, device, driver, head>>

\* alloc3_desc takes the three lowest free descriptors.
Alloc3(t) ==
  LET i == Min(free)
      j == Min(free \ {i})
      k == Min(free \ {i, j})
  IN
  /\ Runs(t, "alloc")
  /\ Cardinality(free) >= 3
  /\ free' = free \ {i, j, k}
  /\ next' = [next EXCEPT ![i] = j, ![j] = k, ![k] = Nil]
  /\ head' = [head EXCEPT ![t] = i]
  /\ bdisk' = [bdisk EXCEPT ![t] = 1]
  /\ infob' = [infob EXCEPT ![i] = t]
  /\ availRing' = [availRing EXCEPT ![availIdx % NUM] = i]
  /\ Goto(t, "publish")
  /\ UNCHANGED <<availIdx, lock, device, driver>>

\* There are not three: alloc3_desc gives back what it took, and the loop
\* tries again, with disklock held.
Alloc3Retry(t) ==
  /\ Runs(t, "alloc")
  /\ Cardinality(free) < 3
  /\ UNCHANGED vars

\* After the barrier the device may see the new index, and is notified.
Publish(t) ==
  /\ Runs(t, "publish")
  /\ availIdx' = Succ(availIdx)
  /\ Goto(t, "check")
  /\ UNCHANGED <<free, next, infob, bdisk, availRing, lock, head, device,
                 driver>>

\* while(b->disk == 1): the test, and the sleep() it decides on.
CheckBusy(t) ==
  /\ Runs(t, "check")
  /\ bdisk[t] = 1
  /\ Goto(t, "sleep")
  /\ UNCHANGED <<queue, bdisk, lock, head, device, driver>>

\* sleep(b, &disklock) releases disklock and marks the thread in one step as
\* far as wakeup is concerned: both hold the thread's slock.
Sleep(t) ==
  /\ Runs(t, "sleep")
  /\ lock' = NoThread
  /\ Goto(t, "asleep")
  /\ UNCHANGED <<queue, bdisk, head, device, driver>>

Relock(t) ==
  /\ Runs(t, "awake")
  /\ lock = NoThread
  /\ lock' = t
  /\ Goto(t, "check")
  /\ UNCHANGED <<queue, bdisk, head, device, driver>>

\* The descriptors that free_chain(i) visits: it reads next before it frees.
Chain(i) ==
  LET j == next[i]
  IN  {i} \cup IF j = Nil THEN {} ELSE {j, next[j]} \ {Nil}

\* Faulty variant: the request is taken for done without testing b->disk.
FinishEarly(t) ==
  /\ Runs(t, "check")
  /\ infob' = [infob EXCEPT ![head[t]] = NoThread]
  /\ free' = free \cup Chain(head[t])
  /\ next' = [i \in Desc |-> IF i \in Chain(head[t]) THEN Nil ELSE next[i]]
  /\ head' = [head EXCEPT ![t] = Nil]
  /\ lock' = NoThread
  /\ Goto(t, "idle")
  /\ UNCHANGED <<bdisk, availRing, availIdx, device, driver>>

\* Faulty variant: free_desc(idx[0]) in place of free_chain(idx[0]).
FinishHeadOnly(t) ==
  /\ Runs(t, "check")
  /\ bdisk[t] # 1
  /\ infob' = [infob EXCEPT ![head[t]] = NoThread]
  /\ free' = free \cup {head[t]}
  /\ next' = [next EXCEPT ![head[t]] = Nil]
  /\ head' = [head EXCEPT ![t] = Nil]
  /\ lock' = NoThread
  /\ Goto(t, "idle")
  /\ UNCHANGED <<bdisk, availRing, availIdx, device, driver>>

\* The request is over: info[idx[0]].b = 0; free_chain(idx[0]); release.
Finish(t) ==
  /\ Runs(t, "check")
  /\ bdisk[t] # 1
  /\ infob' = [infob EXCEPT ![head[t]] = NoThread]
  /\ free' = free \cup Chain(head[t])
  /\ next' = [i \in Desc |-> IF i \in Chain(head[t]) THEN Nil ELSE next[i]]
  /\ head' = [head EXCEPT ![t] = Nil]
  /\ lock' = NoThread
  /\ Goto(t, "idle")
  /\ UNCHANGED <<bdisk, availRing, availIdx, device, driver>>

-----------------------------------------------------------------------------
(***************************************************************************)
(* virtio_disk_isr().                                                      *)
(***************************************************************************)
\* Faulty variant: disklock does not keep the handler out on its CPU.
IsrEnterUnmasked ==
  /\ isr = "off"
  /\ irq
  /\ irq' = FALSE
  /\ isr' = "loop"
  /\ UNCHANGED <<queue, bdisk, usedRing, usedIdx, devIdx, inflight, used_idx,
                 lock, head, pc, isrb>>

\* The handler acknowledges the interrupt before it reads used->idx.
IsrEnter ==
  /\ isr = "off"
  /\ irq
  /\ Smp \/ lock = NoThread
  /\ irq' = FALSE
  /\ isr' = "loop"
  /\ UNCHANGED <<queue, bdisk, usedRing, usedIdx, devIdx, inflight, used_idx,
                 lock, head, pc, isrb>>

\* One used entry: its buffer is done, unless nobody owns it (panic).
IsrTake ==
  LET id == usedRing[used_idx % NUM]
      b  == infob[id]
  IN
  /\ isr = "loop"
  /\ used_idx # usedIdx
  /\ IF b = NoThread
     THEN isr' = "panic" /\ UNCHANGED <<bdisk, isrb>>
     ELSE /\ bdisk' = [bdisk EXCEPT ![b] = 0]
          /\ isrb' = b
          /\ isr' = "wake"
  /\ UNCHANGED <<queue, device, used_idx, lock, head, pc>>

\* Faulty variant: one used entry for each interrupt, if in place of while.
IsrWakeOne ==
  /\ isr = "wake"
  /\ pc' = IF pc[isrb] = "asleep" THEN [pc EXCEPT ![isrb] = "awake"] ELSE pc
  /\ usedRing' = [usedRing EXCEPT ![used_idx % NUM] = Nil]
  /\ used_idx' = Succ(used_idx)
  /\ isr' = "off"
  /\ isrb' = NoThread
  /\ UNCHANGED <<queue, bdisk, usedIdx, devIdx, inflight, irq, lock, head>>

\* wakeup(b); disk.used_idx += 1.
IsrWake ==
  /\ isr = "wake"
  /\ pc' = IF pc[isrb] = "asleep" THEN [pc EXCEPT ![isrb] = "awake"] ELSE pc
  /\ usedRing' = [usedRing EXCEPT ![used_idx % NUM] = Nil]
  /\ used_idx' = Succ(used_idx)
  /\ isr' = "loop"
  /\ isrb' = NoThread
  /\ UNCHANGED <<queue, bdisk, usedIdx, devIdx, inflight, irq, lock, head>>

IsrExit ==
  /\ isr = "loop"
  /\ used_idx = usedIdx
  /\ isr' = "off"
  /\ UNCHANGED <<queue, bdisk, device, used_idx, lock, head, pc, isrb>>

-----------------------------------------------------------------------------
(***************************************************************************)
(* The device.                                                             *)
(***************************************************************************)
DevFetch ==
  /\ devIdx # availIdx
  /\ inflight' = inflight \cup {availRing[devIdx % NUM]}
  /\ availRing' = [availRing EXCEPT ![devIdx % NUM] = Nil]
  /\ devIdx' = Succ(devIdx)
  /\ UNCHANGED <<free, next, infob, bdisk, availIdx, usedRing, usedIdx, irq,
                 driver, lock, head, pc>>

DevComplete(h) ==
  /\ h \in inflight
  /\ inflight' = inflight \ {h}
  /\ usedRing' = [usedRing EXCEPT ![usedIdx % NUM] = h]
  /\ usedIdx' = Succ(usedIdx)
  /\ irq' = TRUE
  /\ UNCHANGED <<queue, bdisk, devIdx, driver, lock, head, pc>>

-----------------------------------------------------------------------------
Rw(t) == \/ Alloc3(t) \/ Alloc3Retry(t) \/ Publish(t) \/ CheckBusy(t)
         \/ Sleep(t) \/ Relock(t) \/ Finish(t)

Isr == IsrEnter \/ IsrTake \/ IsrWake \/ IsrExit

Dev == DevFetch \/ \E h \in Desc : DevComplete(h)

Next == Isr \/ Dev \/ \E t \in Thread : Lock(t) \/ Rw(t)

Spec == Init /\ [][Next]_vars

(***************************************************************************)
(* Fairness: the device ends what it starts, a pending interrupt is taken  *)
(* once interrupts are on again and again, and threads are scheduled.  A   *)
(* woken thread wins disklock eventually; nobody has to start a request.   *)
(***************************************************************************)
Fairness ==
  /\ SF_vars(Isr)
  /\ WF_vars(DevFetch) /\ \A h \in Desc : WF_vars(DevComplete(h))
  /\ \A t \in Thread : SF_vars(Rw(t))

FairSpec == Spec /\ Fairness

-----------------------------------------------------------------------------
\* Chains given to the device, and those it has handed back since the
\* handler last looked.
Outstanding ==
  inflight \cup ({availRing[i] : i \in Desc} \ {Nil})

HandedBack ==
  {usedRing[i] : i \in Desc} \ {Nil}

(***************************************************************************)
(* The device never works on a descriptor chain that the driver has taken  *)
(* back, and the handler never reads of a chain that nobody owns (its      *)
(* panic "buf is empty"): until the handler has seen it, a chain is not    *)
(* free, its buffer is recorded in info[], and the owner still waits.      *)
(***************************************************************************)
DeviceOwnsChain ==
  /\ isr # "panic"
  /\ \A h \in Outstanding \cup HandedBack :
       /\ Chain(h) \subseteq Desc \ free
       /\ infob[h] # NoThread
       /\ bdisk[infob[h]] = 1 \/ isrb = infob[h]
       /\ head[infob[h]] = h

(***************************************************************************)
(* Descriptors are neither lost nor shared: the free ones and the chains   *)
(* of the requests in progress, three each, make up the whole table.       *)
(***************************************************************************)
NoDescriptorLeak ==
  LET busy == {t \in Thread : head[t] # Nil}
  IN  /\ \A t, u \in busy : t # u => Chain(head[t]) \cap Chain(head[u]) = {}
      /\ \A t \in busy : Chain(head[t]) \cap free = {}
      /\ Cardinality(free) + 3 * Cardinality(busy) = NUM

(***************************************************************************)
(* No completion is lost on a thread that goes to sleep: a thread asleep   *)
(* on its buffer either still has its request outstanding, or the handler  *)
(* is about to wake it, or an interrupt will bring the handler back.       *)
(***************************************************************************)
NoLostCompletion ==
  \A t \in Thread : pc[t] = "asleep" =>
    \/ isr = "wake" /\ isrb = t
    \/ bdisk[t] = 1 /\ (head[t] \in Outstanding \/ irq \/ isr # "off")

(***************************************************************************)
(* The driver is stuck: a request spins in its retry loop for descriptors. *)
(* It holds disklock, which whoever could free some needs, so it spins for *)
(* ever, on its CPU with interrupts off.                                   *)
(***************************************************************************)
Stuck == \E t \in Thread : pc[t] = "alloc" /\ Cardinality(free) < 3

(***************************************************************************)
(* Every disk request that was issued returns to its caller, unless one    *)
(* finds fewer than three free descriptors and the driver is stuck.        *)
(***************************************************************************)
RequestReturns ==
  \A t \in Thread : pc[t] = "alloc" ~> pc[t] = "idle" \/ Stuck
=============================================================================
