---------------------------- MODULE BcacheProofs ----------------------------
(***************************************************************************)
(* Proofs about Bcache for every NBUF and any threads, blocks and values:  *)
(* its inductive invariant, the safety properties, and the refinement of   *)
(* BlockStore.                                                             *)
(***************************************************************************)
EXTENDS Bcache, FiniteSetTheorems, TLAPS

-----------------------------------------------------------------------------
Waiting == {"lock", "asleep", "drop"}         \* a reference, not the lock
Locked  == {"read", "filled"} \cup Holding    \* between sleep_lock and unlock
Labels  == {"idle", "panic"} \cup Waiting \cup Locked

TypeOK ==
  /\ lru \in [Buf -> Buf]
  /\ blockno \in [Buf -> Block \cup {NoBlock}]
  /\ vaild \in [Buf -> {0, 1}]
  /\ refcnt \in [Buf -> Nat]
  /\ holder \in [Buf -> Thread \cup {NoThread}]
  /\ data \in [Buf -> Value \cup {NoValue}]
  /\ disk \in [Block -> Value]
  /\ pc \in [Thread -> Labels]
  /\ r \in [Thread -> Buf \cup {NoBuf}]

\* Every buffer is on the list: a walk to its end misses none.
ListHasAll == \A b \in Buf : \E i \in Buf : lru[i] = b

\* A thread has a reference from bget to brelease; the panic is bget's.
RefHeld == \A t \in Thread : r[t] = NoBuf <=> pc[t] \in {"idle", "panic"}

\* A buffer with a reference keeps its block.
RefBlock == \A t \in Thread : r[t] # NoBuf => blockno[r[t]] \in Block

\* The sleep lock's state is the threads'.
HolderExact ==
  \A t \in Thread, b \in Buf :
    holder[b] = t <=> r[t] = b /\ pc[t] \in Locked

\* vaild is set by the thread that has read the block, before it goes on.
VaildSet ==
  /\ \A t \in Thread :
       /\ pc[t] \in {"read", "filled"} => vaild[r[t]] = 0
       /\ pc[t] \in Holding => vaild[r[t]] = 1
       /\ pc[t] = "filled" => data[r[t]] = disk[blockno[r[t]]]
  /\ \A b \in Buf : vaild[b] = 1 => blockno[b] \in Block /\ data[b] \in Value

\* A valid buffer has what the disk has, unless its holder has yet to write it.
CacheIsDisk ==
  \A b \in Buf : vaild[b] = 1 =>
    \/ data[b] = disk[blockno[b]]
    \/ \E t \in Thread : r[t] = b /\ pc[t] = "dirty"

IInv ==
  /\ TypeOK /\ ListHasAll
  /\ OneBufPerBlock /\ RefcntExact /\ SleeperHasHolder
  /\ RefHeld /\ RefBlock /\ HolderExact /\ VaildSet /\ CacheIsDisk

-----------------------------------------------------------------------------
(***************************************************************************)
(* The constants.                                                          *)
(***************************************************************************)
LEMMA ConstantFacts ==
  /\ NoBuf \notin Buf /\ NoThread \notin Thread /\ NoBlock \notin Block
  /\ NoValue \notin Value
BY BcacheAssumption DEF Buf, NoBuf

(***************************************************************************)
(* The threads that refer to a buffer: a finite set, whose number bget and *)
(* brelease change by one.                                                 *)
(***************************************************************************)
Refs(b) == {u \in Thread : r[u] = b}

LEMMA RefsCount ==
  ASSUME NEW S \in SUBSET Thread, NEW t
  PROVE  /\ Cardinality(S) \in Nat
         /\ Cardinality(S) = 0 <=> S = {}
         /\ Cardinality({t}) = 1
         /\ t \notin S => Cardinality(S \cup {t}) = Cardinality(S) + 1
         /\ t \in S => Cardinality(S \ {t}) = Cardinality(S) - 1
<1>1. IsFiniteSet(S)
  BY BcacheAssumption, FS_Subset
<1> QED BY <1>1, FS_CardinalityType, FS_EmptySet, FS_AddElement,
           FS_RemoveElement, FS_Singleton

(***************************************************************************)
(* A buffer has references exactly when its count is not 0.                *)
(***************************************************************************)
LEMMA NoRefs ==
  ASSUME IInv, NEW b \in Buf
  PROVE  refcnt[b] = 0 <=> \A u \in Thread : r[u] # b
<1>1. refcnt[b] = Cardinality(Refs(b))
  BY DEF IInv, RefcntExact, Refs
<1>2. Refs(b) \in SUBSET Thread
  BY DEF Refs
<1>3. Cardinality(Refs(b)) = 0 <=> Refs(b) = {}
  BY <1>2, RefsCount
<1> QED BY <1>1, <1>3 DEF Refs

(***************************************************************************)
(* brelease keeps every buffer on the list.                                *)
(***************************************************************************)
LEMMA ToFrontKeeps ==
  ASSUME TypeOK, ListHasAll, NEW b \in Buf
  PROVE  /\ ToFront(b) \in [Buf -> Buf]
         /\ \A c \in Buf : \E i \in Buf : ToFront(b)[i] = c
<1> DEFINE p == CHOOSE i \in Buf : lru[i] = b
           F == [i \in Buf |-> IF i = 1 THEN b
                               ELSE IF i <= p THEN lru[i - 1] ELSE lru[i]]
<1>1. p \in Buf /\ lru[p] = b
  BY DEF ListHasAll
<1>2. F = ToFront(b)
  BY DEF ToFront
<1> HIDE DEF p
<1>3. F \in [Buf -> Buf]
  <2>1. \A i \in Buf : i # 1 => i - 1 \in Buf
    BY BcacheAssumption DEF Buf
  <2> QED BY <2>1 DEF TypeOK
<1>4. ASSUME NEW c \in Buf PROVE \E i \in Buf : F[i] = c
  <2>1. PICK k \in Buf : lru[k] = c
    BY DEF ListHasAll
  <2>2. CASE c = b
    <3>1. 1 \in Buf
      BY BcacheAssumption DEF Buf
    <3> QED BY <2>2, <3>1
  <2>3. CASE c # b /\ k < p
    <3>1. k + 1 \in Buf /\ k + 1 # 1 /\ k + 1 <= p /\ (k + 1) - 1 = k
      BY <1>1, <2>3, BcacheAssumption DEF Buf
    <3>2. F[k + 1] = c
      BY <2>1, <3>1
    <3> QED BY <3>1, <3>2
  <2>4. CASE c # b /\ ~(k < p)
    <3>1. k # p
      BY <1>1, <2>1, <2>4
    <3>2. k # 1 /\ ~(k <= p)
      BY <1>1, <2>4, <3>1 DEF Buf
    <3> QED BY <2>1, <3>2
  <2> QED BY <2>2, <2>3, <2>4
<1> QED BY <1>2, <1>3, <1>4

-----------------------------------------------------------------------------
(***************************************************************************)
(* What the steps come to when IInv holds: bget names the buffer it picks, *)
(* and the panics of bwrite and brelease are not reached.                  *)
(***************************************************************************)
HitOk(t, b) ==
  /\ pc[t] = "idle" /\ blockno[b] \in Block
  /\ refcnt' = [refcnt EXCEPT ![b] = @ + 1]
  /\ r' = [r EXCEPT ![t] = b]
  /\ pc' = [pc EXCEPT ![t] = "lock"]
  /\ UNCHANGED <<lru, blockno, vaild, holder, data, disk>>

RecycleOk(t, k, b) ==
  /\ pc[t] = "idle"
  /\ \A c \in Buf : blockno[c] # k
  /\ refcnt[b] = 0 /\ \A u \in Thread : r[u] # b
  /\ refcnt' = [refcnt EXCEPT ![b] = 1]
  /\ vaild' = [vaild EXCEPT ![b] = 0]
  /\ blockno' = [blockno EXCEPT ![b] = k]
  /\ r' = [r EXCEPT ![t] = b]
  /\ pc' = [pc EXCEPT ![t] = "lock"]
  /\ UNCHANGED <<lru, holder, data, disk>>

PanicOk(t) ==
  /\ pc[t] = "idle"
  /\ \A b \in Buf : \E u \in Thread \ {t} : r[u] = b
  /\ pc' = [pc EXCEPT ![t] = "panic"]
  /\ UNCHANGED <<lru, blockno, vaild, refcnt, holder, data, disk, r>>

BwriteOk(t) ==
  /\ pc[t] = "dirty" /\ r[t] \in Buf
  /\ disk' = [disk EXCEPT ![blockno[r[t]]] = data[r[t]]]
  /\ pc' = [pc EXCEPT ![t] = "written"]
  /\ UNCHANGED <<lru, blockno, vaild, refcnt, holder, data, r>>

UnlockOk(t) ==
  /\ pc[t] \in {"have", "written"} /\ r[t] \in Buf
  /\ holder' = [holder EXCEPT ![r[t]] = NoThread]
  /\ pc' = [u \in Thread |->
              IF u = t THEN "drop"
              ELSE IF pc[u] = "asleep" /\ r[u] = r[t] THEN "lock"
              ELSE pc[u]]
  /\ UNCHANGED <<lru, blockno, vaild, refcnt, data, disk, r>>

BreleaseOk(t) ==
  /\ pc[t] = "drop" /\ r[t] \in Buf
  /\ lru' \in [Buf -> Buf] /\ \A c \in Buf : \E i \in Buf : lru'[i] = c
  /\ refcnt' = [refcnt EXCEPT ![r[t]] = @ - 1]
  /\ r' = [r EXCEPT ![t] = NoBuf]
  /\ pc' = [pc EXCEPT ![t] = "idle"]
  /\ UNCHANGED <<blockno, vaild, holder, data, disk>>

StepOk ==
  \/ UNCHANGED vars
  \/ \E t \in Thread :
       \/ \E b \in Buf : HitOk(t, b) \/ \E k \in Block : RecycleOk(t, k, b)
       \/ PanicOk(t)
       \/ \E v \in Value : Modify(t, v)
       \/ SleepLock(t) \/ SleepWait(t) \/ DiskRead(t) \/ Bread(t)
       \/ BwriteOk(t) \/ UnlockOk(t) \/ BreleaseOk(t)

(***************************************************************************)
(* A step from a state of IInv is one of these.                            *)
(***************************************************************************)
LEMMA StepForms == IInv /\ [Next]_vars => StepOk
<1> SUFFICES ASSUME IInv, [Next]_vars PROVE StepOk
  OBVIOUS
<1> USE ConstantFacts
<1>0. \A t \in Thread : r[t] # NoBuf => r[t] \in Buf
  BY DEF IInv, TypeOK
<1>1. ASSUME NEW t \in Thread, NEW k \in Block, BgetHit(t, k)
      PROVE  \E b \in Buf : HitOk(t, b)
  BY <1>1 DEF BgetHit, HitOk, Cached, At, Goto
<1>2. ASSUME NEW t \in Thread, NEW k \in Block, BgetRecycle(t, k)
      PROVE  \E b \in Buf : RecycleOk(t, k, b)
  <2>1. PICK i \in Buf :
          /\ refcnt[lru[i]] = 0
          /\ refcnt' = [refcnt EXCEPT ![lru[i]] = 1]
          /\ vaild' = [vaild EXCEPT ![lru[i]] = 0]
          /\ blockno' = [blockno EXCEPT ![lru[i]] = k]
          /\ r' = [r EXCEPT ![t] = lru[i]]
    BY <1>2 DEF BgetRecycle, LastUnused
  <2>2. lru[i] \in Buf
    BY DEF IInv, TypeOK
  <2>3. \A u \in Thread : r[u] # lru[i]
    BY <2>1, <2>2, NoRefs
  <2>4. RecycleOk(t, k, lru[i])
    BY <1>2, <2>1, <2>3 DEF BgetRecycle, RecycleOk, Cached, At, Goto
  <2> QED BY <2>2, <2>4
<1>3. ASSUME NEW t \in Thread, NEW k \in Block, BgetPanic(t, k)
      PROVE  PanicOk(t)
  <2>1. ASSUME NEW b \in Buf PROVE \E u \in Thread \ {t} : r[u] = b
    <3>1. refcnt[b] # 0
      BY <1>3 DEF BgetPanic, IInv, ListHasAll
    <3>2. PICK u \in Thread : r[u] = b
      BY <3>1, NoRefs
    <3>3. r[t] = NoBuf
      BY <1>3 DEF BgetPanic, At, IInv, RefHeld
    <3> QED BY <3>2, <3>3
  <2> QED BY <1>3, <2>1 DEF BgetPanic, PanicOk, At, Goto
<1>4. ASSUME NEW t \in Thread, Bwrite(t) PROVE BwriteOk(t)
  <2>1. pc[t] = "dirty" /\ r[t] \in Buf /\ holder[r[t]] = t
    BY <1>0, <1>4 DEF Bwrite, At, IInv, RefHeld, HolderExact, Locked, Holding
  <2> QED BY <1>4, <2>1 DEF Bwrite, BwriteOk, Goto
<1>5. ASSUME NEW t \in Thread, SleepUnlock(t) PROVE UnlockOk(t)
  <2>1. pc[t] \in {"have", "written"} /\ r[t] \in Buf /\ holder[r[t]] = t
    BY <1>0, <1>5 DEF SleepUnlock, At, IInv, RefHeld, HolderExact, Locked,
       Holding
  <2> QED BY <1>5, <2>1 DEF SleepUnlock, UnlockOk
<1>6. ASSUME NEW t \in Thread, Brelease(t) PROVE BreleaseOk(t)
  <2>1. pc[t] = "drop" /\ r[t] \in Buf
    BY <1>0, <1>6 DEF Brelease, At, IInv, RefHeld
  <2>2. lru' \in [Buf -> Buf] /\ \A c \in Buf : \E i \in Buf : lru'[i] = c
    <3>1. TypeOK /\ ListHasAll
      BY DEF IInv
    <3>2. CASE lru' = lru
      BY <3>1, <3>2 DEF TypeOK, ListHasAll
    <3>3. CASE lru' = ToFront(r[t])
      BY <2>1, <3>1, <3>3, ToFrontKeeps
    <3> QED BY <1>6, <3>2, <3>3 DEF Brelease
  <2> QED BY <1>6, <2>1, <2>2 DEF Brelease, BreleaseOk, Goto
<1> QED BY <1>1, <1>2, <1>3, <1>4, <1>5, <1>6 DEF Next, Bget, Step, StepOk

-----------------------------------------------------------------------------
(***************************************************************************)
(* Every step keeps every part of IInv.                                    *)
(***************************************************************************)

(***************************************************************************)
(* Types. RefHeld says where a thread has a buffer.                        *)
(***************************************************************************)
LEMMA TypeNext == IInv /\ [Next]_vars => TypeOK'
<1> SUFFICES ASSUME IInv, [Next]_vars PROVE TypeOK'
  OBVIOUS
<1>0. TypeOK /\ RefHeld /\ RefBlock /\ VaildSet
  BY DEF IInv
<1> USE <1>0, ConstantFacts DEF TypeOK, RefHeld, RefBlock, VaildSet, Labels,
    Waiting, Locked, Holding
<1>1. CASE UNCHANGED vars
  BY <1>1 DEF vars
<1>2. ASSUME NEW t \in Thread, NEW b \in Buf, HitOk(t, b) PROVE TypeOK'
  BY <1>2 DEF HitOk
<1>3. ASSUME NEW t \in Thread, NEW k \in Block, NEW b \in Buf, RecycleOk(t, k, b)
      PROVE  TypeOK'
  BY <1>3 DEF RecycleOk
<1>4. ASSUME NEW t \in Thread, PanicOk(t) PROVE TypeOK'
  BY <1>4 DEF PanicOk
<1>5. ASSUME NEW t \in Thread, SleepLock(t) PROVE TypeOK'
  BY <1>5 DEF SleepLock, At, Goto
<1>6. ASSUME NEW t \in Thread, SleepWait(t) PROVE TypeOK'
  BY <1>6 DEF SleepWait, At, Goto
<1>7. ASSUME NEW t \in Thread, DiskRead(t) PROVE TypeOK'
  BY <1>7 DEF DiskRead, At, Goto
<1>8. ASSUME NEW t \in Thread, Bread(t) PROVE TypeOK'
  BY <1>8 DEF Bread, At, Goto
<1>9. ASSUME NEW t \in Thread, NEW v \in Value, Modify(t, v) PROVE TypeOK'
  BY <1>9 DEF Modify, At, Goto
<1>10. ASSUME NEW t \in Thread, BwriteOk(t) PROVE TypeOK'
  BY <1>10 DEF BwriteOk
<1>11. ASSUME NEW t \in Thread, UnlockOk(t) PROVE TypeOK'
  BY <1>11 DEF UnlockOk
<1>12. ASSUME NEW t \in Thread, BreleaseOk(t) PROVE TypeOK'
  <2>1. refcnt[r[t]] # 0
    BY <1>12, NoRefs DEF BreleaseOk
  <2>2. refcnt[r[t]] \in Nat
    BY <1>12 DEF BreleaseOk
  <2>3. refcnt[r[t]] - 1 \in Nat
    BY <2>1, <2>2
  <2> QED BY <1>12, <2>3 DEF BreleaseOk
<1> QED
  BY <1>1, <1>2, <1>3, <1>4, <1>5, <1>6, <1>7, <1>8, <1>9, <1>10, <1>11,
     <1>12, StepForms DEF StepOk

(***************************************************************************)
(* Only brelease changes the list.                                         *)
(***************************************************************************)
LEMMA ListNext == IInv /\ [Next]_vars => ListHasAll'
<1> SUFFICES ASSUME IInv, [Next]_vars PROVE ListHasAll'
  OBVIOUS
<1>0. TypeOK /\ ListHasAll
  BY DEF IInv
<1> USE <1>0, ConstantFacts DEF TypeOK, ListHasAll
<1>1. CASE UNCHANGED vars
  BY <1>1 DEF vars
<1>2. ASSUME NEW t \in Thread, NEW b \in Buf, HitOk(t, b) PROVE ListHasAll'
  BY <1>2 DEF HitOk
<1>3. ASSUME NEW t \in Thread, NEW k \in Block, NEW b \in Buf, RecycleOk(t, k, b)
      PROVE  ListHasAll'
  BY <1>3 DEF RecycleOk
<1>4. ASSUME NEW t \in Thread, PanicOk(t) PROVE ListHasAll'
  BY <1>4 DEF PanicOk
<1>5. ASSUME NEW t \in Thread, SleepLock(t) PROVE ListHasAll'
  BY <1>5 DEF SleepLock, At, Goto
<1>6. ASSUME NEW t \in Thread, SleepWait(t) PROVE ListHasAll'
  BY <1>6 DEF SleepWait, At, Goto
<1>7. ASSUME NEW t \in Thread, DiskRead(t) PROVE ListHasAll'
  BY <1>7 DEF DiskRead, At, Goto
<1>8. ASSUME NEW t \in Thread, Bread(t) PROVE ListHasAll'
  BY <1>8 DEF Bread, At, Goto
<1>9. ASSUME NEW t \in Thread, NEW v \in Value, Modify(t, v)
      PROVE  ListHasAll'
  BY <1>9 DEF Modify, At, Goto
<1>10. ASSUME NEW t \in Thread, BwriteOk(t) PROVE ListHasAll'
  BY <1>10 DEF BwriteOk
<1>11. ASSUME NEW t \in Thread, UnlockOk(t) PROVE ListHasAll'
  BY <1>11 DEF UnlockOk
<1>12. ASSUME NEW t \in Thread, BreleaseOk(t) PROVE ListHasAll'
  BY <1>12 DEF BreleaseOk
<1> QED
  BY <1>1, <1>2, <1>3, <1>4, <1>5, <1>6, <1>7, <1>8, <1>9, <1>10, <1>11,
     <1>12, StepForms DEF StepOk

(***************************************************************************)
(* A recycled buffer gets a block that no buffer has.                      *)
(***************************************************************************)
LEMMA OneBufNext == IInv /\ [Next]_vars => OneBufPerBlock'
<1> SUFFICES ASSUME IInv, [Next]_vars PROVE OneBufPerBlock'
  OBVIOUS
<1>0. TypeOK /\ OneBufPerBlock
  BY DEF IInv
<1> USE <1>0, ConstantFacts DEF TypeOK, OneBufPerBlock
<1>1. CASE UNCHANGED vars
  BY <1>1 DEF vars
<1>2. ASSUME NEW t \in Thread, NEW b \in Buf, HitOk(t, b)
      PROVE  OneBufPerBlock'
  BY <1>2 DEF HitOk
<1>3. ASSUME NEW t \in Thread, NEW k \in Block, NEW b \in Buf, RecycleOk(t, k, b)
      PROVE  OneBufPerBlock'
  BY <1>3 DEF RecycleOk
<1>4. ASSUME NEW t \in Thread, PanicOk(t) PROVE OneBufPerBlock'
  BY <1>4 DEF PanicOk
<1>5. ASSUME NEW t \in Thread, SleepLock(t) PROVE OneBufPerBlock'
  BY <1>5 DEF SleepLock, At, Goto
<1>6. ASSUME NEW t \in Thread, SleepWait(t) PROVE OneBufPerBlock'
  BY <1>6 DEF SleepWait, At, Goto
<1>7. ASSUME NEW t \in Thread, DiskRead(t) PROVE OneBufPerBlock'
  BY <1>7 DEF DiskRead, At, Goto
<1>8. ASSUME NEW t \in Thread, Bread(t) PROVE OneBufPerBlock'
  BY <1>8 DEF Bread, At, Goto
<1>9. ASSUME NEW t \in Thread, NEW v \in Value, Modify(t, v)
      PROVE  OneBufPerBlock'
  BY <1>9 DEF Modify, At, Goto
<1>10. ASSUME NEW t \in Thread, BwriteOk(t) PROVE OneBufPerBlock'
  BY <1>10 DEF BwriteOk
<1>11. ASSUME NEW t \in Thread, UnlockOk(t) PROVE OneBufPerBlock'
  BY <1>11 DEF UnlockOk
<1>12. ASSUME NEW t \in Thread, BreleaseOk(t) PROVE OneBufPerBlock'
  BY <1>12 DEF BreleaseOk
<1> QED
  BY <1>1, <1>2, <1>3, <1>4, <1>5, <1>6, <1>7, <1>8, <1>9, <1>10, <1>11,
     <1>12, StepForms DEF StepOk

(***************************************************************************)
(* bget gives the reference and brelease takes it.                         *)
(***************************************************************************)
LEMMA RefHeldNext == IInv /\ [Next]_vars => RefHeld'
<1> SUFFICES ASSUME IInv, [Next]_vars PROVE RefHeld'
  OBVIOUS
<1>0. TypeOK /\ RefHeld
  BY DEF IInv
<1> USE <1>0, ConstantFacts DEF TypeOK, RefHeld, Labels, Waiting, Locked,
    Holding
<1>1. CASE UNCHANGED vars
  BY <1>1 DEF vars
<1>2. ASSUME NEW t \in Thread, NEW b \in Buf, HitOk(t, b) PROVE RefHeld'
  BY <1>2 DEF HitOk
<1>3. ASSUME NEW t \in Thread, NEW k \in Block, NEW b \in Buf, RecycleOk(t, k, b)
      PROVE  RefHeld'
  BY <1>3 DEF RecycleOk
<1>4. ASSUME NEW t \in Thread, PanicOk(t) PROVE RefHeld'
  BY <1>4 DEF PanicOk
<1>5. ASSUME NEW t \in Thread, SleepLock(t) PROVE RefHeld'
  BY <1>5 DEF SleepLock, At, Goto
<1>6. ASSUME NEW t \in Thread, SleepWait(t) PROVE RefHeld'
  BY <1>6 DEF SleepWait, At, Goto
<1>7. ASSUME NEW t \in Thread, DiskRead(t) PROVE RefHeld'
  BY <1>7 DEF DiskRead, At, Goto
<1>8. ASSUME NEW t \in Thread, Bread(t) PROVE RefHeld'
  BY <1>8 DEF Bread, At, Goto
<1>9. ASSUME NEW t \in Thread, NEW v \in Value, Modify(t, v) PROVE RefHeld'
  BY <1>9 DEF Modify, At, Goto
<1>10. ASSUME NEW t \in Thread, BwriteOk(t) PROVE RefHeld'
  BY <1>10 DEF BwriteOk
<1>11. ASSUME NEW t \in Thread, UnlockOk(t) PROVE RefHeld'
  BY <1>11 DEF UnlockOk
<1>12. ASSUME NEW t \in Thread, BreleaseOk(t) PROVE RefHeld'
  BY <1>12 DEF BreleaseOk
<1> QED
  BY <1>1, <1>2, <1>3, <1>4, <1>5, <1>6, <1>7, <1>8, <1>9, <1>10, <1>11,
     <1>12, StepForms DEF StepOk

(***************************************************************************)
(* A buffer with a reference is not recycled.                              *)
(***************************************************************************)
LEMMA RefBlockNext == IInv /\ [Next]_vars => RefBlock'
<1> SUFFICES ASSUME IInv, [Next]_vars PROVE RefBlock'
  OBVIOUS
<1>0. TypeOK /\ RefHeld /\ RefBlock
  BY DEF IInv
<1> USE <1>0, ConstantFacts DEF TypeOK, RefHeld, RefBlock, Labels, Waiting,
    Locked, Holding
<1>1. CASE UNCHANGED vars
  BY <1>1 DEF vars
<1>2. ASSUME NEW t \in Thread, NEW b \in Buf, HitOk(t, b) PROVE RefBlock'
  BY <1>2 DEF HitOk
<1>3. ASSUME NEW t \in Thread, NEW k \in Block, NEW b \in Buf, RecycleOk(t, k, b)
      PROVE  RefBlock'
  BY <1>3 DEF RecycleOk
<1>4. ASSUME NEW t \in Thread, PanicOk(t) PROVE RefBlock'
  BY <1>4 DEF PanicOk
<1>5. ASSUME NEW t \in Thread, SleepLock(t) PROVE RefBlock'
  BY <1>5 DEF SleepLock, At, Goto
<1>6. ASSUME NEW t \in Thread, SleepWait(t) PROVE RefBlock'
  BY <1>6 DEF SleepWait, At, Goto
<1>7. ASSUME NEW t \in Thread, DiskRead(t) PROVE RefBlock'
  BY <1>7 DEF DiskRead, At, Goto
<1>8. ASSUME NEW t \in Thread, Bread(t) PROVE RefBlock'
  BY <1>8 DEF Bread, At, Goto
<1>9. ASSUME NEW t \in Thread, NEW v \in Value, Modify(t, v) PROVE RefBlock'
  BY <1>9 DEF Modify, At, Goto
<1>10. ASSUME NEW t \in Thread, BwriteOk(t) PROVE RefBlock'
  BY <1>10 DEF BwriteOk
<1>11. ASSUME NEW t \in Thread, UnlockOk(t) PROVE RefBlock'
  BY <1>11 DEF UnlockOk
<1>12. ASSUME NEW t \in Thread, BreleaseOk(t) PROVE RefBlock'
  BY <1>12 DEF BreleaseOk
<1> QED
  BY <1>1, <1>2, <1>3, <1>4, <1>5, <1>6, <1>7, <1>8, <1>9, <1>10, <1>11,
     <1>12, StepForms DEF StepOk

(***************************************************************************)
(* The lock changes hands with its thread.                                 *)
(***************************************************************************)
LEMMA HolderNext == IInv /\ [Next]_vars => HolderExact'
<1> SUFFICES ASSUME IInv, [Next]_vars PROVE HolderExact'
  OBVIOUS
<1>0. TypeOK /\ RefHeld /\ HolderExact
  BY DEF IInv
<1> USE <1>0, ConstantFacts DEF TypeOK, RefHeld, HolderExact, Labels,
    Waiting, Locked, Holding
<1>1. CASE UNCHANGED vars
  BY <1>1 DEF vars
<1>2. ASSUME NEW t \in Thread, NEW b \in Buf, HitOk(t, b) PROVE HolderExact'
  BY <1>2 DEF HitOk
<1>3. ASSUME NEW t \in Thread, NEW k \in Block, NEW b \in Buf, RecycleOk(t, k, b)
      PROVE  HolderExact'
  BY <1>3 DEF RecycleOk
<1>4. ASSUME NEW t \in Thread, PanicOk(t) PROVE HolderExact'
  BY <1>4 DEF PanicOk
<1>5. ASSUME NEW t \in Thread, SleepLock(t) PROVE HolderExact'
  BY <1>5 DEF SleepLock, At, Goto
<1>6. ASSUME NEW t \in Thread, SleepWait(t) PROVE HolderExact'
  BY <1>6 DEF SleepWait, At, Goto
<1>7. ASSUME NEW t \in Thread, DiskRead(t) PROVE HolderExact'
  BY <1>7 DEF DiskRead, At, Goto
<1>8. ASSUME NEW t \in Thread, Bread(t) PROVE HolderExact'
  BY <1>8 DEF Bread, At, Goto
<1>9. ASSUME NEW t \in Thread, NEW v \in Value, Modify(t, v)
      PROVE  HolderExact'
  BY <1>9 DEF Modify, At, Goto
<1>10. ASSUME NEW t \in Thread, BwriteOk(t) PROVE HolderExact'
  BY <1>10 DEF BwriteOk
<1>11. ASSUME NEW t \in Thread, UnlockOk(t) PROVE HolderExact'
  BY <1>11 DEF UnlockOk
<1>12. ASSUME NEW t \in Thread, BreleaseOk(t) PROVE HolderExact'
  BY <1>12 DEF BreleaseOk
<1> QED
  BY <1>1, <1>2, <1>3, <1>4, <1>5, <1>6, <1>7, <1>8, <1>9, <1>10, <1>11,
     <1>12, StepForms DEF StepOk

(***************************************************************************)
(* sleep_unlock wakes all sleepers of its buffer, and nobody else frees a  *)
(* lock.                                                                   *)
(***************************************************************************)
LEMMA SleeperNext == IInv /\ [Next]_vars => SleeperHasHolder'
<1> SUFFICES ASSUME IInv, [Next]_vars PROVE SleeperHasHolder'
  OBVIOUS
<1>0. TypeOK /\ HolderExact /\ RefHeld /\ SleeperHasHolder
  BY DEF IInv
<1> USE <1>0, ConstantFacts DEF TypeOK, HolderExact, RefHeld,
    SleeperHasHolder, At, Labels, Waiting, Locked, Holding
<1>1. CASE UNCHANGED vars
  BY <1>1 DEF vars
<1>2. ASSUME NEW t \in Thread, NEW b \in Buf, HitOk(t, b)
      PROVE  SleeperHasHolder'
  BY <1>2 DEF HitOk
<1>3. ASSUME NEW t \in Thread, NEW k \in Block, NEW b \in Buf, RecycleOk(t, k, b)
      PROVE  SleeperHasHolder'
  BY <1>3 DEF RecycleOk
<1>4. ASSUME NEW t \in Thread, PanicOk(t) PROVE SleeperHasHolder'
  BY <1>4 DEF PanicOk
<1>5. ASSUME NEW t \in Thread, SleepLock(t) PROVE SleeperHasHolder'
  BY <1>5 DEF SleepLock, At, Goto
<1>6. ASSUME NEW t \in Thread, SleepWait(t) PROVE SleeperHasHolder'
  BY <1>6 DEF SleepWait, At, Goto
<1>7. ASSUME NEW t \in Thread, DiskRead(t) PROVE SleeperHasHolder'
  BY <1>7 DEF DiskRead, At, Goto
<1>8. ASSUME NEW t \in Thread, Bread(t) PROVE SleeperHasHolder'
  BY <1>8 DEF Bread, At, Goto
<1>9. ASSUME NEW t \in Thread, NEW v \in Value, Modify(t, v)
      PROVE  SleeperHasHolder'
  BY <1>9 DEF Modify, At, Goto
<1>10. ASSUME NEW t \in Thread, BwriteOk(t) PROVE SleeperHasHolder'
  BY <1>10 DEF BwriteOk
<1>11. ASSUME NEW t \in Thread, UnlockOk(t) PROVE SleeperHasHolder'
  BY <1>11 DEF UnlockOk
<1>12. ASSUME NEW t \in Thread, BreleaseOk(t) PROVE SleeperHasHolder'
  BY <1>12 DEF BreleaseOk
<1> QED
  BY <1>1, <1>2, <1>3, <1>4, <1>5, <1>6, <1>7, <1>8, <1>9, <1>10, <1>11,
     <1>12, StepForms DEF StepOk

(***************************************************************************)
(* A recycled buffer is no thread's; a buffer is read by the one thread    *)
(* that holds it, and its block is written through no other buffer.        *)
(***************************************************************************)
LEMMA VaildNext == IInv /\ [Next]_vars => VaildSet'
<1> SUFFICES ASSUME IInv, [Next]_vars PROVE VaildSet'
  OBVIOUS
<1>0. TypeOK /\ OneBufPerBlock /\ HolderExact /\ RefHeld /\ RefBlock /\
      VaildSet
  BY DEF IInv
<1> USE <1>0, ConstantFacts DEF TypeOK, OneBufPerBlock, HolderExact,
    RefHeld, RefBlock, VaildSet, Labels, Waiting, Locked, Holding
<1>1. CASE UNCHANGED vars
  BY <1>1 DEF vars
<1>2. ASSUME NEW t \in Thread, NEW b \in Buf, HitOk(t, b) PROVE VaildSet'
  BY <1>2 DEF HitOk
<1>3. ASSUME NEW t \in Thread, NEW k \in Block, NEW b \in Buf, RecycleOk(t, k, b)
      PROVE  VaildSet'
  BY <1>3 DEF RecycleOk
<1>4. ASSUME NEW t \in Thread, PanicOk(t) PROVE VaildSet'
  BY <1>4 DEF PanicOk
<1>5. ASSUME NEW t \in Thread, SleepLock(t) PROVE VaildSet'
  BY <1>5 DEF SleepLock, At, Goto
<1>6. ASSUME NEW t \in Thread, SleepWait(t) PROVE VaildSet'
  BY <1>6 DEF SleepWait, At, Goto
<1>7. ASSUME NEW t \in Thread, DiskRead(t) PROVE VaildSet'
  BY <1>7 DEF DiskRead, At, Goto
<1>8. ASSUME NEW t \in Thread, Bread(t) PROVE VaildSet'
  BY <1>8 DEF Bread, At, Goto
<1>9. ASSUME NEW t \in Thread, NEW v \in Value, Modify(t, v) PROVE VaildSet'
  BY <1>9 DEF Modify, At, Goto
<1>10. ASSUME NEW t \in Thread, BwriteOk(t) PROVE VaildSet'
  BY <1>10 DEF BwriteOk
<1>11. ASSUME NEW t \in Thread, UnlockOk(t) PROVE VaildSet'
  BY <1>11 DEF UnlockOk
<1>12. ASSUME NEW t \in Thread, BreleaseOk(t) PROVE VaildSet'
  BY <1>12 DEF BreleaseOk
<1> QED
  BY <1>1, <1>2, <1>3, <1>4, <1>5, <1>6, <1>7, <1>8, <1>9, <1>10, <1>11,
     <1>12, StepForms DEF StepOk

(***************************************************************************)
(* Only the holder changes the contents, and it writes them before it      *)
(* unlocks.                                                                *)
(***************************************************************************)
LEMMA CacheNext == IInv /\ [Next]_vars => CacheIsDisk'
<1> SUFFICES ASSUME IInv, [Next]_vars PROVE CacheIsDisk'
  OBVIOUS
<1>0. TypeOK /\ OneBufPerBlock /\ HolderExact /\ RefHeld /\ RefBlock /\
      VaildSet /\ CacheIsDisk
  BY DEF IInv
<1> USE <1>0, ConstantFacts DEF TypeOK, OneBufPerBlock, HolderExact,
    RefHeld, RefBlock, VaildSet, CacheIsDisk, Labels, Waiting, Locked,
    Holding
<1>1. CASE UNCHANGED vars
  BY <1>1 DEF vars
<1>2. ASSUME NEW t \in Thread, NEW b \in Buf, HitOk(t, b) PROVE CacheIsDisk'
  BY <1>2 DEF HitOk
<1>3. ASSUME NEW t \in Thread, NEW k \in Block, NEW b \in Buf, RecycleOk(t, k, b)
      PROVE  CacheIsDisk'
  BY <1>3 DEF RecycleOk
<1>4. ASSUME NEW t \in Thread, PanicOk(t) PROVE CacheIsDisk'
  BY <1>4 DEF PanicOk
<1>5. ASSUME NEW t \in Thread, SleepLock(t) PROVE CacheIsDisk'
  BY <1>5 DEF SleepLock, At, Goto
<1>6. ASSUME NEW t \in Thread, SleepWait(t) PROVE CacheIsDisk'
  BY <1>6 DEF SleepWait, At, Goto
<1>7. ASSUME NEW t \in Thread, DiskRead(t) PROVE CacheIsDisk'
  BY <1>7 DEF DiskRead, At, Goto
<1>8. ASSUME NEW t \in Thread, Bread(t) PROVE CacheIsDisk'
  BY <1>8 DEF Bread, At, Goto
<1>9. ASSUME NEW t \in Thread, NEW v \in Value, Modify(t, v)
      PROVE  CacheIsDisk'
  BY <1>9 DEF Modify, At, Goto
<1>10. ASSUME NEW t \in Thread, BwriteOk(t) PROVE CacheIsDisk'
  BY <1>10 DEF BwriteOk
<1>11. ASSUME NEW t \in Thread, UnlockOk(t) PROVE CacheIsDisk'
  BY <1>11 DEF UnlockOk
<1>12. ASSUME NEW t \in Thread, BreleaseOk(t) PROVE CacheIsDisk'
  BY <1>12 DEF BreleaseOk
<1> QED
  BY <1>1, <1>2, <1>3, <1>4, <1>5, <1>6, <1>7, <1>8, <1>9, <1>10, <1>11,
     <1>12, StepForms DEF StepOk

(***************************************************************************)
(* The count moves with the set of threads that refer to the buffer.       *)
(***************************************************************************)
LEMMA RefcntNext == IInv /\ [Next]_vars => RefcntExact'
<1> SUFFICES ASSUME IInv, [Next]_vars PROVE RefcntExact'
  OBVIOUS
<1>0. TypeOK /\ RefHeld /\ RefcntExact
  BY DEF IInv
<1> USE <1>0, ConstantFacts DEF TypeOK, RefHeld, RefcntExact
<1>1. CASE UNCHANGED vars
  BY <1>1 DEF vars
<1>2. ASSUME NEW t \in Thread, NEW b \in Buf, HitOk(t, b) PROVE RefcntExact'
  <2> SUFFICES ASSUME NEW c \in Buf PROVE refcnt'[c] = Cardinality(Refs(c)')
    BY DEF Refs
  <2>1. refcnt[c] = Cardinality(Refs(c)) /\ Refs(c) \in SUBSET Thread
    BY DEF Refs
  <2>2. CASE c = b
    <3>1. Refs(c)' = Refs(c) \cup {t} /\ t \notin Refs(c)
      BY <1>2, <2>2 DEF HitOk, Refs
    <3>2. /\ Cardinality(Refs(c)) \in Nat
          /\ Cardinality(Refs(c) \cup {t}) = Cardinality(Refs(c)) + 1
      BY <2>1, <3>1, RefsCount
    <3> QED BY <1>2, <2>1, <2>2, <3>1, <3>2 DEF HitOk
  <2>3. CASE c # b
    <3>1. Refs(c)' = Refs(c)
      BY <1>2, <2>3 DEF HitOk, Refs
    <3> QED BY <1>2, <2>1, <2>3, <3>1 DEF HitOk
  <2> QED BY <2>2, <2>3
<1>3. ASSUME NEW t \in Thread, NEW k \in Block, NEW b \in Buf, RecycleOk(t, k, b)
      PROVE  RefcntExact'
  <2> SUFFICES ASSUME NEW c \in Buf PROVE refcnt'[c] = Cardinality(Refs(c)')
    BY DEF Refs
  <2>1. refcnt[c] = Cardinality(Refs(c)) /\ Refs(c) \in SUBSET Thread
    BY DEF Refs
  <2>2. CASE c = b
    <3>1. Refs(c)' = {t}
      BY <1>3, <2>2 DEF RecycleOk, Refs
    <3>2. Cardinality(Refs(c)') = 1
      BY <3>1, FS_Singleton
    <3> QED BY <1>3, <2>2, <3>2 DEF RecycleOk
  <2>3. CASE c # b
    <3>1. Refs(c)' = Refs(c)
      BY <1>3, <2>3 DEF RecycleOk, Refs
    <3> QED BY <1>3, <2>1, <2>3, <3>1 DEF RecycleOk
  <2> QED BY <2>2, <2>3
<1>4. ASSUME NEW t \in Thread, PanicOk(t) PROVE RefcntExact'
  BY <1>4 DEF PanicOk
<1>5. ASSUME NEW t \in Thread, SleepLock(t) PROVE RefcntExact'
  BY <1>5 DEF SleepLock, At, Goto
<1>6. ASSUME NEW t \in Thread, SleepWait(t) PROVE RefcntExact'
  BY <1>6 DEF SleepWait, At, Goto
<1>7. ASSUME NEW t \in Thread, DiskRead(t) PROVE RefcntExact'
  BY <1>7 DEF DiskRead, At, Goto
<1>8. ASSUME NEW t \in Thread, Bread(t) PROVE RefcntExact'
  BY <1>8 DEF Bread, At, Goto
<1>9. ASSUME NEW t \in Thread, NEW v \in Value, Modify(t, v)
      PROVE  RefcntExact'
  BY <1>9 DEF Modify, At, Goto
<1>10. ASSUME NEW t \in Thread, BwriteOk(t) PROVE RefcntExact'
  BY <1>10 DEF BwriteOk
<1>11. ASSUME NEW t \in Thread, UnlockOk(t) PROVE RefcntExact'
  BY <1>11 DEF UnlockOk
<1>12. ASSUME NEW t \in Thread, BreleaseOk(t) PROVE RefcntExact'
  <2> SUFFICES ASSUME NEW c \in Buf PROVE refcnt'[c] = Cardinality(Refs(c)')
    BY DEF Refs
  <2>1. refcnt[c] = Cardinality(Refs(c)) /\ Refs(c) \in SUBSET Thread
    BY DEF Refs
  <2>2. CASE c = r[t]
    <3>1. Refs(c)' = Refs(c) \ {t} /\ t \in Refs(c)
      BY <1>12, <2>2 DEF BreleaseOk, Refs
    <3>2. Cardinality(Refs(c) \ {t}) = Cardinality(Refs(c)) - 1
      BY <2>1, <3>1, RefsCount
    <3> QED BY <1>12, <2>1, <2>2, <3>1, <3>2 DEF BreleaseOk
  <2>3. CASE c # r[t]
    <3>1. Refs(c)' = Refs(c)
      BY <1>12, <2>3 DEF BreleaseOk, Refs
    <3> QED BY <1>12, <2>1, <2>3, <3>1 DEF BreleaseOk
  <2> QED BY <2>2, <2>3
<1> QED
  BY <1>1, <1>2, <1>3, <1>4, <1>5, <1>6, <1>7, <1>8, <1>9, <1>10, <1>11,
     <1>12, StepForms DEF StepOk

-----------------------------------------------------------------------------
(***************************************************************************)
(* init_bcache and the fresh threads satisfy IInv.                         *)
(***************************************************************************)
LEMMA InitIInv == Init => IInv
<1> SUFFICES ASSUME Init PROVE IInv
  OBVIOUS
<1> USE ConstantFacts DEF Init
<1>1. TypeOK /\ ListHasAll
  <2>1. \A b \in Buf : NBUF + 1 - b \in Buf /\ NBUF + 1 - (NBUF + 1 - b) = b
    BY BcacheAssumption DEF Buf
  <2> QED BY <2>1 DEF TypeOK, ListHasAll, Labels
<1>2. OneBufPerBlock /\ SleeperHasHolder
  BY DEF OneBufPerBlock, SleeperHasHolder, At
<1>3. RefcntExact
  <2>1. \A b \in Buf : {t \in Thread : r[t] = b} = {}
    OBVIOUS
  <2> QED BY <2>1, FS_EmptySet DEF RefcntExact
<1>4. RefHeld /\ RefBlock /\ HolderExact /\ VaildSet /\ CacheIsDisk
  BY DEF RefHeld, RefBlock, HolderExact, VaildSet, CacheIsDisk, Locked, Holding
<1> QED BY <1>1, <1>2, <1>3, <1>4 DEF IInv

(***************************************************************************)
(* IInv holds throughout.                                                  *)
(***************************************************************************)
LEMMA IInvNext == IInv /\ [Next]_vars => IInv'
BY TypeNext, ListNext, OneBufNext, RefHeldNext, RefBlockNext, HolderNext,
   SleeperNext, VaildNext, CacheNext, RefcntNext DEF IInv

LEMMA IInvHolds == Spec => []IInv
BY InitIInv, IInvNext, PTL DEF Spec

(***************************************************************************)
(* bget never caches a block twice.                                        *)
(***************************************************************************)
THEOREM OneBufPerBlockHolds == Spec => []OneBufPerBlock
<1>1. IInv => OneBufPerBlock
  BY DEF IInv
<1> QED BY IInvHolds, <1>1, PTL

(***************************************************************************)
(* The reference count is the number of threads between bget and brelease, *)
(* for any number of them.                                                 *)
(***************************************************************************)
THEOREM RefcntExactHolds == Spec => []RefcntExact
<1>1. IInv => RefcntExact
  BY DEF IInv
<1> QED BY IInvHolds, <1>1, PTL

(***************************************************************************)
(* Nobody sleeps on a free sleep lock.                                     *)
(***************************************************************************)
THEOREM SleeperHasHolderHolds == Spec => []SleeperHasHolder
<1>1. IInv => SleeperHasHolder
  BY DEF IInv
<1> QED BY IInvHolds, <1>1, PTL

(***************************************************************************)
(* The only panic is bget's, and other threads then have every buffer.     *)
(***************************************************************************)
THEOREM PanicNeedsAllHolds == Spec => PanicNeedsAll
<1> DEFINE A ==
      \A t \in Thread :
        ~At(t, "panic") /\ At(t, "panic")'
          => \A b \in Buf : \E u \in Thread \ {t} : r[u] = b
<1>1. IInv /\ [Next]_vars => [A]_vars
  <2> SUFFICES ASSUME IInv, [Next]_vars, NEW t \in Thread,
                      pc[t] # "panic", pc'[t] = "panic"
               PROVE  \A b \in Buf : \E u \in Thread \ {t} : r[u] = b
    BY DEF At
  <2>1. TypeOK
    BY DEF IInv
  <2>2. ASSUME NEW u \in Thread, PanicOk(u) PROVE u = t
    BY <2>1, <2>2 DEF PanicOk, TypeOK
  <2>3. \E u \in Thread : PanicOk(u)
    <3>1. StepOk
      BY StepForms
    <3> QED BY <2>1, <3>1 DEF StepOk, vars, HitOk, RecycleOk, SleepLock,
               SleepWait, DiskRead, Bread, Modify, BwriteOk, UnlockOk,
               BreleaseOk, Goto, TypeOK
  <2> QED BY <2>2, <2>3 DEF PanicOk
<1> QED BY IInvHolds, <1>1, PTL DEF Spec, PanicNeedsAll

-----------------------------------------------------------------------------
(***************************************************************************)
(* The abstract state in terms of the threads alone: only a thread that    *)
(* has changed a block and not yet written it makes the store differ from  *)
(* the disk, whatever the buffers hold.                                    *)
(***************************************************************************)
AbsFacts ==
  /\ AbsStore \in [Block -> Value]
  /\ AbsOwner \in [Block -> Thread \cup {NoThread}]
  /\ \A t \in Thread : pc[t] \in Holding => AbsOwner[blockno[r[t]]] = t
  /\ \A k \in Block, t \in Thread :
       AbsOwner[k] = t => pc[t] \in Holding /\ blockno[r[t]] = k
  /\ \A t \in Thread :
       pc[t] = "dirty" => AbsStore[blockno[r[t]]] = data[r[t]]
  /\ \A k \in Block :
       (\A t \in Thread : pc[t] = "dirty" => blockno[r[t]] # k)
         => AbsStore[k] = disk[k]

LEMMA AbsView == IInv => AbsFacts
<1> SUFFICES ASSUME IInv PROVE AbsFacts
  OBVIOUS
<1>0. /\ TypeOK /\ OneBufPerBlock /\ RefHeld /\ RefBlock /\ HolderExact
      /\ VaildSet /\ CacheIsDisk
  BY DEF IInv
<1>1. \A t \in Thread : pc[t] \in Holding =>
        /\ r[t] \in Buf /\ blockno[r[t]] \in Block /\ holder[r[t]] = t
        /\ vaild[r[t]] = 1
  BY <1>0, ConstantFacts
  DEF TypeOK, RefHeld, RefBlock, HolderExact, VaildSet, Locked, Holding
<1>2. \A t, u \in Thread :
        pc[t] \in Holding /\ pc[u] \in Holding /\ blockno[r[t]] = blockno[r[u]]
          => t = u
  BY <1>0, <1>1, ConstantFacts DEF OneBufPerBlock
<1>3. AbsOwner \in [Block -> Thread \cup {NoThread}]
  BY DEF AbsOwner
<1>4. ASSUME NEW t \in Thread, pc[t] \in Holding
      PROVE  AbsOwner[blockno[r[t]]] = t
  BY <1>1, <1>2, <1>4 DEF AbsOwner
<1>5. ASSUME NEW k \in Block, NEW t \in Thread, AbsOwner[k] = t
      PROVE  pc[t] \in Holding /\ blockno[r[t]] = k
  BY <1>5, ConstantFacts DEF AbsOwner
<1>6. ASSUME NEW b \in Buf, vaild[b] = 1 PROVE AbsStore[blockno[b]] = data[b]
  <2>1. blockno[b] \in Block
    BY <1>0, <1>6 DEF VaildSet
  <2>2. \A c \in Buf : blockno[c] = blockno[b] /\ vaild[c] = 1 => c = b
    BY <1>0, <2>1, ConstantFacts DEF OneBufPerBlock
  <2> QED BY <1>6, <2>1, <2>2 DEF AbsStore
<1>7. ASSUME NEW k \in Block, \A b \in Buf : ~(blockno[b] = k /\ vaild[b] = 1)
      PROVE  AbsStore[k] = disk[k]
  BY <1>7 DEF AbsStore
<1>8. ASSUME NEW k \in Block PROVE AbsStore[k] \in Value
  <2>1. CASE \E b \in Buf : blockno[b] = k /\ vaild[b] = 1
    BY <1>0, <1>6, <2>1 DEF VaildSet
  <2>2. CASE \A b \in Buf : ~(blockno[b] = k /\ vaild[b] = 1)
    BY <1>0, <1>7, <2>2 DEF TypeOK
  <2> QED BY <2>1, <2>2
<1>9. AbsStore \in [Block -> Value]
  BY <1>8 DEF AbsStore
<1>10. ASSUME NEW t \in Thread, pc[t] = "dirty"
       PROVE  AbsStore[blockno[r[t]]] = data[r[t]]
  BY <1>1, <1>6, <1>10 DEF Holding
<1>11. ASSUME NEW k \in Block,
              \A t \in Thread : pc[t] = "dirty" => blockno[r[t]] # k
       PROVE  AbsStore[k] = disk[k]
  <2>1. ASSUME NEW b \in Buf, blockno[b] = k, vaild[b] = 1
        PROVE  AbsStore[k] = disk[k]
    BY <1>0, <1>6, <1>11, <2>1 DEF CacheIsDisk
  <2> QED BY <1>7, <2>1
<1> QED BY <1>3, <1>4, <1>5, <1>9, <1>10, <1>11 DEF AbsFacts

(***************************************************************************)
(* A fresh cache is a block store that nobody uses.                        *)
(***************************************************************************)
LEMMA AbsInit == Init => Abs!Init
<1> SUFFICES ASSUME Init PROVE Abs!Init
  OBVIOUS
<1>1. AbsFacts
  BY InitIInv, AbsView
<1>2. AbsStore \in [Block -> Value]
  BY <1>1 DEF AbsFacts
<1>3. AbsOwner = [k \in Block |-> NoThread]
  BY DEF Init, AbsOwner, Holding
<1>4. AbsSeen = [t \in Thread |-> NoValue]
  BY DEF Init, AbsSeen, Holding
<1> QED BY <1>2, <1>3, <1>4 DEF Abs!Init

(***************************************************************************)
(* What one thread sees changes, and nobody else's view.                   *)
(***************************************************************************)
LEMMA SeenUpdate ==
  ASSUME NEW t \in Thread, NEW v, AbsSeen'[t] = v,
         \A u \in Thread : u # t => AbsSeen'[u] = AbsSeen[u]
  PROVE  AbsSeen' = [AbsSeen EXCEPT ![t] = v]
<1>1. AbsSeen = [u \in Thread |-> AbsSeen[u]]
  BY DEF AbsSeen
<1>2. AbsSeen' = [u \in Thread |-> AbsSeen'[u]]
  BY DEF AbsSeen
<1> QED BY <1>1, <1>2

(***************************************************************************)
(* The abstract owners and views stay when the threads in Holding and what *)
(* they see stay.                                                          *)
(***************************************************************************)
LEMMA OwnerStutter ==
  ASSUME AbsFacts, AbsFacts',
         \A u \in Thread : pc[u] \in Holding <=> pc'[u] \in Holding,
         \A u \in Thread : pc[u] \in Holding =>
           /\ r'[u] = r[u] /\ blockno'[r[u]] = blockno[r[u]]
           /\ data'[r[u]] = data[r[u]]
  PROVE  AbsOwner' = AbsOwner /\ AbsSeen' = AbsSeen
<1>1. ASSUME NEW k \in Block PROVE AbsOwner'[k] = AbsOwner[k]
  BY <1>1 DEF AbsFacts
<1>2. AbsOwner' = AbsOwner
  BY <1>1 DEF AbsFacts
<1>3. AbsSeen' = AbsSeen
  BY DEF AbsSeen
<1> QED BY <1>2, <1>3

(***************************************************************************)
(* The abstract store stays when the disk does and the threads that have   *)
(* yet to write do.                                                        *)
(***************************************************************************)
LEMMA StoreStutter ==
  ASSUME AbsFacts, AbsFacts', disk' = disk,
         \A u \in Thread : pc[u] = "dirty" <=> pc'[u] = "dirty",
         \A u \in Thread : pc[u] = "dirty" =>
           /\ r'[u] = r[u] /\ blockno'[r[u]] = blockno[r[u]]
           /\ data'[r[u]] = data[r[u]]
  PROVE  AbsStore' = AbsStore
<1>1. ASSUME NEW k \in Block PROVE AbsStore'[k] = AbsStore[k]
  <2>1. CASE \E u \in Thread : pc[u] = "dirty" /\ blockno[r[u]] = k
    BY <2>1 DEF AbsFacts
  <2>2. CASE \A u \in Thread : pc[u] = "dirty" => blockno[r[u]] # k
    BY <2>2 DEF AbsFacts
  <2> QED BY <2>1, <2>2
<1> QED BY <1>1 DEF AbsFacts

(***************************************************************************)
(* bread's return, from the cache or after a transfer, is a Take: the      *)
(* thread sees what the store has, and nobody has the block.               *)
(***************************************************************************)
LEMMA TakeStep ==
  ASSUME IInv, AbsFacts, AbsFacts', NEW t \in Thread,
         pc[t] \notin Holding, r[t] \in Buf, r' = r, blockno' = blockno,
         data' = data, disk' = disk, pc' = [pc EXCEPT ![t] = "have"],
         data[r[t]] = disk[blockno[r[t]]],
         \A u \in Thread : pc[u] \in Holding => r[u] # r[t]
  PROVE  Abs!Take(t, blockno[r[t]])
<1> DEFINE k == blockno[r[t]]
<1>0. TypeOK /\ OneBufPerBlock /\ RefHeld /\ RefBlock
  BY DEF IInv
<1>1. k \in Block /\ t \in DOMAIN pc
  BY <1>0, ConstantFacts DEF TypeOK, RefBlock
<1>2. \A u \in Thread : pc[u] \in Holding => r[u] \in Buf
  BY <1>0 DEF TypeOK, RefHeld, Holding
<1>3. \A u \in Thread : pc[u] \in Holding => blockno[r[u]] # k
  BY <1>0, <1>1, <1>2, ConstantFacts DEF OneBufPerBlock
<1>4. AbsOwner[k] = NoThread
  BY <1>1, <1>3 DEF AbsFacts
<1>5. \A j \in Block : AbsOwner[j] # t
  BY DEF AbsFacts
<1>6. AbsOwner' = [AbsOwner EXCEPT ![k] = t]
  <2>1. AbsOwner'[k] = t
    BY <1>1 DEF AbsFacts, Holding
  <2>2. ASSUME NEW j \in Block, j # k PROVE AbsOwner'[j] = AbsOwner[j]
    <3>1. \A u \in Thread : AbsOwner'[j] = u <=> AbsOwner[j] = u
      BY <1>1, <2>2 DEF AbsFacts
    <3> QED BY <2>2, <3>1 DEF AbsFacts
  <2> QED BY <1>1, <2>1, <2>2 DEF AbsFacts
<1>7. AbsStore[k] = data[r[t]]
  BY <1>1, <1>3 DEF AbsFacts, Holding
<1>8. AbsSeen' = [AbsSeen EXCEPT ![t] = AbsStore[k]]
  <2>1. AbsSeen'[t] = AbsStore[k]
    BY <1>1, <1>7 DEF AbsSeen, Holding
  <2>2. \A u \in Thread : u # t => AbsSeen'[u] = AbsSeen[u]
    BY DEF AbsSeen
  <2> QED BY <2>1, <2>2, SeenUpdate
<1>9. AbsStore' = AbsStore
  BY <1>1, StoreStutter DEF Holding
<1> QED BY <1>4, <1>5, <1>6, <1>8, <1>9 DEF Abs!Take

(***************************************************************************)
(* A change of the contents by the holder is a Put.                        *)
(***************************************************************************)
LEMMA PutStep ==
  ASSUME IInv, AbsFacts, AbsFacts', NEW t \in Thread, NEW v \in Value,
         Modify(t, v)
  PROVE  blockno[r[t]] \in Block /\ Abs!Put(t, blockno[r[t]], v)
<1> DEFINE k == blockno[r[t]]
<1>0. TypeOK /\ OneBufPerBlock /\ RefHeld /\ RefBlock /\ HolderExact
  BY DEF IInv
<1>1. /\ pc[t] = "have" /\ pc' = [pc EXCEPT ![t] = "dirty"]
      /\ data' = [data EXCEPT ![r[t]] = v]
      /\ r' = r /\ blockno' = blockno /\ disk' = disk
  BY DEF Modify, At, Goto
<1>2. r[t] \in Buf /\ k \in Block
  BY <1>0, <1>1, ConstantFacts DEF TypeOK, RefHeld, RefBlock
<1>3. \A u \in Thread : pc[u] \in Holding =>
        r[u] \in Buf /\ blockno[r[u]] \in Block
  BY <1>0, ConstantFacts DEF TypeOK, RefHeld, RefBlock, Holding
<1>4. \A u \in Thread : pc[u] \in Holding /\ u # t =>
        r[u] # r[t] /\ blockno[r[u]] # k
  BY <1>0, <1>1, <1>2, <1>3, ConstantFacts
  DEF OneBufPerBlock, HolderExact, Locked, Holding
<1>5. \A u \in Thread : u # t => pc'[u] = pc[u]
  BY <1>0, <1>1 DEF TypeOK
<1>6. pc'[t] = "dirty" /\ data'[r[t]] = v
  BY <1>0, <1>1, <1>2 DEF TypeOK
<1>7. \A b \in Buf : b # r[t] => data'[b] = data[b]
  BY <1>0, <1>1 DEF TypeOK
<1>8. AbsOwner[k] = t
  BY <1>1 DEF AbsFacts, Holding
<1>9. AbsOwner' = AbsOwner
  <2>1. ASSUME NEW j \in Block PROVE AbsOwner'[j] = AbsOwner[j]
    <3>1. \A u \in Thread : AbsOwner'[j] = u <=> AbsOwner[j] = u
      BY <1>1, <1>5, <1>6, <2>1 DEF AbsFacts, Holding
    <3> QED BY <2>1, <3>1 DEF AbsFacts
  <2> QED BY <2>1 DEF AbsFacts
<1>10. AbsStore' = [AbsStore EXCEPT ![k] = v]
  <2>1. AbsStore'[k] = v
    BY <1>1, <1>2, <1>6 DEF AbsFacts
  <2>2. ASSUME NEW j \in Block, j # k PROVE AbsStore'[j] = AbsStore[j]
    <3>1. CASE \E u \in Thread : pc[u] = "dirty" /\ blockno[r[u]] = j
      BY <1>1, <1>3, <1>4, <1>5, <1>7, <2>2, <3>1 DEF AbsFacts, Holding
    <3>2. CASE \A u \in Thread : pc[u] = "dirty" => blockno[r[u]] # j
      BY <1>1, <1>5, <2>2, <3>2 DEF AbsFacts
    <3> QED BY <3>1, <3>2
  <2> QED BY <1>2, <2>1, <2>2 DEF AbsFacts
<1>11. AbsSeen' = [AbsSeen EXCEPT ![t] = v]
  <2>1. AbsSeen'[t] = v
    BY <1>1, <1>6 DEF AbsSeen, Holding
  <2>2. \A u \in Thread : u # t => AbsSeen'[u] = AbsSeen[u]
    BY <1>1, <1>3, <1>4, <1>5, <1>7 DEF AbsSeen
  <2> QED BY <2>1, <2>2, SeenUpdate
<1> QED BY <1>2, <1>8, <1>9, <1>10, <1>11 DEF Abs!Put

(***************************************************************************)
(* sleep_unlock in brelease is a Give.                                     *)
(***************************************************************************)
LEMMA GiveStep ==
  ASSUME IInv, AbsFacts, AbsFacts', NEW t \in Thread, UnlockOk(t)
  PROVE  blockno[r[t]] \in Block /\ Abs!Give(t, blockno[r[t]])
<1> DEFINE k == blockno[r[t]]
<1>0. TypeOK /\ RefBlock
  BY DEF IInv
<1>1. k \in Block /\ pc[t] \in Holding
  BY <1>0, ConstantFacts DEF UnlockOk, TypeOK, RefBlock, Holding
<1>2. /\ pc'[t] = "drop"
      /\ \A u \in Thread : u # t => (pc'[u] \in Holding <=> pc[u] \in Holding)
      /\ \A u \in Thread : pc[u] = "dirty" <=> pc'[u] = "dirty"
  BY DEF UnlockOk, Holding
<1>3. r' = r /\ blockno' = blockno /\ data' = data /\ disk' = disk
  BY DEF UnlockOk
<1>4. AbsOwner[k] = t
  BY <1>1 DEF AbsFacts
<1>5. AbsOwner' = [AbsOwner EXCEPT ![k] = NoThread]
  <2>1. ASSUME NEW j \in Block, NEW u \in Thread
        PROVE  AbsOwner'[j] = u <=> u # t /\ AbsOwner[j] = u
    BY <1>2, <1>3, <2>1 DEF AbsFacts, Holding
  <2>2. \A j \in Block : AbsOwner[j] = t => j = k
    BY DEF AbsFacts
  <2>3. AbsOwner'[k] = NoThread
    BY <1>1, <1>4, <2>1 DEF AbsFacts
  <2>4. \A j \in Block : j # k => AbsOwner'[j] = AbsOwner[j]
    BY <2>1, <2>2 DEF AbsFacts
  <2> QED BY <1>1, <2>3, <2>4 DEF AbsFacts
<1>6. AbsSeen' = [AbsSeen EXCEPT ![t] = NoValue]
  <2>1. AbsSeen'[t] = NoValue
    BY <1>2 DEF AbsSeen, Holding
  <2>2. \A u \in Thread : u # t => AbsSeen'[u] = AbsSeen[u]
    BY <1>2, <1>3 DEF AbsSeen
  <2> QED BY <2>1, <2>2, SeenUpdate
<1>7. AbsStore' = AbsStore
  BY <1>2, <1>3, StoreStutter
<1> QED BY <1>1, <1>4, <1>5, <1>6, <1>7 DEF Abs!Give

(***************************************************************************)
(* A transfer to the disk changes nothing a caller can see: the store had  *)
(* the new value since the Put.                                            *)
(***************************************************************************)
LEMMA WriteStutters ==
  ASSUME IInv, AbsFacts, AbsFacts', NEW t \in Thread, BwriteOk(t)
  PROVE  UNCHANGED Abs!vars
<1> DEFINE k == blockno[r[t]]
<1>0. TypeOK /\ OneBufPerBlock /\ RefHeld /\ RefBlock /\ HolderExact
  BY DEF IInv
<1>1. k \in Block /\ pc[t] = "dirty" /\ r[t] \in Buf
  BY <1>0, ConstantFacts DEF BwriteOk, TypeOK, RefBlock
<1>2. \A u \in Thread : pc[u] = "dirty" /\ u # t => blockno[r[u]] # k
  BY <1>0, <1>1, ConstantFacts
  DEF TypeOK, OneBufPerBlock, RefHeld, HolderExact, Locked, Holding
<1>3. pc'[t] = "written" /\ \A u \in Thread : u # t => pc'[u] = pc[u]
  BY <1>0 DEF BwriteOk, TypeOK
<1>4. r' = r /\ blockno' = blockno /\ data' = data
  BY DEF BwriteOk
<1>5. disk'[k] = data[r[t]] /\ \A j \in Block : j # k => disk'[j] = disk[j]
  BY <1>0, <1>1 DEF BwriteOk, TypeOK
<1>6. AbsOwner' = AbsOwner /\ AbsSeen' = AbsSeen
  BY <1>1, <1>3, <1>4, OwnerStutter DEF Holding
<1>7. ASSUME NEW j \in Block PROVE AbsStore'[j] = AbsStore[j]
  <2>1. CASE j = k
    <3>1. AbsStore[k] = data[r[t]]
      BY <1>1 DEF AbsFacts
    <3>2. AbsStore'[k] = disk'[k]
      BY <1>1, <1>2, <1>3, <1>4 DEF AbsFacts
    <3> QED BY <1>5, <2>1, <3>1, <3>2
  <2>2. CASE j # k /\ \E u \in Thread : pc[u] = "dirty" /\ blockno[r[u]] = j
    BY <1>3, <1>4, <2>2 DEF AbsFacts
  <2>3. CASE j # k /\ \A u \in Thread : pc[u] = "dirty" => blockno[r[u]] # j
    <3>1. AbsStore[j] = disk[j]
      BY <1>7, <2>3 DEF AbsFacts
    <3>2. AbsStore'[j] = disk'[j]
      BY <1>3, <1>4, <1>7, <2>3 DEF AbsFacts
    <3> QED BY <1>5, <2>3, <3>1, <3>2
  <2> QED BY <2>1, <2>2, <2>3
<1>8. AbsStore' = AbsStore
  BY <1>7 DEF AbsFacts
<1> QED BY <1>6, <1>8 DEF Abs!vars

(***************************************************************************)
(* Every step of the cache is a step of the block store, or none.          *)
(***************************************************************************)
LEMMA AbsStep == IInv /\ [Next]_vars => [Abs!Next]_(Abs!vars)
<1> SUFFICES ASSUME IInv, [Next]_vars PROVE [Abs!Next]_(Abs!vars)
  OBVIOUS
<1>0. /\ TypeOK /\ RefHeld /\ RefBlock /\ HolderExact /\ VaildSet
      /\ CacheIsDisk
  BY DEF IInv
<1>1. AbsFacts /\ IInv'
  BY AbsView, IInvNext
<1>2. AbsFacts'
  BY <1>1, AbsView, PTL
<1> USE <1>1, <1>2, ConstantFacts
<1>3. ASSUME UNCHANGED vars PROVE UNCHANGED Abs!vars
  BY <1>3, OwnerStutter, StoreStutter DEF vars, Abs!vars
<1>4. ASSUME NEW t \in Thread, NEW b \in Buf, HitOk(t, b)
      PROVE  UNCHANGED Abs!vars
  BY <1>0, <1>4, OwnerStutter, StoreStutter
  DEF HitOk, TypeOK, Holding, Abs!vars
<1>5. ASSUME NEW t \in Thread, NEW k \in Block, NEW b \in Buf,
             RecycleOk(t, k, b)
      PROVE  UNCHANGED Abs!vars
  BY <1>0, <1>5, OwnerStutter, StoreStutter
  DEF RecycleOk, TypeOK, Holding, Abs!vars
<1>6. ASSUME NEW t \in Thread, PanicOk(t) PROVE UNCHANGED Abs!vars
  BY <1>0, <1>6, OwnerStutter, StoreStutter
  DEF PanicOk, TypeOK, Holding, Abs!vars
<1>7. ASSUME NEW t \in Thread, SleepWait(t) PROVE UNCHANGED Abs!vars
  BY <1>0, <1>7, OwnerStutter, StoreStutter
  DEF SleepWait, At, Goto, TypeOK, Holding, Abs!vars
<1>8. ASSUME NEW t \in Thread, BreleaseOk(t) PROVE UNCHANGED Abs!vars
  BY <1>0, <1>8, OwnerStutter, StoreStutter
  DEF BreleaseOk, TypeOK, Holding, Abs!vars
<1>9. ASSUME NEW t \in Thread, DiskRead(t) PROVE UNCHANGED Abs!vars
  <2>1. \A u \in Thread : pc[u] \in Holding => r[u] \in Buf /\ r[u] # r[t]
    BY <1>0, <1>9
    DEF DiskRead, At, TypeOK, RefHeld, HolderExact, Locked, Holding
  <2> QED BY <1>0, <1>9, <2>1, OwnerStutter, StoreStutter
          DEF DiskRead, At, Goto, TypeOK, Holding, Abs!vars
<1>10. ASSUME NEW t \in Thread, SleepLock(t)
       PROVE  \/ UNCHANGED Abs!vars
              \/ blockno[r[t]] \in Block /\ Abs!Take(t, blockno[r[t]])
  <2>1. pc[t] = "lock" /\ r[t] \in Buf /\ blockno[r[t]] \in Block
    BY <1>0, <1>10 DEF SleepLock, At, TypeOK, RefHeld, RefBlock
  <2>2. \A u \in Thread : pc[u] \in Locked => r[u] # r[t]
    BY <1>0, <1>10, <2>1 DEF SleepLock, HolderExact
  <2>3. CASE vaild[r[t]] = 1
    <3>1. data[r[t]] = disk[blockno[r[t]]]
      BY <1>0, <2>1, <2>2, <2>3 DEF CacheIsDisk, Locked, Holding
    <3> QED BY <1>10, <2>1, <2>2, <2>3, <3>1, TakeStep
            DEF SleepLock, Goto, Locked, Holding
  <2>4. CASE vaild[r[t]] # 1
    BY <1>0, <1>10, <2>1, <2>4, OwnerStutter, StoreStutter
    DEF SleepLock, Goto, TypeOK, Holding, Abs!vars
  <2> QED BY <2>3, <2>4
<1>11. ASSUME NEW t \in Thread, Bread(t)
       PROVE  blockno[r[t]] \in Block /\ Abs!Take(t, blockno[r[t]])
  <2>1. pc[t] = "filled" /\ r[t] \in Buf /\ blockno[r[t]] \in Block
    BY <1>0, <1>11 DEF Bread, At, TypeOK, RefHeld, RefBlock
  <2>2. \A u \in Thread : pc[u] \in Holding => r[u] # r[t]
    BY <1>0, <2>1 DEF HolderExact, Locked, Holding
  <2>3. data[r[t]] = disk[blockno[r[t]]]
    BY <1>0, <2>1 DEF VaildSet
  <2> QED BY <1>11, <2>1, <2>2, <2>3, TakeStep DEF Bread, Goto, Holding
<1>12. StepOk
  BY StepForms
<1> QED BY <1>3, <1>4, <1>5, <1>6, <1>7, <1>8, <1>9, <1>10, <1>11, <1>12,
           PutStep, GiveStep, WriteStutters DEF StepOk, Abs!Next

(***************************************************************************)
(* The buffer cache is a BlockStore: between bread and brelease a thread   *)
(* has its block alone and sees the value last written to it, whichever    *)
(* buffer holds it and however often it was recycled meanwhile.            *)
(***************************************************************************)
THEOREM Refinement == Spec => ImplementsBlockStore
<1>1. IInv /\ [Next]_vars => [Abs!Next]_(Abs!vars)
  BY AbsStep
<1> QED BY IInvHolds, AbsInit, <1>1, PTL DEF Spec, ImplementsBlockStore, Abs!Spec
=============================================================================
