--------------------------- MODULE VirtDiskProofs ---------------------------
(***************************************************************************)
(* Proofs about the disk driver of VirtDisk on one CPU (~Smp), for every   *)
(* size of the queue and any threads.                                      *)
(***************************************************************************)
EXTENDS VirtDisk, Integers, FiniteSetTheorems, SequenceTheorems,
        WellFoundedInduction, TLAPS

(***************************************************************************)
(* Arithmetic of the avail and used rings: indices that count modulo M,    *)
(* the range of their C type, and select an entry modulo N, the size of    *)
(* the ring, which divides M.                                              *)
(***************************************************************************)
(***************************************************************************)
(* Division with remainder, for a divisor that is not a numeral.           *)
(***************************************************************************)
LEMMA Division ==
  ASSUME NEW x \in Nat, NEW N \in Nat, N > 0
  PROVE  /\ x \div N \in Int /\ x % N \in 0 .. N - 1
         /\ x = N * (x \div N) + (x % N)
<1>1. x = N * (x \div N) + (x % N)
  BY Z3
<1>2. x \div N \in Int
  OBVIOUS
<1>3. x % N \in 0 .. N - 1
  OBVIOUS
<1> QED BY <1>1, <1>2, <1>3

(***************************************************************************)
(* The remainder is the only one.                                          *)
(***************************************************************************)
LEMMA Remainder ==
  ASSUME NEW x \in Nat, NEW N \in Nat, N > 0, NEW q \in Int,
         NEW s \in 0 .. N - 1, x = N * q + s
  PROVE  x % N = s
OBVIOUS

(***************************************************************************)
(* The entry j places after the one that x selects.                        *)
(***************************************************************************)
LEMMA ModAdd ==
  ASSUME NEW x \in Nat, NEW N \in Nat, N > 0, NEW j \in 0 .. N
  PROVE  (x + j) % N = IF (x % N) + j < N THEN (x % N) + j ELSE (x % N) + j - N
<1> DEFINE q == x \div N
           s == x % N
<1>1. q \in Int /\ s \in 0 .. N - 1 /\ x = N * q + s
  BY Division
<1> HIDE DEF q, s
<1>2. CASE s + j < N
  <2>1. x + j = N * q + (s + j) /\ s + j \in 0 .. N - 1 /\ x + j \in Nat
    BY <1>1, <1>2
  <2>2. (x + j) % N = s + j
    BY <1>1, <2>1, Remainder
  <2> QED BY <1>2, <2>2 DEF s
<1>3. CASE ~(s + j < N)
  <2>1. N * (q + 1) = N * q + N
    BY <1>1
  <2>2. /\ x + j = N * (q + 1) + (s + j - N) /\ s + j - N \in 0 .. N - 1
        /\ x + j \in Nat /\ q + 1 \in Int
    BY <1>1, <1>3, <2>1
  <2>3. (x + j) % N = s + j - N
    BY <2>2, Remainder
  <2> QED BY <1>3, <2>3 DEF s
<1> QED BY <1>2, <1>3

(***************************************************************************)
(* Indices wrap once: a sum of an index and at most M.                     *)
(***************************************************************************)
LEMMA IndexAdd ==
  ASSUME NEW M \in Nat, M > 0, NEW a \in 0 .. M - 1, NEW k \in 0 .. M
  PROVE  (a + k) % M = IF a + k < M THEN a + k ELSE a + k - M
<1>1. a % M = a
  OBVIOUS
<1> QED BY <1>1, ModAdd

(***************************************************************************)
(* How far index b is ahead of index a.                                    *)
(***************************************************************************)
LEMMA IndexDist ==
  ASSUME NEW M \in Nat, M > 0, NEW a \in 0 .. M - 1, NEW b \in 0 .. M - 1
  PROVE  (b + M - a) % M = IF b >= a THEN b - a ELSE b + M - a
<1>1. M - a \in 0 .. M /\ b + M - a = b + (M - a)
  OBVIOUS
<1>2. (b + (M - a)) % M = IF b + (M - a) < M THEN b + (M - a)
                          ELSE b + (M - a) - M
  BY <1>1, IndexAdd
<1> QED BY <1>1, <1>2

(***************************************************************************)
(* The wrap of an index does not move the entry it selects.                *)
(***************************************************************************)
LEMMA WrapKeepsEntry ==
  ASSUME NEW x \in Nat, NEW N \in Nat, N > 0,
         NEW M \in Nat, M > 0, M % N = 0, x < 2 * M
  PROVE  (x % M) % N = x % N
<1> DEFINE q == x \div N
           s == x % N
           p == M \div N
<1>1. q \in Int /\ s \in 0 .. N - 1 /\ x = N * q + s
  BY Division
<1>2. p \in Int /\ M = N * p
  BY Division
<1> HIDE DEF q, s, p
<1>3. CASE x < M
  BY <1>3
<1>4. CASE ~(x < M)
  <2>1. x = M * 1 + (x - M) /\ x - M \in 0 .. M - 1
    BY <1>4
  <2>2. x % M = x - M
    BY <2>1, Remainder
  <2>3. N * (q - p) = N * q - N * p
    BY <1>1, <1>2
  <2>4. x - M = N * (q - p) + s /\ x - M \in Nat /\ q - p \in Int
    BY <1>1, <1>2, <1>4, <2>3
  <2>5. (x - M) % N = s
    BY <1>1, <2>4, Remainder
  <2> QED BY <2>2, <2>5 DEF s
<1> QED BY <1>3, <1>4

(***************************************************************************)
(* How far index b is ahead of index a, and what steps of the two do.      *)
(***************************************************************************)
Dist(b, a, M) == (b + M - a) % M

LEMMA DistFacts ==
  ASSUME NEW M \in Nat, M > 0, NEW a \in 0 .. M - 1, NEW b \in 0 .. M - 1
  PROVE  /\ Dist(b, a, M) \in 0 .. M - 1
         /\ Dist(b, a, M) = IF b >= a THEN b - a ELSE b + M - a
         /\ Dist(b, a, M) = 0 <=> a = b
         /\ (a + Dist(b, a, M)) % M = b
<1> DEFINE d == Dist(b, a, M)
<1>1. d = IF b >= a THEN b - a ELSE b + M - a
  BY IndexDist DEF Dist
<1> HIDE DEF d
<1>2. d \in 0 .. M - 1 /\ (d = 0 <=> a = b)
  BY <1>1
<1>3. (a + d) % M = IF a + d < M THEN a + d ELSE a + d - M
  BY <1>2, IndexAdd
<1>4. (a + d) % M = b
  BY <1>1, <1>3
<1> QED BY <1>1, <1>2, <1>4 DEF d

LEMMA DistGrows ==
  ASSUME NEW M \in Nat, M > 0, NEW a \in 0 .. M - 1, NEW b \in 0 .. M - 1,
         Dist(b, a, M) < M - 1
  PROVE  /\ (b + 1) % M \in 0 .. M - 1
         /\ Dist((b + 1) % M, a, M) = Dist(b, a, M) + 1
<1> DEFINE c == (b + 1) % M
<1>1. c = IF b + 1 < M THEN b + 1 ELSE b + 1 - M
  BY IndexAdd
<1> HIDE DEF c
<1>2. c \in 0 .. M - 1
  BY <1>1
<1>3. Dist(c, a, M) = IF c >= a THEN c - a ELSE c + M - a
  BY <1>2, DistFacts
<1>4. Dist(b, a, M) = IF b >= a THEN b - a ELSE b + M - a
  BY DistFacts
<1>5. Dist(c, a, M) = Dist(b, a, M) + 1
  BY <1>1, <1>3, <1>4
<1> QED BY <1>2, <1>5 DEF c

LEMMA DistShrinks ==
  ASSUME NEW M \in Nat, M > 0, NEW a \in 0 .. M - 1, NEW b \in 0 .. M - 1,
         a # b
  PROVE  /\ (a + 1) % M \in 0 .. M - 1
         /\ Dist(b, (a + 1) % M, M) = Dist(b, a, M) - 1
<1> DEFINE c == (a + 1) % M
<1>1. c = IF a + 1 < M THEN a + 1 ELSE a + 1 - M
  BY IndexAdd
<1> HIDE DEF c
<1>2. c \in 0 .. M - 1
  BY <1>1
<1>3. Dist(b, c, M) = IF b >= c THEN b - c ELSE b + M - c
  BY <1>2, DistFacts
<1>4. Dist(b, a, M) = IF b >= a THEN b - a ELSE b + M - a
  BY DistFacts
<1>5. Dist(b, c, M) = Dist(b, a, M) - 1
  BY <1>1, <1>3, <1>4
<1> QED BY <1>2, <1>5 DEF c

(***************************************************************************)
(* The index k places ahead of a, k less than M, is the one at distance k. *)
(***************************************************************************)
LEMMA DistIs ==
  ASSUME NEW M \in Nat, M > 0, NEW a \in 0 .. M - 1, NEW b \in 0 .. M - 1,
         NEW k \in 0 .. M - 1
  PROVE  b = (a + k) % M <=> Dist(b, a, M) = k
<1>1. Dist(b, a, M) = IF b >= a THEN b - a ELSE b + M - a
  BY DistFacts
<1>2. (a + k) % M = IF a + k < M THEN a + k ELSE a + k - M
  BY IndexAdd
<1> QED BY <1>1, <1>2

(***************************************************************************)
(* The entry of an index, seen from one that it is less than M ahead of.   *)
(***************************************************************************)
LEMMA EntryFrom ==
  ASSUME NEW M \in Nat, NEW N \in Nat, N > 0, M > N, M % N = 0,
         NEW a \in 0 .. M - 1, NEW k \in 0 .. M
  PROVE  ((a + k) % M) % N = (a + k) % N
<1>1. a + k \in Nat /\ a + k < 2 * M /\ M > 0
  OBVIOUS
<1> QED BY <1>1, WrapKeepsEntry

(***************************************************************************)
(* Rings that mark an entry not in use with the value nil: the L entries   *)
(* from s on are in use.                                                   *)
(***************************************************************************)
RingWindow(f, s, L, N, nil) ==
  \A x \in 0 .. N - 1 : f[x] # nil <=> Dist(x, s, N) < L

LEMMA WindowEnds ==
  ASSUME NEW f, NEW N \in Nat, N > 0, NEW s \in 0 .. N - 1, NEW L \in 0 .. N,
         NEW nil, RingWindow(f, s, L, N, nil)
  PROVE  /\ f[s] # nil <=> L > 0
         /\ L = 0 => \A x \in 0 .. N - 1 : f[x] = nil
         /\ L = N => \A x \in 0 .. N - 1 : f[x] # nil
         /\ (s + L) % N \in 0 .. N - 1
         /\ L < N => f[(s + L) % N] = nil
<1>1. \A x \in 0 .. N - 1 : Dist(x, s, N) \in 0 .. N - 1
  BY DistFacts
<1>2. Dist(s, s, N) = 0
  BY DistFacts
<1>3. (s + L) % N \in 0 .. N - 1
  BY Division
<1>4. ASSUME L < N PROVE Dist((s + L) % N, s, N) = L
  <2>1. L \in 0 .. N - 1
    BY <1>4
  <2> QED BY <1>3, <2>1, DistIs
<1> HIDE DEF Dist
<1>5. f[s] # nil <=> L > 0
  BY <1>2 DEF RingWindow
<1>6. L < N => f[(s + L) % N] = nil
  BY <1>3, <1>4 DEF RingWindow
<1>7. ASSUME NEW x \in 0 .. N - 1
      PROVE  (L = 0 => f[x] = nil) /\ (L = N => f[x] # nil)
  <2>1. Dist(x, s, N) \in 0 .. N - 1 /\ (f[x] # nil <=> Dist(x, s, N) < L)
    BY <1>1 DEF RingWindow
  <2> QED BY <2>1
<1> QED BY <1>3, <1>5, <1>6, <1>7

(***************************************************************************)
(* A store behind the window, and the release of its first entry.          *)
(***************************************************************************)
WindowStore(f, g, s, L, N, nil, c) ==
  /\ N \in Nat /\ N > 0 /\ DOMAIN f = 0 .. N - 1
  /\ s \in 0 .. N - 1 /\ L \in 0 .. N - 1 /\ c # nil
  /\ RingWindow(f, s, L, N, nil)
  /\ g = [f EXCEPT ![(s + L) % N] = c]

LEMMA WindowGrows ==
  ASSUME NEW f, NEW g, NEW s, NEW L, NEW N, NEW nil, NEW c,
         WindowStore(f, g, s, L, N, nil, c)
  PROVE  RingWindow(g, s, L + 1, N, nil)
<1> DEFINE z == (s + L) % N
<1>0. /\ N \in Nat /\ N > 0 /\ s \in 0 .. N - 1 /\ L \in 0 .. N - 1 /\ L \in Nat
      /\ DOMAIN f = 0 .. N - 1 /\ c # nil /\ g = [f EXCEPT ![z] = c]
  BY DEF WindowStore
<1>1. z \in 0 .. N - 1
  BY <1>0, Division
<1> HIDE DEF z
<1>2. ASSUME NEW x \in 0 .. N - 1
      PROVE  Dist(x, s, N) \in 0 .. N - 1 /\ (x = z <=> Dist(x, s, N) = L)
  <2>1. Dist(x, s, N) \in 0 .. N - 1
    BY <1>0, DistFacts
  <2>2. x = (s + L) % N <=> Dist(x, s, N) = L
    BY <1>0, DistIs
  <2> QED BY <2>1, <2>2 DEF z
<1>3. ASSUME NEW x \in 0 .. N - 1 PROVE g[x] # nil <=> Dist(x, s, N) < L + 1
  <2>1. Dist(x, s, N) \in 0 .. N - 1 /\ (x = z <=> Dist(x, s, N) = L)
    BY <1>2
  <2>2. f[x] # nil <=> Dist(x, s, N) < L
    BY DEF WindowStore, RingWindow
  <2>3. g[x] = IF x = z THEN c ELSE f[x]
    BY <1>0
  <2> QED BY <1>0, <2>1, <2>2, <2>3
<1> QED BY <1>3 DEF RingWindow

WindowTake(f, g, s, L, N, nil) ==
  /\ N \in Nat /\ N > 0 /\ DOMAIN f = 0 .. N - 1
  /\ s \in 0 .. N - 1 /\ L \in 1 .. N
  /\ RingWindow(f, s, L, N, nil)
  /\ g = [f EXCEPT ![s] = nil]

LEMMA WindowShrinks ==
  ASSUME NEW f, NEW g, NEW s, NEW L, NEW N, NEW nil,
         WindowTake(f, g, s, L, N, nil)
  PROVE  RingWindow(g, (s + 1) % N, L - 1, N, nil)
<1> DEFINE z == (s + 1) % N
<1>0. /\ N \in Nat /\ N > 0 /\ s \in 0 .. N - 1 /\ L \in 1 .. N
      /\ DOMAIN f = 0 .. N - 1 /\ g = [f EXCEPT ![s] = nil]
  BY DEF WindowTake
<1>1. z = IF s + 1 < N THEN s + 1 ELSE s + 1 - N
  <2>1. 1 \in 0 .. N
    BY <1>0
  <2> QED BY <1>0, <2>1, IndexAdd
<1> HIDE DEF z
<1>2. z \in 0 .. N - 1
  BY <1>0, <1>1
<1>3. ASSUME NEW x \in 0 .. N - 1
      PROVE  /\ Dist(x, s, N) = IF x >= s THEN x - s ELSE x + N - s
             /\ Dist(x, z, N) = IF x >= z THEN x - z ELSE x + N - z
  BY <1>0, <1>2, DistFacts
<1>4. ASSUME NEW x \in 0 .. N - 1 PROVE g[x] # nil <=> Dist(x, z, N) < L - 1
  <2>1. f[x] # nil <=> Dist(x, s, N) < L
    BY DEF WindowTake, RingWindow
  <2>2. g[x] = IF x = s THEN nil ELSE f[x]
    BY <1>0
  <2>3. /\ Dist(x, s, N) = IF x >= s THEN x - s ELSE x + N - s
        /\ Dist(x, z, N) = IF x >= z THEN x - z ELSE x + N - z
    BY <1>3
  <2>4. CASE x = s
    <3>1. Dist(x, z, N) = N - 1
      BY <1>0, <1>1, <2>3, <2>4
    <3> QED BY <1>0, <2>2, <2>4, <3>1
  <2>5. CASE x # s
    <3>1. Dist(x, z, N) = Dist(x, s, N) - 1 /\ Dist(x, s, N) \in Int
      BY <1>0, <1>1, <2>3, <2>5
    <3> QED BY <1>0, <2>1, <2>2, <2>5, <3>1
  <2> QED BY <2>4, <2>5
<1> QED BY <1>4 DEF RingWindow, z

(***************************************************************************)
(* Steps of an index, seen modulo N.                                       *)
(***************************************************************************)
LEMMA EntryOffset ==
  ASSUME NEW N \in Nat, N > 0, NEW a \in Nat, NEW k \in 0 .. N
  PROVE  (a + k) % N = ((a % N) + k) % N
<1> DEFINE s == a % N
<1>1. s \in 0 .. N - 1
  BY Division
<1>2. (a + k) % N = IF s + k < N THEN s + k ELSE s + k - N
  BY ModAdd
<1> HIDE DEF s
<1>3. (s + k) % N = IF s + k < N THEN s + k ELSE s + k - N
  BY <1>1, IndexAdd
<1>4. (a + k) % N = (s + k) % N
  BY <1>2, <1>3
<1> QED BY <1>4 DEF s

LEMMA EntrySucc ==
  ASSUME NEW N \in Nat, N > 0, NEW M \in Nat, M > N, M % N = 0,
         NEW a \in 0 .. M - 1
  PROVE  ((a + 1) % M) % N = ((a % N) + 1) % N
<1>1. 1 \in 0 .. M /\ 1 \in 0 .. N /\ a \in Nat
  OBVIOUS
<1>2. ((a + 1) % M) % N = (a + 1) % N
  BY <1>1, EntryFrom
<1>3. (a + 1) % N = ((a % N) + 1) % N
  BY <1>1, EntryOffset
<1> QED BY <1>2, <1>3

-----------------------------------------------------------------------------
M == IdxMod

InRequest == {"publish", "check", "sleep", "asleep", "awake"}
Locked    == {"alloc", "publish", "check", "sleep"}

TypeOK ==
  /\ free \in SUBSET Desc
  /\ next \in [Desc -> Desc \cup {Nil}]
  /\ infob \in [Desc -> Thread \cup {NoThread}]
  /\ bdisk \in [Thread -> {0, 1}]
  /\ availRing \in [Desc -> Desc \cup {Nil}]
  /\ usedRing \in [Desc -> Desc \cup {Nil}]
  /\ availIdx \in 0 .. M - 1 /\ devIdx \in 0 .. M - 1
  /\ usedIdx \in 0 .. M - 1 /\ used_idx \in 0 .. M - 1
  /\ inflight \in SUBSET Desc
  /\ irq \in BOOLEAN
  /\ lock \in Thread \cup {NoThread}
  /\ head \in [Thread -> Desc \cup {Nil}]
  /\ pc \in [Thread -> {"idle", "alloc"} \cup InRequest]
  /\ isr \in {"off", "loop", "wake", "panic"}
  /\ isrb \in Thread \cup {NoThread}

\* disklock is held in its critical sections, and the handler waits for it.
LockOK ==
  /\ \A t \in Thread : pc[t] \in Locked => lock = t
  /\ isr # "off" => lock = NoThread

\* A request has its descriptors from alloc3_desc to free_chain.
HeadOK ==
  \A t \in Thread :
    /\ head[t] # Nil <=> pc[t] \in InRequest
    /\ head[t] # Nil => infob[head[t]] = t

\* They are three, none of them free, and nobody else's.
Chain3(t) == {head[t], next[head[t]], next[next[head[t]]]}

Whole(t) ==
  /\ next[head[t]] \in Desc /\ next[next[head[t]]] \in Desc
  /\ next[head[t]] # head[t] /\ next[next[head[t]]] # head[t]
  /\ next[next[head[t]]] # next[head[t]]
  /\ Chain3(t) \cap free = {}

ChainOK ==
  /\ \A t \in Thread : head[t] # Nil => Whole(t)
  /\ \A t, u \in Thread :
       t # u /\ head[t] # Nil /\ head[u] # Nil => Chain3(t) \cap Chain3(u) = {}

Busy == {t \in Thread : head[t] # Nil}

CountOK == Cardinality(free) + 3 * Cardinality(Busy) = NUM

\* The L entries of a ring from index a on are in use, and no others.
RingOK(f, a, L) ==
  /\ f \in [Desc -> Desc \cup {Nil}] /\ a \in 0 .. M - 1 /\ L \in 0 .. NUM
  /\ RingWindow(f, a % NUM, L, NUM, Nil)

\* In avail->ring: those between the device's index and the driver's, with
\* the one that virt_disk_rw has filled and avail->index does not cover yet.
Publishing == \E t \in Thread : pc[t] = "publish"

Offered == Dist(availIdx, devIdx, M) + IF Publishing THEN 1 ELSE 0

AvailOK == RingOK(availRing, devIdx, Offered)

\* In used->ring: those that the interrupt handler has not read.
Unread == Dist(usedIdx, used_idx, M)

UsedOK == RingOK(usedRing, used_idx, Unread)

\* A chain is in one place at a time: offered, being worked on or handed back.
OnePlace ==
  /\ \A x, y \in Desc : availRing[x] # Nil /\ availRing[x] = availRing[y] => x = y
  /\ \A x, y \in Desc : usedRing[x] # Nil /\ usedRing[x] = usedRing[y] => x = y
  /\ \A x, y \in Desc : availRing[x] # Nil => availRing[x] # usedRing[y]
  /\ \A x \in Desc : availRing[x] \notin inflight /\ usedRing[x] \notin inflight

Placed(h) ==
  \/ h \in inflight
  \/ \E x \in Desc : availRing[x] = h
  \/ \E x \in Desc : usedRing[x] = h

\* A chain that is in one of the places belongs to a thread that waits for
\* it, and a thread that waits for its chain finds it in one of them.
PlacedOwned ==
  \A h \in Desc : Placed(h) =>
    \E t \in Thread : head[t] = h /\ (bdisk[t] = 1 \/ isrb = t)

WaitingPlaced ==
  \A t \in Thread : bdisk[t] = 1 => head[t] \in Desc /\ Placed(head[t])

\* The entry that an index selects; the one that the handler reads.
Entry(i) == i % NUM

Cur == Entry(used_idx)

IsrOK ==
  /\ isr # "panic"
  /\ isr # "wake" => isrb = NoThread
  /\ isr = "wake" =>
       /\ isrb \in Thread /\ bdisk[isrb] = 0
       /\ head[isrb] \in Desc /\ usedRing[Cur] = head[isrb]

SleepOK ==
  \A t \in Thread :
    /\ pc[t] = "sleep" => bdisk[t] = 1
    /\ pc[t] = "asleep" => bdisk[t] = 1 \/ isrb = t

IrqOK == used_idx # usedIdx => irq \/ isr # "off"

IInv ==
  /\ ~Smp
  /\ TypeOK /\ LockOK /\ HeadOK /\ ChainOK /\ CountOK /\ AvailOK /\ UsedOK
  /\ OnePlace /\ PlacedOwned /\ WaitingPlaced /\ IsrOK /\ SleepOK /\ IrqOK

-----------------------------------------------------------------------------
(***************************************************************************)
(* The constants.  Most proofs need only that Nil is no descriptor.        *)
(***************************************************************************)
LEMMA ConstantFacts == Nil \notin Desc /\ NoThread \notin Thread
BY VirtDiskAssumption DEF Nil, Desc

LEMMA RingSize == NUM \in Nat /\ NUM > 0 /\ Desc = 0 .. NUM - 1
BY VirtDiskAssumption DEF Desc

LEMMA IdxSize == M \in Nat /\ M > 0 /\ M > NUM
BY VirtDiskAssumption DEF M

LEMMA Sizes ==
  /\ NUM \in Nat /\ NUM > 0 /\ M \in Nat /\ M > NUM /\ M % NUM = 0
BY VirtDiskAssumption DEF M, Desc

LEMMA SuccType == ASSUME NEW i \in 0 .. M - 1 PROVE Succ(i) \in 0 .. M - 1
<1>1. i + 1 \in Nat
  BY IdxSize
<1>2. (i + 1) % M \in 0 .. M - 1
  BY <1>1, IdxSize, Division
<1> QED BY <1>2 DEF Succ, M

LEMMA Distances ==
  ASSUME TypeOK
  PROVE  /\ Dist(availIdx, devIdx, M) \in Nat
         /\ Dist(availIdx, devIdx, M) = 0 <=> devIdx = availIdx
         /\ Dist(usedIdx, used_idx, M) \in Nat
         /\ Dist(usedIdx, used_idx, M) = 0 <=> used_idx = usedIdx
<1>1. /\ availIdx \in 0 .. M - 1 /\ devIdx \in 0 .. M - 1
      /\ usedIdx \in 0 .. M - 1 /\ used_idx \in 0 .. M - 1
  BY DEF TypeOK
<1>2. /\ Dist(availIdx, devIdx, M) \in 0 .. M - 1
      /\ Dist(availIdx, devIdx, M) = 0 <=> devIdx = availIdx
  BY <1>1, IdxSize, DistFacts
<1>3. /\ Dist(usedIdx, used_idx, M) \in 0 .. M - 1
      /\ Dist(usedIdx, used_idx, M) = 0 <=> used_idx = usedIdx
  BY <1>1, IdxSize, DistFacts
<1> QED BY <1>2, <1>3, IdxSize

LEMMA CurIn == ASSUME TypeOK PROVE Cur \in Desc
<1>1. used_idx \in Nat
  BY IdxSize DEF TypeOK
<1>2. used_idx % NUM \in 0 .. NUM - 1
  BY <1>1, RingSize, Division
<1> QED BY <1>2, RingSize DEF Cur, Entry

(***************************************************************************)
(* alloc3_desc takes descriptors that are free.                            *)
(***************************************************************************)
LEMMA MinIn == ASSUME NEW S \in SUBSET Nat, S # {} PROVE Min(S) \in S
<1> DEFINE R == OpToRel(<, Nat)
<1>1. \A x, y \in Nat : <<y, x>> \in R <=> y < x
  BY DEF OpToRel
<1>2. IsWellFoundedOn(R, Nat)
  BY NatLessThanWellFounded
<1> HIDE DEF R
<1>3. PICK x \in S : \A y \in S : ~(<<y, x>> \in R)
  BY <1>2, WFMin
<1>4. ASSUME NEW y \in S PROVE x =< y
  <2>1. x \in Nat /\ y \in Nat /\ ~(<<y, x>> \in R)
    BY <1>3
  <2>2. ~(y < x)
    BY <1>1, <2>1
  <2> QED BY <2>1, <2>2
<1> QED BY <1>4 DEF Min

LEMMA DescSets ==
  ASSUME NEW S \in SUBSET Desc, NEW d
  PROVE  /\ IsFiniteSet(S) /\ Cardinality(S) \in Nat
         /\ Cardinality(S) = 0 <=> S = {}
         /\ d \notin S => Cardinality(S \cup {d}) = Cardinality(S) + 1
         /\ d \in S => Cardinality(S \ {d}) = Cardinality(S) - 1
<1>1. IsFiniteSet(Desc)
  BY RingSize, FS_Interval
<1>2. IsFiniteSet(S)
  BY <1>1, FS_Subset
<1> QED BY <1>2, FS_CardinalityType, FS_EmptySet, FS_AddElement,
           FS_RemoveElement

LEMMA ThreeFree ==
  ASSUME free \in SUBSET Desc, Cardinality(free) >= 3
  PROVE  LET i == Min(free)
             j == Min(free \ {i})
             k == Min(free \ {i, j})
         IN  i \in free /\ j \in free \ {i} /\ k \in free \ {i, j}
<1> DEFINE i == Min(free)
           j == Min(free \ {i})
           k == Min(free \ {i, j})
<1>0. \A S \in SUBSET Desc : S # {} => Min(S) \in S
  BY MinIn, RingSize
<1>1. Cardinality(free) # 0 /\ Cardinality(free) \in Nat
  <2>1. Cardinality(free) \in Nat
    BY DescSets
  <2> QED BY <2>1
<1>2. i \in free
  BY <1>0, <1>1, DescSets
<1> HIDE DEF i
<1>3. /\ free \ {i} \in SUBSET Desc
      /\ Cardinality(free \ {i}) = Cardinality(free) - 1
      /\ Cardinality(free \ {i}) # 0
  BY <1>1, <1>2, DescSets
<1>4. j \in free \ {i}
  BY <1>0, <1>3, DescSets
<1> HIDE DEF j
<1>5. free \ {i, j} = (free \ {i}) \ {j}
  OBVIOUS
<1>6. /\ free \ {i, j} \in SUBSET Desc
      /\ Cardinality(free \ {i, j}) = Cardinality(free) - 2
      /\ Cardinality(free \ {i, j}) # 0
  BY <1>1, <1>3, <1>4, <1>5, DescSets
<1>7. k \in free \ {i, j}
  BY <1>0, <1>6, DescSets
<1> QED BY <1>2, <1>4, <1>7 DEF i, j

(***************************************************************************)
(* Distinct entries that do not name d leave an entry of the ring empty.   *)
(***************************************************************************)
LEMMA EntryLeft ==
  ASSUME NEW f \in [Desc -> Desc \cup {Nil}], NEW d \in Desc,
         \A x \in Desc : f[x] # d,
         \A x, y \in Desc : f[x] # Nil /\ f[x] = f[y] => x = y
  PROVE  \E x \in Desc : f[x] = Nil
<1> SUFFICES ASSUME \A x \in Desc : f[x] # Nil PROVE FALSE
  OBVIOUS
<1>1. f \in [Desc -> Desc \ {d}]
  OBVIOUS
<1>2. Desc \in SUBSET Desc /\ Desc \ {d} \in SUBSET Desc
  OBVIOUS
<1>3. IsFiniteSet(Desc) /\ IsFiniteSet(Desc \ {d})
  BY <1>2, DescSets
<1>4. Cardinality(Desc \ {d}) < Cardinality(Desc)
  BY <1>2, DescSets
<1>5. \E x, y \in Desc : x # y /\ f[x] = f[y]
  BY <1>1, <1>3, <1>4, FS_PigeonHole
<1> QED BY <1>5

(***************************************************************************)
(* What a thread in a request has: its descriptors are nobody else's.      *)
(***************************************************************************)
LEMMA OwnHead ==
  ASSUME HeadOK, NEW t \in Thread, NEW u \in Thread,
         head[t] # Nil, head[t] = head[u]
  PROVE  t = u
BY DEF HeadOK

LEMMA ChainIs3 ==
  ASSUME ChainOK, NEW t \in Thread, head[t] # Nil
  PROVE  Chain(head[t]) = Chain3(t)
BY ConstantFacts DEF ChainOK, Whole, Chain, Chain3

LEMMA ChainDesc ==
  ASSUME TypeOK, ChainOK, NEW t \in Thread, head[t] # Nil
  PROVE  Chain3(t) \in SUBSET Desc
BY DEF TypeOK, ChainOK, Whole, Chain3

LEMMA FreeNotPlaced ==
  ASSUME TypeOK, ChainOK, PlacedOwned, NEW d \in free
  PROVE  ~Placed(d) /\ \A t \in Thread : head[t] # Nil => d \notin Chain3(t)
BY ConstantFacts DEF TypeOK, ChainOK, Whole, PlacedOwned, Chain3

-----------------------------------------------------------------------------
(***************************************************************************)
(* The two rings: their first entry, and the entry behind the last.        *)
(***************************************************************************)
LEMMA RingEmpty ==
  ASSUME NEW f, NEW a, NEW L, RingOK(f, a, L), NEW x \in Desc, f[x] # Nil
  PROVE  L \in 1 .. NUM
<1>1. L \in 0 .. NUM
  BY DEF RingOK
<1>2. ASSUME L = 0 PROVE FALSE
  <2>1. a \in Nat
    BY IdxSize DEF RingOK
  <2>2. a % NUM \in 0 .. NUM - 1
    BY <2>1, RingSize, Division
  <2>3. RingWindow(f, a % NUM, L, NUM, Nil)
    BY DEF RingOK
  <2>4. \A y \in 0 .. NUM - 1 : f[y] = Nil
    BY <1>1, <1>2, <2>2, <2>3, RingSize, WindowEnds
  <2> QED BY <2>4, RingSize
<1> QED BY <1>1, <1>2, RingSize

LEMMA RingHead ==
  ASSUME NEW f, NEW a, NEW L, RingOK(f, a, L), L # 0
  PROVE  /\ a % NUM \in Desc /\ f[a % NUM] \in Desc
         /\ RingOK([f EXCEPT ![a % NUM] = Nil], Succ(a), L - 1)
<1> DEFINE x == a % NUM
           g == [f EXCEPT ![x] = Nil]
<1>0. /\ f \in [Desc -> Desc \cup {Nil}] /\ a \in 0 .. M - 1
      /\ L \in 0 .. NUM /\ L \in 1 .. NUM /\ L - 1 \in 0 .. NUM
      /\ RingWindow(f, x, L, NUM, Nil)
  BY RingSize DEF RingOK
<1>1. x \in 0 .. NUM - 1
  <2>1. a \in Nat
    BY <1>0, IdxSize
  <2> QED BY <2>1, RingSize, Division
<1>2. Succ(a) % NUM = (x + 1) % NUM
  BY <1>0, Sizes, EntrySucc DEF Succ, M
<1> HIDE DEF x
<1>3. f[x] # Nil
  <2>1. f[x] # Nil <=> L > 0
    BY <1>0, <1>1, RingSize, WindowEnds
  <2> QED BY <1>0, <2>1, RingSize
<1>4. WindowTake(f, g, x, L, NUM, Nil)
  BY <1>0, <1>1, RingSize DEF WindowTake
<1>5. RingWindow(g, (x + 1) % NUM, L - 1, NUM, Nil)
  BY <1>4, WindowShrinks
<1>6. g \in [Desc -> Desc \cup {Nil}]
  BY <1>0
<1>7. RingOK(g, Succ(a), L - 1)
  BY <1>0, <1>2, <1>5, <1>6, SuccType DEF RingOK
<1> QED BY <1>0, <1>1, <1>3, <1>7, RingSize DEF x

LEMMA RingStore ==
  ASSUME NEW f, NEW a, NEW b \in 0 .. M - 1, RingOK(f, a, Dist(b, a, M)),
         NEW c \in Desc, \E y \in Desc : f[y] = Nil
  PROVE  /\ b % NUM \in Desc /\ f[b % NUM] = Nil
         /\ Dist(b, a, M) \in 0 .. NUM - 1
         /\ RingOK([f EXCEPT ![b % NUM] = c], a, Dist(b, a, M) + 1)
<1> DEFINE L == Dist(b, a, M)
           x == a % NUM
           z == b % NUM
           g == [f EXCEPT ![z] = c]
<1>0. /\ f \in [Desc -> Desc \cup {Nil}] /\ a \in 0 .. M - 1
      /\ L \in 0 .. NUM /\ L \in 0 .. M
      /\ RingWindow(f, x, L, NUM, Nil)
  BY RingSize, IdxSize DEF RingOK
<1>1. a \in Nat /\ b \in Nat
  BY <1>0, IdxSize
<1>2. x \in 0 .. NUM - 1 /\ z \in 0 .. NUM - 1
  BY <1>1, RingSize, Division
<1>3. (a + L) % M = b
  BY <1>0, IdxSize, DistFacts
<1> HIDE DEF L
<1>4. z = (x + L) % NUM
  <2>1. ((a + L) % M) % NUM = (a + L) % NUM
    BY <1>0, Sizes, EntryFrom
  <2>2. (a + L) % NUM = ((a % NUM) + L) % NUM
    BY <1>0, <1>1, RingSize, EntryOffset
  <2> QED BY <1>3, <2>1, <2>2
<1> HIDE DEF x, z
<1>5. L \in 0 .. NUM - 1
  <2>1. L = NUM => \A y \in 0 .. NUM - 1 : f[y] # Nil
    BY <1>0, <1>2, RingSize, WindowEnds
  <2>2. L # NUM
    BY <2>1, RingSize
  <2> QED BY <1>0, <2>2, RingSize
<1>6. f[z] = Nil
  <2>1. L < NUM
    BY <1>5, RingSize
  <2>2. f[(x + L) % NUM] = Nil
    BY <1>0, <1>2, <2>1, RingSize, WindowEnds
  <2> QED BY <1>4, <2>2
<1>7. WindowStore(f, g, x, L, NUM, Nil, c)
  BY <1>0, <1>2, <1>4, <1>5, RingSize, ConstantFacts DEF WindowStore
<1>8. RingWindow(g, x, L + 1, NUM, Nil)
  BY <1>7, WindowGrows
<1>9. g \in [Desc -> Desc \cup {Nil}]
  BY <1>0
<1>10. L + 1 \in 0 .. NUM
  BY <1>5, RingSize
<1>11. RingOK(g, a, L + 1)
  BY <1>0, <1>8, <1>9, <1>10 DEF RingOK, x
<1> QED BY <1>2, <1>5, <1>6, <1>11, RingSize DEF L, z

-----------------------------------------------------------------------------
(***************************************************************************)
(* What the steps come to when IInv holds: alloc3_desc names the           *)
(* descriptors and the ring entry it takes, the device and the handler the *)
(* entries they read and write, and the handler finds an owner.            *)
(***************************************************************************)
AllocOk(t, i, j, k, x) ==
  /\ pc[t] = "alloc" /\ isr = "off" /\ lock = t
  /\ i \in free /\ j \in free \ {i} /\ k \in free \ {i, j}
  /\ x = Entry(availIdx) /\ availRing[x] = Nil
  /\ free' = free \ {i, j, k}
  /\ next' = [next EXCEPT ![i] = j, ![j] = k, ![k] = Nil]
  /\ head' = [head EXCEPT ![t] = i]
  /\ bdisk' = [bdisk EXCEPT ![t] = 1]
  /\ infob' = [infob EXCEPT ![i] = t]
  /\ availRing' = [availRing EXCEPT ![x] = i]
  /\ pc' = [pc EXCEPT ![t] = "publish"]
  /\ UNCHANGED <<availIdx, usedRing, usedIdx, used_idx, devIdx, inflight, irq,
                 lock, isr, isrb>>

FinishOk(t) ==
  /\ pc[t] = "check" /\ isr = "off" /\ lock = t
  /\ bdisk[t] = 0 /\ head[t] \in Desc /\ ~Placed(head[t])
  /\ infob' = [infob EXCEPT ![head[t]] = NoThread]
  /\ free' = free \cup Chain3(t)
  /\ next' = [i \in Desc |-> IF i \in Chain3(t) THEN Nil ELSE next[i]]
  /\ head' = [head EXCEPT ![t] = Nil]
  /\ lock' = NoThread
  /\ pc' = [pc EXCEPT ![t] = "idle"]
  /\ UNCHANGED <<bdisk, availRing, availIdx, usedRing, usedIdx, used_idx, devIdx,
                 inflight, irq, isr, isrb>>

TakeOk(t) ==
  /\ isr = "loop" /\ used_idx # usedIdx
  /\ bdisk[t] = 1 /\ head[t] \in Desc /\ Cur \in Desc /\ usedRing[Cur] = head[t]
  /\ bdisk' = [bdisk EXCEPT ![t] = 0]
  /\ isrb' = t /\ isr' = "wake"
  /\ UNCHANGED <<free, next, infob, availRing, availIdx, usedRing, usedIdx,
                 used_idx, devIdx, inflight, irq, lock, head, pc>>

WakeOk(t) ==
  /\ isr = "wake" /\ isrb = t
  /\ bdisk[t] = 0 /\ head[t] \in Desc /\ Cur \in Desc /\ usedRing[Cur] = head[t]
  /\ pc' = IF pc[t] = "asleep" THEN [pc EXCEPT ![t] = "awake"] ELSE pc
  /\ usedRing' = [usedRing EXCEPT ![Cur] = Nil]
  /\ used_idx' = Succ(used_idx)
  /\ isr' = "loop" /\ isrb' = NoThread
  /\ UNCHANGED <<free, next, infob, availRing, availIdx, bdisk, usedIdx, devIdx,
                 inflight, irq, lock, head>>

FetchOk(x) ==
  /\ devIdx # availIdx /\ x = Entry(devIdx) /\ availRing[x] \in Desc
  /\ inflight' = inflight \cup {availRing[x]}
  /\ availRing' = [availRing EXCEPT ![x] = Nil]
  /\ devIdx' = Succ(devIdx)
  /\ UNCHANGED <<free, next, infob, bdisk, availIdx, usedRing, usedIdx, irq,
                 used_idx, isr, isrb, lock, head, pc>>

CompleteOk(h, x) ==
  /\ h \in inflight /\ x = Entry(usedIdx) /\ usedRing[x] = Nil
  /\ inflight' = inflight \ {h}
  /\ usedRing' = [usedRing EXCEPT ![x] = h]
  /\ usedIdx' = Succ(usedIdx)
  /\ irq' = TRUE
  /\ UNCHANGED <<free, next, infob, availRing, availIdx, bdisk, devIdx, used_idx,
                 isr, isrb, lock, head, pc>>

\* The steps of a thread that change nothing but pc, lock and avail->index.
PlainOk(t) ==
  \/ /\ pc[t] = "idle" /\ lock = NoThread /\ lock' = t
     /\ pc' = [pc EXCEPT ![t] = "alloc"] /\ UNCHANGED availIdx
  \/ /\ pc[t] = "publish" /\ availIdx' = Succ(availIdx)
     /\ pc' = [pc EXCEPT ![t] = "check"] /\ UNCHANGED lock
  \/ /\ pc[t] = "check" /\ bdisk[t] = 1
     /\ pc' = [pc EXCEPT ![t] = "sleep"] /\ UNCHANGED <<lock, availIdx>>
  \/ /\ pc[t] = "sleep" /\ lock' = NoThread
     /\ pc' = [pc EXCEPT ![t] = "asleep"] /\ UNCHANGED availIdx
  \/ /\ pc[t] = "awake" /\ lock = NoThread /\ lock' = t
     /\ pc' = [pc EXCEPT ![t] = "check"] /\ UNCHANGED availIdx

ThreadOk(t) ==
  /\ isr = "off" /\ PlainOk(t)
  /\ UNCHANGED <<free, next, infob, availRing, bdisk, usedRing, usedIdx, used_idx,
                 devIdx, inflight, irq, isr, isrb, head>>

\* The handler starts, with interrupts on, and ends when it has read all.
GateOk ==
  /\ \/ isr = "off" /\ lock = NoThread /\ irq' = FALSE /\ isr' = "loop"
     \/ isr = "loop" /\ used_idx = usedIdx /\ isr' = "off" /\ irq' = irq
  /\ UNCHANGED <<free, next, infob, availRing, availIdx, bdisk, usedRing, usedIdx,
                 used_idx, devIdx, inflight, lock, head, pc, isrb>>

StepOk ==
  \/ UNCHANGED vars
  \/ GateOk
  \/ \E t \in Thread :
       \/ ThreadOk(t) \/ FinishOk(t) \/ TakeOk(t) \/ WakeOk(t)
       \/ \E i, j, k, x \in Desc : AllocOk(t, i, j, k, x)
  \/ \E x \in Desc : FetchOk(x) \/ \E h \in Desc : CompleteOk(h, x)

(***************************************************************************)
(* A step from a state of IInv is one of these.                            *)
(***************************************************************************)
LEMMA StepForms == IInv /\ [Next]_vars => StepOk
<1> SUFFICES ASSUME IInv, [Next]_vars PROVE StepOk
  OBVIOUS
<1>0. /\ ~Smp /\ TypeOK /\ LockOK /\ HeadOK /\ ChainOK /\ AvailOK /\ UsedOK
      /\ OnePlace /\ PlacedOwned /\ IsrOK
  BY DEF IInv
<1>1. ASSUME NEW t \in Thread, Alloc3(t)
      PROVE  \E i, j, k, x \in Desc : AllocOk(t, i, j, k, x)
  <2> DEFINE i == Min(free)
             j == Min(free \ {i})
             k == Min(free \ {i, j})
             x == availIdx % NUM
  <2>1. i \in free /\ j \in free \ {i} /\ k \in free \ {i, j}
    BY <1>0, <1>1, ThreeFree DEF Alloc3, TypeOK
  <2>2. i \in Desc /\ j \in Desc /\ k \in Desc
    BY <1>0, <2>1 DEF TypeOK
  <2>3. pc[t] = "alloc" /\ isr = "off" /\ lock = t
    BY <1>0, <1>1 DEF Alloc3, Runs, LockOK, Locked
  <2>4. ~Publishing
    BY <1>0, <2>3 DEF Publishing, LockOK, Locked
  <2>5. Offered = Dist(availIdx, devIdx, M)
    <3>1. Dist(availIdx, devIdx, M) \in Nat
      BY <1>0, Distances
    <3> QED BY <2>4, <3>1 DEF Offered
  <2> HIDE DEF i, j, k
  <2>6. \E y \in Desc : availRing[y] = Nil
    <3>1. \A y \in Desc : availRing[y] # i
      BY <1>0, <2>1, FreeNotPlaced DEF Placed
    <3>2. \A y, z \in Desc : availRing[y] # Nil /\ availRing[y] = availRing[z] => y = z
      BY <1>0 DEF OnePlace
    <3>3. availRing \in [Desc -> Desc \cup {Nil}]
      BY <1>0 DEF TypeOK
    <3> QED BY <2>2, <3>1, <3>2, <3>3, EntryLeft
  <2>7. x \in Desc /\ availRing[x] = Nil
    <3>1. availIdx \in 0 .. M - 1 /\ RingOK(availRing, devIdx, Dist(availIdx, devIdx, M))
      BY <1>0, <2>5 DEF TypeOK, AvailOK
    <3> QED BY <2>2, <2>6, <3>1, RingStore
  <2>8. AllocOk(t, i, j, k, x)
    BY <1>1, <2>1, <2>3, <2>7
       DEF Alloc3, AllocOk, Entry, Goto, device, driver, i, j, k
  <2> QED BY <2>2, <2>7, <2>8
<1>2. ASSUME NEW t \in Thread, Finish(t) PROVE FinishOk(t)
  <2>1. pc[t] = "check" /\ isr = "off" /\ lock = t /\ isrb = NoThread
    BY <1>0, <1>2 DEF Finish, Runs, LockOK, Locked, IsrOK
  <2>2. bdisk[t] = 0
    BY <1>0, <1>2 DEF Finish, TypeOK
  <2>3. head[t] # Nil /\ head[t] \in Desc
    BY <1>0, <2>1 DEF HeadOK, InRequest, TypeOK
  <2>4. ~Placed(head[t])
    <3> SUFFICES ASSUME Placed(head[t]) PROVE FALSE
      OBVIOUS
    <3>1. PICK u \in Thread : head[u] = head[t] /\ (bdisk[u] = 1 \/ isrb = u)
      BY <1>0, <2>3 DEF PlacedOwned
    <3>2. u = t
      BY <1>0, <2>3, <3>1, OwnHead
    <3> QED BY <2>1, <2>2, <3>1, <3>2, ConstantFacts
  <2>5. Chain(head[t]) = Chain3(t)
    BY <1>0, <2>3, ChainIs3
  <2> QED BY <1>2, <2>1, <2>2, <2>3, <2>4, <2>5
             DEF Finish, FinishOk, Goto, device, driver
<1>3. ASSUME IsrTake PROVE \E t \in Thread : TakeOk(t)
  <2>1. isr = "loop" /\ used_idx # usedIdx /\ isrb = NoThread
    BY <1>0, <1>3 DEF IsrTake, IsrOK
  <2>2. Unread # 0
    BY <1>0, <2>1, Distances DEF Unread
  <2>3. used_idx % NUM \in Desc /\ usedRing[used_idx % NUM] \in Desc
    BY <1>0, <2>2, RingHead DEF UsedOK
  <2>4. Cur \in Desc /\ usedRing[Cur] \in Desc
    BY <2>3 DEF Cur, Entry
  <2>5. Placed(usedRing[Cur])
    BY <2>4 DEF Placed
  <2>6. PICK t \in Thread : head[t] = usedRing[Cur] /\ bdisk[t] = 1
    BY <1>0, <2>1, <2>4, <2>5, ConstantFacts DEF PlacedOwned
  <2>7. infob[usedRing[Cur]] = t
    BY <1>0, <2>4, <2>6, ConstantFacts DEF HeadOK
  <2>8. infob[usedRing[used_idx % NUM]] = t
    BY <2>7 DEF Cur, Entry
  <2>9. TakeOk(t)
    BY <1>3, <2>1, <2>4, <2>6, <2>8, ConstantFacts
       DEF IsrTake, TakeOk, queue, device
  <2> QED BY <2>9
<1>4. ASSUME IsrWake PROVE \E t \in Thread : WakeOk(t)
  <2>1. isr = "wake" /\ isrb \in Thread
    BY <1>0, <1>4 DEF IsrWake, IsrOK
  <2>2. usedRing' = [usedRing EXCEPT ![Cur] = Nil]
    BY <1>4 DEF IsrWake, Cur, Entry
  <2>3. Cur \in Desc
    BY <1>0, CurIn
  <2>4. WakeOk(isrb)
    BY <1>0, <1>4, <2>1, <2>2, <2>3 DEF IsrWake, WakeOk, IsrOK, queue
  <2> QED BY <2>1, <2>4
<1>5. ASSUME DevFetch PROVE \E x \in Desc : FetchOk(x)
  <2>1. devIdx # availIdx
    BY <1>5 DEF DevFetch
  <2>2. Offered # 0
    <3>1. Dist(availIdx, devIdx, M) # 0 /\ Dist(availIdx, devIdx, M) \in Nat
      BY <1>0, <2>1, Distances
    <3> QED BY <3>1 DEF Offered
  <2>3. devIdx % NUM \in Desc /\ availRing[devIdx % NUM] \in Desc
    BY <1>0, <2>2, RingHead DEF AvailOK
  <2>4. FetchOk(devIdx % NUM)
    BY <1>5, <2>1, <2>3 DEF DevFetch, FetchOk, Entry, driver
  <2> QED BY <2>3, <2>4
<1>6. ASSUME NEW h \in Desc, DevComplete(h)
      PROVE  \E x \in Desc : CompleteOk(h, x)
  <2>1. h \in inflight
    BY <1>6 DEF DevComplete
  <2>2. \E y \in Desc : usedRing[y] = Nil
    <3>1. \A y \in Desc : usedRing[y] # h
      BY <1>0, <2>1 DEF OnePlace
    <3>2. \A y, z \in Desc : usedRing[y] # Nil /\ usedRing[y] = usedRing[z] => y = z
      BY <1>0 DEF OnePlace
    <3>3. usedRing \in [Desc -> Desc \cup {Nil}]
      BY <1>0 DEF TypeOK
    <3> QED BY <3>1, <3>2, <3>3, EntryLeft
  <2>3. usedIdx % NUM \in Desc /\ usedRing[usedIdx % NUM] = Nil
    <3>1. usedIdx \in 0 .. M - 1 /\ RingOK(usedRing, used_idx, Dist(usedIdx, used_idx, M))
      BY <1>0 DEF TypeOK, UsedOK, Unread
    <3> QED BY <2>2, <3>1, RingStore
  <2>4. CompleteOk(h, usedIdx % NUM)
    BY <1>6, <2>3 DEF DevComplete, CompleteOk, Entry, queue, driver
  <2> QED BY <2>3, <2>4
<1>7. ASSUME IsrEnter \/ IsrExit PROVE GateOk
  BY <1>0, <1>7 DEF IsrEnter, IsrExit, GateOk, queue, device
<1>8. ASSUME NEW t \in Thread,
             Lock(t) \/ Publish(t) \/ CheckBusy(t) \/ Sleep(t) \/ Relock(t)
      PROVE  ThreadOk(t)
  BY <1>0, <1>8 DEF Lock, Publish, CheckBusy, Sleep, Relock, Runs, Goto,
     ThreadOk, PlainOk, queue, device, driver
<1> QED
  BY <1>1, <1>2, <1>3, <1>4, <1>5, <1>6, <1>7, <1>8
     DEF Next, Isr, Dev, Rw, Alloc3Retry, StepOk

-----------------------------------------------------------------------------
(***************************************************************************)
(* Every step keeps every part of IInv.                                    *)
(***************************************************************************)

(***************************************************************************)
(* Types.                                                                  *)
(***************************************************************************)
LEMMA TypeNext == IInv /\ [Next]_vars => TypeOK'
<1> SUFFICES ASSUME IInv, [Next]_vars PROVE TypeOK'
  OBVIOUS
<1>0. TypeOK
  BY DEF IInv
<1> USE <1>0, ConstantFacts DEF TypeOK, Locked, InRequest
<1>1. CASE UNCHANGED vars
  BY <1>1 DEF vars
<1>2. ASSUME GateOk PROVE TypeOK'
  BY <1>2 DEF GateOk
<1>3. ASSUME NEW t \in Thread, ThreadOk(t) PROVE TypeOK'
  BY <1>3, SuccType DEF ThreadOk, PlainOk
<1>4. ASSUME NEW t \in Thread, FinishOk(t) PROVE TypeOK'
  <2>1. Chain3(t) \in SUBSET Desc
    BY <1>4, ChainDesc DEF FinishOk, IInv
  <2> QED BY <1>4, <2>1 DEF FinishOk
<1>5. ASSUME NEW t \in Thread, TakeOk(t) PROVE TypeOK'
  BY <1>5 DEF TakeOk
<1>6. ASSUME NEW t \in Thread, WakeOk(t) PROVE TypeOK'
  BY <1>6, SuccType DEF WakeOk
<1>7. ASSUME NEW t \in Thread, NEW i \in Desc, NEW j \in Desc,
             NEW k \in Desc, NEW x \in Desc, AllocOk(t, i, j, k, x)
      PROVE  TypeOK'
  BY <1>7 DEF AllocOk
<1>8. ASSUME NEW x \in Desc, FetchOk(x) PROVE TypeOK'
  BY <1>8, SuccType DEF FetchOk
<1>9. ASSUME NEW x \in Desc, NEW h \in Desc, CompleteOk(h, x) PROVE TypeOK'
  BY <1>9, SuccType DEF CompleteOk
<1> QED
  BY <1>1, <1>2, <1>3, <1>4, <1>5, <1>6, <1>7, <1>8, <1>9, StepForms DEF
     StepOk

(***************************************************************************)
(* disklock keeps the threads apart, and the handler out.                  *)
(***************************************************************************)
LEMMA LockNext == IInv /\ [Next]_vars => LockOK'
<1> SUFFICES ASSUME IInv, [Next]_vars PROVE LockOK'
  OBVIOUS
<1>0. TypeOK /\ LockOK
  BY DEF IInv
<1> USE <1>0, ConstantFacts DEF TypeOK, LockOK, Locked, InRequest
<1>1. CASE UNCHANGED vars
  BY <1>1 DEF vars
<1>2. ASSUME GateOk PROVE LockOK'
  BY <1>2 DEF GateOk
<1>3. ASSUME NEW t \in Thread, ThreadOk(t) PROVE LockOK'
  BY <1>3 DEF ThreadOk, PlainOk
<1>4. ASSUME NEW t \in Thread, FinishOk(t) PROVE LockOK'
  BY <1>4 DEF FinishOk
<1>5. ASSUME NEW t \in Thread, TakeOk(t) PROVE LockOK'
  BY <1>5 DEF TakeOk
<1>6. ASSUME NEW t \in Thread, WakeOk(t) PROVE LockOK'
  BY <1>6 DEF WakeOk
<1>7. ASSUME NEW t \in Thread, NEW i \in Desc, NEW j \in Desc,
             NEW k \in Desc, NEW x \in Desc, AllocOk(t, i, j, k, x)
      PROVE  LockOK'
  BY <1>7 DEF AllocOk
<1>8. ASSUME NEW x \in Desc, FetchOk(x) PROVE LockOK'
  BY <1>8 DEF FetchOk
<1>9. ASSUME NEW x \in Desc, NEW h \in Desc, CompleteOk(h, x) PROVE LockOK'
  BY <1>9 DEF CompleteOk
<1> QED
  BY <1>1, <1>2, <1>3, <1>4, <1>5, <1>6, <1>7, <1>8, <1>9, StepForms DEF
     StepOk

(***************************************************************************)
(* A thread has descriptors from alloc3_desc to free_chain.                *)
(***************************************************************************)
LEMMA HeadNext == IInv /\ [Next]_vars => HeadOK'
<1> SUFFICES ASSUME IInv, [Next]_vars PROVE HeadOK'
  OBVIOUS
<1>0. TypeOK /\ ChainOK /\ HeadOK
  BY DEF IInv
<1> USE <1>0, ConstantFacts DEF TypeOK, ChainOK, HeadOK, Locked, InRequest,
    Whole, Chain3
<1>1. CASE UNCHANGED vars
  BY <1>1 DEF vars
<1>2. ASSUME GateOk PROVE HeadOK'
  BY <1>2 DEF GateOk
<1>3. ASSUME NEW t \in Thread, ThreadOk(t) PROVE HeadOK'
  BY <1>3 DEF ThreadOk, PlainOk
<1>4. ASSUME NEW t \in Thread, FinishOk(t) PROVE HeadOK'
  BY <1>4 DEF FinishOk
<1>5. ASSUME NEW t \in Thread, TakeOk(t) PROVE HeadOK'
  BY <1>5 DEF TakeOk
<1>6. ASSUME NEW t \in Thread, WakeOk(t) PROVE HeadOK'
  BY <1>6 DEF WakeOk
<1>7. ASSUME NEW t \in Thread, NEW i \in Desc, NEW j \in Desc,
             NEW k \in Desc, NEW x \in Desc, AllocOk(t, i, j, k, x)
      PROVE  HeadOK'
  BY <1>7 DEF AllocOk
<1>8. ASSUME NEW x \in Desc, FetchOk(x) PROVE HeadOK'
  BY <1>8 DEF FetchOk
<1>9. ASSUME NEW x \in Desc, NEW h \in Desc, CompleteOk(h, x) PROVE HeadOK'
  BY <1>9 DEF CompleteOk
<1> QED
  BY <1>1, <1>2, <1>3, <1>4, <1>5, <1>6, <1>7, <1>8, <1>9, StepForms DEF
     StepOk

(***************************************************************************)
(* Chains are made of free descriptors and taken apart as a whole.         *)
(***************************************************************************)
LEMMA ChainNext == IInv /\ [Next]_vars => ChainOK'
<1> SUFFICES ASSUME IInv, [Next]_vars PROVE ChainOK'
  OBVIOUS
<1>0. TypeOK /\ ChainOK
  BY DEF IInv
<1> USE <1>0, ConstantFacts DEF TypeOK, ChainOK, Chain3, Whole
<1>1. CASE UNCHANGED vars
  BY <1>1 DEF vars
<1>2. ASSUME GateOk PROVE ChainOK'
  BY <1>2 DEF GateOk
<1>3. ASSUME NEW t \in Thread, ThreadOk(t) PROVE ChainOK'
  BY <1>3 DEF ThreadOk, PlainOk
<1>4. ASSUME NEW t \in Thread, FinishOk(t) PROVE ChainOK'
  <2> HIDE DEF Chain3
  <2>1. head' = [head EXCEPT ![t] = Nil] /\ head[t] \in Desc
    BY <1>4 DEF FinishOk
  <2>2. ASSUME NEW u \in Thread, u # t, head[u] # Nil
        PROVE  /\ head'[u] = head[u] /\ Chain3(u)' = Chain3(u) /\ Whole(u)'
               /\ Chain3(u) \cap Chain3(t) = {}
    <3>1. Chain3(u) \cap Chain3(t) = {} /\ Whole(u) /\ Chain3(u) \in SUBSET Desc
      BY <2>1, <2>2, ChainDesc DEF ChainOK
    <3>2. head'[u] = head[u]
      BY <2>1, <2>2
    <3>3. \A d \in Chain3(u) : next'[d] = next[d]
      BY <1>4, <3>1 DEF FinishOk
    <3>4. head[u] \in Chain3(u) /\ next[head[u]] \in Chain3(u)
      BY DEF Chain3
    <3>5. Chain3(u)' = Chain3(u)
      BY <3>2, <3>3, <3>4 DEF Chain3
    <3>6. Chain3(u)' \cap free' = {}
      BY <1>4, <3>1, <3>5 DEF FinishOk, Whole
    <3>7. Whole(u)'
      BY <3>1, <3>2, <3>3, <3>4, <3>6 DEF Whole
    <3> QED BY <3>1, <3>2, <3>5, <3>7
  <2>3. head'[t] = Nil
    BY <2>1
  <2>4. \A u \in Thread : head'[u] # Nil => Whole(u)'
    BY <2>1, <2>2, <2>3
  <2>5. ASSUME NEW u \in Thread, NEW v \in Thread, u # v,
               head'[u] # Nil, head'[v] # Nil
        PROVE  Chain3(u)' \cap Chain3(v)' = {}
    BY <1>0, <2>1, <2>2, <2>3, <2>5 DEF ChainOK
  <2> QED BY <2>4, <2>5 DEF ChainOK
<1>5. ASSUME NEW t \in Thread, TakeOk(t) PROVE ChainOK'
  BY <1>5 DEF TakeOk
<1>6. ASSUME NEW t \in Thread, WakeOk(t) PROVE ChainOK'
  BY <1>6 DEF WakeOk
<1>7. ASSUME NEW t \in Thread, NEW i \in Desc, NEW j \in Desc,
             NEW k \in Desc, NEW x \in Desc, AllocOk(t, i, j, k, x)
      PROVE  ChainOK'
  <2> HIDE DEF Chain3
  <2>1. /\ head' = [head EXCEPT ![t] = i] /\ i \in free /\ j \in free \ {i}
        /\ k \in free \ {i, j} /\ free' = free \ {i, j, k}
        /\ next' = [next EXCEPT ![i] = j, ![j] = k, ![k] = Nil]
    BY <1>7 DEF AllocOk
  <2>2. ASSUME NEW u \in Thread, u # t, head[u] # Nil
        PROVE  /\ head'[u] = head[u] /\ Chain3(u)' = Chain3(u) /\ Whole(u)'
               /\ Chain3(u) \cap {i, j, k} = {}
    <3>1. Chain3(u) \cap free = {} /\ Whole(u) /\ Chain3(u) \in SUBSET Desc
      BY <2>2, ChainDesc DEF ChainOK, Whole
    <3>2. head'[u] = head[u] /\ Chain3(u) \cap {i, j, k} = {}
      BY <2>1, <2>2, <3>1
    <3>3. \A d \in Chain3(u) : next'[d] = next[d]
      BY <2>1, <3>1
    <3>4. head[u] \in Chain3(u) /\ next[head[u]] \in Chain3(u)
      BY DEF Chain3
    <3>5. Chain3(u)' = Chain3(u)
      BY <3>2, <3>3, <3>4 DEF Chain3
    <3>6. Chain3(u)' \cap free' = {}
      BY <2>1, <3>1, <3>5
    <3>7. Whole(u)'
      BY <3>1, <3>2, <3>3, <3>4, <3>6 DEF Whole
    <3> QED BY <3>1, <3>2, <3>5, <3>7
  <2>3. head'[t] = i /\ Chain3(t)' = {i, j, k} /\ Whole(t)'
    <3>1. head'[t] = i /\ next'[i] = j /\ next'[j] = k
      BY <2>1
    <3>2. Chain3(t)' = {i, j, k}
      BY <3>1 DEF Chain3
    <3>3. Chain3(t)' \cap free' = {}
      BY <2>1, <3>2
    <3> QED BY <2>1, <3>1, <3>2, <3>3 DEF Whole
  <2>4. \A u \in Thread : head'[u] # Nil => Whole(u)'
    BY <2>1, <2>2, <2>3
  <2>5. ASSUME NEW u \in Thread, NEW v \in Thread, u # v,
               head'[u] # Nil, head'[v] # Nil
        PROVE  Chain3(u)' \cap Chain3(v)' = {}
    BY <1>0, <2>1, <2>2, <2>3, <2>5 DEF ChainOK
  <2> QED BY <2>4, <2>5 DEF ChainOK
<1>8. ASSUME NEW x \in Desc, FetchOk(x) PROVE ChainOK'
  BY <1>8 DEF FetchOk
<1>9. ASSUME NEW x \in Desc, NEW h \in Desc, CompleteOk(h, x) PROVE ChainOK'
  BY <1>9 DEF CompleteOk
<1> QED
  BY <1>1, <1>2, <1>3, <1>4, <1>5, <1>6, <1>7, <1>8, <1>9, StepForms DEF
     StepOk

(***************************************************************************)
(* A chain moves from one place to the next.                               *)
(***************************************************************************)
LEMMA OnePlaceNext == IInv /\ [Next]_vars => OnePlace'
<1> SUFFICES ASSUME IInv, [Next]_vars PROVE OnePlace'
  OBVIOUS
<1>0. TypeOK /\ PlacedOwned /\ ChainOK /\ OnePlace
  BY DEF IInv
<1> USE <1>0, ConstantFacts DEF TypeOK, PlacedOwned, ChainOK, OnePlace,
    Whole, Chain3, Placed
<1>1. CASE UNCHANGED vars
  BY <1>1 DEF vars
<1>2. ASSUME GateOk PROVE OnePlace'
  BY <1>2 DEF GateOk
<1>3. ASSUME NEW t \in Thread, ThreadOk(t) PROVE OnePlace'
  BY <1>3 DEF ThreadOk, PlainOk
<1>4. ASSUME NEW t \in Thread, FinishOk(t) PROVE OnePlace'
  BY <1>4 DEF FinishOk
<1>5. ASSUME NEW t \in Thread, TakeOk(t) PROVE OnePlace'
  BY <1>5 DEF TakeOk
<1>6. ASSUME NEW t \in Thread, WakeOk(t) PROVE OnePlace'
  BY <1>6 DEF WakeOk
<1>7. ASSUME NEW t \in Thread, NEW i \in Desc, NEW j \in Desc,
             NEW k \in Desc, NEW x \in Desc, AllocOk(t, i, j, k, x)
      PROVE  OnePlace'
  BY <1>7 DEF AllocOk
<1>8. ASSUME NEW x \in Desc, FetchOk(x) PROVE OnePlace'
  BY <1>8 DEF FetchOk
<1>9. ASSUME NEW x \in Desc, NEW h \in Desc, CompleteOk(h, x) PROVE OnePlace'
  BY <1>9 DEF CompleteOk
<1> QED
  BY <1>1, <1>2, <1>3, <1>4, <1>5, <1>6, <1>7, <1>8, <1>9, StepForms DEF
     StepOk

(***************************************************************************)
(* A chain leaves the rings before its owner stops to wait.                *)
(***************************************************************************)
LEMMA OwnedNext == IInv /\ [Next]_vars => PlacedOwned'
<1> SUFFICES ASSUME IInv, [Next]_vars PROVE PlacedOwned'
  OBVIOUS
<1>0. TypeOK /\ HeadOK /\ OnePlace /\ IsrOK /\ PlacedOwned
  BY DEF IInv
<1> USE <1>0, ConstantFacts DEF TypeOK, HeadOK, OnePlace, IsrOK,
    PlacedOwned, Placed
<1>1. CASE UNCHANGED vars
  BY <1>1 DEF vars
<1>2. ASSUME GateOk PROVE PlacedOwned'
  BY <1>2 DEF GateOk
<1>3. ASSUME NEW t \in Thread, ThreadOk(t) PROVE PlacedOwned'
  BY <1>3 DEF ThreadOk, PlainOk
<1>4. ASSUME NEW t \in Thread, FinishOk(t) PROVE PlacedOwned'
  BY <1>4 DEF FinishOk
<1>5. ASSUME NEW t \in Thread, TakeOk(t) PROVE PlacedOwned'
  BY <1>5 DEF TakeOk
<1>6. ASSUME NEW t \in Thread, WakeOk(t) PROVE PlacedOwned'
  <2> SUFFICES ASSUME NEW h \in Desc, Placed(h)'
               PROVE  \E u \in Thread : head'[u] = h /\ (bdisk'[u] = 1 \/ isrb' = u)
    BY DEF PlacedOwned
  <2>1. PICK u \in Thread : head[u] = h /\ (bdisk[u] = 1 \/ isrb = u)
    BY <1>6 DEF WakeOk
  <2>2. h # usedRing[Cur]
    <3>1. ASSUME NEW y \in Desc, usedRing'[y] = h
          PROVE  y # Cur /\ usedRing[y] = h
      BY <1>6, <3>1 DEF WakeOk
    <3> QED BY <1>6, <3>1 DEF WakeOk
  <2> QED BY <1>6, <2>1, <2>2 DEF WakeOk
<1>7. ASSUME NEW t \in Thread, NEW i \in Desc, NEW j \in Desc,
             NEW k \in Desc, NEW x \in Desc, AllocOk(t, i, j, k, x)
      PROVE  PlacedOwned'
  <2> SUFFICES ASSUME NEW h \in Desc, Placed(h)'
               PROVE  \E u \in Thread : head'[u] = h /\ (bdisk'[u] = 1 \/ isrb' = u)
    BY DEF PlacedOwned
  <2>1. CASE h = i
    BY <1>7, <2>1 DEF AllocOk
  <2>2. CASE h # i
    <3>1. Placed(h) /\ isrb = NoThread
      BY <1>7, <2>2 DEF AllocOk
    <3>2. PICK u \in Thread : head[u] = h /\ bdisk[u] = 1
      BY <3>1
    <3>3. head[t] = Nil
      BY <1>7 DEF AllocOk, InRequest
    <3> QED BY <1>7, <3>2, <3>3 DEF AllocOk
  <2> QED BY <2>1, <2>2
<1>8. ASSUME NEW x \in Desc, FetchOk(x) PROVE PlacedOwned'
  BY <1>8 DEF FetchOk
<1>9. ASSUME NEW x \in Desc, NEW h \in Desc, CompleteOk(h, x)
      PROVE  PlacedOwned'
  BY <1>9 DEF CompleteOk
<1> QED
  BY <1>1, <1>2, <1>3, <1>4, <1>5, <1>6, <1>7, <1>8, <1>9, StepForms DEF
     StepOk

(***************************************************************************)
(* The chain of a thread that waits is not lost.                           *)
(***************************************************************************)
LEMMA WaitingNext == IInv /\ [Next]_vars => WaitingPlaced'
<1> SUFFICES ASSUME IInv, [Next]_vars PROVE WaitingPlaced'
  OBVIOUS
<1>0. TypeOK /\ HeadOK /\ WaitingPlaced
  BY DEF IInv
<1> USE <1>0, ConstantFacts DEF TypeOK, HeadOK, WaitingPlaced, Placed
<1>1. CASE UNCHANGED vars
  BY <1>1 DEF vars
<1>2. ASSUME GateOk PROVE WaitingPlaced'
  BY <1>2 DEF GateOk
<1>3. ASSUME NEW t \in Thread, ThreadOk(t) PROVE WaitingPlaced'
  BY <1>3 DEF ThreadOk, PlainOk
<1>4. ASSUME NEW t \in Thread, FinishOk(t) PROVE WaitingPlaced'
  BY <1>4 DEF FinishOk
<1>5. ASSUME NEW t \in Thread, TakeOk(t) PROVE WaitingPlaced'
  BY <1>5 DEF TakeOk
<1>6. ASSUME NEW t \in Thread, WakeOk(t) PROVE WaitingPlaced'
  BY <1>6 DEF WakeOk
<1>7. ASSUME NEW t \in Thread, NEW i \in Desc, NEW j \in Desc,
             NEW k \in Desc, NEW x \in Desc, AllocOk(t, i, j, k, x)
      PROVE  WaitingPlaced'
  BY <1>7 DEF AllocOk
<1>8. ASSUME NEW x \in Desc, FetchOk(x) PROVE WaitingPlaced'
  BY <1>8 DEF FetchOk
<1>9. ASSUME NEW x \in Desc, NEW h \in Desc, CompleteOk(h, x)
      PROVE  WaitingPlaced'
  BY <1>9 DEF CompleteOk
<1> QED
  BY <1>1, <1>2, <1>3, <1>4, <1>5, <1>6, <1>7, <1>8, <1>9, StepForms DEF
     StepOk

(***************************************************************************)
(* A thread goes to sleep with interrupts off since it saw its buffer      *)
(* busy.                                                                   *)
(***************************************************************************)
LEMMA SleepNext == IInv /\ [Next]_vars => SleepOK'
<1> SUFFICES ASSUME IInv, [Next]_vars PROVE SleepOK'
  OBVIOUS
<1>0. TypeOK /\ IsrOK /\ LockOK /\ HeadOK /\ SleepOK
  BY DEF IInv
<1> USE <1>0, ConstantFacts DEF TypeOK, IsrOK, LockOK, HeadOK, SleepOK,
    Locked, InRequest
<1>1. CASE UNCHANGED vars
  BY <1>1 DEF vars
<1>2. ASSUME GateOk PROVE SleepOK'
  BY <1>2 DEF GateOk
<1>3. ASSUME NEW t \in Thread, ThreadOk(t) PROVE SleepOK'
  BY <1>3 DEF ThreadOk, PlainOk
<1>4. ASSUME NEW t \in Thread, FinishOk(t) PROVE SleepOK'
  BY <1>4 DEF FinishOk
<1>5. ASSUME NEW t \in Thread, TakeOk(t) PROVE SleepOK'
  BY <1>5 DEF TakeOk
<1>6. ASSUME NEW t \in Thread, WakeOk(t) PROVE SleepOK'
  BY <1>6 DEF WakeOk
<1>7. ASSUME NEW t \in Thread, NEW i \in Desc, NEW j \in Desc,
             NEW k \in Desc, NEW x \in Desc, AllocOk(t, i, j, k, x)
      PROVE  SleepOK'
  BY <1>7 DEF AllocOk
<1>8. ASSUME NEW x \in Desc, FetchOk(x) PROVE SleepOK'
  BY <1>8 DEF FetchOk
<1>9. ASSUME NEW x \in Desc, NEW h \in Desc, CompleteOk(h, x) PROVE SleepOK'
  BY <1>9 DEF CompleteOk
<1> QED
  BY <1>1, <1>2, <1>3, <1>4, <1>5, <1>6, <1>7, <1>8, <1>9, StepForms DEF
     StepOk

(***************************************************************************)
(* The handler leaves no entry unread unless an interrupt is pending.      *)
(***************************************************************************)
LEMMA IrqNext == IInv /\ [Next]_vars => IrqOK'
<1> SUFFICES ASSUME IInv, [Next]_vars PROVE IrqOK'
  OBVIOUS
<1>0. TypeOK /\ IrqOK
  BY DEF IInv
<1> USE <1>0, ConstantFacts DEF TypeOK, IrqOK
<1>1. CASE UNCHANGED vars
  BY <1>1 DEF vars
<1>2. ASSUME GateOk PROVE IrqOK'
  BY <1>2 DEF GateOk
<1>3. ASSUME NEW t \in Thread, ThreadOk(t) PROVE IrqOK'
  BY <1>3 DEF ThreadOk, PlainOk
<1>4. ASSUME NEW t \in Thread, FinishOk(t) PROVE IrqOK'
  BY <1>4 DEF FinishOk
<1>5. ASSUME NEW t \in Thread, TakeOk(t) PROVE IrqOK'
  BY <1>5 DEF TakeOk
<1>6. ASSUME NEW t \in Thread, WakeOk(t) PROVE IrqOK'
  BY <1>6 DEF WakeOk
<1>7. ASSUME NEW t \in Thread, NEW i \in Desc, NEW j \in Desc,
             NEW k \in Desc, NEW x \in Desc, AllocOk(t, i, j, k, x)
      PROVE  IrqOK'
  BY <1>7 DEF AllocOk
<1>8. ASSUME NEW x \in Desc, FetchOk(x) PROVE IrqOK'
  BY <1>8 DEF FetchOk
<1>9. ASSUME NEW x \in Desc, NEW h \in Desc, CompleteOk(h, x) PROVE IrqOK'
  BY <1>9 DEF CompleteOk
<1> QED
  BY <1>1, <1>2, <1>3, <1>4, <1>5, <1>6, <1>7, <1>8, <1>9, StepForms DEF
     StepOk

(***************************************************************************)
(* The handler finds the owner of the entry it reads.                      *)
(***************************************************************************)
LEMMA IsrNext == IInv /\ [Next]_vars => IsrOK'
<1> SUFFICES ASSUME IInv, [Next]_vars PROVE IsrOK'
  OBVIOUS
<1>0. TypeOK /\ HeadOK /\ LockOK /\ IsrOK
  BY DEF IInv
<1> USE <1>0, ConstantFacts DEF TypeOK, HeadOK, LockOK, IsrOK, Locked,
    InRequest
<1>1. CASE UNCHANGED vars
  <2>1. Cur' = Cur
    BY <1>1 DEF vars, Cur
  <2> QED BY <1>1, <2>1 DEF vars
<1>2. ASSUME GateOk PROVE IsrOK'
  BY <1>2 DEF GateOk
<1>3. ASSUME NEW t \in Thread, ThreadOk(t) PROVE IsrOK'
  BY <1>3 DEF ThreadOk, PlainOk
<1>4. ASSUME NEW t \in Thread, FinishOk(t) PROVE IsrOK'
  BY <1>4 DEF FinishOk
<1>5. ASSUME NEW t \in Thread, TakeOk(t) PROVE IsrOK'
  <2> HIDE DEF Cur
  <2>1. Cur' = Cur
    BY <1>5 DEF TakeOk, Cur
  <2> QED BY <1>5, <2>1 DEF TakeOk
<1>6. ASSUME NEW t \in Thread, WakeOk(t) PROVE IsrOK'
  BY <1>6 DEF WakeOk
<1>7. ASSUME NEW t \in Thread, NEW i \in Desc, NEW j \in Desc,
             NEW k \in Desc, NEW x \in Desc, AllocOk(t, i, j, k, x)
      PROVE  IsrOK'
  BY <1>7 DEF AllocOk
<1>8. ASSUME NEW x \in Desc, FetchOk(x) PROVE IsrOK'
  <2> HIDE DEF Cur
  <2>1. Cur' = Cur
    BY <1>8 DEF FetchOk, Cur
  <2> QED BY <1>8, <2>1 DEF FetchOk
<1>9. ASSUME NEW x \in Desc, NEW h \in Desc, CompleteOk(h, x) PROVE IsrOK'
  <2> HIDE DEF Cur
  <2>1. Cur' = Cur
    BY <1>9 DEF CompleteOk, Cur
  <2> QED BY <1>9, <2>1 DEF CompleteOk
<1> QED
  BY <1>1, <1>2, <1>3, <1>4, <1>5, <1>6, <1>7, <1>8, <1>9, StepForms DEF
     StepOk

(***************************************************************************)
(* avail->ring does not change, and nobody publishes.                      *)
(***************************************************************************)
LEMMA AvailSame ==
  ASSUME AvailOK, UNCHANGED <<availRing, availIdx, devIdx>>, Publishing' = Publishing
  PROVE  AvailOK'
BY DEF AvailOK, Offered

(***************************************************************************)
(* Room in avail->ring: its entries name chains that are in use.           *)
(***************************************************************************)
LEMMA AvailNext == IInv /\ [Next]_vars => AvailOK'
<1> SUFFICES ASSUME IInv, [Next]_vars PROVE AvailOK'
  OBVIOUS
<1>0. TypeOK /\ LockOK /\ AvailOK
  BY DEF IInv
<1> USE <1>0
<1>1. CASE UNCHANGED vars
  <2>1. UNCHANGED <<availRing, availIdx, devIdx>> /\ Publishing' = Publishing
    BY <1>1 DEF vars, Publishing
  <2> QED BY <2>1, AvailSame
<1>2. ASSUME GateOk PROVE AvailOK'
  <2>1. UNCHANGED <<availRing, availIdx, devIdx>> /\ Publishing' = Publishing
    BY <1>2 DEF GateOk, Publishing
  <2> QED BY <2>1, AvailSame
<1>3. ASSUME NEW t \in Thread, ThreadOk(t) PROVE AvailOK'
  <2>1. CASE pc[t] = "publish"
    <3> DEFINE D == Dist(availIdx, devIdx, M)
    <3>1. /\ availIdx' = Succ(availIdx) /\ pc' = [pc EXCEPT ![t] = "check"]
          /\ UNCHANGED <<availRing, devIdx>>
      BY <1>3, <2>1 DEF ThreadOk, PlainOk
    <3>2. Publishing /\ ~Publishing'
      BY <2>1, <3>1 DEF Publishing, LockOK, Locked, TypeOK
    <3>3. D \in Nat
      BY Distances
    <3>4. Offered = D + 1 /\ Offered \in 0 .. NUM
      BY <3>2, <3>3 DEF Offered, AvailOK, RingOK
    <3>5. D < M - 1
      BY <3>3, <3>4, IdxSize, RingSize
    <3>6. Dist((availIdx + 1) % M, devIdx, M) = D + 1
      BY <3>5, IdxSize, DistGrows DEF TypeOK
    <3>7. Offered' = D + 1
      BY <3>1, <3>2, <3>3, <3>6 DEF Offered, Succ, M
    <3> QED BY <3>1, <3>4, <3>7 DEF AvailOK
  <2>2. CASE pc[t] # "publish"
    <3>1. UNCHANGED <<availRing, availIdx, devIdx>> /\ Publishing' = Publishing
      BY <1>3, <2>2 DEF ThreadOk, PlainOk, Publishing, TypeOK
    <3> QED BY <3>1, AvailSame
  <2> QED BY <2>1, <2>2
<1>4. ASSUME NEW t \in Thread, FinishOk(t) PROVE AvailOK'
  <2>1. UNCHANGED <<availRing, availIdx, devIdx>> /\ Publishing' = Publishing
    BY <1>4 DEF FinishOk, TypeOK, Publishing
  <2> QED BY <2>1, AvailSame
<1>5. ASSUME NEW t \in Thread, TakeOk(t) PROVE AvailOK'
  <2>1. UNCHANGED <<availRing, availIdx, devIdx>> /\ Publishing' = Publishing
    BY <1>5 DEF TakeOk, Publishing
  <2> QED BY <2>1, AvailSame
<1>6. ASSUME NEW t \in Thread, WakeOk(t) PROVE AvailOK'
  <2>1. UNCHANGED <<availRing, availIdx, devIdx>> /\ Publishing' = Publishing
    BY <1>6 DEF WakeOk, TypeOK, Publishing
  <2> QED BY <2>1, AvailSame
<1>7. ASSUME NEW t \in Thread, NEW i \in Desc, NEW j \in Desc,
             NEW k \in Desc, NEW x \in Desc, AllocOk(t, i, j, k, x)
      PROVE  AvailOK'
  <2> DEFINE D == Dist(availIdx, devIdx, M)
  <2>1. ~Publishing /\ Publishing'
    BY <1>7 DEF AllocOk, Publishing, LockOK, Locked, TypeOK
  <2>2. D \in Nat
    BY Distances
  <2>3. Offered = D
    BY <2>1, <2>2 DEF Offered
  <2>4. availRing' = [availRing EXCEPT ![availIdx % NUM] = i]
    BY <1>7 DEF AllocOk, Entry
  <2>5. availRing[x] = Nil /\ UNCHANGED <<availIdx, devIdx>>
    BY <1>7 DEF AllocOk
  <2>6. availIdx \in 0 .. M - 1 /\ RingOK(availRing, devIdx, D)
    BY <2>3 DEF TypeOK, AvailOK
  <2>7. RingOK([availRing EXCEPT ![availIdx % NUM] = i], devIdx, D + 1)
    BY <2>5, <2>6, RingStore
  <2>8. Offered' = D + 1
    BY <2>1, <2>2, <2>5 DEF Offered
  <2> QED BY <2>4, <2>5, <2>7, <2>8 DEF AvailOK
<1>8. ASSUME NEW x \in Desc, FetchOk(x) PROVE AvailOK'
  <2> DEFINE D == Dist(availIdx, devIdx, M)
             e == IF Publishing THEN 1 ELSE 0
  <2>1. /\ devIdx' = Succ(devIdx) /\ devIdx # availIdx
        /\ UNCHANGED <<availIdx, pc>>
    BY <1>8 DEF FetchOk
  <2>2. availRing' = [availRing EXCEPT ![devIdx % NUM] = Nil]
    BY <1>8 DEF FetchOk, Entry
  <2>3. D \in Nat /\ D # 0
    BY <2>1, Distances
  <2>4. Dist(availIdx, (devIdx + 1) % M, M) = D - 1
    BY <2>1, IdxSize, DistShrinks DEF TypeOK
  <2>5. Dist(availIdx, devIdx, M)' = D - 1
    BY <2>1, <2>4 DEF Succ, M
  <2>6. Offered = D + e /\ Offered' = (D - 1) + e /\ e \in {0, 1}
    BY <2>1, <2>5 DEF Offered, Publishing
  <2> HIDE DEF D, e
  <2>7. Offered # 0 /\ Offered' = Offered - 1
    BY <2>3, <2>6
  <2>8. RingOK([availRing EXCEPT ![devIdx % NUM] = Nil], Succ(devIdx), Offered - 1)
    BY <2>7, RingHead DEF AvailOK
  <2> QED BY <2>1, <2>2, <2>7, <2>8 DEF AvailOK
<1>9. ASSUME NEW x \in Desc, NEW h \in Desc, CompleteOk(h, x) PROVE AvailOK'
  <2>1. UNCHANGED <<availRing, availIdx, devIdx>> /\ Publishing' = Publishing
    BY <1>9 DEF CompleteOk, Publishing
  <2> QED BY <2>1, AvailSame
<1> QED
  BY <1>1, <1>2, <1>3, <1>4, <1>5, <1>6, <1>7, <1>8, <1>9, StepForms DEF
     StepOk

(***************************************************************************)
(* Room in used->ring: its entries name chains that the device has ended.  *)
(***************************************************************************)
LEMMA UsedNext == IInv /\ [Next]_vars => UsedOK'
<1> SUFFICES ASSUME IInv, [Next]_vars PROVE UsedOK'
  OBVIOUS
<1>0. TypeOK /\ UsedOK
  BY DEF IInv
<1> USE <1>0
<1>1. CASE UNCHANGED vars
  <2>1. UNCHANGED <<usedRing, usedIdx, used_idx>>
    BY <1>1 DEF vars
  <2> QED BY <2>1 DEF UsedOK, Unread
<1>2. ASSUME GateOk PROVE UsedOK'
  <2>1. UNCHANGED <<usedRing, usedIdx, used_idx>>
    BY <1>2 DEF GateOk
  <2> QED BY <2>1 DEF UsedOK, Unread
<1>3. ASSUME NEW t \in Thread, ThreadOk(t) PROVE UsedOK'
  <2>1. UNCHANGED <<usedRing, usedIdx, used_idx>>
    BY <1>3 DEF ThreadOk
  <2> QED BY <2>1 DEF UsedOK, Unread
<1>4. ASSUME NEW t \in Thread, FinishOk(t) PROVE UsedOK'
  <2>1. UNCHANGED <<usedRing, usedIdx, used_idx>>
    BY <1>4 DEF FinishOk
  <2> QED BY <2>1 DEF UsedOK, Unread
<1>5. ASSUME NEW t \in Thread, TakeOk(t) PROVE UsedOK'
  <2>1. UNCHANGED <<usedRing, usedIdx, used_idx>>
    BY <1>5 DEF TakeOk
  <2> QED BY <2>1 DEF UsedOK, Unread
<1>6. ASSUME NEW t \in Thread, WakeOk(t) PROVE UsedOK'
  <2> DEFINE D == Dist(usedIdx, used_idx, M)
  <2>1. used_idx' = Succ(used_idx) /\ usedIdx' = usedIdx
    BY <1>6 DEF WakeOk
  <2>2. usedRing' = [usedRing EXCEPT ![used_idx % NUM] = Nil]
    BY <1>6 DEF WakeOk, Cur, Entry
  <2>3. Cur \in Desc /\ usedRing[Cur] # Nil
    BY <1>6, ConstantFacts DEF WakeOk
  <2>4. D \in 1 .. NUM /\ D # 0
    <3>1. RingOK(usedRing, used_idx, D)
      BY DEF UsedOK, Unread
    <3>2. D \in 1 .. NUM
      BY <2>3, <3>1, RingEmpty
    <3> QED BY <3>2, RingSize
  <2>5. used_idx # usedIdx
    BY <2>4, Distances
  <2>6. Dist(usedIdx, (used_idx + 1) % M, M) = D - 1
    BY <2>5, IdxSize, DistShrinks DEF TypeOK
  <2>7. Unread' = D - 1
    BY <2>1, <2>6 DEF Unread, Succ, M
  <2>8. RingOK([usedRing EXCEPT ![used_idx % NUM] = Nil], Succ(used_idx), D - 1)
    BY <2>4, RingHead DEF UsedOK, Unread
  <2> QED BY <2>1, <2>2, <2>7, <2>8 DEF UsedOK
<1>7. ASSUME NEW t \in Thread, NEW i \in Desc, NEW j \in Desc,
             NEW k \in Desc, NEW x \in Desc, AllocOk(t, i, j, k, x)
      PROVE  UsedOK'
  <2>1. UNCHANGED <<usedRing, usedIdx, used_idx>>
    BY <1>7 DEF AllocOk
  <2> QED BY <2>1 DEF UsedOK, Unread
<1>8. ASSUME NEW x \in Desc, FetchOk(x) PROVE UsedOK'
  <2>1. UNCHANGED <<usedRing, usedIdx, used_idx>>
    BY <1>8 DEF FetchOk
  <2> QED BY <2>1 DEF UsedOK, Unread
<1>9. ASSUME NEW x \in Desc, NEW h \in Desc, CompleteOk(h, x) PROVE UsedOK'
  <2> DEFINE D == Dist(usedIdx, used_idx, M)
  <2>1. usedIdx' = Succ(usedIdx) /\ used_idx' = used_idx /\ usedRing[x] = Nil
    BY <1>9 DEF CompleteOk
  <2>2. usedRing' = [usedRing EXCEPT ![usedIdx % NUM] = h]
    BY <1>9 DEF CompleteOk, Entry
  <2>3. usedIdx \in 0 .. M - 1 /\ RingOK(usedRing, used_idx, D)
    BY DEF TypeOK, UsedOK, Unread
  <2>4. D \in 0 .. NUM - 1
    BY <2>1, <2>3, RingStore
  <2>5. RingOK([usedRing EXCEPT ![usedIdx % NUM] = h], used_idx, D + 1)
    BY <2>1, <2>3, RingStore
  <2>6. D < M - 1
    BY <2>4, IdxSize, RingSize
  <2>7. Dist((usedIdx + 1) % M, used_idx, M) = D + 1
    BY <2>6, IdxSize, DistGrows DEF TypeOK
  <2>8. Unread' = D + 1
    BY <2>1, <2>7 DEF Unread, Succ, M
  <2> QED BY <2>1, <2>2, <2>5, <2>8 DEF UsedOK
<1> QED
  BY <1>1, <1>2, <1>3, <1>4, <1>5, <1>6, <1>7, <1>8, <1>9, StepForms DEF
     StepOk

(***************************************************************************)
(* The threads in a request are finitely many.                             *)
(***************************************************************************)
LEMMA BusyCount ==
  ASSUME NEW t
  PROVE  /\ Cardinality(Busy) \in Nat
         /\ t \notin Busy => Cardinality(Busy \cup {t}) = Cardinality(Busy) + 1
         /\ t \in Busy => Cardinality(Busy \ {t}) = Cardinality(Busy) - 1
<1>1. IsFiniteSet(Busy)
  BY VirtDiskAssumption, FS_Subset DEF Busy
<1> QED BY <1>1, FS_CardinalityType, FS_AddElement, FS_RemoveElement

(***************************************************************************)
(* alloc3_desc and free_chain move three descriptors at a time.            *)
(***************************************************************************)
LEMMA CountNext == IInv /\ [Next]_vars => CountOK'
<1> SUFFICES ASSUME IInv, [Next]_vars PROVE CountOK'
  OBVIOUS
<1>0. TypeOK /\ HeadOK /\ ChainOK /\ CountOK
  BY DEF IInv
<1> USE <1>0
<1>1. CASE UNCHANGED vars
  <2>1. free' = free /\ Busy' = Busy
    BY <1>1 DEF vars, Busy
  <2> QED BY <2>1 DEF CountOK
<1>2. ASSUME GateOk PROVE CountOK'
  <2>1. free' = free /\ Busy' = Busy
    BY <1>2 DEF GateOk, Busy
  <2> QED BY <2>1 DEF CountOK
<1>3. ASSUME NEW t \in Thread, ThreadOk(t) PROVE CountOK'
  <2>1. free' = free /\ Busy' = Busy
    BY <1>3 DEF ThreadOk, Busy
  <2> QED BY <2>1 DEF CountOK
<1>4. ASSUME NEW t \in Thread, FinishOk(t) PROVE CountOK'
  <2> DEFINE a == head[t]
             b == next[a]
             c == next[b]
  <2>1. a \in Desc /\ head[t] # Nil
    BY <1>4, ConstantFacts DEF FinishOk
  <2>2. /\ b \in Desc /\ c \in Desc /\ a # b /\ c # a /\ c # b
        /\ a \notin free /\ b \notin free /\ c \notin free
    BY <2>1 DEF ChainOK, Whole, Chain3
  <2>3. free' = ((free \cup {a}) \cup {b}) \cup {c}
    BY <1>4 DEF FinishOk, Chain3
  <2>4. free \in SUBSET Desc
    BY DEF TypeOK
  <2> HIDE DEF a, b, c
  <2>5. Cardinality(free') = Cardinality(free) + 3 /\ Cardinality(free) \in Nat
    <3>1. Cardinality(free \cup {a}) = Cardinality(free) + 1
      BY <2>2, <2>4, DescSets
    <3>2. Cardinality((free \cup {a}) \cup {b}) = Cardinality(free \cup {a}) + 1
      BY <2>1, <2>2, <2>4, DescSets
    <3>3. Cardinality(free') = Cardinality((free \cup {a}) \cup {b}) + 1
      BY <2>1, <2>2, <2>3, <2>4, DescSets
    <3>4. Cardinality(free) \in Nat
      BY <2>4, DescSets
    <3> QED BY <3>1, <3>2, <3>3, <3>4
  <2>6. t \in Busy /\ Busy' = Busy \ {t}
    BY <1>4, <2>1 DEF FinishOk, Busy, TypeOK
  <2>7. Cardinality(Busy') = Cardinality(Busy) - 1 /\ Cardinality(Busy) \in Nat
    BY <2>6, BusyCount
  <2> QED BY <2>5, <2>7 DEF CountOK
<1>5. ASSUME NEW t \in Thread, TakeOk(t) PROVE CountOK'
  <2>1. free' = free /\ Busy' = Busy
    BY <1>5 DEF TakeOk, Busy
  <2> QED BY <2>1 DEF CountOK
<1>6. ASSUME NEW t \in Thread, WakeOk(t) PROVE CountOK'
  <2>1. free' = free /\ Busy' = Busy
    BY <1>6 DEF WakeOk, Busy
  <2> QED BY <2>1 DEF CountOK
<1>7. ASSUME NEW t \in Thread, NEW i \in Desc, NEW j \in Desc,
             NEW k \in Desc, NEW x \in Desc, AllocOk(t, i, j, k, x)
      PROVE  CountOK'
  <2>1. i \in free /\ j \in free \ {i} /\ k \in (free \ {i}) \ {j}
    BY <1>7 DEF AllocOk
  <2>2. free' = ((free \ {i}) \ {j}) \ {k}
    BY <1>7 DEF AllocOk
  <2>3. free \in SUBSET Desc
    BY DEF TypeOK
  <2>4. Cardinality(free') = Cardinality(free) - 3 /\ Cardinality(free) \in Nat
    <3>1. Cardinality(free \ {i}) = Cardinality(free) - 1
      BY <2>1, <2>3, DescSets
    <3>2. Cardinality((free \ {i}) \ {j}) = Cardinality(free \ {i}) - 1
      BY <2>1, <2>3, DescSets
    <3>3. Cardinality(free') = Cardinality((free \ {i}) \ {j}) - 1
      BY <2>1, <2>2, <2>3, DescSets
    <3>4. Cardinality(free) \in Nat
      BY <2>3, DescSets
    <3> QED BY <3>1, <3>2, <3>3, <3>4
  <2>5. t \notin Busy /\ Busy' = Busy \cup {t}
    <3>1. head[t] = Nil
      BY <1>7 DEF AllocOk, HeadOK, InRequest
    <3> QED BY <1>7, <3>1, ConstantFacts DEF AllocOk, Busy, TypeOK
  <2>6. Cardinality(Busy') = Cardinality(Busy) + 1 /\ Cardinality(Busy) \in Nat
    BY <2>5, BusyCount
  <2> QED BY <2>4, <2>6 DEF CountOK
<1>8. ASSUME NEW x \in Desc, FetchOk(x) PROVE CountOK'
  <2>1. free' = free /\ Busy' = Busy
    BY <1>8 DEF FetchOk, Busy
  <2> QED BY <2>1 DEF CountOK
<1>9. ASSUME NEW x \in Desc, NEW h \in Desc, CompleteOk(h, x) PROVE CountOK'
  <2>1. free' = free /\ Busy' = Busy
    BY <1>9 DEF CompleteOk, Busy
  <2> QED BY <2>1 DEF CountOK
<1> QED
  BY <1>1, <1>2, <1>3, <1>4, <1>5, <1>6, <1>7, <1>8, <1>9, StepForms DEF
     StepOk

-----------------------------------------------------------------------------
(***************************************************************************)
(* IInv is an invariant of the driver on one CPU.                          *)
(***************************************************************************)
LEMMA InitIInv == ~Smp /\ Init => IInv
<1> SUFFICES ASSUME ~Smp, Init PROVE IInv
  OBVIOUS
<1> USE ConstantFacts
<1>1. 0 \in 0 .. M - 1
  BY IdxSize
<1>2. TypeOK
  BY <1>1 DEF Init, TypeOK, InRequest
<1>3. LockOK /\ HeadOK /\ ChainOK
  BY DEF Init, LockOK, Locked, HeadOK, InRequest, ChainOK
<1>4. CountOK
  <2>1. free = 0 .. NUM - 1 /\ Busy = {}
    BY RingSize DEF Init, Busy
  <2>2. Cardinality(free) = NUM
    <3>1. Cardinality(0 .. NUM - 1) = NUM - 1 - 0 + 1
      BY RingSize, FS_Interval
    <3> QED BY <2>1, <3>1, RingSize
  <2>3. Cardinality(Busy) = 0
    BY <2>1, FS_EmptySet
  <2> QED BY <2>2, <2>3, RingSize DEF CountOK
<1>5. Dist(0, 0, M) = 0
  BY <1>1, IdxSize, DistFacts
<1>6. RingOK([i \in Desc |-> Nil], 0, 0)
  <2> DEFINE f == [i \in Desc |-> Nil]
  <2>1. 0 \in 0 .. NUM - 1 /\ 0 \in 0 .. NUM
    BY RingSize
  <2>2. 0 % NUM = 0
    BY RingSize
  <2>3. ASSUME NEW x \in 0 .. NUM - 1 PROVE f[x] # Nil <=> Dist(x, 0, NUM) < 0
    <3>1. Dist(x, 0, NUM) \in 0 .. NUM - 1
      BY <2>1, RingSize, DistFacts
    <3>2. f[x] = Nil
      BY RingSize
    <3> QED BY <3>1, <3>2, RingSize
  <2>4. RingWindow(f, 0, 0, NUM, Nil)
    BY <2>3 DEF RingWindow
  <2>5. f \in [Desc -> Desc \cup {Nil}]
    OBVIOUS
  <2> QED BY <1>1, <2>1, <2>2, <2>4, <2>5 DEF RingOK
<1>7. AvailOK /\ UsedOK
  <2>1. Offered = 0 /\ Unread = 0
    BY <1>5 DEF Init, Offered, Unread, Publishing
  <2> QED BY <1>6, <2>1 DEF Init, AvailOK, UsedOK
<1>8. OnePlace /\ PlacedOwned /\ WaitingPlaced
  BY DEF Init, OnePlace, PlacedOwned, WaitingPlaced, Placed
<1>9. IsrOK /\ SleepOK /\ IrqOK
  BY DEF Init, IsrOK, SleepOK, IrqOK
<1> QED BY <1>2, <1>3, <1>4, <1>7, <1>8, <1>9 DEF IInv

LEMMA NextIInv == IInv /\ [Next]_vars => IInv'
BY TypeNext, LockNext, HeadNext, ChainNext, CountNext, AvailNext, UsedNext,
   OnePlaceNext, OwnedNext, WaitingNext, IsrNext, SleepNext, IrqNext DEF IInv

(***************************************************************************)
(* On one CPU every reachable state of the disk driver satisfies IInv.     *)
(***************************************************************************)
THEOREM InductiveInvariant == ~Smp /\ Spec => []IInv
<1>1. ASSUME ~Smp PROVE Spec => []IInv
  BY <1>1, InitIInv, NextIInv, PTL DEF Spec
<1> QED BY <1>1

-----------------------------------------------------------------------------
(***************************************************************************)
(* On one CPU the device never works on a chain that virt_disk_rw has      *)
(* taken back, and virtio_disk_isr never panics on an entry nobody owns.   *)
(***************************************************************************)
THEOREM DeviceOwnsChainHolds == ~Smp /\ Spec => []DeviceOwnsChain
<1>1. IInv => DeviceOwnsChain
  <2> SUFFICES ASSUME IInv PROVE DeviceOwnsChain
    OBVIOUS
  <2>0. TypeOK /\ HeadOK /\ ChainOK /\ PlacedOwned /\ IsrOK
    BY DEF IInv
  <2>1. ASSUME NEW h \in Outstanding \cup HandedBack
        PROVE  /\ Chain(h) \subseteq Desc \ free
               /\ infob[h] # NoThread
               /\ bdisk[infob[h]] = 1 \/ isrb = infob[h]
               /\ head[infob[h]] = h
    <3>1. h \in Desc /\ Placed(h)
      BY <2>0, ConstantFacts DEF Outstanding, HandedBack, Placed, TypeOK
    <3>2. PICK t \in Thread : head[t] = h /\ (bdisk[t] = 1 \/ isrb = t)
      BY <2>0, <3>1 DEF PlacedOwned
    <3>3. infob[h] = t /\ head[t] # Nil
      BY <2>0, <3>1, <3>2, ConstantFacts DEF HeadOK
    <3>4. Chain(h) = Chain3(t)
      BY <2>0, <3>2, <3>3, ChainIs3
    <3>5. Chain3(t) \subseteq Desc \ free
      BY <2>0, <3>3, ChainDesc DEF ChainOK, Whole
    <3> QED BY <3>2, <3>3, <3>4, <3>5, ConstantFacts
  <2> QED BY <2>0, <2>1 DEF DeviceOwnsChain, IsrOK
<1> QED BY <1>1, InductiveInvariant, PTL

(***************************************************************************)
(* On one CPU no descriptor is lost or shared: free_chain gives back what  *)
(* alloc3_desc took, three for each request in progress.                   *)
(***************************************************************************)
THEOREM NoDescriptorLeakHolds == ~Smp /\ Spec => []NoDescriptorLeak
<1>1. IInv => NoDescriptorLeak
  <2> SUFFICES ASSUME IInv PROVE NoDescriptorLeak
    OBVIOUS
  <2>0. ChainOK /\ CountOK
    BY DEF IInv
  <2>1. \A t \in Busy : t \in Thread /\ head[t] # Nil /\ Chain(head[t]) = Chain3(t)
    BY <2>0, ChainIs3 DEF Busy
  <2>2. \A t, u \in Busy : t # u => Chain(head[t]) \cap Chain(head[u]) = {}
    BY <2>0, <2>1 DEF ChainOK
  <2>3. \A t \in Busy : Chain(head[t]) \cap free = {}
    BY <2>0, <2>1 DEF ChainOK, Whole
  <2> HIDE DEF Chain
  <2> QED BY <2>0, <2>2, <2>3 DEF NoDescriptorLeak, Busy, CountOK
<1> QED BY <1>1, InductiveInvariant, PTL

(***************************************************************************)
(* On one CPU no completion is lost on a thread that sleeps in             *)
(* virt_disk_rw: its chain is with the device, or the handler has still to *)
(* come to it.                                                             *)
(***************************************************************************)
THEOREM NoLostCompletionHolds == ~Smp /\ Spec => []NoLostCompletion
<1>1. IInv => NoLostCompletion
  <2> SUFFICES ASSUME IInv, NEW t \in Thread, pc[t] = "asleep"
               PROVE  \/ isr = "wake" /\ isrb = t
                      \/ bdisk[t] = 1 /\ (head[t] \in Outstanding \/ irq \/ isr # "off")
    BY DEF NoLostCompletion
  <2>0. TypeOK /\ UsedOK /\ WaitingPlaced /\ IsrOK /\ SleepOK /\ IrqOK
    BY DEF IInv
  <2>1. CASE isrb = t
    BY <2>0, <2>1, ConstantFacts DEF IsrOK
  <2>2. CASE isrb # t
    <3>1. bdisk[t] = 1 /\ head[t] \in Desc /\ Placed(head[t])
      BY <2>0, <2>2 DEF SleepOK, WaitingPlaced
    <3>2. CASE \E x \in Desc : usedRing[x] = head[t]
      <4>1. PICK x \in Desc : usedRing[x] = head[t]
        BY <3>2
      <4>2. usedRing[x] # Nil
        BY <3>1, <4>1, ConstantFacts
      <4>3. Unread \in 1 .. NUM
        BY <2>0, <4>2, RingEmpty DEF UsedOK
      <4>4. Unread # 0
        BY <4>3, RingSize
      <4>5. used_idx # usedIdx
        BY <2>0, <4>4, Distances DEF Unread
      <4> QED BY <2>0, <3>1, <4>5 DEF IrqOK
    <3>3. CASE ~\E x \in Desc : usedRing[x] = head[t]
      BY <3>1, <3>3, ConstantFacts DEF Placed, Outstanding
    <3> QED BY <3>2, <3>3
  <2> QED BY <2>1, <2>2
<1> QED BY <1>1, InductiveInvariant, PTL
=============================================================================
