------------------------------ MODULE VmProofs ------------------------------
(***************************************************************************)
(* Proofs about the physical pages of Vm, for every number of processes    *)
(* and pages, every order of the free list (Pick) and any programs.        *)
(***************************************************************************)
EXTENDS Vm, SequenceTheorems, FiniteSetTheorems, WellFoundedInduction, TLAPS

Label == {"user", "root", "high", "elf", "alloc", "map", "unmap", "panic"}
Op    == {"none", "fork", "exec", "stack", "free", "sbrk", "underflow"}

Table == [root : BOOLEAN, low : Seq(Page), high : Seq(Page),
          pte : [VPage -> Page \cup {Nil}]]

PageTypes ==
  /\ freelist \in [Page -> Nat]
  /\ table \in [Page -> Table]
  /\ trapframe \in [Proc -> Page \cup {Nil}]
  /\ mem \in [Proc -> Page \cup {Nil}]

TypeOK ==
  /\ state \in [Proc -> {"UNUSED", "USED", "LIVE", "ZOMBIE"}]
  /\ pagetable \in [Proc -> Page \cup {Nil}]
  /\ sz \in [Proc -> Nat]
  /\ pc \in [Proc -> Label]
  /\ op \in [Proc -> Op]
  /\ kid \in [Proc -> Proc \cup {Nil}]
  /\ new \in [Proc -> Page \cup {Nil}]
  /\ a \in [Proc -> Nat] /\ lo \in [Proc -> Nat] /\ hi \in [Proc -> Nat]

\* Page x is used at place i, j of kind k: what the set Uses of Vm lists.
UseAt(k, i, j, x) ==
  \/ k = "free" /\ i = x /\ i \in Page /\ j \in 1 .. freelist[i]
  \/ k = "trapframe" /\ i \in Proc /\ j = 0 /\ trapframe[i] = x
  \/ k = "unmapped" /\ i \in Proc /\ j = 0 /\ mem[i] = x
  \/ k = "root" /\ i = x /\ i \in Page /\ j = 0 /\ table[i].root
  \/ /\ k = "low" /\ i \in Page /\ table[i].root
     /\ j \in DOMAIN table[i].low /\ table[i].low[j] = x
  \/ /\ k = "high" /\ i \in Page /\ table[i].root
     /\ j \in DOMAIN table[i].high /\ table[i].high[j] = x
  \/ k = "user" /\ i \in Page /\ table[i].root /\ j \in VPage /\ table[i].pte[j] = x

Exclusive ==
  \A x \in Page : \A k, i, j, l, m, n :
    UseAt(k, i, j, x) /\ UseAt(l, m, n, x) => k = l /\ i = m /\ j = n

\* Which operation is where.
Growing == {"fork", "exec", "stack", "sbrk", "underflow"}

PcOp ==
  \A p \in Proc :
    /\ pc[p] = "user" => op[p] = "none" /\ kid[p] = Nil /\ new[p] = Nil
    /\ pc[p] = "root" => op[p] \in {"fork", "exec"} /\ new[p] = Nil
    /\ pc[p] = "high" => op[p] \in {"fork", "exec"}
    /\ pc[p] = "elf" => op[p] = "exec"
    /\ pc[p] \in {"alloc", "map"} => op[p] \in Growing
    /\ pc[p] = "unmap" => op[p] \in Growing \cup {"free"}
    /\ pc[p] \in {"high", "elf", "alloc", "map", "unmap"} => new[p] # Nil
    /\ pc[p] = "map" => mem[p] # Nil
    /\ mem[p] # Nil => pc[p] \in {"map", "panic"}
    /\ state[p] # "LIVE" => pc[p] = "user"

\* The slot that fork has taken is its own.
Kids ==
  /\ \A p \in Proc :
       /\ op[p] = "fork" => kid[p] # Nil /\ trapframe[kid[p]] # Nil
       /\ kid[p] # Nil => state[kid[p]] = "USED"
       /\ state[p] \in {"LIVE", "ZOMBIE"} =>
            pagetable[p] # Nil /\ trapframe[p] # Nil
       /\ state[p] = "UNUSED" => trapframe[p] = Nil
  /\ \A p, q \in Proc : kid[p] # Nil /\ kid[p] = kid[q] => p = q

\* Page tables are not shared: nobody has the table that exec and fork build
\* and that exec frees; sbrk and uvmcopy work on the table of their process.
Loose(p) == \A q \in Proc : pagetable[q] # new[p]

Tables ==
  /\ \A p \in Proc :
       /\ pagetable[p] # Nil => table[pagetable[p]].root
       /\ new[p] # Nil =>
            /\ table[new[p]].root
            /\ \/ /\ Loose(p) /\ op[p] \notin {"sbrk", "underflow"}
                  /\ op[p] = "fork" => pc[p] \in {"high", "panic"}
               \/ op[p] \in {"sbrk", "underflow"} /\ new[p] = pagetable[p]
               \/ op[p] = "fork" /\ pc[p] # "high" /\ new[p] = pagetable[kid[p]]
  /\ \A p, q \in Proc : pagetable[p] # Nil /\ pagetable[p] = pagetable[q] => p = q
  /\ \A p, q \in Proc : new[p] # Nil /\ new[p] = new[q] => p = q

\* The user pages of table r.
Mapping == [r \in Page |-> {v \in VPage : table[r].pte[v] # Nil}]

Map(r) == Mapping[r]

Solid(S) == \A v \in S : 0 .. v \subseteq S

\* Without a gap from 0, up to p->sz at least.
SizeAt(p) ==
  state[p] \in {"LIVE", "ZOMBIE"} =>
    /\ 0 .. sz[p] - 1 \subseteq Map(pagetable[p])
    /\ op[p] \notin {"sbrk", "underflow"} => Solid(Map(pagetable[p]))

SizeOK == \A p \in Proc : SizeAt(p)

\* The loops of uvmalloc and uvmcopy, and those that undo them.
Fresh == {"fork", "exec", "stack"}

LoopAt(p) ==
  /\ pc[p] \in {"alloc", "map"} =>
       /\ Solid(Map(new[p])) /\ 0 .. a[p] - 1 \subseteq Map(new[p])
       /\ lo[p] <= a[p]
       /\ op[p] \in Fresh \/ lo[p] < a[p] => Map(new[p]) \subseteq 0 .. a[p] - 1
       /\ op[p] \in {"sbrk", "underflow"} => lo[p] = sz[p]
       /\ op[p] = "fork" => hi[p] = sz[p]
  /\ pc[p] = "elf" => Map(new[p]) = 0 .. a[p] - 1 /\ hi[p] <= a[p]
  /\ pc[p] = "high" => Map(new[p]) = {}
  /\ pc[p] \in {"user", "root", "high"} => a[p] = 0 /\ lo[p] = 0 /\ hi[p] = 0
  /\ pc[p] = "unmap" => a[p] <= MAXPAGE
  /\ pc[p] = "unmap" /\ op[p] \in {"sbrk", "underflow"} =>
       LET kept == Map(new[p]) \ (lo[p] .. a[p] - 1)
       IN  Solid(kept) /\ 0 .. sz[p] - 1 \subseteq kept

LoopOK == \A p \in Proc : LoopAt(p)

IInv ==
  /\ PageTypes /\ TypeOK /\ Exclusive /\ PcOp /\ Kids /\ Tables /\ SizeOK
  /\ LoopOK

-----------------------------------------------------------------------------
(***************************************************************************)
(* The constants, the free list and the tables.                            *)
(***************************************************************************)
LEMMA ConstantFacts == Nil \notin Page /\ Nil \notin Proc /\ initp \in Proc
BY VmAssumption DEF Nil, Page, Proc, initp

LEMMA FreePageIn ==
  ASSUME NEW p \in Proc, ~Exhausted
  PROVE  FreePage(p) \in Page /\ freelist[FreePage(p)] > 0
<1>1. Free \in SUBSET Page /\ Free # {}
  BY DEF Free, Exhausted
<1>2. Pick(p, Free) \in Free
  BY <1>1, VmAssumption
<1> QED BY <1>2 DEF Free, FreePage

LEMMA UnusedMin ==
  ASSUME Unused # {}
  PROVE  Min(Unused) \in Proc /\ state[Min(Unused)] = "UNUSED"
<1> DEFINE R == OpToRel(<, Nat)
<1>1. \A x, y \in Nat : <<y, x>> \in R <=> y < x
  BY DEF OpToRel
<1>2. IsWellFoundedOn(R, Nat)
  BY NatLessThanWellFounded
<1> HIDE DEF R
<1>3. Unused \in SUBSET Nat
  BY DEF Unused, Proc
<1>4. PICK x \in Unused : \A y \in Unused : ~(<<y, x>> \in R)
  BY <1>2, <1>3, WFMin
<1>5. ASSUME NEW y \in Unused PROVE x =< y
  <2>1. x \in Nat /\ y \in Nat /\ ~(<<y, x>> \in R)
    BY <1>3, <1>4
  <2>2. ~(y < x)
    BY <1>1, <2>1
  <2> QED BY <2>1, <2>2
<1>6. Min(Unused) \in Unused
  BY <1>5 DEF Min
<1> QED BY <1>6 DEF Unused

LEMMA Appended ==
  ASSUME NEW s \in Seq(Page), NEW x \in Page
  PROVE  /\ Append(s, x) \in Seq(Page)
         /\ \A j : j \in DOMAIN Append(s, x) =>
              \/ j \in DOMAIN s /\ Append(s, x)[j] = s[j]
              \/ j = Len(s) + 1 /\ Append(s, x)[j] = x
<1>1. /\ Append(s, x) \in Seq(Page) /\ Len(Append(s, x)) = Len(s) + 1
      /\ \A j \in 1 .. Len(s) : Append(s, x)[j] = s[j]
      /\ Append(s, x)[Len(s) + 1] = x
  BY AppendProperties
<1>2. DOMAIN Append(s, x) = 1 .. Len(s) + 1 /\ DOMAIN s = 1 .. Len(s) /\ Len(s) \in Nat
  BY <1>1, LenProperties
<1> QED BY <1>1, <1>2

LEMMA Shortened ==
  ASSUME NEW s \in Seq(Page), s # <<>>
  PROVE  /\ Front(s) \in Seq(Page)
         /\ Len(s) \in DOMAIN s /\ Last(s) = s[Len(s)]
         /\ \A j : j \in DOMAIN Front(s) =>
              j \in DOMAIN s /\ j # Len(s) /\ Front(s)[j] = s[j]
<1>1. Len(s) \in Nat /\ DOMAIN s = 1 .. Len(s) /\ Len(s) # 0
  BY LenProperties, EmptySeq
<1>2. /\ SubSeq(s, 1, Len(s) - 1) \in Seq(Page)
      /\ Len(SubSeq(s, 1, Len(s) - 1)) = Len(s) - 1
      /\ \A j \in 1 .. Len(s) - 1 : SubSeq(s, 1, Len(s) - 1)[j] = s[j]
  BY <1>1
<1>3. DOMAIN SubSeq(s, 1, Len(s) - 1) = 1 .. Len(s) - 1
  BY <1>1, <1>2, LenProperties
<1> QED BY <1>1, <1>2, <1>3 DEF Front, Last

(***************************************************************************)
(* A page that is in use is not free, and a free one is free once.         *)
(***************************************************************************)
LEMMA FreeOnce ==
  ASSUME PageTypes, Exclusive, NEW x \in Page
  PROVE  /\ freelist[x] \in {0, 1}
         /\ freelist[x] > 0 => UseAt("free", x, 1, x)
         /\ \A k, i, j : UseAt(k, i, j, x) /\ k # "free" => freelist[x] = 0
<1>1. freelist[x] \in Nat
  BY DEF PageTypes
<1>2. freelist[x] > 0 => UseAt("free", x, 1, x)
  BY <1>1 DEF UseAt
<1>3. freelist[x] > 1 => UseAt("free", x, 2, x)
  BY <1>1 DEF UseAt
<1>4. ~(freelist[x] > 1)
  <2>1. UseAt("free", x, 1, x) /\ UseAt("free", x, 2, x) => 1 = 2
    BY DEF Exclusive
  <2> QED BY <1>1, <1>2, <1>3, <2>1
<1>5. ASSUME NEW k, NEW i, NEW j, UseAt(k, i, j, x), k # "free"
      PROVE  freelist[x] = 0
  BY <1>1, <1>2, <1>5 DEF Exclusive
<1> QED BY <1>1, <1>2, <1>4, <1>5

(***************************************************************************)
(* Page x moves from one use to another.                                   *)
(***************************************************************************)
Moves(k, i, j, l, m, n, x) ==
  /\ x \in Page /\ UseAt(k, i, j, x)
  /\ \A e, f, g : \A y \in Page : UseAt(e, f, g, y)' =>
       \/ UseAt(e, f, g, y) /\ ~(e = k /\ f = i /\ g = j)
       \/ e = l /\ f = m /\ g = n /\ y = x

LEMMA MoveKeeps ==
  ASSUME Exclusive, NEW k, NEW i, NEW j, NEW l, NEW m, NEW n, NEW x,
         Moves(k, i, j, l, m, n, x)
  PROVE  Exclusive'
<1> SUFFICES ASSUME NEW y \in Page, NEW e, NEW f, NEW g, NEW u, NEW v, NEW w,
                    UseAt(e, f, g, y)', UseAt(u, v, w, y)'
             PROVE  e = u /\ f = v /\ g = w
  BY DEF Exclusive
<1>1. \/ UseAt(e, f, g, y) /\ ~(e = k /\ f = i /\ g = j)
      \/ e = l /\ f = m /\ g = n /\ y = x
  BY DEF Moves
<1>2. \/ UseAt(u, v, w, y) /\ ~(u = k /\ v = i /\ w = j)
      \/ u = l /\ v = m /\ w = n /\ y = x
  BY DEF Moves
<1>3. UseAt(k, i, j, x) /\ x \in Page
  BY DEF Moves
<1> QED BY <1>1, <1>2, <1>3 DEF Exclusive

-----------------------------------------------------------------------------
(***************************************************************************)
(* What a step does to the pages: kalloc puts a free page to use, mappages *)
(* gives a page its address, kfree gives a page back.                      *)
(***************************************************************************)
Take(x) ==
  /\ x \in Page /\ freelist[x] > 0
  /\ freelist' = [freelist EXCEPT ![x] = @ - 1]

TakeTrapframe(q, x) ==
  /\ Take(x) /\ q \in Proc /\ trapframe[q] = Nil
  /\ trapframe' = [trapframe EXCEPT ![q] = x]
  /\ UNCHANGED <<table, mem>>

TakeMem(p, x) ==
  /\ Take(x) /\ p \in Proc /\ mem[p] = Nil
  /\ mem' = [mem EXCEPT ![p] = x]
  /\ UNCHANGED <<table, trapframe>>

TakeRoot(x) ==
  /\ Take(x) /\ \E p \in Proc : new'[p] = x
  /\ table' = [table EXCEPT ![x] = NewTable]
  /\ UNCHANGED <<trapframe, mem>>

TakeLow(r, x) ==
  /\ Take(x) /\ r \in Page /\ \E p \in Proc : new'[p] = r
  /\ table' = [table EXCEPT ![r].low = Append(@, x)]
  /\ UNCHANGED <<trapframe, mem>>

TakeHigh(r, x) ==
  /\ Take(x) /\ r \in Page /\ \E p \in Proc : new'[p] = r
  /\ table' = [table EXCEPT ![r].high = Append(@, x)]
  /\ UNCHANGED <<trapframe, mem>>

MapUser(p, r, v) ==
  /\ p \in Proc /\ mem[p] \in Page /\ r \in Page /\ v \in VPage
  /\ table[r].pte[v] = Nil /\ new'[p] = r
  /\ table' = [table EXCEPT ![r].pte[v] = mem[p]]
  /\ mem' = [mem EXCEPT ![p] = Nil]
  /\ UNCHANGED <<freelist, trapframe>>

GiveTrapframe(q) ==
  /\ q \in Proc /\ trapframe[q] \in Page
  /\ freelist' = [freelist EXCEPT ![trapframe[q]] = @ + 1]
  /\ trapframe' = [trapframe EXCEPT ![q] = Nil]
  /\ UNCHANGED <<table, mem>>

GiveMem(p) ==
  /\ p \in Proc /\ mem[p] \in Page
  /\ freelist' = [freelist EXCEPT ![mem[p]] = @ + 1]
  /\ mem' = [mem EXCEPT ![p] = Nil]
  /\ UNCHANGED <<table, trapframe>>

GiveUser(r, v) ==
  /\ r \in Page /\ table[r].root /\ v \in VPage /\ table[r].pte[v] \in Page
  /\ freelist' = [freelist EXCEPT ![table[r].pte[v]] = @ + 1]
  /\ table' = [table EXCEPT ![r].pte[v] = Nil]
  /\ UNCHANGED <<trapframe, mem>>

GiveLow(r) ==
  /\ r \in Page /\ table[r].root /\ table[r].low # <<>>
  /\ freelist' = [freelist EXCEPT ![Last(table[r].low)] = @ + 1]
  /\ table' = [table EXCEPT ![r].low = Front(@)]
  /\ UNCHANGED <<trapframe, mem>>

GiveHigh(r) ==
  /\ r \in Page /\ table[r].root /\ table[r].high # <<>>
  /\ freelist' = [freelist EXCEPT ![Last(table[r].high)] = @ + 1]
  /\ table' = [table EXCEPT ![r].high = Front(@)]
  /\ UNCHANGED <<trapframe, mem>>

GiveRoot(r) ==
  /\ r \in Page /\ table[r] = NewTable
  /\ freelist' = [freelist EXCEPT ![r] = @ + 1]
  /\ table' = [table EXCEPT ![r] = NoTable]
  /\ UNCHANGED <<trapframe, mem>>

PagesSame == UNCHANGED <<freelist, table, trapframe, mem>>

PageStep ==
  \/ PagesSame
  \/ \E x \in Page :
       \/ TakeRoot(x)
       \/ \E p \in Proc : TakeTrapframe(p, x) \/ TakeMem(p, x)
       \/ \E r \in Page : TakeLow(r, x) \/ TakeHigh(r, x)
  \/ \E p \in Proc :
       \/ GiveTrapframe(p) \/ GiveMem(p)
       \/ \E r \in Page : \E v \in VPage : MapUser(p, r, v)
  \/ \E r \in Page :
       \/ GiveLow(r) \/ GiveHigh(r) \/ GiveRoot(r)
       \/ \E v \in VPage : GiveUser(r, v)

(***************************************************************************)
(* No page gets a second use.                                              *)
(***************************************************************************)
LEMMA TakeFree ==
  ASSUME PageTypes, Exclusive, NEW x, Take(x)
  PROVE  /\ x \in Page /\ UseAt("free", x, 1, x)
         /\ \A i, j : i \in Page /\ j \in 1 .. freelist'[i] =>
              j \in 1 .. freelist[i] /\ ~(i = x /\ j = 1)
<1>1. x \in Page /\ freelist[x] > 0 /\ freelist' = [freelist EXCEPT ![x] = @ - 1]
  BY DEF Take
<1>2. freelist[x] = 1 /\ UseAt("free", x, 1, x)
  BY <1>1, FreeOnce
<1> QED BY <1>1, <1>2 DEF PageTypes

FreedOnly(x) ==
  \A m, n : m \in Page /\ n \in 1 .. freelist'[m] =>
    n \in 1 .. freelist[m] \/ (m = x /\ n = 1)

LEMMA GiveFree ==
  ASSUME PageTypes, Exclusive, NEW x \in Page, NEW k, NEW i, NEW j,
         UseAt(k, i, j, x), k # "free",
         freelist' = [freelist EXCEPT ![x] = @ + 1]
  PROVE  FreedOnly(x)
<1>1. freelist[x] = 0
  BY FreeOnce
<1> QED BY <1>1 DEF PageTypes, FreedOnly

LEMMA PageMoves ==
  ASSUME PageTypes, Exclusive, PageStep
  PROVE  Exclusive'
<1> USE ConstantFacts
<1>1. CASE PagesSame
  <2>1. \A k, i, j, x : UseAt(k, i, j, x)' <=> UseAt(k, i, j, x)
    BY <1>1 DEF PagesSame, UseAt
  <2> QED BY <2>1 DEF Exclusive
<1>2. ASSUME NEW x \in Page, TakeRoot(x) PROVE Exclusive'
  <2>1. Take(x)
    BY <1>2 DEF TakeRoot
  <2>2. Moves("free", x, 1, "root", x, 0, x)
    BY <1>2, <2>1, TakeFree DEF TakeRoot, Moves, UseAt, NewTable, NoTable,
       Unmapped, PageTypes, Table
  <2> QED BY <2>2, MoveKeeps
<1>3. ASSUME NEW x \in Page, NEW p \in Proc, TakeTrapframe(p, x) PROVE Exclusive'
  <2>1. Take(x)
    BY <1>3 DEF TakeTrapframe
  <2>2. Moves("free", x, 1, "trapframe", p, 0, x)
    BY <1>3, <2>1, TakeFree DEF TakeTrapframe, Moves, UseAt, PageTypes
  <2> QED BY <2>2, MoveKeeps
<1>4. ASSUME NEW x \in Page, NEW p \in Proc, TakeMem(p, x) PROVE Exclusive'
  <2>1. Take(x)
    BY <1>4 DEF TakeMem
  <2>2. Moves("free", x, 1, "unmapped", p, 0, x)
    BY <1>4, <2>1, TakeFree DEF TakeMem, Moves, UseAt, PageTypes
  <2> QED BY <2>2, MoveKeeps
<1>5. ASSUME NEW x \in Page, NEW r \in Page, TakeLow(r, x) PROVE Exclusive'
  <2> DEFINE s == table[r].low
             u == Append(s, x)
  <2>1. Take(x) /\ UNCHANGED <<trapframe, mem>>
    BY <1>5 DEF TakeLow
  <2>0. \A i \in Page : table'[i].root <=> table[i].root
    BY <1>5 DEF TakeLow, PageTypes, Table
  <2>2. /\ \A i \in Page : /\ table'[i].high = table[i].high
                           /\ table'[i].pte = table[i].pte
                           /\ i # r => table'[i].low = table[i].low
        /\ table'[r].low = u
    BY <1>5 DEF TakeLow, PageTypes, Table
  <2>3. s \in Seq(Page)
    BY DEF PageTypes, Table
  <2>4. ASSUME NEW j, j \in DOMAIN u
        PROVE  (j \in DOMAIN s /\ u[j] = s[j]) \/ (j = Len(s) + 1 /\ u[j] = x)
    <3> HIDE DEF s
    <3> QED BY <2>3, <2>4, Appended
  <2> HIDE DEF u
  <2>5. ASSUME NEW e, NEW f, NEW g, NEW y \in Page, UseAt(e, f, g, y)'
        PROVE  \/ UseAt(e, f, g, y) /\ ~(e = "free" /\ f = x /\ g = 1)
               \/ e = "low" /\ f = r /\ g = Len(s) + 1 /\ y = x
    <3>1. CASE e = "low" /\ f = r
      <4>1. g \in DOMAIN u /\ u[g] = y /\ table[r].root
        BY <2>0, <2>2, <2>5, <3>1 DEF UseAt
      <4> QED BY <2>4, <3>1, <4>1 DEF UseAt
    <3>2. CASE e = "free"
      BY <2>1, TakeFree, <2>5, <3>2 DEF UseAt
    <3>3. CASE e # "free" /\ (e # "low" \/ f # r)
      BY <2>0, <2>1, <2>2, <2>5, <3>3 DEF UseAt
    <3> QED BY <3>1, <3>2, <3>3
  <2>6. Moves("free", x, 1, "low", r, Len(s) + 1, x)
    BY <2>1, <2>5, TakeFree DEF Moves
<2> QED BY <2>6, MoveKeeps
<1>6. ASSUME NEW x \in Page, NEW r \in Page, TakeHigh(r, x) PROVE Exclusive'
  <2> DEFINE s == table[r].high
             u == Append(s, x)
  <2>1. Take(x) /\ UNCHANGED <<trapframe, mem>>
    BY <1>6 DEF TakeHigh
  <2>0. \A i \in Page : table'[i].root <=> table[i].root
    BY <1>6 DEF TakeHigh, PageTypes, Table
  <2>2. /\ \A i \in Page : /\ table'[i].low = table[i].low
                           /\ table'[i].pte = table[i].pte
                           /\ i # r => table'[i].high = table[i].high
        /\ table'[r].high = u
    BY <1>6 DEF TakeHigh, PageTypes, Table
  <2>3. s \in Seq(Page)
    BY DEF PageTypes, Table
  <2>4. ASSUME NEW j, j \in DOMAIN u
        PROVE  (j \in DOMAIN s /\ u[j] = s[j]) \/ (j = Len(s) + 1 /\ u[j] = x)
    <3> HIDE DEF s
    <3> QED BY <2>3, <2>4, Appended
  <2> HIDE DEF u
  <2>5. ASSUME NEW e, NEW f, NEW g, NEW y \in Page, UseAt(e, f, g, y)'
        PROVE  \/ UseAt(e, f, g, y) /\ ~(e = "free" /\ f = x /\ g = 1)
               \/ e = "high" /\ f = r /\ g = Len(s) + 1 /\ y = x
    <3>1. CASE e = "high" /\ f = r
      <4>1. g \in DOMAIN u /\ u[g] = y /\ table[r].root
        BY <2>0, <2>2, <2>5, <3>1 DEF UseAt
      <4> QED BY <2>4, <3>1, <4>1 DEF UseAt
    <3>2. CASE e = "free"
      BY <2>1, TakeFree, <2>5, <3>2 DEF UseAt
    <3>3. CASE e # "free" /\ (e # "high" \/ f # r)
      BY <2>0, <2>1, <2>2, <2>5, <3>3 DEF UseAt
    <3> QED BY <3>1, <3>2, <3>3
  <2>6. Moves("free", x, 1, "high", r, Len(s) + 1, x)
    BY <2>1, <2>5, TakeFree DEF Moves
<2> QED BY <2>6, MoveKeeps
<1>7. ASSUME NEW p \in Proc, NEW r \in Page, NEW v \in VPage, MapUser(p, r, v)
      PROVE  Exclusive'
  <2>1. Moves("unmapped", p, 0, "user", r, v, mem[p])
    BY <1>7 DEF MapUser, Moves, UseAt, PageTypes, Table
  <2> QED BY <2>1, MoveKeeps
<1>8. ASSUME NEW q \in Proc, GiveTrapframe(q) PROVE Exclusive'
  <2> DEFINE x == trapframe[q]
  <2>1. x \in Page /\ UseAt("trapframe", q, 0, x)
    BY <1>8 DEF GiveTrapframe, UseAt
  <2>2. freelist' = [freelist EXCEPT ![x] = @ + 1]
    BY <1>8 DEF GiveTrapframe
  <2>3. FreedOnly(x)
    BY <2>1, <2>2, GiveFree
  <2> HIDE DEF x
  <2>4. Moves("trapframe", q, 0, "free", x, 1, x)
    BY <1>8, <2>1, <2>3 DEF GiveTrapframe, Moves, UseAt, PageTypes, FreedOnly, x
  <2> QED BY <2>4, MoveKeeps
<1>9. ASSUME NEW p \in Proc, GiveMem(p) PROVE Exclusive'
  <2> DEFINE x == mem[p]
  <2>1. x \in Page /\ UseAt("unmapped", p, 0, x)
    BY <1>9 DEF GiveMem, UseAt
  <2>2. freelist' = [freelist EXCEPT ![x] = @ + 1]
    BY <1>9 DEF GiveMem
  <2>3. FreedOnly(x)
    BY <2>1, <2>2, GiveFree
  <2> HIDE DEF x
  <2>4. Moves("unmapped", p, 0, "free", x, 1, x)
    BY <1>9, <2>1, <2>3 DEF GiveMem, Moves, UseAt, PageTypes, FreedOnly, x
  <2> QED BY <2>4, MoveKeeps
<1>10. ASSUME NEW r \in Page, NEW v \in VPage, GiveUser(r, v) PROVE Exclusive'
  <2> DEFINE x == table[r].pte[v]
  <2>1. x \in Page /\ UseAt("user", r, v, x)
    BY <1>10 DEF GiveUser, UseAt
  <2>2. freelist' = [freelist EXCEPT ![x] = @ + 1] /\ UNCHANGED <<trapframe, mem>>
    BY <1>10 DEF GiveUser
  <2>3. FreedOnly(x)
    BY <2>1, <2>2, GiveFree
  <2>4. \A i \in Page : /\ table'[i].root = table[i].root
                        /\ table'[i].low = table[i].low
                        /\ table'[i].high = table[i].high
    BY <1>10 DEF GiveUser, PageTypes, Table
  <2>5. \A i \in Page, w \in VPage :
          table'[i].pte[w] = IF i = r /\ w = v THEN Nil ELSE table[i].pte[w]
    BY <1>10 DEF GiveUser, PageTypes, Table
  <2> HIDE DEF x
  <2>6. Moves("user", r, v, "free", x, 1, x)
    BY <2>1, <2>2, <2>3, <2>4, <2>5 DEF Moves, UseAt, FreedOnly
  <2> QED BY <2>6, MoveKeeps
<1>11. ASSUME NEW r \in Page, GiveLow(r) PROVE Exclusive'
  <2> DEFINE s == table[r].low
             u == Front(s)
             x == Last(s)
  <2>1. UNCHANGED <<trapframe, mem>> /\ table[r].root
    BY <1>11 DEF GiveLow
  <2>0. \A i \in Page : table'[i].root <=> table[i].root
    BY <1>11 DEF GiveLow, PageTypes, Table
  <2>2. /\ \A i \in Page : /\ table'[i].high = table[i].high
                           /\ table'[i].pte = table[i].pte
                           /\ i # r => table'[i].low = table[i].low
        /\ table'[r].low = u
    BY <1>11 DEF GiveLow, PageTypes, Table
  <2>3. s \in Seq(Page) /\ s # <<>>
    BY <1>11 DEF GiveLow, PageTypes, Table
  <2>4. /\ Len(s) \in DOMAIN s /\ x = s[Len(s)]
        /\ \A j : j \in DOMAIN u => j \in DOMAIN s /\ j # Len(s) /\ u[j] = s[j]
    BY <2>3, Shortened
  <2>5. x \in Page /\ UseAt("low", r, Len(s), x)
    BY <2>1, <2>3, <2>4 DEF UseAt
  <2>6. freelist' = [freelist EXCEPT ![x] = @ + 1]
    BY <1>11 DEF GiveLow
  <2>7. FreedOnly(x)
    BY <2>5, <2>6, GiveFree
  <2> HIDE DEF u, x
  <2>8. ASSUME NEW e, NEW f, NEW g, NEW y \in Page, UseAt(e, f, g, y)'
        PROVE  \/ UseAt(e, f, g, y) /\ ~(e = "low" /\ f = r /\ g = Len(s))
               \/ e = "free" /\ f = x /\ g = 1 /\ y = x
    <3>1. CASE e = "low" /\ f = r
      <4>1. g \in DOMAIN u /\ u[g] = y
        BY <2>0, <2>2, <2>8, <3>1 DEF UseAt
      <4>2. g \in DOMAIN s /\ g # Len(s) /\ s[g] = y
        BY <2>4, <4>1
      <4> QED BY <2>1, <3>1, <4>2 DEF UseAt
    <3>2. CASE e = "free"
      BY <2>7, <2>8, <3>2 DEF UseAt, FreedOnly
    <3>3. CASE e # "free" /\ (e # "low" \/ f # r)
      BY <2>0, <2>1, <2>2, <2>8, <3>3 DEF UseAt
    <3> QED BY <3>1, <3>2, <3>3
  <2>9. Moves("low", r, Len(s), "free", x, 1, x)
    BY <2>5, <2>8 DEF Moves
  <2> QED BY <2>9, MoveKeeps
<1>12. ASSUME NEW r \in Page, GiveHigh(r) PROVE Exclusive'
  <2> DEFINE s == table[r].high
             u == Front(s)
             x == Last(s)
  <2>1. UNCHANGED <<trapframe, mem>> /\ table[r].root
    BY <1>12 DEF GiveHigh
  <2>0. \A i \in Page : table'[i].root <=> table[i].root
    BY <1>12 DEF GiveHigh, PageTypes, Table
  <2>2. /\ \A i \in Page : /\ table'[i].low = table[i].low
                           /\ table'[i].pte = table[i].pte
                           /\ i # r => table'[i].high = table[i].high
        /\ table'[r].high = u
    BY <1>12 DEF GiveHigh, PageTypes, Table
  <2>3. s \in Seq(Page) /\ s # <<>>
    BY <1>12 DEF GiveHigh, PageTypes, Table
  <2>4. /\ Len(s) \in DOMAIN s /\ x = s[Len(s)]
        /\ \A j : j \in DOMAIN u => j \in DOMAIN s /\ j # Len(s) /\ u[j] = s[j]
    BY <2>3, Shortened
  <2>5. x \in Page /\ UseAt("high", r, Len(s), x)
    BY <2>1, <2>3, <2>4 DEF UseAt
  <2>6. freelist' = [freelist EXCEPT ![x] = @ + 1]
    BY <1>12 DEF GiveHigh
  <2>7. FreedOnly(x)
    BY <2>5, <2>6, GiveFree
  <2> HIDE DEF u, x
  <2>8. ASSUME NEW e, NEW f, NEW g, NEW y \in Page, UseAt(e, f, g, y)'
        PROVE  \/ UseAt(e, f, g, y) /\ ~(e = "high" /\ f = r /\ g = Len(s))
               \/ e = "free" /\ f = x /\ g = 1 /\ y = x
    <3>1. CASE e = "high" /\ f = r
      <4>1. g \in DOMAIN u /\ u[g] = y
        BY <2>0, <2>2, <2>8, <3>1 DEF UseAt
      <4>2. g \in DOMAIN s /\ g # Len(s) /\ s[g] = y
        BY <2>4, <4>1
      <4> QED BY <2>1, <3>1, <4>2 DEF UseAt
    <3>2. CASE e = "free"
      BY <2>7, <2>8, <3>2 DEF UseAt, FreedOnly
    <3>3. CASE e # "free" /\ (e # "high" \/ f # r)
      BY <2>0, <2>1, <2>2, <2>8, <3>3 DEF UseAt
    <3> QED BY <3>1, <3>2, <3>3
  <2>9. Moves("high", r, Len(s), "free", x, 1, x)
    BY <2>5, <2>8 DEF Moves
  <2> QED BY <2>9, MoveKeeps
<1>13. ASSUME NEW r \in Page, GiveRoot(r) PROVE Exclusive'
  <2>1. UseAt("root", r, 0, r)
    BY <1>13 DEF GiveRoot, UseAt, NewTable, NoTable
  <2>2. freelist' = [freelist EXCEPT ![r] = @ + 1]
    BY <1>13 DEF GiveRoot
  <2>3. FreedOnly(r)
    BY <2>1, <2>2, GiveFree
  <2>4. Moves("root", r, 0, "free", r, 1, r)
    BY <1>13, <2>1, <2>3
       DEF GiveRoot, Moves, UseAt, NoTable, PageTypes, Table, FreedOnly
  <2> QED BY <2>4, MoveKeeps
<1> QED
  BY <1>1, <1>2, <1>3, <1>4, <1>5, <1>6, <1>7, <1>8, <1>9, <1>10, <1>11, <1>12,
     <1>13 DEF PageStep

LEMMA PageTypesKept ==
  ASSUME PageTypes, PageStep
  PROVE  PageTypes'
<1> USE ConstantFacts
<1>1. CASE PagesSame
  BY <1>1 DEF PagesSame, PageTypes
<1>2. ASSUME NEW x \in Page, TakeRoot(x) PROVE PageTypes'
  <2>1. NoTable \in Table
    BY DEF NoTable, Table, Unmapped
  <2>2. NewTable \in Table
    <3> HIDE DEF NoTable
    <3> QED BY <2>1 DEF NewTable, Table
  <2> HIDE DEF NewTable
  <2> QED BY <1>2, <2>2 DEF TakeRoot, Take, PageTypes
<1>3. ASSUME NEW x \in Page, NEW p \in Proc, TakeTrapframe(p, x) \/ TakeMem(p, x)
      PROVE  PageTypes'
  BY <1>3 DEF TakeTrapframe, TakeMem, Take, PageTypes
<1>4. ASSUME NEW x \in Page, NEW r \in Page, TakeLow(r, x) \/ TakeHigh(r, x)
      PROVE  PageTypes'
  <2>1. table[r] \in Table /\ table[r].low \in Seq(Page) /\ table[r].high \in Seq(Page)
    BY DEF PageTypes, Table
  <2>2. Append(table[r].low, x) \in Seq(Page) /\ Append(table[r].high, x) \in Seq(Page)
    BY <2>1, Appended
  <2>3. [table[r] EXCEPT !.low = Append(table[r].low, x)] \in Table
    BY <2>1, <2>2 DEF Table
  <2>4. [table[r] EXCEPT !.high = Append(table[r].high, x)] \in Table
    BY <2>1, <2>2 DEF Table
  <2>5. table' \in [Page -> Table]
    BY <1>4, <2>3, <2>4 DEF TakeLow, TakeHigh, PageTypes
  <2> QED BY <1>4, <2>5 DEF TakeLow, TakeHigh, Take, PageTypes
<1>5. ASSUME NEW p \in Proc, NEW r \in Page, NEW v \in VPage, MapUser(p, r, v)
      PROVE  PageTypes'
  <2>1. table[r] \in Table /\ mem[p] \in Page
    BY <1>5 DEF MapUser, PageTypes
  <2>2. [table[r] EXCEPT !.pte[v] = mem[p]] \in Table
    BY <2>1 DEF Table
  <2>3. table' \in [Page -> Table]
    BY <1>5, <2>2 DEF MapUser, PageTypes
  <2> QED BY <1>5, <2>3 DEF MapUser, PageTypes
<1>6. ASSUME NEW p \in Proc, GiveTrapframe(p) \/ GiveMem(p) PROVE PageTypes'
  BY <1>6 DEF GiveTrapframe, GiveMem, PageTypes
<1>7. ASSUME NEW r \in Page, NEW v \in VPage, GiveUser(r, v) PROVE PageTypes'
  <2>1. table[r] \in Table
    BY DEF PageTypes
  <2>2. [table[r] EXCEPT !.pte[v] = Nil] \in Table
    BY <2>1 DEF Table
  <2>3. table' \in [Page -> Table]
    BY <1>7, <2>2 DEF GiveUser, PageTypes
  <2>4. freelist' \in [Page -> Nat]
    BY <1>7 DEF GiveUser, PageTypes
  <2> QED BY <1>7, <2>3, <2>4 DEF GiveUser, PageTypes
<1>8. ASSUME NEW r \in Page, GiveLow(r) PROVE PageTypes'
  <2>1. table[r] \in Table /\ table[r].low \in Seq(Page) /\ table[r].low # <<>>
    BY <1>8 DEF PageTypes, Table, GiveLow
  <2>2. Front(table[r].low) \in Seq(Page) /\ Last(table[r].low) \in Page
    BY <2>1, Shortened
  <2>3. [table[r] EXCEPT !.low = Front(table[r].low)] \in Table
    BY <2>1, <2>2 DEF Table
  <2> QED BY <1>8, <2>2, <2>3 DEF GiveLow, PageTypes
<1>9. ASSUME NEW r \in Page, GiveHigh(r) PROVE PageTypes'
  <2>1. table[r] \in Table /\ table[r].high \in Seq(Page) /\ table[r].high # <<>>
    BY <1>9 DEF PageTypes, Table, GiveHigh
  <2>2. Front(table[r].high) \in Seq(Page) /\ Last(table[r].high) \in Page
    BY <2>1, Shortened
  <2>3. [table[r] EXCEPT !.high = Front(table[r].high)] \in Table
    BY <2>1, <2>2 DEF Table
  <2> QED BY <1>9, <2>2, <2>3 DEF GiveHigh, PageTypes
<1>10. ASSUME NEW r \in Page, GiveRoot(r) PROVE PageTypes'
  <2>1. NoTable \in Table
    BY DEF NoTable, Table, Unmapped
  <2> HIDE DEF NoTable
  <2> QED BY <1>10, <2>1 DEF GiveRoot, PageTypes
<1> QED
  BY <1>1, <1>2, <1>3, <1>4, <1>5, <1>6, <1>7, <1>8, <1>9, <1>10 DEF PageStep

-----------------------------------------------------------------------------
(***************************************************************************)
(* What a step does to the page tables, as far as roots and user pages go. *)
(***************************************************************************)
SameAt(r) == (table'[r].root <=> table[r].root) /\ Mapping'[r] = Mapping[r]

TabSame == \A r \in Page : SameAt(r)

TabNew(x) ==
  /\ x \in Page /\ ~table[x].root /\ table'[x].root /\ Mapping'[x] = {}
  /\ \A r \in Page \ {x} : SameAt(r)

TabGone(x) ==
  /\ x \in Page /\ \A r \in Page \ {x} : SameAt(r)

TabMap(x, v) ==
  /\ x \in Page /\ v \in VPage /\ Mapping'[x] = Mapping[x] \cup {v} /\ v \notin Mapping[x]
  /\ table'[x].root <=> table[x].root
  /\ \A r \in Page \ {x} : SameAt(r)

TabUnmap(x, v) ==
  /\ x \in Page /\ v \in VPage /\ Mapping'[x] = Mapping[x] \ {v}
  /\ table'[x].root <=> table[x].root
  /\ \A r \in Page \ {x} : SameAt(r)

LEMMA SameTables ==
  ASSUME PageTypes,
         \/ UNCHANGED table
         \/ \E r, x \in Page : TakeLow(r, x) \/ TakeHigh(r, x)
         \/ \E r \in Page : GiveLow(r) \/ GiveHigh(r)
  PROVE  TabSame
<1>1. CASE UNCHANGED table
  BY <1>1 DEF TabSame, SameAt, Mapping
<1>2. ASSUME NEW r \in Page, NEW x \in Page, TakeLow(r, x) PROVE TabSame
  <2>1. \A i \in Page : (table'[i].root <=> table[i].root) /\ table'[i].pte = table[i].pte
    BY <1>2 DEF TakeLow, PageTypes, Table
  <2> QED BY <2>1 DEF TabSame, SameAt, Mapping
<1>3. ASSUME NEW r \in Page, NEW x \in Page, TakeHigh(r, x) PROVE TabSame
  <2>1. \A i \in Page : (table'[i].root <=> table[i].root) /\ table'[i].pte = table[i].pte
    BY <1>3 DEF TakeHigh, PageTypes, Table
  <2> QED BY <2>1 DEF TabSame, SameAt, Mapping
<1>4. ASSUME NEW r \in Page, GiveLow(r) PROVE TabSame
  <2>1. \A i \in Page : (table'[i].root <=> table[i].root) /\ table'[i].pte = table[i].pte
    BY <1>4 DEF GiveLow, PageTypes, Table
  <2> QED BY <2>1 DEF TabSame, SameAt, Mapping
<1>5. ASSUME NEW r \in Page, GiveHigh(r) PROVE TabSame
  <2>1. \A i \in Page : (table'[i].root <=> table[i].root) /\ table'[i].pte = table[i].pte
    BY <1>5, SMTT(30) DEF GiveHigh, PageTypes, Table
  <2> QED BY <2>1 DEF TabSame, SameAt, Mapping
<1> QED BY <1>1, <1>2, <1>3, <1>4, <1>5

LEMMA NewTables ==
  ASSUME PageTypes, Exclusive, NEW x, TakeRoot(x)
  PROVE  TabNew(x)
<1>1. Take(x) /\ x \in Page
  BY DEF TakeRoot, Take
<1>2. ~table[x].root
  <2>1. table[x].root => UseAt("root", x, 0, x)
    BY <1>1 DEF UseAt
  <2>2. freelist[x] > 0 /\ freelist[x] \in Nat
    BY <1>1 DEF Take, PageTypes
  <2>3. UseAt("root", x, 0, x) => freelist[x] = 0
    BY <1>1, FreeOnce
  <2> QED BY <2>1, <2>2, <2>3
<1>3. table' = [table EXCEPT ![x] = NewTable]
  BY DEF TakeRoot
<1>4. NewTable.root = TRUE /\ NewTable.pte = Unmapped
  BY DEF NewTable, NoTable
<1>5. table'[x] = NewTable /\ \A r \in Page \ {x} : table'[r] = table[r]
  BY <1>1, <1>3 DEF PageTypes
<1>6. table'[x].root /\ table'[x].pte = Unmapped
  BY <1>4, <1>5
<1>7. Mapping'[x] = {}
  BY <1>1, <1>6 DEF Mapping, Unmapped
<1>8. \A r \in Page \ {x} : SameAt(r)
  BY <1>5 DEF SameAt, Mapping
<1> QED BY <1>1, <1>2, <1>6, <1>7, <1>8 DEF TabNew

LEMMA GoneTables ==
  ASSUME PageTypes, NEW x, GiveRoot(x)
  PROVE  TabGone(x)
<1>1. x \in Page /\ \A r \in Page \ {x} : table'[r] = table[r]
  BY DEF GiveRoot, PageTypes
<1> QED BY <1>1 DEF TabGone, SameAt, Mapping

LEMMA MapTables ==
  ASSUME PageTypes, NEW p, NEW r, NEW v, MapUser(p, r, v)
  PROVE  TabMap(r, v)
<1>1. r \in Page /\ v \in VPage /\ mem[p] # Nil /\ table[r].pte[v] = Nil
  BY ConstantFacts DEF MapUser
<1>2. \A i \in Page \ {r} : table'[i] = table[i]
  BY DEF MapUser, PageTypes
<1>3. /\ table'[r].root <=> table[r].root
      /\ \A w \in VPage : table'[r].pte[w] = IF w = v THEN mem[p] ELSE table[r].pte[w]
  BY DEF MapUser, PageTypes, Table
<1> QED BY <1>1, <1>2, <1>3 DEF TabMap, SameAt, Mapping

LEMMA UnmapTables ==
  ASSUME PageTypes, NEW r, NEW v, GiveUser(r, v)
  PROVE  TabUnmap(r, v)
<1>1. r \in Page /\ v \in VPage
  BY DEF GiveUser
<1>2. \A i \in Page \ {r} : table'[i] = table[i]
  BY DEF GiveUser, PageTypes
<1>3. /\ table'[r].root <=> table[r].root
      /\ \A w \in VPage : table'[r].pte[w] = IF w = v THEN Nil ELSE table[r].pte[w]
  BY DEF GiveUser, PageTypes, Table
<1> QED BY <1>1, <1>2, <1>3 DEF TabUnmap, SameAt, Mapping

(***************************************************************************)
(* A table cannot fill the address space: there are fewer pages.           *)
(***************************************************************************)
LEMMA RoomLeft ==
  ASSUME PageTypes, Exclusive, NEW r \in Page, table[r].root, NEW n \in Nat,
         0 .. n - 1 \subseteq Map(r)
  PROVE  n \in VPage
<1> SUFFICES ASSUME n >= MAXPAGE PROVE FALSE
  BY VmAssumption DEF VPage
<1> DEFINE f == table[r].pte
<1>1. f \in [VPage -> Page \cup {Nil}]
  BY DEF PageTypes, Table
<1>2. VPage \subseteq 0 .. n - 1
  BY VmAssumption DEF VPage
<1>3. \A v \in VPage : f[v] # Nil
  BY <1>2 DEF Map, Mapping
<1>4. f \in [VPage -> Page]
  BY <1>1, <1>3
<1>5. IsFiniteSet(VPage) /\ Cardinality(VPage) = MAXPAGE
  BY VmAssumption, FS_Interval DEF VPage
<1>6. IsFiniteSet(Page) /\ Cardinality(Page) = PHYSPAGES
  BY VmAssumption, FS_Interval DEF Page
<1> HIDE DEF f
<1>7. PICK v, w \in VPage : v # w /\ f[v] = f[w]
  BY <1>4, <1>5, <1>6, VmAssumption, FS_PigeonHole
<1>8. f[v] \in Page
  BY <1>4
<1>9. UseAt("user", r, v, f[v]) /\ UseAt("user", r, w, f[v])
  BY <1>7 DEF UseAt, f
<1> QED BY <1>7, <1>8, <1>9 DEF Exclusive

-----------------------------------------------------------------------------
(***************************************************************************)
(* What a step does to the process that takes it and to the table it works *)
(* on.                                                                     *)
(***************************************************************************)
Local(p, l, o, k, r, i, f, e) ==
  /\ pc' = [pc EXCEPT ![p] = l] /\ op' = [op EXCEPT ![p] = o]
  /\ kid' = [kid EXCEPT ![p] = k] /\ new' = [new EXCEPT ![p] = r]
  /\ a' = [a EXCEPT ![p] = i] /\ lo' = [lo EXCEPT ![p] = f]
  /\ hi' = [hi EXCEPT ![p] = e]

Going(p, l) == Local(p, l, op[p], kid[p], new[p], a[p], lo[p], hi[p])

Back(p) == Local(p, "user", "none", Nil, Nil, 0, 0, 0)

InUser(p) == pc[p] = "user" /\ state[p] = "LIVE"

Still == UNCHANGED <<proc, local>> /\ TabSame

PanicOk(p) ==
  /\ pc[p] # "user" \/ state[p] = "LIVE"
  /\ Going(p, "panic") /\ UNCHANGED <<proc, mem>> /\ TabSame

TakePageOk(p) ==
  /\ pc[p] = "alloc" /\ Going(p, "map") /\ UNCHANGED proc /\ TabSame
  /\ \E x \in Page : mem' = [mem EXCEPT ![p] = x]

UnmapStartOk(p) ==
  /\ pc[p] \in {"alloc", "map"} /\ Going(p, "unmap") /\ UNCHANGED proc /\ TabSame
  /\ mem' = [mem EXCEPT ![p] = Nil]

MapPageOk(p) ==
  /\ pc[p] = "map" /\ UNCHANGED proc
  /\ Local(p, "alloc", op[p], kid[p], new[p], a[p] + 1, lo[p], hi[p])
  /\ TabMap(new[p], a[p])
  /\ mem' = [mem EXCEPT ![p] = Nil]

UnmapOk(p) ==
  /\ pc[p] = "unmap" /\ lo[p] < a[p] /\ UNCHANGED <<proc, mem>>
  /\ Local(p, "unmap", op[p], kid[p], new[p], a[p], lo[p] + 1, hi[p])
  /\ TabUnmap(new[p], lo[p])

CreateRootOk(p) ==
  /\ pc[p] = "root" /\ UNCHANGED <<proc, mem>>
  /\ \E x \in Page :
       TabNew(x) /\ Local(p, "high", op[p], kid[p], x, a[p], lo[p], hi[p])

ForkPanicOk(p, q) ==
  /\ InUser(p) /\ state[q] = "UNUSED" /\ state' = [state EXCEPT ![q] = "USED"]
  /\ Local(p, "panic", op[p], q, new[p], a[p], lo[p], hi[p])
  /\ UNCHANGED <<pagetable, trapframe, sz, mem>> /\ TabSame

ForkOk(p, q) ==
  /\ InUser(p) /\ state[q] = "UNUSED" /\ state' = [state EXCEPT ![q] = "USED"]
  /\ \E x \in Page : trapframe' = [trapframe EXCEPT ![q] = x]
  /\ Local(p, "root", "fork", q, new[p], a[p], lo[p], hi[p])
  /\ UNCHANGED <<pagetable, sz, mem>> /\ TabSame

ForkTableOk(p) ==
  /\ pc[p] = "high" /\ op[p] = "fork"
  /\ pagetable' = [pagetable EXCEPT ![kid[p]] = new[p]]
  /\ Local(p, "alloc", op[p], kid[p], new[p], a[p], lo[p], sz[p])
  /\ UNCHANGED <<state, trapframe, sz, mem>> /\ TabSame

ForkDoneOk(p) ==
  /\ pc[p] = "alloc" /\ op[p] = "fork" /\ a[p] >= hi[p]
  /\ sz' = [sz EXCEPT ![kid[p]] = sz[p]]
  /\ state' = [state EXCEPT ![kid[p]] = "LIVE"]
  /\ Back(p) /\ UNCHANGED <<pagetable, trapframe, mem>> /\ TabSame

ForkFailedOk(p) ==
  /\ pc[p] = "unmap" /\ op[p] = "fork"
  /\ trapframe' = [trapframe EXCEPT ![kid[p]] = Nil]
  /\ state' = [state EXCEPT ![kid[p]] = "UNUSED"]
  /\ Back(p) /\ UNCHANGED <<pagetable, sz, mem>> /\ TabSame

ExecOk(p) ==
  /\ InUser(p)
  /\ Local(p, "root", "exec", kid[p], new[p], a[p], lo[p], hi[p])
  /\ UNCHANGED <<proc, mem>> /\ TabSame

ExecTableOk(p) ==
  /\ pc[p] = "high" /\ op[p] = "exec"
  /\ Going(p, "elf") /\ UNCHANGED <<proc, mem>> /\ TabSame

ExecSegmentOk(p) ==
  /\ pc[p] = "elf" /\ UNCHANGED <<proc, mem>> /\ TabSame
  /\ \E n \in Nat : \E o \in {"exec", "stack"} :
       Local(p, "alloc", o, kid[p], new[p], a[p], hi[p], n)

ExecSegmentDoneOk(p) ==
  /\ pc[p] = "alloc" /\ op[p] = "exec" /\ a[p] >= hi[p]
  /\ Going(p, "elf") /\ UNCHANGED <<proc, mem>> /\ TabSame

ExecCommitOk(p) ==
  /\ pc[p] = "alloc" /\ op[p] = "stack" /\ a[p] >= hi[p]
  /\ pagetable' = [pagetable EXCEPT ![p] = new[p]]
  /\ sz' = [sz EXCEPT ![p] = hi[p]]
  /\ Local(p, "unmap", "free", kid[p], pagetable[p], sz[p], 0, hi[p])
  /\ UNCHANGED <<state, trapframe, mem>> /\ TabSame

FreeRootOk(p) ==
  /\ pc[p] = "unmap" /\ op[p] = "free"
  /\ table[new[p]] = NewTable /\ freelist'[new[p]] > 0
  /\ TabGone(new[p]) /\ Back(p) /\ UNCHANGED <<proc, mem>>

SbrkOk(p) ==
  /\ InUser(p) /\ UNCHANGED <<proc, mem>> /\ TabSame
  /\ \E n \in Nat : \E o \in {"sbrk", "underflow"} :
       Local(p, "alloc", o, kid[p], pagetable[p], sz[p], sz[p], n)

SbrkDoneOk(p) ==
  /\ op[p] \in {"sbrk", "underflow"}
  /\ pc[p] = "alloc" \/ (pc[p] = "unmap" /\ lo[p] >= a[p])
  /\ UNCHANGED sz \/ sz' = [sz EXCEPT ![p] = 0]
  /\ Back(p) /\ UNCHANGED <<state, pagetable, trapframe, mem>> /\ TabSame

ExitOk(p) ==
  /\ InUser(p) /\ state' = [state EXCEPT ![p] = "ZOMBIE"]
  /\ UNCHANGED <<pagetable, trapframe, sz, local>> /\ TabSame

ReapOk(q) ==
  /\ state[q] = "ZOMBIE" /\ state' = [state EXCEPT ![q] = "UNUSED"]
  /\ trapframe' = [trapframe EXCEPT ![q] = Nil]
  /\ UNCHANGED <<pagetable, sz, local>> /\ TabSame

StepOk ==
  \/ Still
  \/ \E p \in Proc :
       \/ PanicOk(p) \/ TakePageOk(p) \/ UnmapStartOk(p) \/ MapPageOk(p)
       \/ UnmapOk(p) \/ CreateRootOk(p)
       \/ ForkTableOk(p) \/ ForkDoneOk(p) \/ ForkFailedOk(p)
       \/ ExecOk(p) \/ ExecTableOk(p) \/ ExecSegmentOk(p) \/ ExecSegmentDoneOk(p)
       \/ ExecCommitOk(p) \/ FreeRootOk(p) \/ SbrkOk(p) \/ SbrkDoneOk(p)
       \/ ExitOk(p) \/ ReapOk(p)
       \/ \E q \in Proc : ForkPanicOk(p, q) \/ ForkOk(p, q)

StepGood == PageStep /\ StepOk

LEMMA GoingForm ==
  ASSUME TypeOK, NEW p \in Proc, NEW l, pc' = [pc EXCEPT ![p] = l],
         UNCHANGED <<op, kid, new, a, lo, hi>>
  PROVE  Going(p, l)
BY DEF TypeOK, Going, Local

LEMMA PanicForm ==
  ASSUME IInv, NEW p \in Proc, pc[p] # "user" \/ state[p] = "LIVE", Panic(p),
         UNCHANGED <<freelist, table, proc>>
  PROVE  StepGood
<1>1. PageTypes /\ TypeOK
  BY DEF IInv
<1>2. PagesSame
  BY DEF Panic, proc, PagesSame
<1>3. TabSame
  BY <1>1, SameTables
<1>4. PanicOk(p)
  BY <1>1, <1>3, GoingForm DEF Panic, Goto, proc, PanicOk
<1> QED BY <1>2, <1>4 DEF StepGood, StepOk, PageStep

LEMMA MemoryForms ==
  ASSUME IInv, NEW p \in Proc, Memory(p)
  PROVE  StepGood
<1>0. PageTypes /\ TypeOK /\ Exclusive /\ PcOp /\ Tables /\ LoopOK
  BY DEF IInv
<1> USE ConstantFacts
<1>1. CASE AllocPage(p)
  <2>1. CASE SourceMissing(p)
    BY <1>1, <2>1, PanicForm DEF AllocPage, At
  <2>2. CASE ~SourceMissing(p)
    <3> DEFINE x == FreePage(p)
    <3>1. x \in Page /\ freelist[x] > 0
      BY <1>1, FreePageIn DEF AllocPage
    <3> HIDE DEF x
    <3>2. TakeMem(p, x)
      BY <1>0, <1>1, <2>2, <3>1
         DEF AllocPage, At, kalloc, proc, Set, TakeMem, Take, PcOp, x
    <3>3. TabSame
      BY <1>0, <3>2, SameTables DEF TakeMem
    <3>4. Going(p, "map")
      BY <1>0, <1>1, <2>2, GoingForm DEF AllocPage, Goto
    <3>5. TakePageOk(p)
      BY <1>1, <2>2, <3>1, <3>3, <3>4 DEF AllocPage, At, Set, TakePageOk, x
    <3> QED BY <3>1, <3>2, <3>5 DEF StepGood, StepOk, PageStep
  <2> QED BY <2>1, <2>2
<1>2. CASE AllocNone(p)
  <2>1. PagesSame /\ UNCHANGED mem /\ UNCHANGED proc
    BY <1>2 DEF AllocNone, proc, PagesSame
  <2>2. TabSame
    BY <1>0, <1>2, SameTables DEF AllocNone
  <2>3. CASE SourceMissing(p)
    BY <1>2, <2>3, PanicForm DEF AllocNone, At, Panic
  <2>4. CASE ~SourceMissing(p)
    <3>1. Going(p, "unmap") /\ pc[p] = "alloc"
      BY <1>0, <1>2, <2>4, GoingForm DEF AllocNone, Goto, At
    <3>2. mem' = [mem EXCEPT ![p] = Nil]
      BY <1>0, <2>1, <3>1 DEF PcOp, PageTypes
    <3>3. UnmapStartOk(p)
      BY <2>1, <2>2, <3>1, <3>2 DEF UnmapStartOk
    <3> QED BY <2>1, <3>3 DEF StepGood, StepOk, PageStep
  <2> QED BY <2>3, <2>4
<1>3. CASE MapTable(p)
  <2> DEFINE x == FreePage(p)
             r == new[p]
  <2>1. x \in Page /\ freelist[x] > 0
    BY <1>3, FreePageIn DEF MapTable, kalloc
  <2>2. r \in Page
    BY <1>0, <1>3 DEF MapTable, At, PcOp, TypeOK
  <2> HIDE DEF x, r
  <2>3. TakeLow(r, x)
    BY <1>3, <2>1, <2>2 DEF MapTable, kalloc, proc, local, TakeLow, Take, x, r
  <2>4. Still
    BY <1>0, <1>3, <2>1, <2>2, <2>3, SameTables DEF MapTable, Still
  <2> QED BY <2>1, <2>2, <2>3, <2>4 DEF StepGood, StepOk, PageStep
<1>4. CASE MapNone(p)
  <2>1. mem[p] \in Page /\ pc[p] = "map"
    BY <1>0, <1>4 DEF MapNone, At, PcOp, PageTypes
  <2>2. GiveMem(p)
    BY <1>4, <2>1 DEF MapNone, kfree, proc, Set, GiveMem
  <2>3. TabSame
    BY <1>0, <2>2, SameTables DEF GiveMem
  <2>4. Going(p, "unmap")
    BY <1>0, <1>4, GoingForm DEF MapNone, Goto
  <2>5. UnmapStartOk(p)
    BY <1>4, <2>1, <2>3, <2>4 DEF MapNone, Set, UnmapStartOk
  <2> QED BY <2>2, <2>5 DEF StepGood, StepOk, PageStep
<1>5. CASE MapPage(p)
  <2> DEFINE r == new[p]
             v == a[p]
  <2>1. mem[p] \in Page /\ r \in Page /\ table[r].root /\ pc[p] = "map"
    BY <1>0, <1>5 DEF MapPage, At, PcOp, PageTypes, TypeOK, Tables
  <2>2. v \in Nat /\ 0 .. v - 1 \subseteq Map(r)
    BY <1>0, <2>1 DEF TypeOK, LoopOK, LoopAt
  <2> HIDE DEF r, v
  <2>3. v \in VPage
    BY <1>0, <2>1, <2>2, RoomLeft
  <2>4. MapUser(p, r, v)
    BY <1>5, <2>1, <2>3 DEF MapPage, proc, Set, MapUser, r, v
  <2>5. TabMap(r, v)
    BY <1>0, <2>4, MapTables
  <2>6. MapPageOk(p)
    BY <1>0, <1>5, <2>1, <2>5 DEF MapPage, Set, Goto, MapPageOk, Local, TypeOK, r, v
  <2> QED BY <2>1, <2>3, <2>4, <2>6 DEF StepGood, StepOk, PageStep
<1>6. CASE Remap(p)
  BY <1>6, PanicForm DEF Remap, At
<1>7. CASE Unmap(p)
  <2> DEFINE r == new[p]
             v == lo[p]
  <2>1. r \in Page /\ table[r].root /\ pc[p] = "unmap" /\ v < a[p]
    BY <1>0, <1>7 DEF Unmap, At, PcOp, TypeOK, Tables
  <2>2. v \in VPage
    <3>1. a[p] <= MAXPAGE /\ a[p] \in Nat /\ v \in Nat
      BY <1>0, <2>1 DEF LoopOK, LoopAt, TypeOK
    <3> HIDE DEF v
    <3> QED BY <2>1, <3>1, VmAssumption DEF VPage
  <2> HIDE DEF r, v
  <2>3. CASE table[r].pte[v] = Nil
    BY <1>7, <2>1, <2>3, PanicForm DEF Unmap, r, v
  <2>4. CASE table[r].pte[v] # Nil
    <3>1. table[r].pte[v] \in Page
      BY <1>0, <2>1, <2>2, <2>4 DEF PageTypes, Table
    <3>2. GiveUser(r, v)
      BY <1>7, <2>1, <2>2, <2>4, <3>1 DEF Unmap, kfree, proc, GiveUser, r, v
    <3>3. TabUnmap(r, v)
      BY <1>0, <3>2, UnmapTables
    <3>4. UnmapOk(p)
      BY <1>0, <1>7, <2>1, <2>4, <3>3 DEF Unmap, Set, UnmapOk, Local, TypeOK, r, v
    <3> QED BY <2>1, <2>2, <3>2, <3>4 DEF StepGood, StepOk, PageStep
  <2> QED BY <2>3, <2>4
<1>8. CASE CreateRoot(p)
  <2> DEFINE x == FreePage(p)
  <2>1. x \in Page /\ freelist[x] > 0
    BY <1>8, FreePageIn DEF CreateRoot, kalloc
  <2> HIDE DEF x
  <2>2. TakeRoot(x)
    BY <1>0, <1>8, <2>1 DEF CreateRoot, kalloc, proc, Set, TakeRoot, Take, TypeOK, x
  <2>3. TabNew(x)
    BY <1>0, <2>2, NewTables
  <2>4. CreateRootOk(p)
    BY <1>0, <1>8, <2>1, <2>3
       DEF CreateRoot, At, Goto, Set, CreateRootOk, Local, TypeOK, x
  <2> QED BY <2>1, <2>2, <2>4 DEF StepGood, StepOk, PageStep
<1>9. CASE CreateHigh(p)
  <2> DEFINE x == FreePage(p)
             r == new[p]
  <2>1. x \in Page /\ freelist[x] > 0
    BY <1>9, FreePageIn DEF CreateHigh, kalloc
  <2>2. r \in Page
    BY <1>0, <1>9 DEF CreateHigh, At, PcOp, TypeOK
  <2> HIDE DEF x, r
  <2>3. TakeHigh(r, x)
    BY <1>9, <2>1, <2>2 DEF CreateHigh, kalloc, proc, local, TakeHigh, Take, x, r
  <2>4. Still
    BY <1>0, <1>9, <2>1, <2>2, <2>3, SameTables DEF CreateHigh, Still
  <2> QED BY <2>1, <2>2, <2>3, <2>4 DEF StepGood, StepOk, PageStep
<1>10. CASE CreateNone(p)
  BY <1>10, PanicForm DEF CreateNone, At
<1> QED
  BY <1>1, <1>2, <1>3, <1>4, <1>5, <1>6, <1>7, <1>8, <1>9, <1>10 DEF Memory

LEMMA BackForm ==
  ASSUME NEW p \in Proc, Return(p)
  PROVE  Back(p) /\ UNCHANGED mem
BY DEF Return, Goto, Set, Back, Local

LEMMA CallsForms ==
  ASSUME IInv, NEW p \in Proc, Calls(p)
  PROVE  StepGood
<1>0. PageTypes /\ TypeOK /\ Exclusive /\ PcOp /\ Kids /\ Tables
  BY DEF IInv
<1> USE ConstantFacts
<1>1. CASE Fork(p)
  <2> DEFINE q == Min(Unused)
             x == FreePage(p)
  <2>1. q \in Proc /\ state[q] = "UNUSED"
    BY <1>1, UnusedMin DEF Fork
  <2>2. InUser(p)
    BY <1>1 DEF Fork, User, At, InUser
  <2> HIDE DEF q
  <2>3. TabSame
    BY <1>0, <1>1, SameTables DEF Fork
  <2>4. CASE Exhausted
    <3>1. PagesSame
      BY <1>1, <2>4 DEF Fork, PagesSame
    <3>2. ForkPanicOk(p, q)
      BY <1>0, <1>1, <2>1, <2>2, <2>3, <2>4
         DEF Fork, Goto, Set, ForkPanicOk, Local, TypeOK, q
    <3> QED BY <2>1, <3>1, <3>2 DEF StepGood, StepOk, PageStep
  <2>5. CASE ~Exhausted
    <3>1. x \in Page /\ freelist[x] > 0
      BY <2>5, FreePageIn
    <3> HIDE DEF x
    <3>2. TakeTrapframe(q, x)
      BY <1>0, <1>1, <2>1, <2>5, <3>1
         DEF Fork, kalloc, Set, TakeTrapframe, Take, Kids, q, x
    <3>3. ForkOk(p, q)
      BY <1>0, <1>1, <2>1, <2>2, <2>3, <2>5, <3>1
         DEF Fork, Goto, Set, ForkOk, Local, TypeOK, q, x
    <3> QED BY <2>1, <3>1, <3>2, <3>3 DEF StepGood, StepOk, PageStep
  <2> QED BY <2>4, <2>5
<1>2. CASE ForkTable(p)
  <2>1. PagesSame /\ TabSame
    BY <1>0, <1>2, SameTables DEF ForkTable, PagesSame
  <2>2. ForkTableOk(p)
    BY <1>0, <1>2, <2>1 DEF ForkTable, At, Goto, Set, ForkTableOk, Local, TypeOK
  <2> QED BY <2>1, <2>2 DEF StepGood, StepOk, PageStep
<1>3. CASE ForkDone(p)
  <2>1. Back(p) /\ UNCHANGED mem
    BY <1>3, BackForm DEF ForkDone
  <2>2. PagesSame /\ TabSame
    BY <1>0, <1>3, <2>1, SameTables DEF ForkDone, PagesSame
  <2>3. ForkDoneOk(p)
    BY <1>3, <2>1, <2>2 DEF ForkDone, At, Set, ForkDoneOk
  <2> QED BY <2>2, <2>3 DEF StepGood, StepOk, PageStep
<1>4. CASE ForkFailed(p)
  <2> DEFINE q == kid[p]
  <2>1. Back(p) /\ UNCHANGED mem
    BY <1>4, BackForm DEF ForkFailed
  <2>2. q \in Proc /\ trapframe[q] \in Page
    BY <1>0, <1>4 DEF ForkFailed, Kids, TypeOK, PageTypes
  <2> HIDE DEF q
  <2>3. GiveTrapframe(q)
    BY <1>4, <2>1, <2>2 DEF ForkFailed, freeproc, kfree, Set, GiveTrapframe, q
  <2>4. TabSame
    BY <1>0, <1>4, SameTables DEF ForkFailed
  <2>5. ForkFailedOk(p)
    BY <1>4, <2>1, <2>4 DEF ForkFailed, freeproc, At, Set, ForkFailedOk
  <2> QED BY <2>2, <2>3, <2>5 DEF StepGood, StepOk, PageStep
<1>5. CASE Exec(p)
  <2>1. PagesSame /\ TabSame
    BY <1>0, <1>5, SameTables DEF Exec, proc, PagesSame
  <2>2. ExecOk(p)
    BY <1>0, <1>5, <2>1 DEF Exec, User, At, Goto, Set, ExecOk, InUser, Local, TypeOK
  <2> QED BY <2>1, <2>2 DEF StepGood, StepOk, PageStep
<1>6. CASE ExecMissing(p)
  BY <1>6, PanicForm DEF ExecMissing, User
<1>7. CASE ExecTable(p)
  <2>1. PagesSame /\ TabSame
    BY <1>0, <1>7, SameTables DEF ExecTable, proc, PagesSame
  <2>2. Going(p, "elf")
    BY <1>0, <1>7, GoingForm DEF ExecTable, Goto
  <2>3. ExecTableOk(p)
    BY <1>7, <2>1, <2>2 DEF ExecTable, At, ExecTableOk
  <2> QED BY <2>1, <2>3 DEF StepGood, StepOk, PageStep
<1>8. CASE ExecBadFile(p)
  BY <1>8, PanicForm DEF ExecBadFile, At
<1>9. CASE ExecSegment(p)
  <2>1. PagesSame /\ TabSame
    BY <1>0, <1>9, SameTables DEF ExecSegment, proc, PagesSame
  <2>2. PICK n \in Nat : hi' = [hi EXCEPT ![p] = n] /\ lo' = [lo EXCEPT ![p] = hi[p]]
    BY <1>9, VmAssumption DEF ExecSegment, Set
  <2>3. op[p] = "exec"
    BY <1>0, <1>9 DEF ExecSegment, At, PcOp
  <2>4. Local(p, "alloc", "exec", kid[p], new[p], a[p], hi[p], n)
    BY <1>0, <1>9, <2>2, <2>3 DEF ExecSegment, Goto, Local, TypeOK
  <2>5. ExecSegmentOk(p)
    BY <1>9, <2>1, <2>4 DEF ExecSegment, At, ExecSegmentOk
  <2> QED BY <2>1, <2>5 DEF StepGood, StepOk, PageStep
<1>10. CASE ExecSegmentDone(p)
  <2>1. PagesSame /\ TabSame
    BY <1>0, <1>10, SameTables DEF ExecSegmentDone, proc, PagesSame
  <2>2. Going(p, "elf")
    BY <1>0, <1>10, GoingForm DEF ExecSegmentDone, Goto
  <2>3. ExecSegmentDoneOk(p)
    BY <1>10, <2>1, <2>2 DEF ExecSegmentDone, At, ExecSegmentDoneOk
  <2> QED BY <2>1, <2>3 DEF StepGood, StepOk, PageStep
<1>11. CASE ExecStack(p)
  <2>1. PagesSame /\ TabSame
    BY <1>0, <1>11, SameTables DEF ExecStack, proc, PagesSame
  <2>2. hi[p] + Stack \in Nat
    BY <1>0 DEF TypeOK, Stack
  <2>3. Local(p, "alloc", "stack", kid[p], new[p], a[p], hi[p], hi[p] + Stack)
    BY <1>0, <1>11 DEF ExecStack, Goto, Set, Local, TypeOK
  <2>4. ExecSegmentOk(p)
    BY <1>11, <2>1, <2>2, <2>3 DEF ExecStack, At, ExecSegmentOk
  <2> QED BY <2>1, <2>4 DEF StepGood, StepOk, PageStep
<1>12. CASE ExecNoMemory(p)
  BY <1>12, PanicForm DEF ExecNoMemory, At
<1>13. CASE ExecCommit(p)
  <2>1. PagesSame /\ TabSame
    BY <1>0, <1>13, SameTables DEF ExecCommit, PagesSame
  <2>2. ExecCommitOk(p)
    BY <1>0, <1>13, <2>1 DEF ExecCommit, At, Goto, Set, ExecCommitOk, Local, TypeOK
  <2> QED BY <2>1, <2>2 DEF StepGood, StepOk, PageStep
<1>14. CASE FreeTable(p)
  <2> DEFINE r == new[p]
  <2>1. r \in Page /\ table[r].root
    BY <1>0, <1>14 DEF FreeTable, At, PcOp, TypeOK, Tables
  <2> HIDE DEF r
  <2>2. GiveLow(r) \/ GiveHigh(r)
    BY <1>14, <2>1 DEF FreeTable, kfree, proc, local, GiveLow, GiveHigh, r
  <2>3. Still
    BY <1>0, <1>14, <2>1, <2>2, SameTables DEF FreeTable, Still
  <2> QED BY <2>1, <2>2, <2>3 DEF StepGood, StepOk, PageStep
<1>15. CASE FreeRoot(p)
  <2> DEFINE r == new[p]
  <2>1. r \in Page /\ table[r].root
    BY <1>0, <1>15 DEF FreeRoot, At, PcOp, TypeOK, Tables
  <2>2. Back(p) /\ UNCHANGED mem
    BY <1>15, BackForm DEF FreeRoot
  <2> HIDE DEF r
  <2>3. GiveRoot(r)
    BY <1>15, <2>1, <2>2 DEF FreeRoot, kfree, proc, GiveRoot, r
  <2>4. TabGone(r)
    BY <1>0, <2>3, GoneTables
  <2>5. FreeRootOk(p)
    <3>1. freelist'[r] > 0
      BY <1>0, <2>3 DEF GiveRoot, PageTypes
    <3> QED BY <1>15, <2>2, <2>4, <3>1 DEF FreeRoot, At, FreeRootOk, r
  <2> QED BY <2>1, <2>3, <2>5 DEF StepGood, StepOk, PageStep
<1>16. CASE FreeLeaf(p)
  BY <1>16, PanicForm DEF FreeLeaf, At
<1>17. CASE Sbrk(p)
  <2>1. PagesSame /\ TabSame
    BY <1>0, <1>17, SameTables DEF Sbrk, proc, PagesSame
  <2>2. PICK n \in Nat : hi' = [hi EXCEPT ![p] = n]
    <3>1. \A k \in SbrkPages : sz[p] + k \in Nat
      BY <1>0, VmAssumption DEF TypeOK
    <3> QED BY <1>17, <3>1 DEF Sbrk, Set
  <2>3. Local(p, "alloc", "sbrk", kid[p], pagetable[p], sz[p], sz[p], n)
    BY <1>0, <1>17, <2>2 DEF Sbrk, Goto, Set, Local, TypeOK
  <2>4. SbrkOk(p)
    BY <1>17, <2>1, <2>3 DEF Sbrk, User, At, InUser, SbrkOk
  <2> QED BY <2>1, <2>4 DEF StepGood, StepOk, PageStep
<1>18. CASE SbrkDone(p)
  <2>1. Back(p) /\ UNCHANGED mem
    BY <1>18, BackForm DEF SbrkDone
  <2>2. PagesSame /\ TabSame
    BY <1>0, <1>18, <2>1, SameTables DEF SbrkDone, proc, PagesSame
  <2>3. SbrkDoneOk(p)
    BY <1>18, <2>1, <2>2 DEF SbrkDone, At, proc, SbrkDoneOk
  <2> QED BY <2>2, <2>3 DEF StepGood, StepOk, PageStep
<1>19. CASE SbrkUnderflow(p)
  <2>1. PagesSame /\ TabSame
    BY <1>0, <1>19, SameTables DEF SbrkUnderflow, proc, PagesSame
  <2>2. Local(p, "alloc", "underflow", kid[p], pagetable[p], sz[p], sz[p], MAXPAGE)
    BY <1>0, <1>19 DEF SbrkUnderflow, Goto, Set, Local, TypeOK
  <2>3. SbrkOk(p)
    BY <1>19, <2>1, <2>2, VmAssumption DEF SbrkUnderflow, User, At, InUser, SbrkOk
  <2> QED BY <2>1, <2>3 DEF StepGood, StepOk, PageStep
<1>20. CASE SbrkUnderflowDone(p)
  <2>1. Back(p) /\ UNCHANGED mem
    BY <1>20, BackForm DEF SbrkUnderflowDone
  <2>2. PagesSame /\ TabSame
    BY <1>0, <1>20, <2>1, SameTables DEF SbrkUnderflowDone, PagesSame
  <2>3. SbrkDoneOk(p)
    BY <1>20, <2>1, <2>2 DEF SbrkUnderflowDone, At, Set, SbrkDoneOk
  <2> QED BY <2>2, <2>3 DEF StepGood, StepOk, PageStep
<1>21. CASE Exit(p)
  <2>1. CASE p = initp
    BY <1>21, <2>1, PanicForm DEF Exit, User, proc
  <2>2. CASE p # initp
    <3>1. PagesSame /\ TabSame
      BY <1>0, <1>21, <2>2, SameTables DEF Exit, local, PagesSame
    <3>2. ExitOk(p)
      BY <1>21, <2>2, <3>1 DEF Exit, User, At, Set, InUser, ExitOk
    <3> QED BY <3>1, <3>2 DEF StepGood, StepOk, PageStep
  <2> QED BY <2>1, <2>2
<1>22. CASE Fault(p)
  BY <1>22, PanicForm DEF Fault
<1>23. ASSUME NEW q \in Proc, Reap(p, q) PROVE StepGood
  <2>1. trapframe[q] \in Page
    BY <1>0, <1>23 DEF Reap, Kids, PageTypes
  <2>2. GiveTrapframe(q)
    BY <1>23, <2>1 DEF Reap, freeproc, kfree, local, Set, GiveTrapframe
  <2>3. TabSame
    BY <1>0, <2>2, SameTables DEF GiveTrapframe
  <2>4. ReapOk(q)
    BY <1>23, <2>3 DEF Reap, freeproc, Set, ReapOk
  <2> QED BY <2>2, <2>4 DEF StepGood, StepOk, PageStep
<1> QED
  BY <1>1, <1>2, <1>3, <1>4, <1>5, <1>6, <1>7, <1>8, <1>9, <1>10, <1>11, <1>12,
     <1>13, <1>14, <1>15, <1>16, <1>17, <1>18, <1>19, <1>20, <1>21, <1>22, <1>23
     DEF Calls

LEMMA StepForms == IInv /\ [Next]_vars => StepGood
<1> SUFFICES ASSUME IInv, [Next]_vars PROVE StepGood
  OBVIOUS
<1>1. CASE Next
  BY <1>1, MemoryForms, CallsForms DEF Next
<1>2. CASE UNCHANGED vars
  <2>1. PagesSame /\ UNCHANGED <<proc, local>> /\ UNCHANGED table
    BY <1>2 DEF vars, PagesSame, proc, local
  <2>2. Still
    BY <2>1, SameTables DEF IInv, Still
  <2> QED BY <2>1, <2>2 DEF StepGood, StepOk, PageStep
<1> QED BY <1>1, <1>2

-----------------------------------------------------------------------------
(***************************************************************************)
(* Each part of the invariant, over the forms of a step.                   *)
(***************************************************************************)

LEMMA TypeOKKept ==
  ASSUME IInv, StepOk
  PROVE  TypeOK'
<1>0. TypeOK /\ PcOp /\ Kids
  BY DEF IInv
<1> USE ConstantFacts
<1>1. CASE Still
  BY <1>0, <1>1 DEF Still, proc, local, TypeOK, Label, Op
<1>2. ASSUME NEW p \in Proc, PanicOk(p) PROVE TypeOK'
  BY <1>0, <1>2 DEF PanicOk, Local, Going, proc, TypeOK, Label, Op
<1>3. ASSUME NEW p \in Proc, TakePageOk(p) PROVE TypeOK'
  BY <1>0, <1>3 DEF TakePageOk, Local, Going, proc, TypeOK, Label, Op
<1>4. ASSUME NEW p \in Proc, UnmapStartOk(p) PROVE TypeOK'
  BY <1>0, <1>4 DEF UnmapStartOk, Local, Going, proc, TypeOK, Label, Op
<1>5. ASSUME NEW p \in Proc, MapPageOk(p) PROVE TypeOK'
  BY <1>0, <1>5 DEF MapPageOk, Local, proc, TypeOK, Label, Op
<1>6. ASSUME NEW p \in Proc, UnmapOk(p) PROVE TypeOK'
  BY <1>0, <1>6 DEF UnmapOk, Local, proc, TypeOK, Label, Op
<1>7. ASSUME NEW p \in Proc, CreateRootOk(p) PROVE TypeOK'
  BY <1>0, <1>7 DEF CreateRootOk, Local, proc, TypeOK, Label, Op
<1>8. ASSUME NEW p \in Proc, ForkTableOk(p) PROVE TypeOK'
  BY <1>0, <1>8 DEF ForkTableOk, Local, TypeOK, Label, Op
<1>9. ASSUME NEW p \in Proc, ForkDoneOk(p) PROVE TypeOK'
  BY <1>0, <1>9 DEF ForkDoneOk, Local, Back, TypeOK, Label, Op
<1>10. ASSUME NEW p \in Proc, ForkFailedOk(p) PROVE TypeOK'
  BY <1>0, <1>10 DEF ForkFailedOk, Local, Back, TypeOK, Label, Op
<1>11. ASSUME NEW p \in Proc, ExecOk(p) PROVE TypeOK'
  BY <1>0, <1>11 DEF ExecOk, Local, InUser, proc, TypeOK, Label, Op
<1>12. ASSUME NEW p \in Proc, ExecTableOk(p) PROVE TypeOK'
  BY <1>0, <1>12 DEF ExecTableOk, Local, Going, proc, TypeOK, Label, Op
<1>13. ASSUME NEW p \in Proc, ExecSegmentOk(p) PROVE TypeOK'
  BY <1>0, <1>13 DEF ExecSegmentOk, Local, proc, TypeOK, Label, Op
<1>14. ASSUME NEW p \in Proc, ExecSegmentDoneOk(p) PROVE TypeOK'
  BY <1>0, <1>14 DEF ExecSegmentDoneOk, Local, Going, proc, TypeOK, Label, Op
<1>15. ASSUME NEW p \in Proc, ExecCommitOk(p) PROVE TypeOK'
  BY <1>0, <1>15 DEF ExecCommitOk, Local, TypeOK, Label, Op
<1>16. ASSUME NEW p \in Proc, FreeRootOk(p) PROVE TypeOK'
  BY <1>0, <1>16 DEF FreeRootOk, Local, Back, proc, TypeOK, Label, Op
<1>17. ASSUME NEW p \in Proc, SbrkOk(p) PROVE TypeOK'
  BY <1>0, <1>17 DEF SbrkOk, Local, InUser, proc, TypeOK, Label, Op
<1>18. ASSUME NEW p \in Proc, SbrkDoneOk(p) PROVE TypeOK'
  BY <1>0, <1>18 DEF SbrkDoneOk, Local, Back, TypeOK, Label, Op
<1>19. ASSUME NEW p \in Proc, ExitOk(p) PROVE TypeOK'
  BY <1>0, <1>19 DEF ExitOk, local, InUser, TypeOK, Label, Op
<1>20. ASSUME NEW p \in Proc, ReapOk(p) PROVE TypeOK'
  BY <1>0, <1>20 DEF ReapOk, local, TypeOK, Label, Op
<1>21. ASSUME NEW p \in Proc, NEW q \in Proc, ForkPanicOk(p, q) PROVE TypeOK'
  BY <1>0, <1>21 DEF ForkPanicOk, Local, InUser, TypeOK, Label, Op
<1>22. ASSUME NEW p \in Proc, NEW q \in Proc, ForkOk(p, q) PROVE TypeOK'
  BY <1>0, <1>22 DEF ForkOk, Local, InUser, TypeOK, Label, Op
<1> QED
  BY <1>1, <1>2, <1>3, <1>4, <1>5, <1>6, <1>7, <1>8, <1>9, <1>10, <1>11, <1>12,
     <1>13, <1>14, <1>15, <1>16, <1>17, <1>18, <1>19, <1>20, <1>21, <1>22 DEF
     StepOk

LEMMA PcOpKept ==
  ASSUME IInv, StepOk
  PROVE  PcOp'
<1>0. PageTypes /\ TypeOK /\ PcOp /\ Kids
  BY DEF IInv
<1> USE ConstantFacts
<1>1. CASE Still
  BY <1>0, <1>1 DEF Still, proc, local, PageTypes, TypeOK, PcOp, Kids, Growing
<1>2. ASSUME NEW p \in Proc, PanicOk(p) PROVE PcOp'
  BY <1>0, <1>2 DEF PanicOk, Local, Going, proc, PageTypes, TypeOK, PcOp, Kids,
     Growing
<1>3. ASSUME NEW p \in Proc, TakePageOk(p) PROVE PcOp'
  BY <1>0, <1>3 DEF TakePageOk, Local, Going, proc, PageTypes, TypeOK, PcOp,
     Kids, Growing
<1>4. ASSUME NEW p \in Proc, UnmapStartOk(p) PROVE PcOp'
  BY <1>0, <1>4 DEF UnmapStartOk, Local, Going, proc, PageTypes, TypeOK, PcOp,
     Kids, Growing
<1>5. ASSUME NEW p \in Proc, MapPageOk(p) PROVE PcOp'
  BY <1>0, <1>5 DEF MapPageOk, Local, proc, PageTypes, TypeOK, PcOp, Kids,
     Growing
<1>6. ASSUME NEW p \in Proc, UnmapOk(p) PROVE PcOp'
  BY <1>0, <1>6 DEF UnmapOk, Local, proc, PageTypes, TypeOK, PcOp, Kids, Growing
<1>7. ASSUME NEW p \in Proc, CreateRootOk(p) PROVE PcOp'
  BY <1>0, <1>7 DEF CreateRootOk, Local, proc, PageTypes, TypeOK, PcOp, Kids,
     Growing
<1>8. ASSUME NEW p \in Proc, ForkTableOk(p) PROVE PcOp'
  BY <1>0, <1>8 DEF ForkTableOk, Local, PageTypes, TypeOK, PcOp, Kids, Growing
<1>9. ASSUME NEW p \in Proc, ForkDoneOk(p) PROVE PcOp'
  BY <1>0, <1>9 DEF ForkDoneOk, Local, Back, PageTypes, TypeOK, PcOp, Kids,
     Growing
<1>10. ASSUME NEW p \in Proc, ForkFailedOk(p) PROVE PcOp'
  BY <1>0, <1>10 DEF ForkFailedOk, Local, Back, PageTypes, TypeOK, PcOp, Kids,
     Growing
<1>11. ASSUME NEW p \in Proc, ExecOk(p) PROVE PcOp'
  BY <1>0, <1>11 DEF ExecOk, Local, InUser, proc, PageTypes, TypeOK, PcOp, Kids,
     Growing
<1>12. ASSUME NEW p \in Proc, ExecTableOk(p) PROVE PcOp'
  BY <1>0, <1>12 DEF ExecTableOk, Local, Going, proc, PageTypes, TypeOK, PcOp,
     Kids, Growing
<1>13. ASSUME NEW p \in Proc, ExecSegmentOk(p) PROVE PcOp'
  BY <1>0, <1>13 DEF ExecSegmentOk, Local, proc, PageTypes, TypeOK, PcOp, Kids,
     Growing
<1>14. ASSUME NEW p \in Proc, ExecSegmentDoneOk(p) PROVE PcOp'
  BY <1>0, <1>14 DEF ExecSegmentDoneOk, Local, Going, proc, PageTypes, TypeOK,
     PcOp, Kids, Growing
<1>15. ASSUME NEW p \in Proc, ExecCommitOk(p) PROVE PcOp'
  BY <1>0, <1>15 DEF ExecCommitOk, Local, PageTypes, TypeOK, PcOp, Kids, Growing
<1>16. ASSUME NEW p \in Proc, FreeRootOk(p) PROVE PcOp'
  BY <1>0, <1>16 DEF FreeRootOk, Local, Back, proc, PageTypes, TypeOK, PcOp,
     Kids, Growing
<1>17. ASSUME NEW p \in Proc, SbrkOk(p) PROVE PcOp'
  BY <1>0, <1>17 DEF SbrkOk, Local, InUser, proc, PageTypes, TypeOK, PcOp, Kids,
     Growing
<1>18. ASSUME NEW p \in Proc, SbrkDoneOk(p) PROVE PcOp'
  BY <1>0, <1>18 DEF SbrkDoneOk, Local, Back, PageTypes, TypeOK, PcOp, Kids,
     Growing
<1>19. ASSUME NEW p \in Proc, ExitOk(p) PROVE PcOp'
  BY <1>0, <1>19 DEF ExitOk, local, InUser, PageTypes, TypeOK, PcOp, Kids,
     Growing
<1>20. ASSUME NEW p \in Proc, ReapOk(p) PROVE PcOp'
  BY <1>0, <1>20 DEF ReapOk, local, PageTypes, TypeOK, PcOp, Kids, Growing
<1>21. ASSUME NEW p \in Proc, NEW q \in Proc, ForkPanicOk(p, q) PROVE PcOp'
  BY <1>0, <1>21 DEF ForkPanicOk, Local, InUser, PageTypes, TypeOK, PcOp, Kids,
     Growing
<1>22. ASSUME NEW p \in Proc, NEW q \in Proc, ForkOk(p, q) PROVE PcOp'
  BY <1>0, <1>22 DEF ForkOk, Local, InUser, PageTypes, TypeOK, PcOp, Kids,
     Growing
<1> QED
  BY <1>1, <1>2, <1>3, <1>4, <1>5, <1>6, <1>7, <1>8, <1>9, <1>10, <1>11, <1>12,
     <1>13, <1>14, <1>15, <1>16, <1>17, <1>18, <1>19, <1>20, <1>21, <1>22 DEF
     StepOk

LEMMA KidsKept ==
  ASSUME IInv, StepOk
  PROVE  Kids'
<1>0. PageTypes /\ TypeOK /\ PcOp /\ Kids /\ Tables
  BY DEF IInv
<1> USE ConstantFacts
<1>1. CASE Still
  BY <1>0, <1>1 DEF Still, proc, local, PageTypes, TypeOK, PcOp, Kids
<1>2. ASSUME NEW p \in Proc, PanicOk(p) PROVE Kids'
  BY <1>0, <1>2 DEF PanicOk, Local, Going, proc, PageTypes, TypeOK, PcOp, Kids
<1>3. ASSUME NEW p \in Proc, TakePageOk(p) PROVE Kids'
  BY <1>0, <1>3 DEF TakePageOk, Local, Going, proc, PageTypes, TypeOK, PcOp,
     Kids
<1>4. ASSUME NEW p \in Proc, UnmapStartOk(p) PROVE Kids'
  BY <1>0, <1>4 DEF UnmapStartOk, Local, Going, proc, PageTypes, TypeOK, PcOp,
     Kids
<1>5. ASSUME NEW p \in Proc, MapPageOk(p) PROVE Kids'
  BY <1>0, <1>5 DEF MapPageOk, Local, proc, PageTypes, TypeOK, PcOp, Kids
<1>6. ASSUME NEW p \in Proc, UnmapOk(p) PROVE Kids'
  BY <1>0, <1>6 DEF UnmapOk, Local, proc, PageTypes, TypeOK, PcOp, Kids
<1>7. ASSUME NEW p \in Proc, CreateRootOk(p) PROVE Kids'
  BY <1>0, <1>7 DEF CreateRootOk, Local, proc, PageTypes, TypeOK, PcOp, Kids
<1>8. ASSUME NEW p \in Proc, ForkTableOk(p) PROVE Kids'
  BY <1>0, <1>8 DEF ForkTableOk, Local, PageTypes, TypeOK, PcOp, Kids
<1>9. ASSUME NEW p \in Proc, ForkDoneOk(p) PROVE Kids'
  <2>1. kid[p] \in Proc /\ pagetable[kid[p]] # Nil /\ trapframe[kid[p]] # Nil
    BY <1>0, <1>9 DEF ForkDoneOk, TypeOK, PcOp, Kids, Tables
  <2> QED BY <1>0, <1>9, <2>1 DEF ForkDoneOk, Local, Back, TypeOK, Kids
<1>10. ASSUME NEW p \in Proc, ForkFailedOk(p) PROVE Kids'
  BY <1>0, <1>10 DEF ForkFailedOk, Local, Back, PageTypes, TypeOK, PcOp, Kids
<1>11. ASSUME NEW p \in Proc, ExecOk(p) PROVE Kids'
  BY <1>0, <1>11 DEF ExecOk, Local, InUser, proc, PageTypes, TypeOK, PcOp, Kids
<1>12. ASSUME NEW p \in Proc, ExecTableOk(p) PROVE Kids'
  BY <1>0, <1>12 DEF ExecTableOk, Local, Going, proc, PageTypes, TypeOK, PcOp,
     Kids
<1>13. ASSUME NEW p \in Proc, ExecSegmentOk(p) PROVE Kids'
  BY <1>0, <1>13 DEF ExecSegmentOk, Local, proc, PageTypes, TypeOK, PcOp, Kids
<1>14. ASSUME NEW p \in Proc, ExecSegmentDoneOk(p) PROVE Kids'
  BY <1>0, <1>14 DEF ExecSegmentDoneOk, Local, Going, proc, PageTypes, TypeOK,
     PcOp, Kids
<1>15. ASSUME NEW p \in Proc, ExecCommitOk(p) PROVE Kids'
  BY <1>0, <1>15 DEF ExecCommitOk, Local, PageTypes, TypeOK, PcOp, Kids
<1>16. ASSUME NEW p \in Proc, FreeRootOk(p) PROVE Kids'
  BY <1>0, <1>16 DEF FreeRootOk, Local, Back, proc, PageTypes, TypeOK, PcOp,
     Kids
<1>17. ASSUME NEW p \in Proc, SbrkOk(p) PROVE Kids'
  BY <1>0, <1>17 DEF SbrkOk, Local, InUser, proc, PageTypes, TypeOK, PcOp, Kids
<1>18. ASSUME NEW p \in Proc, SbrkDoneOk(p) PROVE Kids'
  BY <1>0, <1>18 DEF SbrkDoneOk, Local, Back, PageTypes, TypeOK, PcOp, Kids
<1>19. ASSUME NEW p \in Proc, ExitOk(p) PROVE Kids'
  BY <1>0, <1>19 DEF ExitOk, local, InUser, PageTypes, TypeOK, PcOp, Kids
<1>20. ASSUME NEW p \in Proc, ReapOk(p) PROVE Kids'
  BY <1>0, <1>20 DEF ReapOk, local, PageTypes, TypeOK, PcOp, Kids
<1>21. ASSUME NEW p \in Proc, NEW q \in Proc, ForkPanicOk(p, q) PROVE Kids'
  BY <1>0, <1>21 DEF ForkPanicOk, Local, InUser, PageTypes, TypeOK, PcOp, Kids
<1>22. ASSUME NEW p \in Proc, NEW q \in Proc, ForkOk(p, q) PROVE Kids'
  BY <1>0, <1>22 DEF ForkOk, Local, InUser, PageTypes, TypeOK, PcOp, Kids
<1> QED
  BY <1>1, <1>2, <1>3, <1>4, <1>5, <1>6, <1>7, <1>8, <1>9, <1>10, <1>11, <1>12,
     <1>13, <1>14, <1>15, <1>16, <1>17, <1>18, <1>19, <1>20, <1>21, <1>22 DEF
     StepOk

LEMMA TablesGoing ==
  ASSUME TypeOK, PcOp, Tables, NEW p \in Proc, NEW l, l # "high", Going(p, l),
         op[p] = "fork" => l = "panic" \/ pc[p] \notin {"high", "panic"},
         UNCHANGED pagetable, TabSame
  PROVE  Tables'
<1>1. \A r \in Page : table'[r].root <=> table[r].root
  BY DEF TabSame, SameAt
<1> QED BY <1>1, ConstantFacts DEF Going, Local, TypeOK, Tables, Loose

LEMMA TablesKept ==
  ASSUME IInv, StepOk
  PROVE  Tables'
<1>0. TypeOK /\ PcOp /\ Kids /\ Tables
  BY DEF IInv
<1> USE ConstantFacts
<1>1. CASE Still
  BY <1>0, <1>1 DEF Still, TabSame, SameAt, proc, local, TypeOK, PcOp, Kids, Tables, Loose
<1>2. ASSUME NEW p \in Proc, PanicOk(p) PROVE Tables'
  BY <1>0, <1>2, TablesGoing DEF PanicOk, proc
<1>3. ASSUME NEW p \in Proc, TakePageOk(p) PROVE Tables'
  BY <1>0, <1>3, TablesGoing DEF TakePageOk, proc
<1>4. ASSUME NEW p \in Proc, UnmapStartOk(p) PROVE Tables'
  BY <1>0, <1>4, TablesGoing DEF UnmapStartOk, proc
<1>5. ASSUME NEW p \in Proc, MapPageOk(p) PROVE Tables'
  <2>1. \A r \in Page : table'[r].root <=> table[r].root
    BY <1>5 DEF MapPageOk, TabMap, SameAt
  <2> QED BY <1>0, <1>5, <2>1 DEF MapPageOk, Local, proc, TypeOK, Tables, Loose
<1>6. ASSUME NEW p \in Proc, UnmapOk(p) PROVE Tables'
  <2>1. \A r \in Page : table'[r].root <=> table[r].root
    BY <1>6 DEF UnmapOk, TabUnmap, SameAt
  <2> QED BY <1>0, <1>6, <2>1 DEF UnmapOk, Local, proc, TypeOK, Tables, Loose
<1>7. ASSUME NEW p \in Proc, CreateRootOk(p) PROVE Tables'
  <2>1. PICK x \in Page :
          TabNew(x) /\ Local(p, "high", op[p], kid[p], x, a[p], lo[p], hi[p])
    BY <1>7 DEF CreateRootOk
  <2>2. /\ ~table[x].root /\ table'[x].root
        /\ \A r \in Page : table[r].root => table'[r].root
    BY <2>1 DEF TabNew, SameAt
  <2>3. /\ \A q \in Proc : pagetable[q] # x /\ new[q] # x
        /\ pc[p] = "root" /\ op[p] \in {"fork", "exec"} /\ UNCHANGED proc
    BY <1>0, <1>7, <2>2 DEF CreateRootOk, PcOp, Tables
  <2> QED BY <1>0, <2>1, <2>2, <2>3 DEF Local, proc, TypeOK, Tables, Loose
<1>8. ASSUME NEW p \in Proc, ForkTableOk(p) PROVE Tables'
  <2>1. \A r \in Page : table'[r].root <=> table[r].root
    BY <1>8 DEF ForkTableOk, TabSame, SameAt
  <2> QED BY <1>0, <1>8, <2>1, SMTT(30)
      DEF ForkTableOk, Local, TypeOK, PcOp, Kids, Tables, Loose
<1>9. ASSUME NEW p \in Proc, ForkDoneOk(p) PROVE Tables'
  <2>1. \A r \in Page : table'[r].root <=> table[r].root
    BY <1>9 DEF ForkDoneOk, TabSame, SameAt
  <2> QED BY <1>0, <1>9, <2>1 DEF ForkDoneOk, Local, Back, TypeOK, Tables,
     Loose
<1>10. ASSUME NEW p \in Proc, ForkFailedOk(p) PROVE Tables'
  <2>1. \A r \in Page : table'[r].root <=> table[r].root
    BY <1>10 DEF ForkFailedOk, TabSame, SameAt
  <2> QED BY <1>0, <1>10, <2>1 DEF ForkFailedOk, Local, Back, TypeOK, Tables,
     Loose
<1>11. ASSUME NEW p \in Proc, ExecOk(p) PROVE Tables'
  <2>1. \A r \in Page : table'[r].root <=> table[r].root
    BY <1>11 DEF ExecOk, TabSame, SameAt
  <2> QED BY <1>0, <1>11, <2>1, SMTT(30) DEF ExecOk, Local, InUser, proc, TypeOK, PcOp, Kids,
     Tables, Loose
<1>12. ASSUME NEW p \in Proc, ExecTableOk(p) PROVE Tables'
  BY <1>0, <1>12, TablesGoing DEF ExecTableOk, proc
<1>13. ASSUME NEW p \in Proc, ExecSegmentOk(p) PROVE Tables'
  <2>1. PICK n \in Nat, o \in {"exec", "stack"} :
          Local(p, "alloc", o, kid[p], new[p], a[p], hi[p], n)
    BY <1>13 DEF ExecSegmentOk
  <2>2. op[p] = "exec" /\ pc[p] = "elf" /\ UNCHANGED proc /\ TabSame
    BY <1>0, <1>13 DEF ExecSegmentOk, PcOp
  <2> QED BY <1>0, <2>1, <2>2 DEF Local, proc, TabSame, SameAt, TypeOK, Tables, Loose
<1>14. ASSUME NEW p \in Proc, ExecSegmentDoneOk(p) PROVE Tables'
  BY <1>0, <1>14, TablesGoing DEF ExecSegmentDoneOk, proc
<1>15. ASSUME NEW p \in Proc, ExecCommitOk(p) PROVE Tables'
  <2>1. \A r \in Page : table'[r].root <=> table[r].root
    BY <1>15 DEF ExecCommitOk, TabSame, SameAt
  <2> QED BY <1>0, <1>15, <2>1, SMTT(30)
      DEF ExecCommitOk, Local, TypeOK, PcOp, Kids, Tables, Loose
<1>16. ASSUME NEW p \in Proc, FreeRootOk(p) PROVE Tables'
  <2>1. \A r \in Page \ {new[p]} : table'[r].root <=> table[r].root
    BY <1>16 DEF FreeRootOk, TabGone, SameAt
  <2>2. new[p] # Nil /\ Loose(p)
    BY <1>0, <1>16 DEF FreeRootOk, PcOp, Tables
  <2> QED BY <1>0, <1>16, <2>1, <2>2, SMTT(30)
      DEF FreeRootOk, Local, Back, proc, TypeOK, Tables, Loose
<1>17. ASSUME NEW p \in Proc, SbrkOk(p) PROVE Tables'
  <2>1. PICK n \in Nat, o \in {"sbrk", "underflow"} :
          Local(p, "alloc", o, kid[p], pagetable[p], sz[p], sz[p], n)
    BY <1>17 DEF SbrkOk
  <2>2. \A r \in Page : table'[r].root <=> table[r].root
    BY <1>17 DEF SbrkOk, TabSame, SameAt
  <2>3. /\ UNCHANGED pagetable /\ pagetable[p] # Nil
        /\ \A q \in Proc \ {p} : new[q] # pagetable[p]
    BY <1>0, <1>17 DEF SbrkOk, InUser, proc, TypeOK, PcOp, Kids, Tables, Loose
  <2> QED BY <1>0, <2>1, <2>2, <2>3 DEF Local, TypeOK, Tables, Loose
<1>18. ASSUME NEW p \in Proc, SbrkDoneOk(p) PROVE Tables'
  <2>1. \A r \in Page : table'[r].root <=> table[r].root
    BY <1>18 DEF SbrkDoneOk, TabSame, SameAt
  <2> QED BY <1>0, <1>18, <2>1 DEF SbrkDoneOk, Local, Back, TypeOK, Tables,
     Loose
<1>19. ASSUME NEW p \in Proc, ExitOk(p) PROVE Tables'
  <2>1. \A r \in Page : table'[r].root <=> table[r].root
    BY <1>19 DEF ExitOk, TabSame, SameAt
  <2> QED BY <1>0, <1>19, <2>1 DEF ExitOk, local, InUser, TypeOK, Tables,
     Loose
<1>20. ASSUME NEW p \in Proc, ReapOk(p) PROVE Tables'
  <2>1. \A r \in Page : table'[r].root <=> table[r].root
    BY <1>20 DEF ReapOk, TabSame, SameAt
  <2> QED BY <1>0, <1>20, <2>1 DEF ReapOk, local, TypeOK, Tables, Loose
<1>21. ASSUME NEW p \in Proc, NEW q \in Proc, ForkPanicOk(p, q) PROVE Tables'
  <2>1. \A r \in Page : table'[r].root <=> table[r].root
    BY <1>21 DEF ForkPanicOk, TabSame, SameAt
  <2>2. new[p] = Nil
    BY <1>0, <1>21 DEF ForkPanicOk, InUser, PcOp
  <2> QED BY <1>0, <1>21, <2>1, <2>2 DEF ForkPanicOk, Local, TypeOK, Tables, Loose
<1>22. ASSUME NEW p \in Proc, NEW q \in Proc, ForkOk(p, q) PROVE Tables'
  <2>1. \A r \in Page : table'[r].root <=> table[r].root
    BY <1>22 DEF ForkOk, TabSame, SameAt
  <2>2. new[p] = Nil
    BY <1>0, <1>22 DEF ForkOk, InUser, PcOp
  <2> QED BY <1>0, <1>22, <2>1, <2>2, SMTT(30) DEF ForkOk, Local, TypeOK, Tables, Loose
<1> QED
  BY <1>1, <1>2, <1>3, <1>4, <1>5, <1>6, <1>7, <1>8, <1>9, <1>10, <1>11, <1>12,
     <1>13, <1>14, <1>15, <1>16, <1>17, <1>18, <1>19, <1>20, <1>21, <1>22 DEF
     StepOk

(***************************************************************************)
(* The table that a process works on is nobody else's memory.              *)
(***************************************************************************)
LEMMA Apart ==
  ASSUME TypeOK, PcOp, Kids, Tables, NEW p \in Proc, new[p] # Nil
  PROVE  /\ \A q \in Proc \ {p} :
              /\ new[q] # new[p]
              /\ state[q] \in {"LIVE", "ZOMBIE"} => pagetable[q] # new[p]
         /\ op[p] \notin {"sbrk", "underflow"} => pagetable[p] # new[p]
         /\ state[p] = "LIVE" /\ new[p] \in Page
BY ConstantFacts DEF TypeOK, PcOp, Kids, Tables, Loose

LEMMA MapTypes ==
  /\ \A r \in Page : Map(r) \subseteq VPage /\ Map(r) \subseteq Nat
  /\ \A r \in Page, n \in Nat : 0 .. n - 1 \subseteq Map(r) => n <= MAXPAGE
<1>1. \A r \in Page : Map(r) \subseteq VPage
  BY DEF Map, Mapping
<1>2. VPage \subseteq Nat
  BY DEF VPage
<1>3. ASSUME NEW r \in Page, NEW n \in Nat, 0 .. n - 1 \subseteq Map(r)
      PROVE  n <= MAXPAGE
  <2>1. CASE n = 0
    BY <2>1, VmAssumption
  <2>2. CASE n # 0
    <3>1. n - 1 \in 0 .. n - 1
      BY <2>2
    <3>2. n - 1 \in VPage
      BY <1>1, <1>3, <3>1
    <3> QED BY <3>2, VmAssumption DEF VPage
  <2> QED BY <2>1, <2>2
<1> QED BY <1>1, <1>2, <1>3

\* Nothing that SizeAt(q) speaks of changes.
SizeSame(q) ==
  /\ state'[q] = state[q] /\ pagetable'[q] = pagetable[q] /\ sz'[q] = sz[q]
  /\ op'[q] \notin {"sbrk", "underflow"} => op[q] \notin {"sbrk", "underflow"}
  /\ state[q] \in {"LIVE", "ZOMBIE"} =>
       Mapping'[pagetable[q]] = Mapping[pagetable[q]]

LEMMA SizeFrame ==
  ASSUME NEW q, SizeAt(q), SizeSame(q)
  PROVE  SizeAt(q)'
BY DEF SizeAt, SizeSame, Map

LEMMA SizeOKKept ==
  ASSUME IInv, StepOk
  PROVE  SizeOK'
<1>0. TypeOK /\ PcOp /\ Kids /\ Tables /\ SizeOK /\ LoopOK
  BY DEF IInv
<1> USE ConstantFacts
<1>1. CASE Still
  BY <1>0, <1>1 DEF Still, proc, local, TabSame, SameAt, Map, TypeOK, PcOp, Kids, SizeOK, SizeAt
<1>2. ASSUME NEW p \in Proc, PanicOk(p) PROVE SizeOK'
  BY <1>0, <1>2 DEF PanicOk, Local, Going, proc, TabSame, SameAt, Map, TypeOK,
     PcOp, Kids, SizeOK, SizeAt
<1>3. ASSUME NEW p \in Proc, TakePageOk(p) PROVE SizeOK'
  BY <1>0, <1>3 DEF TakePageOk, Local, Going, proc, TabSame, SameAt, Map,
     TypeOK, PcOp, Kids, SizeOK, SizeAt
<1>4. ASSUME NEW p \in Proc, UnmapStartOk(p) PROVE SizeOK'
  BY <1>0, <1>4 DEF UnmapStartOk, Local, Going, proc, TabSame, SameAt, Map,
     TypeOK, PcOp, Kids, SizeOK, SizeAt
<1>5. ASSUME NEW p \in Proc, MapPageOk(p) PROVE SizeOK'
  <2>1. new[p] # Nil /\ new[p] \in Page
    BY <1>0, <1>5 DEF MapPageOk, PcOp, TypeOK
  <2>2. /\ \A r \in Page \ {new[p]} : Mapping'[r] = Mapping[r]
        /\ Mapping[new[p]] \subseteq Mapping'[new[p]]
    BY <1>5 DEF MapPageOk, TabMap, SameAt
  <2>3. ASSUME NEW q \in Proc, q # p \/ op[p] \notin {"sbrk", "underflow"}
        PROVE  SizeAt(q)'
    <3>1. state[q] \in {"LIVE", "ZOMBIE"} => pagetable[q] \in Page \ {new[p]}
      BY <1>0, <2>1, <2>3, Apart DEF TypeOK, Kids
    <3>2. SizeSame(q)
      BY <1>0, <1>5, <2>2, <3>1 DEF MapPageOk, Local, proc, TypeOK, SizeSame
    <3> QED BY <1>0, <3>2, SizeFrame DEF SizeOK
  <2>4. CASE op[p] \in {"sbrk", "underflow"}
    <3>1. new[p] = pagetable[p]
      BY <1>0, <1>5, <2>1, <2>4 DEF MapPageOk, Tables
    <3>2. SizeAt(p)'
      BY <1>0, <1>5, <2>2, <2>4, <3>1
         DEF MapPageOk, Local, proc, TypeOK, SizeOK, SizeAt, Map
    <3> QED BY <2>3, <3>2 DEF SizeOK
  <2> QED BY <2>3, <2>4 DEF SizeOK
<1>6. ASSUME NEW p \in Proc, UnmapOk(p) PROVE SizeOK'
  <2>1. new[p] # Nil /\ new[p] \in Page
    BY <1>0, <1>6 DEF UnmapOk, PcOp, TypeOK
  <2>2. /\ \A r \in Page \ {new[p]} : Mapping'[r] = Mapping[r]
        /\ Mapping'[new[p]] = Mapping[new[p]] \ {lo[p]}
    BY <1>6 DEF UnmapOk, TabUnmap, SameAt
  <2>3. ASSUME NEW q \in Proc, q # p \/ op[p] \notin {"sbrk", "underflow"}
        PROVE  SizeAt(q)'
    <3>1. state[q] \in {"LIVE", "ZOMBIE"} => pagetable[q] \in Page \ {new[p]}
      BY <1>0, <2>1, <2>3, Apart DEF TypeOK, Kids
    <3>2. SizeSame(q)
      BY <1>0, <1>6, <2>2, <3>1 DEF UnmapOk, Local, proc, TypeOK, SizeSame
    <3> QED BY <1>0, <3>2, SizeFrame DEF SizeOK
  <2>4. CASE op[p] \in {"sbrk", "underflow"}
    <3>1. new[p] = pagetable[p]
      BY <1>0, <1>6, <2>1, <2>4 DEF UnmapOk, Tables
    <3>2. 0 .. sz[p] - 1 \subseteq Mapping[new[p]] \ (lo[p] .. a[p] - 1)
      BY <1>0, <1>6, <2>4 DEF UnmapOk, LoopOK, LoopAt, Map
    <3>3. lo[p] \in lo[p] .. a[p] - 1
      BY <1>0, <1>6 DEF UnmapOk, TypeOK
    <3>4. 0 .. sz[p] - 1 \subseteq Mapping'[new[p]]
      BY <2>2, <3>2, <3>3
    <3>5. SizeAt(p)'
      BY <1>0, <1>6, <2>4, <3>1, <3>4
         DEF UnmapOk, Local, proc, TypeOK, SizeAt, Map
    <3> QED BY <2>3, <3>5 DEF SizeOK
  <2> QED BY <2>3, <2>4 DEF SizeOK
<1>7. ASSUME NEW p \in Proc, CreateRootOk(p) PROVE SizeOK'
  <2>1. PICK x \in Page :
          TabNew(x) /\ Local(p, "high", op[p], kid[p], x, a[p], lo[p], hi[p])
    BY <1>7 DEF CreateRootOk
  <2>2. ASSUME NEW q \in Proc PROVE SizeAt(q)'
    <3>1. state[q] \in {"LIVE", "ZOMBIE"} => pagetable[q] \in Page \ {x}
      BY <1>0, <2>1 DEF TypeOK, Kids, Tables, TabNew
    <3>2. SizeSame(q)
      BY <1>0, <1>7, <2>1, <3>1
         DEF CreateRootOk, Local, proc, TypeOK, TabNew, SameAt, SizeSame
    <3> QED BY <1>0, <3>2, SizeFrame DEF SizeOK
  <2> QED BY <2>2 DEF SizeOK
<1>8. ASSUME NEW p \in Proc, ForkTableOk(p) PROVE SizeOK'
  BY <1>0, <1>8 DEF ForkTableOk, Local, TabSame, SameAt, Map, TypeOK, PcOp,
     Kids, SizeOK, SizeAt
<1>9. ASSUME NEW p \in Proc, ForkDoneOk(p) PROVE SizeOK'
  <2>0. PICK k \in Proc : k = kid[p]
    BY <1>0, <1>9 DEF ForkDoneOk, TypeOK, Kids
  <2>1. k # p /\ new[p] = pagetable[k] /\ new[p] \in Page
    BY <1>0, <1>9, <2>0 DEF ForkDoneOk, TypeOK, PcOp, Kids, Tables
  <2>2. SizeAt(k)'
    <3>1. /\ Solid(Mapping[new[p]]) /\ 0 .. a[p] - 1 \subseteq Mapping[new[p]]
          /\ hi[p] = sz[p] /\ a[p] >= hi[p]
      BY <1>0, <1>9 DEF ForkDoneOk, LoopOK, LoopAt, Map
    <3>2. 0 .. sz[p] - 1 \subseteq Mapping[new[p]]
      BY <1>0, <3>1 DEF TypeOK
    <3>3. Mapping'[new[p]] = Mapping[new[p]]
      BY <1>9, <2>1 DEF ForkDoneOk, TabSame, SameAt
    <3>4. pagetable'[k] = new[p] /\ sz'[k] = sz[p]
      BY <1>0, <1>9, <2>0, <2>1 DEF ForkDoneOk, TypeOK
    <3> QED BY <3>1, <3>2, <3>3, <3>4 DEF SizeAt, Map
  <2>3. ASSUME NEW q \in Proc, q # k PROVE SizeAt(q)'
    <3>1. SizeSame(q)
      BY <1>0, <1>9, <2>0, <2>3
         DEF ForkDoneOk, Local, Back, TypeOK, Kids, TabSame, SameAt, SizeSame
    <3> QED BY <1>0, <3>1, SizeFrame DEF SizeOK
  <2> QED BY <2>2, <2>3 DEF SizeOK
<1>10. ASSUME NEW p \in Proc, ForkFailedOk(p) PROVE SizeOK'
  BY <1>0, <1>10 DEF ForkFailedOk, Local, Back, TabSame, SameAt, Map, TypeOK,
     PcOp, Kids, SizeOK, SizeAt
<1>11. ASSUME NEW p \in Proc, ExecOk(p) PROVE SizeOK'
  BY <1>0, <1>11 DEF ExecOk, Local, InUser, proc, TabSame, SameAt, Map, TypeOK,
     PcOp, Kids, SizeOK, SizeAt
<1>12. ASSUME NEW p \in Proc, ExecTableOk(p) PROVE SizeOK'
  BY <1>0, <1>12 DEF ExecTableOk, Local, Going, proc, TabSame, SameAt, Map,
     TypeOK, PcOp, Kids, SizeOK, SizeAt
<1>13. ASSUME NEW p \in Proc, ExecSegmentOk(p) PROVE SizeOK'
  BY <1>0, <1>13 DEF ExecSegmentOk, Local, proc, TabSame, SameAt, Map, TypeOK,
     PcOp, Kids, SizeOK, SizeAt
<1>14. ASSUME NEW p \in Proc, ExecSegmentDoneOk(p) PROVE SizeOK'
  BY <1>0, <1>14 DEF ExecSegmentDoneOk, Local, Going, proc, TabSame, SameAt,
     Map, TypeOK, PcOp, Kids, SizeOK, SizeAt
<1>15. ASSUME NEW p \in Proc, ExecCommitOk(p) PROVE SizeOK'
  <2>1. new[p] \in Page
    BY <1>0, <1>15 DEF ExecCommitOk, TypeOK, PcOp
  <2>2. SizeAt(p)'
    <3>1. /\ Solid(Mapping[new[p]]) /\ 0 .. a[p] - 1 \subseteq Mapping[new[p]]
          /\ a[p] >= hi[p]
      BY <1>0, <1>15 DEF ExecCommitOk, LoopOK, LoopAt, Map
    <3>2. 0 .. hi[p] - 1 \subseteq Mapping[new[p]]
      BY <1>0, <3>1 DEF TypeOK
    <3>3. Mapping'[new[p]] = Mapping[new[p]]
      BY <1>15, <2>1 DEF ExecCommitOk, TabSame, SameAt
    <3>4. pagetable'[p] = new[p] /\ sz'[p] = hi[p]
      BY <1>0, <1>15, <2>1 DEF ExecCommitOk, TypeOK
    <3> QED BY <3>1, <3>2, <3>3, <3>4 DEF SizeAt, Map
  <2>3. ASSUME NEW q \in Proc, q # p PROVE SizeAt(q)'
    <3>1. SizeSame(q)
      BY <1>0, <1>15, <2>3
         DEF ExecCommitOk, Local, TypeOK, Kids, TabSame, SameAt, SizeSame
    <3> QED BY <1>0, <3>1, SizeFrame DEF SizeOK
  <2> QED BY <2>2, <2>3 DEF SizeOK
<1>16. ASSUME NEW p \in Proc, FreeRootOk(p) PROVE SizeOK'
  <2>1. new[p] # Nil /\ Loose(p)
    BY <1>0, <1>16 DEF FreeRootOk, PcOp, Tables
  <2>2. ASSUME NEW q \in Proc PROVE SizeAt(q)'
    <3>1. state[q] \in {"LIVE", "ZOMBIE"} => pagetable[q] \in Page \ {new[p]}
      BY <1>0, <2>1 DEF TypeOK, Kids, Loose
    <3>2. SizeSame(q)
      BY <1>0, <1>16, <3>1
         DEF FreeRootOk, Local, Back, proc, TypeOK, TabGone, SameAt, SizeSame
    <3> QED BY <1>0, <3>2, SizeFrame DEF SizeOK
  <2> QED BY <2>2 DEF SizeOK
<1>17. ASSUME NEW p \in Proc, SbrkOk(p) PROVE SizeOK'
  BY <1>0, <1>17 DEF SbrkOk, Local, InUser, proc, TabSame, SameAt, Map, TypeOK,
     PcOp, Kids, SizeOK, SizeAt
<1>18. ASSUME NEW p \in Proc, SbrkDoneOk(p) PROVE SizeOK'
  <2>1. new[p] = pagetable[p] /\ new[p] \in Page
    BY <1>0, <1>18 DEF SbrkDoneOk, TypeOK, PcOp, Tables
  <2>2. SizeAt(p)'
    <3>1. Solid(Mapping[new[p]])
      <4>1. CASE pc[p] = "alloc"
        BY <1>0, <4>1 DEF LoopOK, LoopAt, Map
      <4>2. CASE pc[p] = "unmap" /\ lo[p] >= a[p]
        <5>1. Solid(Mapping[new[p]] \ (lo[p] .. a[p] - 1))
          BY <1>0, <1>18, <4>2 DEF SbrkDoneOk, LoopOK, LoopAt, Map
        <5>2. lo[p] .. a[p] - 1 = {}
          BY <1>0, <4>2 DEF TypeOK
        <5>3. Mapping[new[p]] \ {} = Mapping[new[p]]
          OBVIOUS
        <5> QED BY <5>1, <5>2, <5>3
      <4> QED BY <1>18, <4>1, <4>2 DEF SbrkDoneOk
    <3>2. Mapping'[new[p]] = Mapping[new[p]]
      BY <1>18, <2>1 DEF SbrkDoneOk, TabSame, SameAt
    <3>3. pagetable'[p] = new[p] /\ state'[p] = state[p] /\ sz'[p] \in {0, sz[p]}
      BY <1>0, <1>18, <2>1 DEF SbrkDoneOk, TypeOK
    <3>4. 0 .. -1 = {}
      OBVIOUS
    <3> QED BY <1>0, <2>1, <3>1, <3>2, <3>3, <3>4 DEF SizeOK, SizeAt, Map
  <2>3. ASSUME NEW q \in Proc, q # p PROVE SizeAt(q)'
    <3>1. SizeSame(q)
      BY <1>0, <1>18, <2>3
         DEF SbrkDoneOk, Local, Back, TypeOK, Kids, TabSame, SameAt, SizeSame
    <3> QED BY <1>0, <3>1, SizeFrame DEF SizeOK
  <2> QED BY <2>2, <2>3 DEF SizeOK
<1>19. ASSUME NEW p \in Proc, ExitOk(p) PROVE SizeOK'
  BY <1>0, <1>19 DEF ExitOk, local, InUser, TabSame, SameAt, Map, TypeOK, PcOp,
     Kids, SizeOK, SizeAt
<1>20. ASSUME NEW p \in Proc, ReapOk(p) PROVE SizeOK'
  BY <1>0, <1>20 DEF ReapOk, local, TabSame, SameAt, Map, TypeOK, PcOp, Kids,
     SizeOK, SizeAt
<1>21. ASSUME NEW p \in Proc, NEW q \in Proc, ForkPanicOk(p, q) PROVE SizeOK'
  BY <1>0, <1>21 DEF ForkPanicOk, Local, InUser, TabSame, SameAt, Map, TypeOK,
     PcOp, Kids, SizeOK, SizeAt
<1>22. ASSUME NEW p \in Proc, NEW q \in Proc, ForkOk(p, q) PROVE SizeOK'
  BY <1>0, <1>22 DEF ForkOk, Local, InUser, TabSame, SameAt, Map, TypeOK, PcOp,
     Kids, SizeOK, SizeAt
<1> QED
  BY <1>1, <1>2, <1>3, <1>4, <1>5, <1>6, <1>7, <1>8, <1>9, <1>10, <1>11, <1>12,
     <1>13, <1>14, <1>15, <1>16, <1>17, <1>18, <1>19, <1>20, <1>21, <1>22 DEF
     StepOk

\* Nothing that LoopAt(q) speaks of changes.
LoopSame(q) ==
  /\ pc'[q] = pc[q] /\ op'[q] = op[q] /\ new'[q] = new[q]
  /\ a'[q] = a[q] /\ lo'[q] = lo[q] /\ hi'[q] = hi[q]
  /\ pc[q] \notin {"user", "root", "panic"} =>
       sz'[q] = sz[q] /\ Mapping'[new[q]] = Mapping[new[q]]

LEMMA LoopFrame ==
  ASSUME NEW q, LoopAt(q), LoopSame(q)
  PROVE  LoopAt(q)'
BY DEF LoopAt, LoopSame, Map

LEMMA SolidEmpty == Solid({}) /\ 0 .. 0 - 1 = {}
BY DEF Solid

LEMMA SolidInterval ==
  ASSUME NEW n \in Nat
  PROVE  Solid(0 .. n - 1)
BY DEF Solid

LEMMA SolidGrows ==
  ASSUME NEW S \in SUBSET Nat, NEW i \in Nat, Solid(S), 0 .. i - 1 \subseteq S,
         i \notin S
  PROVE  /\ Solid(S \cup {i})
         /\ S \cup {i} \subseteq 0 .. (i + 1) - 1
         /\ 0 .. (i + 1) - 1 \subseteq S \cup {i}
<1>1. ASSUME NEW v \in S PROVE v < i
  <2>1. 0 .. v \subseteq S /\ v \in Nat
    BY DEF Solid
  <2> QED BY <2>1
<1>2. S \subseteq 0 .. i - 1
  BY <1>1
<1>3. S \cup {i} = 0 .. i
  <2>1. \A v \in 0 .. i : v \in 0 .. i - 1 \/ v = i
    OBVIOUS
  <2>2. \A v \in 0 .. i - 1 : v \in 0 .. i
    OBVIOUS
  <2>3. i \in 0 .. i
    OBVIOUS
  <2> QED BY <1>2, <2>1, <2>2, <2>3
<1>4. (i + 1) - 1 = i
  OBVIOUS
<1> QED BY <1>3, <1>4 DEF Solid

LEMMA SolidKept ==
  ASSUME NEW S \in SUBSET Nat, NEW f \in Nat, NEW i \in Nat, f <= i, Solid(S),
         0 .. i - 1 \subseteq S, f < i => S \subseteq 0 .. i - 1
  PROVE  Solid(S \ (f .. i - 1)) /\ 0 .. f - 1 \subseteq S \ (f .. i - 1)
<1>1. CASE f < i
  <2>1. S = 0 .. i - 1
    BY <1>1
  <2>2. S \ (f .. i - 1) = 0 .. f - 1
    BY <1>1, <2>1
  <2> QED BY <2>2, SolidInterval
<1>2. CASE f = i
  <2>1. f .. i - 1 = {}
    BY <1>2
  <2>2. S \ {} = S
    OBVIOUS
  <2>3. i \in 0 .. i
    OBVIOUS
  <2> QED BY <1>2, <2>1, <2>2, <2>3
<1> QED BY <1>1, <1>2

LEMMA LoopOKKept ==
  ASSUME IInv, StepOk
  PROVE  LoopOK'
<1>0. TypeOK /\ PcOp /\ Kids /\ Tables /\ SizeOK /\ LoopOK
  BY DEF IInv
<1> USE ConstantFacts
<1>1. CASE Still
  <2>1. ASSUME NEW q \in Proc PROVE LoopAt(q)'
    <3>1. LoopSame(q)
      BY <1>0, <1>1
         DEF Still, proc, local, TabSame, SameAt, TypeOK, PcOp, Label, LoopSame
    <3> QED BY <1>0, <3>1, LoopFrame DEF LoopOK
  <2> QED BY <2>1 DEF LoopOK
<1>2. ASSUME NEW p \in Proc, PanicOk(p) PROVE LoopOK'
  <2>7. LoopAt(p)'
    BY <1>0, <1>2 DEF PanicOk, Local, Going, proc, TypeOK, LoopAt
  <2>8. ASSUME NEW q \in Proc, q # p PROVE LoopAt(q)'
    <3>1. LoopSame(q)
      BY <1>0, <1>2, <2>8
         DEF PanicOk, Local, Going, proc, TabSame, SameAt, TypeOK, PcOp, Label,
         LoopSame
    <3> QED BY <1>0, <3>1, LoopFrame DEF LoopOK
  <2> QED BY <2>7, <2>8 DEF LoopOK
<1>3. ASSUME NEW p \in Proc, TakePageOk(p) PROVE LoopOK'
  <2>1. Mapping'[new[p]] = Mapping[new[p]]
    BY <1>0, <1>3 DEF TakePageOk, TabSame, SameAt, TypeOK, PcOp
  <2>7. LoopAt(p)'
    BY <1>0, <1>3, <2>1
       DEF TakePageOk, Local, Going, proc, TypeOK, LoopOK, LoopAt, Map
  <2>8. ASSUME NEW q \in Proc, q # p PROVE LoopAt(q)'
    <3>1. LoopSame(q)
      BY <1>0, <1>3, <2>8
         DEF TakePageOk, Local, Going, proc, TabSame, SameAt, TypeOK, PcOp,
         Label, LoopSame
    <3> QED BY <1>0, <3>1, LoopFrame DEF LoopOK
  <2> QED BY <2>7, <2>8 DEF LoopOK
<1>4. ASSUME NEW p \in Proc, UnmapStartOk(p) PROVE LoopOK'
  <2>1. new[p] \in Page
    BY <1>0, <1>4 DEF UnmapStartOk, TypeOK, PcOp
  <2>2. Mapping'[new[p]] = Mapping[new[p]]
    BY <1>4, <2>1 DEF UnmapStartOk, TabSame, SameAt
  <2>3. /\ Solid(Mapping[new[p]]) /\ 0 .. a[p] - 1 \subseteq Mapping[new[p]]
        /\ lo[p] <= a[p] /\ a[p] \in Nat /\ lo[p] \in Nat
        /\ lo[p] < a[p] => Mapping[new[p]] \subseteq 0 .. a[p] - 1
        /\ op[p] \in {"sbrk", "underflow"} => lo[p] = sz[p]
    BY <1>0, <1>4 DEF UnmapStartOk, TypeOK, LoopOK, LoopAt, Map
  <2>4. a[p] <= MAXPAGE /\ Mapping[new[p]] \in SUBSET Nat
    BY <2>1, <2>3, MapTypes DEF Map
  <2>5. /\ Solid(Mapping[new[p]] \ (lo[p] .. a[p] - 1))
        /\ 0 .. lo[p] - 1 \subseteq Mapping[new[p]] \ (lo[p] .. a[p] - 1)
    BY <2>3, <2>4, SolidKept
  <2>7. LoopAt(p)'
    BY <1>0, <1>4, <2>2, <2>3, <2>4, <2>5
       DEF UnmapStartOk, Local, Going, proc, TypeOK, LoopAt, Map
  <2>8. ASSUME NEW q \in Proc, q # p PROVE LoopAt(q)'
    <3>1. LoopSame(q)
      BY <1>0, <1>4, <2>8
         DEF UnmapStartOk, Local, Going, proc, TabSame, SameAt, TypeOK, PcOp,
         Label, LoopSame
    <3> QED BY <1>0, <3>1, LoopFrame DEF LoopOK
  <2> QED BY <2>7, <2>8 DEF LoopOK
<1>5. ASSUME NEW p \in Proc, MapPageOk(p) PROVE LoopOK'
  <2>1. new[p] \in Page /\ new[p] # Nil
    BY <1>0, <1>5 DEF MapPageOk, TypeOK, PcOp
  <2>2. /\ Mapping'[new[p]] = Mapping[new[p]] \cup {a[p]} /\ a[p] \notin Mapping[new[p]]
        /\ \A r \in Page \ {new[p]} : Mapping'[r] = Mapping[r]
    BY <1>5 DEF MapPageOk, TabMap, SameAt
  <2>3. /\ Solid(Mapping[new[p]]) /\ 0 .. a[p] - 1 \subseteq Mapping[new[p]]
        /\ lo[p] <= a[p] /\ a[p] \in Nat /\ lo[p] \in Nat
        /\ op[p] \in {"sbrk", "underflow"} => lo[p] = sz[p]
        /\ op[p] = "fork" => hi[p] = sz[p]
    BY <1>0, <1>5 DEF MapPageOk, TypeOK, LoopOK, LoopAt, Map
  <2>4. Mapping[new[p]] \in SUBSET Nat
    BY <2>1, MapTypes DEF Map
  <2>5. /\ Solid(Mapping'[new[p]])
        /\ Mapping'[new[p]] \subseteq 0 .. (a[p] + 1) - 1
        /\ 0 .. (a[p] + 1) - 1 \subseteq Mapping'[new[p]]
    BY <2>2, <2>3, <2>4, SolidGrows
  <2>6. /\ a'[p] = a[p] + 1 /\ lo'[p] = lo[p] /\ hi'[p] = hi[p] /\ sz'[p] = sz[p]
        /\ new'[p] = new[p] /\ op'[p] = op[p] /\ pc'[p] = "alloc"
        /\ lo'[p] <= a'[p]
    BY <1>0, <1>5, <2>3 DEF MapPageOk, Local, proc, TypeOK
  <2>7. LoopAt(p)'
    BY <2>3, <2>5, <2>6 DEF LoopAt, Map
  <2>8. ASSUME NEW q \in Proc, q # p PROVE LoopAt(q)'
    <3>1. LoopSame(q)
      BY <1>0, <1>5, <2>8, <2>1, <2>2, Apart
         DEF MapPageOk, Local, proc, TabSame, SameAt, TypeOK, PcOp, Label,
         LoopSame
    <3> QED BY <1>0, <3>1, LoopFrame DEF LoopOK
  <2> QED BY <2>7, <2>8 DEF LoopOK
<1>6. ASSUME NEW p \in Proc, UnmapOk(p) PROVE LoopOK'
  <2>1. new[p] \in Page /\ new[p] # Nil
    BY <1>0, <1>6 DEF UnmapOk, TypeOK, PcOp
  <2>2. /\ Mapping'[new[p]] = Mapping[new[p]] \ {lo[p]}
        /\ \A r \in Page \ {new[p]} : Mapping'[r] = Mapping[r]
    BY <1>6 DEF UnmapOk, TabUnmap, SameAt
  <2>3. /\ lo[p] < a[p] /\ lo[p] \in Nat /\ a[p] \in Nat /\ a[p] <= MAXPAGE
        /\ op[p] \in {"sbrk", "underflow"} =>
             /\ Solid(Mapping[new[p]] \ (lo[p] .. a[p] - 1))
             /\ 0 .. sz[p] - 1 \subseteq Mapping[new[p]] \ (lo[p] .. a[p] - 1)
    BY <1>0, <1>6 DEF UnmapOk, TypeOK, LoopOK, LoopAt, Map
  <2>4. lo[p] .. a[p] - 1 = {lo[p]} \cup (lo[p] + 1 .. a[p] - 1)
    BY <2>3
  <2>5. Mapping'[new[p]] \ (lo[p] + 1 .. a[p] - 1) = Mapping[new[p]] \ (lo[p] .. a[p] - 1)
    BY <2>2, <2>4
  <2>6. /\ a'[p] = a[p] /\ lo'[p] = lo[p] + 1 /\ sz'[p] = sz[p]
        /\ new'[p] = new[p] /\ op'[p] = op[p] /\ pc'[p] = "unmap"
    BY <1>0, <1>6 DEF UnmapOk, Local, proc, TypeOK
  <2>7. LoopAt(p)'
    BY <2>3, <2>5, <2>6 DEF LoopAt, Map
  <2>8. ASSUME NEW q \in Proc, q # p PROVE LoopAt(q)'
    <3>1. LoopSame(q)
      BY <1>0, <1>6, <2>8, <2>1, <2>2, Apart
         DEF UnmapOk, Local, proc, TabSame, SameAt, TypeOK, PcOp, Label, LoopSame
    <3> QED BY <1>0, <3>1, LoopFrame DEF LoopOK
  <2> QED BY <2>7, <2>8 DEF LoopOK
<1>7. ASSUME NEW p \in Proc, CreateRootOk(p) PROVE LoopOK'
  <2>1. PICK x \in Page :
          TabNew(x) /\ Local(p, "high", op[p], kid[p], x, a[p], lo[p], hi[p])
    BY <1>7 DEF CreateRootOk
  <2>2. /\ Mapping'[x] = {} /\ pc[p] = "root" /\ UNCHANGED sz
        /\ \A r \in Page \ {x} : Mapping'[r] = Mapping[r]
        /\ \A q \in Proc : new[q] # Nil => new[q] \in Page \ {x}
    BY <1>0, <1>7, <2>1 DEF CreateRootOk, proc, TabNew, SameAt, TypeOK, Tables
  <2>7. LoopAt(p)'
    BY <1>0, <2>1, <2>2 DEF Local, TypeOK, LoopOK, LoopAt, Map
  <2>8. ASSUME NEW q \in Proc, q # p PROVE LoopAt(q)'
    <3>1. LoopSame(q)
      BY <1>0, <2>1, <2>2, <2>8 DEF Local, TypeOK, PcOp, Label, LoopSame
    <3> QED BY <1>0, <3>1, LoopFrame DEF LoopOK
  <2> QED BY <2>7, <2>8 DEF LoopOK
<1>8. ASSUME NEW p \in Proc, ForkTableOk(p) PROVE LoopOK'
  <2>1. new[p] \in Page /\ Mapping[new[p]] = {} /\ a[p] = 0 /\ lo[p] = 0
    BY <1>0, <1>8 DEF ForkTableOk, TypeOK, PcOp, LoopOK, LoopAt, Map
  <2>2. Mapping'[new[p]] = {}
    BY <1>8, <2>1 DEF ForkTableOk, TabSame, SameAt
  <2>3. /\ a'[p] = 0 /\ lo'[p] = 0 /\ hi'[p] = sz'[p] /\ new'[p] = new[p]
        /\ op'[p] = "fork" /\ pc'[p] = "alloc"
    BY <1>0, <1>8, <2>1 DEF ForkTableOk, Local, TypeOK
  <2>7. LoopAt(p)'
    BY <2>2, <2>3, SolidEmpty DEF LoopAt, Map
  <2>8. ASSUME NEW q \in Proc, q # p PROVE LoopAt(q)'
    <3>1. LoopSame(q)
      BY <1>0, <1>8, <2>8
         DEF ForkTableOk, Local, TabSame, SameAt, TypeOK, PcOp, Label, LoopSame
    <3> QED BY <1>0, <3>1, LoopFrame DEF LoopOK
  <2> QED BY <2>7, <2>8 DEF LoopOK
<1>9. ASSUME NEW p \in Proc, ForkDoneOk(p) PROVE LoopOK'
  <2>7. LoopAt(p)'
    BY <1>0, <1>9 DEF ForkDoneOk, Local, Back, TypeOK, LoopAt
  <2>8. ASSUME NEW q \in Proc, q # p PROVE LoopAt(q)'
    <3>1. LoopSame(q)
      BY <1>0, <1>9, <2>8
         DEF ForkDoneOk, Local, Back, TabSame, SameAt, TypeOK, PcOp, Label,
         LoopSame, Kids
    <3> QED BY <1>0, <3>1, LoopFrame DEF LoopOK
  <2> QED BY <2>7, <2>8 DEF LoopOK
<1>10. ASSUME NEW p \in Proc, ForkFailedOk(p) PROVE LoopOK'
  <2>7. LoopAt(p)'
    BY <1>0, <1>10 DEF ForkFailedOk, Local, Back, TypeOK, LoopAt
  <2>8. ASSUME NEW q \in Proc, q # p PROVE LoopAt(q)'
    <3>1. LoopSame(q)
      BY <1>0, <1>10, <2>8
         DEF ForkFailedOk, Local, Back, TabSame, SameAt, TypeOK, PcOp, Label,
         LoopSame, Kids
    <3> QED BY <1>0, <3>1, LoopFrame DEF LoopOK
  <2> QED BY <2>7, <2>8 DEF LoopOK
<1>11. ASSUME NEW p \in Proc, ExecOk(p) PROVE LoopOK'
  <2>7. LoopAt(p)'
    BY <1>0, <1>11 DEF ExecOk, Local, InUser, proc, TypeOK, LoopOK, LoopAt
  <2>8. ASSUME NEW q \in Proc, q # p PROVE LoopAt(q)'
    <3>1. LoopSame(q)
      BY <1>0, <1>11, <2>8
         DEF ExecOk, Local, InUser, proc, TabSame, SameAt, TypeOK, PcOp, Label,
         LoopSame
    <3> QED BY <1>0, <3>1, LoopFrame DEF LoopOK
  <2> QED BY <2>7, <2>8 DEF LoopOK
<1>12. ASSUME NEW p \in Proc, ExecTableOk(p) PROVE LoopOK'
  <2>1. new[p] \in Page /\ Mapping[new[p]] = {} /\ a[p] = 0 /\ hi[p] = 0
    BY <1>0, <1>12 DEF ExecTableOk, TypeOK, PcOp, LoopOK, LoopAt, Map
  <2>2. Mapping'[new[p]] = {}
    BY <1>12, <2>1 DEF ExecTableOk, TabSame, SameAt
  <2>7. LoopAt(p)'
    BY <1>0, <1>12, <2>1, <2>2, SolidEmpty
       DEF ExecTableOk, Local, Going, proc, TypeOK, LoopAt, Map
  <2>8. ASSUME NEW q \in Proc, q # p PROVE LoopAt(q)'
    <3>1. LoopSame(q)
      BY <1>0, <1>12, <2>8
         DEF ExecTableOk, Local, Going, proc, TabSame, SameAt, TypeOK, PcOp,
         Label, LoopSame
    <3> QED BY <1>0, <3>1, LoopFrame DEF LoopOK
  <2> QED BY <2>7, <2>8 DEF LoopOK
<1>13. ASSUME NEW p \in Proc, ExecSegmentOk(p) PROVE LoopOK'
  <2>1. PICK n \in Nat, o \in {"exec", "stack"} :
          Local(p, "alloc", o, kid[p], new[p], a[p], hi[p], n)
    BY <1>13 DEF ExecSegmentOk
  <2>2. /\ new[p] \in Page /\ Mapping[new[p]] = 0 .. a[p] - 1 /\ hi[p] <= a[p]
        /\ UNCHANGED sz /\ TabSame /\ a[p] \in Nat
    BY <1>0, <1>13 DEF ExecSegmentOk, proc, TypeOK, PcOp, LoopOK, LoopAt, Map
  <2>3. Mapping'[new[p]] = 0 .. a[p] - 1 /\ Solid(0 .. a[p] - 1)
    BY <2>2, SolidInterval DEF TabSame, SameAt
  <2>7. LoopAt(p)'
    BY <1>0, <2>1, <2>2, <2>3 DEF Local, TypeOK, LoopAt, Map
  <2>8. ASSUME NEW q \in Proc, q # p PROVE LoopAt(q)'
    <3>1. LoopSame(q)
      BY <1>0, <2>1, <2>2, <2>8
         DEF Local, TabSame, SameAt, TypeOK, PcOp, Label, LoopSame
    <3> QED BY <1>0, <3>1, LoopFrame DEF LoopOK
  <2> QED BY <2>7, <2>8 DEF LoopOK
<1>14. ASSUME NEW p \in Proc, ExecSegmentDoneOk(p) PROVE LoopOK'
  <2>1. new[p] \in Page /\ Mapping[new[p]] = 0 .. a[p] - 1
    BY <1>0, <1>14 DEF ExecSegmentDoneOk, TypeOK, PcOp, LoopOK, LoopAt, Fresh, Map
  <2>2. Mapping'[new[p]] = 0 .. a[p] - 1
    BY <1>14, <2>1 DEF ExecSegmentDoneOk, TabSame, SameAt
  <2>7. LoopAt(p)'
    BY <1>0, <1>14, <2>2
       DEF ExecSegmentDoneOk, Local, Going, proc, TypeOK, LoopAt, Map
  <2>8. ASSUME NEW q \in Proc, q # p PROVE LoopAt(q)'
    <3>1. LoopSame(q)
      BY <1>0, <1>14, <2>8
         DEF ExecSegmentDoneOk, Local, Going, proc, TabSame, SameAt, TypeOK,
         PcOp, Label, LoopSame
    <3> QED BY <1>0, <3>1, LoopFrame DEF LoopOK
  <2> QED BY <2>7, <2>8 DEF LoopOK
<1>15. ASSUME NEW p \in Proc, ExecCommitOk(p) PROVE LoopOK'
  <2>1. sz[p] <= MAXPAGE
    <3>1. pagetable[p] \in Page /\ state[p] = "LIVE"
      BY <1>0, <1>15 DEF ExecCommitOk, TypeOK, PcOp, Kids
    <3>2. 0 .. sz[p] - 1 \subseteq Map(pagetable[p]) /\ sz[p] \in Nat
      BY <1>0, <3>1 DEF SizeOK, SizeAt, TypeOK
    <3> QED BY <3>1, <3>2, MapTypes
  <2>7. LoopAt(p)'
    BY <1>0, <1>15, <2>1 DEF ExecCommitOk, Local, TypeOK, LoopAt
  <2>8. ASSUME NEW q \in Proc, q # p PROVE LoopAt(q)'
    <3>1. LoopSame(q)
      BY <1>0, <1>15, <2>8
         DEF ExecCommitOk, Local, TabSame, SameAt, TypeOK, PcOp, Label, LoopSame
    <3> QED BY <1>0, <3>1, LoopFrame DEF LoopOK
  <2> QED BY <2>7, <2>8 DEF LoopOK
<1>16. ASSUME NEW p \in Proc, FreeRootOk(p) PROVE LoopOK'
  <2>1. new[p] # Nil
    BY <1>0, <1>16 DEF FreeRootOk, PcOp
  <2>2. \A r \in Page \ {new[p]} : Mapping'[r] = Mapping[r]
    BY <1>16 DEF FreeRootOk, TabGone, SameAt
  <2>7. LoopAt(p)'
    BY <1>0, <1>16 DEF FreeRootOk, Local, Back, proc, TypeOK, LoopAt
  <2>8. ASSUME NEW q \in Proc, q # p PROVE LoopAt(q)'
    <3>1. LoopSame(q)
      BY <1>0, <1>16, <2>8, <2>1, <2>2, Apart
         DEF FreeRootOk, Local, Back, proc, TabSame, SameAt, TypeOK, PcOp, Label,
         LoopSame
    <3> QED BY <1>0, <3>1, LoopFrame DEF LoopOK
  <2> QED BY <2>7, <2>8 DEF LoopOK
<1>17. ASSUME NEW p \in Proc, SbrkOk(p) PROVE LoopOK'
  <2>1. PICK n \in Nat, o \in {"sbrk", "underflow"} :
          Local(p, "alloc", o, kid[p], pagetable[p], sz[p], sz[p], n)
    BY <1>17 DEF SbrkOk
  <2>2. /\ pagetable[p] \in Page /\ sz[p] \in Nat /\ UNCHANGED sz /\ TabSame
        /\ 0 .. sz[p] - 1 \subseteq Mapping[pagetable[p]]
        /\ Solid(Mapping[pagetable[p]])
    BY <1>0, <1>17
       DEF SbrkOk, InUser, proc, TypeOK, PcOp, Kids, SizeOK, SizeAt, Map
  <2>3. Mapping'[pagetable[p]] = Mapping[pagetable[p]]
    BY <2>2 DEF TabSame, SameAt
  <2>4. /\ a'[p] = sz[p] /\ lo'[p] = sz[p] /\ sz'[p] = sz[p]
        /\ new'[p] = pagetable[p] /\ op'[p] \in {"sbrk", "underflow"} /\ pc'[p] = "alloc"
    BY <1>0, <2>1, <2>2 DEF Local, TypeOK
  <2>7. LoopAt(p)'
    BY <2>2, <2>3, <2>4 DEF LoopAt, Map, Fresh
  <2>8. ASSUME NEW q \in Proc, q # p PROVE LoopAt(q)'
    <3>1. LoopSame(q)
      BY <1>0, <2>1, <2>2, <2>8
         DEF Local, TabSame, SameAt, TypeOK, PcOp, Label, LoopSame
    <3> QED BY <1>0, <3>1, LoopFrame DEF LoopOK
  <2> QED BY <2>7, <2>8 DEF LoopOK
<1>18. ASSUME NEW p \in Proc, SbrkDoneOk(p) PROVE LoopOK'
  <2>7. LoopAt(p)'
    BY <1>0, <1>18 DEF SbrkDoneOk, Local, Back, TypeOK, LoopAt
  <2>8. ASSUME NEW q \in Proc, q # p PROVE LoopAt(q)'
    <3>1. LoopSame(q)
      BY <1>0, <1>18, <2>8
         DEF SbrkDoneOk, Local, Back, TabSame, SameAt, TypeOK, PcOp, Label,
         LoopSame
    <3> QED BY <1>0, <3>1, LoopFrame DEF LoopOK
  <2> QED BY <2>7, <2>8 DEF LoopOK
<1>19. ASSUME NEW p \in Proc, ExitOk(p) PROVE LoopOK'
  <2>1. ASSUME NEW q \in Proc PROVE LoopAt(q)'
    <3>1. LoopSame(q)
      BY <1>0, <1>19
         DEF ExitOk, local, TabSame, SameAt, TypeOK, PcOp, Label, LoopSame
    <3> QED BY <1>0, <3>1, LoopFrame DEF LoopOK
  <2> QED BY <2>1 DEF LoopOK
<1>20. ASSUME NEW p \in Proc, ReapOk(p) PROVE LoopOK'
  <2>1. ASSUME NEW q \in Proc PROVE LoopAt(q)'
    <3>1. LoopSame(q)
      BY <1>0, <1>20
         DEF ReapOk, local, TabSame, SameAt, TypeOK, PcOp, Label, LoopSame
    <3> QED BY <1>0, <3>1, LoopFrame DEF LoopOK
  <2> QED BY <2>1 DEF LoopOK
<1>21. ASSUME NEW p \in Proc, NEW q \in Proc, ForkPanicOk(p, q) PROVE LoopOK'
  <2>7. LoopAt(p)'
    BY <1>0, <1>21 DEF ForkPanicOk, Local, InUser, TypeOK, LoopOK, LoopAt
  <2>8. ASSUME NEW s \in Proc, s # p PROVE LoopAt(s)'
    <3>1. LoopSame(s)
      BY <1>0, <1>21, <2>8
         DEF ForkPanicOk, Local, InUser, TabSame, SameAt, TypeOK, PcOp, Label,
         LoopSame
    <3> QED BY <1>0, <3>1, LoopFrame DEF LoopOK
  <2> QED BY <2>7, <2>8 DEF LoopOK
<1>22. ASSUME NEW p \in Proc, NEW q \in Proc, ForkOk(p, q) PROVE LoopOK'
  <2>7. LoopAt(p)'
    BY <1>0, <1>22 DEF ForkOk, Local, InUser, TypeOK, LoopOK, LoopAt
  <2>8. ASSUME NEW s \in Proc, s # p PROVE LoopAt(s)'
    <3>1. LoopSame(s)
      BY <1>0, <1>22, <2>8
         DEF ForkOk, Local, InUser, TabSame, SameAt, TypeOK, PcOp, Label,
         LoopSame
    <3> QED BY <1>0, <3>1, LoopFrame DEF LoopOK
  <2> QED BY <2>7, <2>8 DEF LoopOK
<1> QED
  BY <1>1, <1>2, <1>3, <1>4, <1>5, <1>6, <1>7, <1>8, <1>9, <1>10, <1>11, <1>12,
     <1>13, <1>14, <1>15, <1>16, <1>17, <1>18, <1>19, <1>20, <1>21, <1>22 DEF
     StepOk

-----------------------------------------------------------------------------
(***************************************************************************)
(* The inductive invariant.                                                *)
(***************************************************************************)
LEMMA NextIInv == IInv /\ [Next]_vars => IInv'
<1> SUFFICES ASSUME IInv, [Next]_vars PROVE IInv'
  OBVIOUS
<1>1. PageStep /\ StepOk
  BY StepForms DEF StepGood
<1>2. PageTypes' /\ Exclusive'
  BY <1>1, PageTypesKept, PageMoves DEF IInv
<1> QED
  BY <1>1, <1>2, TypeOKKept, PcOpKept, KidsKept, TablesKept, SizeOKKept, LoopOKKept
     DEF IInv

(***************************************************************************)
(* The first process's pages are those that kinit left, in order.          *)
(***************************************************************************)
LEMMA InitIInv == Init => IInv
<1> SUFFICES ASSUME Init PROVE IInv
  OBVIOUS
<1> DEFINE high == [l \in 1 .. LEVELS |-> 2 + l]
           low  == [l \in 1 .. LEVELS |-> 2 + LEVELS + l]
           code == 2 * LEVELS + 3
           pte  == [Unmapped EXCEPT ![0] = code]
           tab  == [root |-> TRUE, low |-> low, high |-> high, pte |-> pte]
<1> USE ConstantFacts
<1>1. /\ LEVELS \in Nat \ {0} /\ PHYSPAGES \in Nat /\ MAXPAGE \in Nat
      /\ MAXPAGE > PHYSPAGES /\ code \in Nat /\ code <= PHYSPAGES
  BY VmAssumption
<1>2. /\ freelist = [x \in Page |-> IF x > code THEN 1 ELSE 0]
      /\ table = [r \in Page |-> IF r = 2 THEN tab ELSE NoTable]
      /\ trapframe = [p \in Proc |-> IF p = initp THEN 1 ELSE Nil]
      /\ mem = [p \in Proc |-> Nil]
  BY DEF Init
<1>3. /\ state = [p \in Proc |-> IF p = initp THEN "LIVE" ELSE "UNUSED"]
      /\ pagetable = [p \in Proc |-> IF p = initp THEN 2 ELSE Nil]
      /\ sz = [p \in Proc |-> IF p = initp THEN 1 ELSE 0]
      /\ pc = [p \in Proc |-> "user"] /\ op = [p \in Proc |-> "none"]
      /\ kid = [p \in Proc |-> Nil] /\ new = [p \in Proc |-> Nil]
      /\ a = [p \in Proc |-> 0] /\ lo = [p \in Proc |-> 0] /\ hi = [p \in Proc |-> 0]
  BY DEF Init
<1>4. 1 \in Page /\ 2 \in Page /\ code \in Page /\ 0 \in VPage /\ 1 # Nil /\ 2 # Nil
  BY <1>1 DEF Page, VPage, Nil
<1>5. high \in [1 .. LEVELS -> Page] /\ low \in [1 .. LEVELS -> Page]
  BY <1>1 DEF Page
<1>6. high \in Seq(Page) /\ low \in Seq(Page)
  BY <1>1, <1>5
<1>7. pte \in [VPage -> Page \cup {Nil}] /\ pte[0] = code
  BY <1>4 DEF Unmapped
<1>8. \A v \in VPage \ {0} : pte[v] = Nil
  BY DEF Unmapped
<1> HIDE DEF high, low, pte, code
<1>9. tab \in Table /\ NoTable \in Table
  BY <1>6, <1>7 DEF Table, NoTable, Unmapped
<1>10. tab.root /\ tab.low = low /\ tab.high = high /\ tab.pte = pte /\ ~NoTable.root
  BY DEF NoTable
<1> HIDE DEF tab
<1>11. PageTypes
  BY <1>2, <1>4, <1>9 DEF PageTypes
<1>12. \A r \in Page : table[r].root <=> r = 2
  BY <1>2, <1>10
<1>13. table[2] = tab
  BY <1>2, <1>4
<1>14. TypeOK
  BY <1>3, <1>4 DEF TypeOK, Label, Op
<1>15. ASSUME NEW k, NEW i, NEW j, NEW x \in Page, UseAt(k, i, j, x)
       PROVE  \/ k = "free" /\ i = x /\ j = 1 /\ x > code
              \/ k = "trapframe" /\ i = initp /\ j = 0 /\ x = 1
              \/ k = "root" /\ i = 2 /\ j = 0 /\ x = 2
              \/ k = "high" /\ i = 2 /\ j \in 1 .. LEVELS /\ x = 2 + j
              \/ k = "low" /\ i = 2 /\ j \in 1 .. LEVELS /\ x = 2 + LEVELS + j
              \/ k = "user" /\ i = 2 /\ j = 0 /\ x = code
  <2>1. CASE k = "free"
    BY <1>2, <1>15, <2>1 DEF UseAt
  <2>2. CASE k = "trapframe" \/ k = "unmapped"
    BY <1>2, <1>15, <2>2 DEF UseAt
  <2>3. CASE k = "root"
    BY <1>12, <1>15, <2>3 DEF UseAt
  <2>4. CASE k = "high"
    <3>1. i = 2 /\ j \in DOMAIN high /\ high[j] = x
      BY <1>10, <1>12, <1>13, <1>15, <2>4 DEF UseAt
    <3> QED BY <2>4, <3>1 DEF high
  <2>5. CASE k = "low"
    <3>1. i = 2 /\ j \in DOMAIN low /\ low[j] = x
      BY <1>10, <1>12, <1>13, <1>15, <2>5 DEF UseAt
    <3> QED BY <2>5, <3>1 DEF low
  <2>6. CASE k = "user"
    <3>1. i = 2 /\ j \in VPage /\ pte[j] = x
      BY <1>10, <1>12, <1>13, <1>15, <2>6 DEF UseAt
    <3> QED BY <1>7, <1>8, <2>6, <3>1
  <2> QED BY <1>15, <2>1, <2>2, <2>3, <2>4, <2>5, <2>6 DEF UseAt
<1>16. Exclusive
  <2> SUFFICES ASSUME NEW x \in Page, NEW k, NEW i, NEW j, NEW l, NEW m, NEW n,
                      UseAt(k, i, j, x), UseAt(l, m, n, x)
               PROVE  k = l /\ i = m /\ j = n
    BY DEF Exclusive
  <2>1. x \in Nat
    BY DEF Page
  <2>2. k = l
    BY <1>1, <1>15, <2>1 DEF code
  <2> QED BY <1>1, <1>15, <2>1, <2>2
<1>17. PcOp /\ Kids /\ Tables
  BY <1>2, <1>3, <1>4, <1>12 DEF PcOp, Kids, Tables, Growing
<1>18. Mapping[2] = {0}
  BY <1>1, <1>4, <1>7, <1>8, <1>10, <1>13 DEF Mapping
<1>19. 0 .. 1 - 1 = {0} /\ Solid({0})
  BY DEF Solid
<1>20. SizeOK
  BY <1>3, <1>18, <1>19 DEF SizeOK, SizeAt, Map
<1>21. LoopOK
  BY <1>3 DEF LoopOK, LoopAt
<1> QED BY <1>11, <1>14, <1>16, <1>17, <1>20, <1>21 DEF IInv

(***************************************************************************)
(* Every reachable state satisfies the invariant.                          *)
(***************************************************************************)
THEOREM InductiveInvariant == Spec => []IInv
<1>1. Init => IInv
  BY InitIInv
<1>2. IInv /\ [Next]_vars => IInv'
  BY NextIInv
<1> QED BY <1>1, <1>2, PTL DEF Spec

\* The element of Uses that UseAt(k, i, j, x) stands for.
UseOf(k, i, j, x) ==
  IF k = "free" THEN <<k, j, x>>
  ELSE IF k \in {"trapframe", "unmapped", "root"} THEN <<k, i, x>>
  ELSE <<k, <<i, j>>, x>>

LEMMA UsesForm ==
  ASSUME PageTypes, NEW u \in Uses, u[3] # Nil
  PROVE  u[3] \in Page /\ \E k, i, j : UseAt(k, i, j, u[3]) /\ u = UseOf(k, i, j, u[3])
<1> USE ConstantFacts
<1> DEFINE Good(w) ==
      w[3] \in Page /\ \E k, i, j : UseAt(k, i, j, w[3]) /\ w = UseOf(k, i, j, w[3])
<1>1. ASSUME NEW x \in Page, NEW i \in 1 .. freelist[x], u = <<"free", i, x>>
      PROVE  Good(u)
  <2>1. UseAt("free", x, i, x) /\ u = UseOf("free", x, i, x)
    BY <1>1 DEF UseAt, UseOf
  <2> QED BY <1>1, <2>1
<1>2. ASSUME NEW p \in Proc, u = <<"trapframe", p, trapframe[p]>> PROVE Good(u)
  <2>1. UseAt("trapframe", p, 0, u[3]) /\ u = UseOf("trapframe", p, 0, u[3])
    BY <1>2 DEF UseAt, UseOf
  <2> QED BY <1>2, <2>1 DEF PageTypes
<1>3. ASSUME NEW p \in Proc, u = <<"unmapped", p, mem[p]>> PROVE Good(u)
  <2>1. UseAt("unmapped", p, 0, u[3]) /\ u = UseOf("unmapped", p, 0, u[3])
    BY <1>3 DEF UseAt, UseOf
  <2> QED BY <1>3, <2>1 DEF PageTypes
<1>4. ASSUME NEW r \in Root, u = <<"root", r, r>> PROVE Good(u)
  <2>1. UseAt("root", r, 0, u[3]) /\ u = UseOf("root", r, 0, u[3]) /\ r \in Page
    BY <1>4 DEF UseAt, UseOf, Root
  <2> QED BY <1>4, <2>1
<1>5. ASSUME NEW r \in Root, NEW l \in DOMAIN table[r].low,
             u = <<"low", <<r, l>>, table[r].low[l]>>
      PROVE  Good(u)
  <2>1. UseAt("low", r, l, u[3]) /\ u = UseOf("low", r, l, u[3])
    BY <1>5 DEF UseAt, UseOf, Root
  <2>2. table[r].low \in Seq(Page)
    BY DEF Root, PageTypes, Table
  <2>3. u[3] \in Page
    BY <1>5, <2>2
  <2> QED BY <2>1, <2>3
<1>6. ASSUME NEW r \in Root, NEW l \in DOMAIN table[r].high,
             u = <<"high", <<r, l>>, table[r].high[l]>>
      PROVE  Good(u)
  <2>1. UseAt("high", r, l, u[3]) /\ u = UseOf("high", r, l, u[3])
    BY <1>6 DEF UseAt, UseOf, Root
  <2>2. table[r].high \in Seq(Page)
    BY DEF Root, PageTypes, Table
  <2>3. u[3] \in Page
    BY <1>6, <2>2
  <2> QED BY <2>1, <2>3
<1>7. ASSUME NEW r \in Root, NEW v \in VPage, u = <<"user", <<r, v>>, table[r].pte[v]>>
      PROVE  Good(u)
  <2>1. UseAt("user", r, v, u[3]) /\ u = UseOf("user", r, v, u[3])
    BY <1>7 DEF UseAt, UseOf, Root
  <2>2. u[3] \in Page
    BY <1>7 DEF Root, PageTypes, Table
  <2> QED BY <2>1, <2>2
<1> HIDE DEF Good
<1> DEFINE frees == UNION {{<<"free", i, x>> : i \in 1 .. freelist[x]} : x \in Page}
           frames == {<<"trapframe", p, trapframe[p]>> : p \in Proc}
           mems == {<<"unmapped", p, mem[p]>> : p \in Proc}
           roots == {<<"root", r, r>> : r \in Root}
           lows == UNION {{<<"low", <<r, l>>, table[r].low[l]>> :
                             l \in DOMAIN table[r].low} : r \in Root}
           highs == UNION {{<<"high", <<r, l>>, table[r].high[l]>> :
                             l \in DOMAIN table[r].high} : r \in Root}
           users == UNION {{<<"user", <<r, v>>, table[r].pte[v]>> :
                             v \in VPage} : r \in Root}
<1>8. Uses = frees \cup frames \cup mems \cup roots \cup lows \cup highs \cup users
  BY DEF Uses
<1>9. Good(u)
  <2>1. CASE u \in frees
    BY <1>1, <2>1
  <2>2. CASE u \in frames \/ u \in mems \/ u \in roots
    BY <1>2, <1>3, <1>4, <2>2
  <2>3. CASE u \in lows
    BY <1>5, <2>3
  <2>4. CASE u \in highs
    BY <1>6, <2>4
  <2>5. CASE u \in users
    BY <1>7, <2>5
  <2> HIDE DEF frees, frames, mems, roots, lows, highs, users
  <2> QED BY <1>8, <2>1, <2>2, <2>3, <2>4, <2>5
<1> QED BY <1>9 DEF Good

(***************************************************************************)
(* A physical page has one use at a time, in every run of fork, exec,      *)
(* sbrk, exit and wait with memory running out anywhere: kalloc never      *)
(* hands out a page in use and kfree never gets one twice.                 *)
(***************************************************************************)
THEOREM PageExclusiveHolds == Spec => []PageExclusive
<1>1. IInv => PageExclusive
  <2> SUFFICES ASSUME IInv, NEW u \in Uses, NEW w \in Uses,
                      u[3] # Nil, w[3] # Nil, u[3] = w[3]
               PROVE  u = w
    BY DEF PageExclusive
  <2>1. PageTypes /\ Exclusive
    BY DEF IInv
  <2>2. PICK k, i, j : UseAt(k, i, j, u[3]) /\ u = UseOf(k, i, j, u[3])
    BY <2>1, UsesForm
  <2>3. PICK l, m, n : UseAt(l, m, n, w[3]) /\ w = UseOf(l, m, n, w[3])
    BY <2>1, UsesForm
  <2>4. u[3] \in Page
    BY <2>1, UsesForm
  <2>5. k = l /\ i = m /\ j = n
    BY <2>1, <2>2, <2>3, <2>4 DEF Exclusive
  <2> QED BY <2>2, <2>3, <2>5
<1> QED BY <1>1, InductiveInvariant, PTL

(***************************************************************************)
(* The memory of a process reaches p->sz without a gap, through failures   *)
(* of fork, exec and sbrk.                                                 *)
(***************************************************************************)
THEOREM MappedBelowSzHolds == Spec => []MappedBelowSz
<1>1. IInv => MappedBelowSz
  <2> SUFFICES ASSUME IInv, NEW p \in Proc, state[p] \in {"LIVE", "ZOMBIE"}
               PROVE  /\ table[pagetable[p]].root
                      /\ 0 .. sz[p] - 1 \subseteq Mapped(p)
                      /\ At(p, "user") =>
                           \A v \in Mapped(p) : 0 .. v \subseteq Mapped(p)
    BY DEF MappedBelowSz
  <2>1. TypeOK /\ PcOp /\ Kids /\ Tables /\ SizeOK
    BY DEF IInv
  <2>2. pagetable[p] \in Page /\ table[pagetable[p]].root
    BY <2>1 DEF TypeOK, Kids, Tables
  <2>3. Mapped(p) = Map(pagetable[p])
    BY <2>2 DEF Mapped, Map, Mapping
  <2>4. /\ 0 .. sz[p] - 1 \subseteq Map(pagetable[p])
        /\ pc[p] = "user" => Solid(Map(pagetable[p]))
    BY <2>1 DEF SizeOK, SizeAt, PcOp
  <2> QED BY <2>2, <2>3, <2>4 DEF At, Solid
<1> QED BY <1>1, InductiveInvariant, PTL

-----------------------------------------------------------------------------
(***************************************************************************)
(* No page is lost but the table that allocproc overwrites.                *)
(***************************************************************************)
\* What is in use through a table with root r.
Held == [r \in Page |-> PagesOf(r)]

Referenced(x) ==
  \E p \in Proc :
    \/ x = trapframe[p] \/ x = mem[p]
    \/ pagetable[p] # Nil /\ x \in Held[pagetable[p]]
    \/ new[p] # Nil /\ x \in Held[new[p]]

LEMMA ReachableForm ==
  ASSUME TypeOK, NEW x
  PROVE  x \in Reachable <=> x # Nil /\ (x \in Free \/ Referenced(x))
<1>1. \A p \in Proc : /\ pagetable[p] # Nil => Held[pagetable[p]] = PagesOf(pagetable[p])
                      /\ new[p] # Nil => Held[new[p]] = PagesOf(new[p])
                      /\ pagetable[p] = Nil => PagesOf(pagetable[p]) = {}
                      /\ new[p] = Nil => PagesOf(new[p]) = {}
  BY DEF Held, TypeOK, PagesOf
<1>2. x \in Reachable <=>
        /\ x # Nil
        /\ \/ x \in Free
           \/ \E p \in Proc : \/ x = trapframe[p] \/ x = mem[p]
                              \/ x \in PagesOf(pagetable[p]) \/ x \in PagesOf(new[p])
  BY DEF Reachable
<1> QED BY <1>1, <1>2 DEF Referenced

LEMMA HeldIs ==
  ASSUME PageTypes, NEW r \in Page, NEW x
  PROVE  x \in Held[r] <=>
           \/ x = r
           \/ \E l \in DOMAIN table[r].low : x = table[r].low[l]
           \/ \E l \in DOMAIN table[r].high : x = table[r].high[l]
           \/ \E v \in VPage : x = table[r].pte[v]
BY ConstantFacts DEF Held, PagesOf, ToSet

LEMMA HeldNext ==
  ASSUME NEW r \in Page, NEW x
  PROVE  x \in Held'[r] <=>
           \/ x = r
           \/ \E l \in DOMAIN table'[r].low : x = table'[r].low[l]
           \/ \E l \in DOMAIN table'[r].high : x = table'[r].high[l]
           \/ \E v \in VPage : x = table'[r].pte[v]
BY ConstantFacts DEF Held, PagesOf, ToSet

(***************************************************************************)
(* A page taken is used afterwards, one given back is free, and a table    *)
(* only grows or gives pages back.                                         *)
(***************************************************************************)
Referenced2(x) ==
  \E p \in Proc :
    \/ x = trapframe'[p] \/ x = mem'[p]
    \/ pagetable'[p] # Nil /\ x \in Held'[pagetable'[p]]
    \/ new'[p] # Nil /\ x \in Held'[new'[p]]

LEMMA ReachableNext ==
  ASSUME TypeOK', NEW x
  PROVE  x \in Reachable' <=> x # Nil /\ (x \in Free' \/ Referenced2(x))
<1>1. \A p \in Proc :
        /\ pagetable'[p] # Nil => Held'[pagetable'[p]] = PagesOf(pagetable[p])'
        /\ new'[p] # Nil => Held'[new'[p]] = PagesOf(new[p])'
        /\ pagetable'[p] = Nil => PagesOf(pagetable[p])' = {}
        /\ new'[p] = Nil => PagesOf(new[p])' = {}
  BY DEF Held, TypeOK, PagesOf
<1>2. x \in Reachable' <=>
        /\ x # Nil
        /\ \/ x \in Free'
           \/ \E p \in Proc : \/ x = trapframe'[p] \/ x = mem'[p]
                              \/ x \in PagesOf(pagetable[p])' \/ x \in PagesOf(new[p])'
  BY DEF Reachable
<1> QED BY <1>1, <1>2 DEF Referenced2

Kept(x) == x = Nil \/ x \in Free' \/ Referenced2(x)

Own(x) == \E p \in Proc : x = trapframe[p] \/ x = mem[p]

PagesKept ==
  /\ \A x \in Free : Kept(x)
  /\ \A x : Own(x) => Kept(x)
  /\ \A r \in Page : table[r].root => \A x \in Held[r] : x \in Held'[r] \/ Kept(x)

LEMMA TakeKeeps ==
  ASSUME PageTypes, NEW x, Take(x)
  PROVE  \A y \in Free : y = x \/ y \in Free'
BY DEF PageTypes, Take, Free

LEMMA GiveKeeps ==
  ASSUME PageTypes, NEW x \in Page, freelist' = [freelist EXCEPT ![x] = @ + 1]
  PROVE  x \in Free' /\ \A y \in Free : y \in Free'
BY DEF PageTypes, Free

LEMMA SameHeld ==
  ASSUME NEW r \in Page, table'[r] = table[r]
  PROVE  Held'[r] = Held[r]
BY DEF Held, PagesOf

LEMMA OwnSame ==
  ASSUME UNCHANGED <<trapframe, mem>>
  PROVE  \A x : Own(x) => Kept(x)
BY DEF Own, Kept, Referenced2

LEMMA AppendKeeps ==
  ASSUME NEW s \in Seq(Page), NEW x \in Page
  PROVE  /\ \A j \in DOMAIN s : j \in DOMAIN Append(s, x) /\ Append(s, x)[j] = s[j]
         /\ \E j \in DOMAIN Append(s, x) : Append(s, x)[j] = x
<1>1. /\ Append(s, x) \in Seq(Page) /\ Len(Append(s, x)) = Len(s) + 1
      /\ \A j \in 1 .. Len(s) : Append(s, x)[j] = s[j]
      /\ Append(s, x)[Len(s) + 1] = x
  BY AppendProperties
<1>2. DOMAIN Append(s, x) = 1 .. Len(s) + 1 /\ DOMAIN s = 1 .. Len(s) /\ Len(s) \in Nat
  BY <1>1, LenProperties
<1>3. Len(s) + 1 \in DOMAIN Append(s, x)
  BY <1>2
<1>4. \A j \in 1 .. Len(s) : j \in 1 .. Len(s) + 1
  BY <1>2
<1> QED BY <1>1, <1>2, <1>3, <1>4

LEMMA FrontKeeps ==
  ASSUME NEW s \in Seq(Page), s # <<>>
  PROVE  /\ Last(s) \in Page
         /\ \A j \in DOMAIN s :
              s[j] = Last(s) \/ (j \in DOMAIN Front(s) /\ Front(s)[j] = s[j])
<1>1. Len(s) \in Nat /\ DOMAIN s = 1 .. Len(s) /\ Len(s) # 0
  BY LenProperties, EmptySeq
<1>2. /\ SubSeq(s, 1, Len(s) - 1) \in Seq(Page)
      /\ Len(SubSeq(s, 1, Len(s) - 1)) = Len(s) - 1
      /\ \A j \in 1 .. Len(s) - 1 : SubSeq(s, 1, Len(s) - 1)[j] = s[j]
  BY <1>1
<1>3. DOMAIN SubSeq(s, 1, Len(s) - 1) = 1 .. Len(s) - 1
  BY <1>1, <1>2, LenProperties
<1>4. s[Len(s)] \in Page
  BY <1>1
<1>5. ASSUME NEW j \in 1 .. Len(s), j # Len(s)
      PROVE  /\ j \in DOMAIN SubSeq(s, 1, Len(s) - 1)
             /\ SubSeq(s, 1, Len(s) - 1)[j] = s[j]
  <2>1. \A n \in Nat : \A i \in 1 .. n : i # n => i \in 1 .. n - 1
    OBVIOUS
  <2>2. j \in 1 .. Len(s) - 1
    BY <1>1, <1>5, <2>1
  <2> QED BY <1>2, <1>3, <2>2
<1> QED BY <1>1, <1>4, <1>5 DEF Front, Last

LEMMA HeldKeeps ==
  ASSUME PageTypes, NEW r \in Page, NEW w,
         \A j \in DOMAIN table[r].low :
           \/ table[r].low[j] = w
           \/ j \in DOMAIN table'[r].low /\ table'[r].low[j] = table[r].low[j],
         \A j \in DOMAIN table[r].high :
           \/ table[r].high[j] = w
           \/ j \in DOMAIN table'[r].high /\ table'[r].high[j] = table[r].high[j],
         \A v \in VPage : table[r].pte[v] = w \/ table'[r].pte[v] = table[r].pte[v]
  PROVE  \A y \in Held[r] : y \in Held'[r] \/ y = w
<1> SUFFICES ASSUME NEW y \in Held[r], y # w PROVE y \in Held'[r]
  OBVIOUS
<1>1. CASE y = r
  BY <1>1, HeldNext
<1>2. ASSUME NEW j \in DOMAIN table[r].low, y = table[r].low[j] PROVE y \in Held'[r]
  <2>1. j \in DOMAIN table'[r].low /\ y = table'[r].low[j]
    BY <1>2
  <2> QED BY <2>1, HeldNext
<1>3. ASSUME NEW j \in DOMAIN table[r].high, y = table[r].high[j] PROVE y \in Held'[r]
  <2>1. j \in DOMAIN table'[r].high /\ y = table'[r].high[j]
    BY <1>3
  <2> QED BY <2>1, HeldNext
<1>4. ASSUME NEW v \in VPage, y = table[r].pte[v] PROVE y \in Held'[r]
  <2>1. y = table'[r].pte[v]
    BY <1>4
  <2> QED BY <2>1, HeldNext
<1> QED BY <1>1, <1>2, <1>3, <1>4, HeldIs

LEMMA PagesAreKept ==
  ASSUME PageTypes, Exclusive, PageStep
  PROVE  PagesKept
<1> USE ConstantFacts
<1>1. CASE PagesSame
  <2>1. Free' = Free /\ Held' = Held
    BY <1>1 DEF PagesSame, Free, Held, PagesOf
  <2> QED BY <1>1, <2>1, OwnSame DEF PagesSame, PagesKept, Kept
<1>2. ASSUME NEW x \in Page, TakeRoot(x) PROVE PagesKept
  <2>1. Take(x) /\ UNCHANGED <<trapframe, mem>>
    BY <1>2 DEF TakeRoot
  <2>2. Kept(x)
    BY <1>2, HeldNext DEF TakeRoot, Kept, Referenced2
  <2>3. ASSUME NEW r \in Page, table[r].root PROVE Held'[r] = Held[r]
    <3>1. ~table[x].root
      BY <1>2, NewTables DEF TabNew
    <3>2. table'[r] = table[r]
      BY <1>2, <2>3, <3>1 DEF TakeRoot, PageTypes
    <3> QED BY <3>2, SameHeld
  <2> QED BY <2>1, <2>2, <2>3, TakeKeeps, OwnSame DEF PagesKept, Kept
<1>3. ASSUME NEW x \in Page, NEW q \in Proc, TakeTrapframe(q, x) PROVE PagesKept
  <2>1. Take(x) /\ UNCHANGED <<table, mem>>
    BY <1>3 DEF TakeTrapframe
  <2>2. /\ trapframe'[q] = x /\ trapframe[q] = Nil
        /\ \A p \in Proc \ {q} : trapframe'[p] = trapframe[p]
    BY <1>3 DEF TakeTrapframe, PageTypes
  <2>3. Held' = Held
    BY <2>1 DEF Held, PagesOf
  <2>4. Kept(x) /\ \A y : Own(y) => Kept(y)
    BY <2>1, <2>2 DEF Own, Kept, Referenced2
  <2> QED BY <2>1, <2>3, <2>4, TakeKeeps DEF PagesKept, Kept
<1>4. ASSUME NEW x \in Page, NEW q \in Proc, TakeMem(q, x) PROVE PagesKept
  <2>1. Take(x) /\ UNCHANGED <<table, trapframe>>
    BY <1>4 DEF TakeMem
  <2>2. mem'[q] = x /\ mem[q] = Nil /\ \A p \in Proc \ {q} : mem'[p] = mem[p]
    BY <1>4 DEF TakeMem, PageTypes
  <2>3. Held' = Held
    BY <2>1 DEF Held, PagesOf
  <2>4. Kept(x) /\ \A y : Own(y) => Kept(y)
    BY <2>1, <2>2 DEF Own, Kept, Referenced2
  <2> QED BY <2>1, <2>3, <2>4, TakeKeeps DEF PagesKept, Kept
<1>5. ASSUME NEW x \in Page, NEW r \in Page, TakeLow(r, x) PROVE PagesKept
  <2>1. Take(x) /\ UNCHANGED <<trapframe, mem>>
    BY <1>5 DEF TakeLow
  <2>2. /\ table'[r].high = table[r].high /\ table'[r].pte = table[r].pte
        /\ table'[r].low = Append(table[r].low, x)
        /\ \A i \in Page \ {r} : table'[i] = table[i]
    BY <1>5 DEF TakeLow, PageTypes, Table
  <2>3. table[r].low \in Seq(Page)
    BY DEF PageTypes, Table
  <2>4. /\ \A j \in DOMAIN table[r].low :
             j \in DOMAIN table'[r].low /\ table'[r].low[j] = table[r].low[j]
        /\ \E j \in DOMAIN table'[r].low : table'[r].low[j] = x
    BY <2>2, <2>3, AppendKeeps
  <2>5. x \in Held'[r] /\ \A y \in Held[r] : y \in Held'[r] \/ y = Nil
    <3>1. x \in Held'[r]
      BY <2>4, HeldNext
    <3>2. \A y \in Held[r] : y \in Held'[r] \/ y = Nil
      BY <2>2, <2>4, HeldKeeps
    <3> QED BY <3>1, <3>2
  <2>6. \A i \in Page : \A y \in Held[i] : y \in Held'[i] \/ Kept(y)
    BY <2>2, <2>5, SameHeld DEF Kept
  <2>7. Kept(x)
    BY <1>5, <2>5 DEF TakeLow, Kept, Referenced2
  <2>8. \A y \in Free : Kept(y)
    BY <2>1, <2>7, TakeKeeps DEF Kept
  <2> QED BY <2>1, <2>6, <2>8, OwnSame DEF PagesKept
<1>6. ASSUME NEW x \in Page, NEW r \in Page, TakeHigh(r, x) PROVE PagesKept
  <2>1. Take(x) /\ UNCHANGED <<trapframe, mem>>
    BY <1>6 DEF TakeHigh
  <2>2. /\ table'[r].low = table[r].low /\ table'[r].pte = table[r].pte
        /\ table'[r].high = Append(table[r].high, x)
        /\ \A i \in Page \ {r} : table'[i] = table[i]
    BY <1>6 DEF TakeHigh, PageTypes, Table
  <2>3. table[r].high \in Seq(Page)
    BY DEF PageTypes, Table
  <2>4. /\ \A j \in DOMAIN table[r].high :
             j \in DOMAIN table'[r].high /\ table'[r].high[j] = table[r].high[j]
        /\ \E j \in DOMAIN table'[r].high : table'[r].high[j] = x
    BY <2>2, <2>3, AppendKeeps
  <2>5. x \in Held'[r] /\ \A y \in Held[r] : y \in Held'[r] \/ y = Nil
    <3>1. x \in Held'[r]
      BY <2>4, HeldNext
    <3>2. \A y \in Held[r] : y \in Held'[r] \/ y = Nil
      BY <2>2, <2>4, HeldKeeps
    <3> QED BY <3>1, <3>2
  <2>6. \A i \in Page : \A y \in Held[i] : y \in Held'[i] \/ Kept(y)
    BY <2>2, <2>5, SameHeld DEF Kept
  <2>7. Kept(x)
    BY <1>6, <2>5 DEF TakeHigh, Kept, Referenced2
  <2>8. \A y \in Free : Kept(y)
    BY <2>1, <2>7, TakeKeeps DEF Kept
  <2> QED BY <2>1, <2>6, <2>8, OwnSame DEF PagesKept
<1>7. ASSUME NEW p \in Proc, NEW r \in Page, NEW v \in VPage, MapUser(p, r, v)
      PROVE  PagesKept
  <2>1. /\ UNCHANGED <<freelist, trapframe>> /\ table[r].pte[v] = Nil
        /\ new'[p] = r /\ mem[p] \in Page
        /\ \A q \in Proc \ {p} : mem'[q] = mem[q]
    BY <1>7 DEF MapUser, PageTypes
  <2>2. /\ table'[r].low = table[r].low /\ table'[r].high = table[r].high
        /\ table'[r].pte[v] = mem[p]
        /\ \A w \in VPage \ {v} : table'[r].pte[w] = table[r].pte[w]
        /\ \A i \in Page \ {r} : table'[i] = table[i]
    BY <1>7 DEF MapUser, PageTypes, Table
  <2>3. mem[p] \in Held'[r] /\ \A y \in Held[r] : y \in Held'[r] \/ y = Nil
    <3>1. mem[p] \in Held'[r]
      BY <1>7, <2>2, HeldNext
    <3>2. \A y \in Held[r] : y \in Held'[r] \/ y = Nil
      BY <2>1, <2>2, HeldKeeps
    <3> QED BY <3>1, <3>2
  <2>4. \A i \in Page : \A y \in Held[i] : y \in Held'[i] \/ Kept(y)
    BY <2>2, <2>3, SameHeld DEF Kept
  <2>5. \A y : Own(y) => Kept(y)
    BY <2>1, <2>3 DEF Own, Kept, Referenced2
  <2>6. Free' = Free
    BY <2>1 DEF Free
  <2> QED BY <2>4, <2>5, <2>6 DEF PagesKept, Kept
<1>8. ASSUME NEW q \in Proc, GiveTrapframe(q) PROVE PagesKept
  <2>1. /\ trapframe[q] \in Page /\ UNCHANGED <<table, mem>>
        /\ freelist' = [freelist EXCEPT ![trapframe[q]] = @ + 1]
        /\ \A p \in Proc \ {q} : trapframe'[p] = trapframe[p]
    BY <1>8 DEF GiveTrapframe, PageTypes
  <2>2. trapframe[q] \in Free' /\ \A y \in Free : y \in Free'
    BY <2>1, GiveKeeps
  <2>3. Held' = Held
    BY <2>1 DEF Held, PagesOf
  <2>4. \A y : Own(y) => Kept(y)
    BY <2>1, <2>2 DEF Own, Kept, Referenced2
  <2> QED BY <2>2, <2>3, <2>4 DEF PagesKept, Kept
<1>9. ASSUME NEW q \in Proc, GiveMem(q) PROVE PagesKept
  <2>1. /\ mem[q] \in Page /\ UNCHANGED <<table, trapframe>>
        /\ freelist' = [freelist EXCEPT ![mem[q]] = @ + 1]
        /\ \A p \in Proc \ {q} : mem'[p] = mem[p]
    BY <1>9 DEF GiveMem, PageTypes
  <2>2. mem[q] \in Free' /\ \A y \in Free : y \in Free'
    BY <2>1, GiveKeeps
  <2>3. Held' = Held
    BY <2>1 DEF Held, PagesOf
  <2>4. \A y : Own(y) => Kept(y)
    BY <2>1, <2>2 DEF Own, Kept, Referenced2
  <2> QED BY <2>2, <2>3, <2>4 DEF PagesKept, Kept
<1>10. ASSUME NEW r \in Page, NEW v \in VPage, GiveUser(r, v) PROVE PagesKept
  <2>1. /\ table[r].pte[v] \in Page /\ UNCHANGED <<trapframe, mem>>
        /\ freelist' = [freelist EXCEPT ![table[r].pte[v]] = @ + 1]
    BY <1>10 DEF GiveUser
  <2>2. table[r].pte[v] \in Free' /\ \A y \in Free : y \in Free'
    BY <2>1, GiveKeeps
  <2>3. /\ table'[r].low = table[r].low /\ table'[r].high = table[r].high
        /\ \A w \in VPage \ {v} : table'[r].pte[w] = table[r].pte[w]
        /\ \A i \in Page \ {r} : table'[i] = table[i]
    BY <1>10 DEF GiveUser, PageTypes, Table
  <2>4. \A y \in Held[r] : y \in Held'[r] \/ y = table[r].pte[v]
    BY <2>3, HeldKeeps, SMTT(30)
  <2>5. \A i \in Page : \A y \in Held[i] : y \in Held'[i] \/ y \in Free'
    BY <2>2, <2>3, <2>4, SameHeld
  <2> QED BY <2>1, <2>2, <2>5, OwnSame DEF PagesKept, Kept
<1>11. ASSUME NEW r \in Page, GiveLow(r) PROVE PagesKept
  <2>1. /\ table[r].low \in Seq(Page) /\ table[r].low # <<>>
        /\ UNCHANGED <<trapframe, mem>>
        /\ freelist' = [freelist EXCEPT ![Last(table[r].low)] = @ + 1]
    BY <1>11 DEF GiveLow, PageTypes, Table
  <2>2. /\ Last(table[r].low) \in Page
        /\ \A j \in DOMAIN table[r].low :
             \/ table[r].low[j] = Last(table[r].low)
             \/ /\ j \in DOMAIN Front(table[r].low)
                /\ Front(table[r].low)[j] = table[r].low[j]
    BY <2>1, FrontKeeps
  <2>3. Last(table[r].low) \in Free' /\ \A y \in Free : y \in Free'
    BY <2>1, <2>2, GiveKeeps
  <2>4. /\ table'[r].high = table[r].high /\ table'[r].pte = table[r].pte
        /\ table'[r].low = Front(table[r].low)
        /\ \A i \in Page \ {r} : table'[i] = table[i]
    BY <1>11 DEF GiveLow, PageTypes, Table
  <2>5. \A y \in Held[r] : y \in Held'[r] \/ y = Last(table[r].low)
    BY <2>2, <2>4, HeldKeeps
  <2>6. \A i \in Page : \A y \in Held[i] : y \in Held'[i] \/ y \in Free'
    BY <2>3, <2>4, <2>5, SameHeld
  <2> QED BY <2>1, <2>3, <2>6, OwnSame DEF PagesKept, Kept
<1>12. ASSUME NEW r \in Page, GiveHigh(r) PROVE PagesKept
  <2>1. /\ table[r].high \in Seq(Page) /\ table[r].high # <<>>
        /\ UNCHANGED <<trapframe, mem>>
        /\ freelist' = [freelist EXCEPT ![Last(table[r].high)] = @ + 1]
    BY <1>12 DEF GiveHigh, PageTypes, Table
  <2>2. /\ Last(table[r].high) \in Page
        /\ \A j \in DOMAIN table[r].high :
             \/ table[r].high[j] = Last(table[r].high)
             \/ /\ j \in DOMAIN Front(table[r].high)
                /\ Front(table[r].high)[j] = table[r].high[j]
    BY <2>1, FrontKeeps
  <2>3. Last(table[r].high) \in Free' /\ \A y \in Free : y \in Free'
    BY <2>1, <2>2, GiveKeeps
  <2>4. /\ table'[r].low = table[r].low /\ table'[r].pte = table[r].pte
        /\ table'[r].high = Front(table[r].high)
        /\ \A i \in Page \ {r} : table'[i] = table[i]
    BY <1>12 DEF GiveHigh, PageTypes, Table
  <2>5. \A y \in Held[r] : y \in Held'[r] \/ y = Last(table[r].high)
    BY <2>2, <2>4, HeldKeeps
  <2>6. \A i \in Page : \A y \in Held[i] : y \in Held'[i] \/ y \in Free'
    BY <2>3, <2>4, <2>5, SameHeld
  <2> QED BY <2>1, <2>3, <2>6, OwnSame DEF PagesKept, Kept
<1>13. ASSUME NEW r \in Page, GiveRoot(r) PROVE PagesKept
  <2>1. /\ freelist' = [freelist EXCEPT ![r] = @ + 1] /\ UNCHANGED <<trapframe, mem>>
        /\ \A i \in Page \ {r} : table'[i] = table[i]
        /\ table[r].low = <<>> /\ table[r].high = <<>> /\ table[r].pte = Unmapped
    BY <1>13 DEF GiveRoot, PageTypes, NewTable, NoTable
  <2>2. \A y \in Free : y \in Free'
    BY <2>1, GiveKeeps
  <2>3. \A y \in Held[r] : y \in Held'[r] \/ y = Nil
    BY <2>1, HeldIs, HeldNext DEF Unmapped
  <2>4. \A i \in Page : \A y \in Held[i] : y \in Held'[i] \/ y = Nil
    BY <2>1, <2>3, SameHeld
  <2> QED BY <2>1, <2>2, <2>4, OwnSame DEF PagesKept, Kept
<1> QED
  BY <1>1, <1>2, <1>3, <1>4, <1>5, <1>6, <1>7, <1>8, <1>9, <1>10, <1>11, <1>12,
     <1>13 DEF PageStep

(***************************************************************************)
(* The tables that a process has or works on stay known, but for the one   *)
(* that allocproc overwrites and the root that exec frees.                 *)
(***************************************************************************)
Known(r) == \E q \in Proc : pagetable'[q] = r \/ new'[q] = r

TablesKnown ==
  \A p \in Proc :
    /\ pagetable[p] # Nil =>
         \/ Known(pagetable[p])
         \/ state[p] = "USED" /\ pagetable'[p] # pagetable[p]
    /\ new[p] # Nil =>
         \/ Known(new[p])
         \/ table[new[p]] = NewTable /\ freelist'[new[p]] > 0

LEMMA TablesAreKnown ==
  ASSUME IInv, StepOk
  PROVE  TablesKnown
<1>0. TypeOK /\ PcOp /\ Kids /\ Tables
  BY DEF IInv
<1> USE ConstantFacts
<1>1. ASSUME UNCHANGED <<pagetable, new>> PROVE TablesKnown
  BY <1>1 DEF TablesKnown, Known
<1>2. CASE Still
  BY <1>1, <1>2 DEF Still, proc, local
<1>3. ASSUME NEW p \in Proc,
             \/ PanicOk(p) \/ TakePageOk(p) \/ UnmapStartOk(p) \/ MapPageOk(p)
             \/ UnmapOk(p) \/ ExecOk(p) \/ ExecTableOk(p) \/ ExecSegmentOk(p)
             \/ ExecSegmentDoneOk(p) \/ ExitOk(p) \/ ReapOk(p)
             \/ \E q \in Proc : ForkPanicOk(p, q) \/ ForkOk(p, q)
      PROVE  TablesKnown
  <2>1. pagetable' = pagetable
    BY <1>3 DEF PanicOk, TakePageOk, UnmapStartOk, MapPageOk, UnmapOk, ExecOk,
       ExecTableOk, ExecSegmentOk, ExecSegmentDoneOk, ExitOk, ReapOk, ForkPanicOk,
       ForkOk, proc
  <2>2. new' = [new EXCEPT ![p] = new[p]] \/ new' = new
    BY <1>3 DEF PanicOk, TakePageOk, UnmapStartOk, MapPageOk, UnmapOk, ExecOk,
       ExecTableOk, ExecSegmentOk, ExecSegmentDoneOk, ExitOk, ReapOk, ForkPanicOk,
       ForkOk, local, Going, Local
  <2> QED BY <1>0, <1>1, <2>1, <2>2 DEF TypeOK
<1>4. ASSUME NEW p \in Proc, CreateRootOk(p) PROVE TablesKnown
  <2>1. pagetable' = pagetable /\ new[p] = Nil
    BY <1>0, <1>4 DEF CreateRootOk, proc, PcOp
  <2>2. \A q \in Proc \ {p} : new'[q] = new[q]
    BY <1>0, <1>4 DEF CreateRootOk, Local, TypeOK
  <2> QED BY <2>1, <2>2 DEF TablesKnown, Known
<1>5. ASSUME NEW p \in Proc, SbrkOk(p) PROVE TablesKnown
  <2>1. pagetable' = pagetable /\ new[p] = Nil
    BY <1>0, <1>5 DEF SbrkOk, InUser, proc, PcOp
  <2>2. \A q \in Proc \ {p} : new'[q] = new[q]
    BY <1>0, <1>5 DEF SbrkOk, Local, TypeOK
  <2> QED BY <2>1, <2>2 DEF TablesKnown, Known
<1>6. ASSUME NEW p \in Proc, SbrkDoneOk(p) PROVE TablesKnown
  <2>1. pagetable' = pagetable /\ new[p] \in {Nil, pagetable[p]}
    BY <1>0, <1>6 DEF SbrkDoneOk, Tables
  <2>2. \A q \in Proc \ {p} : new'[q] = new[q]
    BY <1>0, <1>6 DEF SbrkDoneOk, Back, Local, TypeOK
  <2> QED BY <2>1, <2>2 DEF TablesKnown, Known
<1>7. ASSUME NEW p \in Proc, ForkDoneOk(p) \/ ForkFailedOk(p) PROVE TablesKnown
  <2>1. pagetable' = pagetable /\ op[p] = "fork" /\ pc[p] \in {"alloc", "unmap"}
    BY <1>7 DEF ForkDoneOk, ForkFailedOk
  <2>2. new[p] = Nil \/ (kid[p] \in Proc /\ new[p] = pagetable[kid[p]])
    BY <1>0, <2>1 DEF Tables, Kids, TypeOK
  <2>3. \A q \in Proc \ {p} : new'[q] = new[q]
    BY <1>0, <1>7 DEF ForkDoneOk, ForkFailedOk, Back, Local, TypeOK
  <2> QED BY <2>1, <2>2, <2>3 DEF TablesKnown, Known
<1>8. ASSUME NEW p \in Proc, ForkTableOk(p) PROVE TablesKnown
  <2>1. new' = new
    BY <1>0, <1>8 DEF ForkTableOk, Local, TypeOK
  <2>2. kid[p] \in Proc /\ state[kid[p]] = "USED"
    BY <1>0, <1>8 DEF ForkTableOk, Kids, TypeOK
  <2>3. \A q \in Proc \ {kid[p]} : pagetable'[q] = pagetable[q]
    BY <1>0, <1>8 DEF ForkTableOk, TypeOK
  <2> QED BY <2>1, <2>2, <2>3 DEF TablesKnown, Known
<1>9. ASSUME NEW p \in Proc, ExecCommitOk(p) PROVE TablesKnown
  <2>1. /\ new'[p] = pagetable[p] /\ pagetable'[p] = new[p]
        /\ \A q \in Proc \ {p} : new'[q] = new[q] /\ pagetable'[q] = pagetable[q]
    BY <1>0, <1>9 DEF ExecCommitOk, Local, TypeOK
  <2> QED BY <2>1 DEF TablesKnown, Known
<1>10. ASSUME NEW p \in Proc, FreeRootOk(p) PROVE TablesKnown
  <2>1. /\ pagetable' = pagetable
        /\ table[new[p]] = NewTable /\ freelist'[new[p]] > 0
    BY <1>10 DEF FreeRootOk, proc
  <2>2. \A q \in Proc \ {p} : new'[q] = new[q]
    BY <1>0, <1>10 DEF FreeRootOk, Back, Local, TypeOK
  <2> QED BY <2>1, <2>2 DEF TablesKnown, Known
<1> QED
  BY <1>2, <1>3, <1>4, <1>5, <1>6, <1>7, <1>8, <1>9, <1>10 DEF StepOk

(***************************************************************************)
(* What is in reach of a process is in reach afterwards, or on the free    *)
(* list, or it hangs on the table that allocproc overwrites.               *)
(***************************************************************************)
LEMMA ReferencedKept ==
  ASSUME IInv, PagesKept, TablesKnown, NEW x, Referenced(x)
  PROVE  \/ Kept(x)
         \/ \E p \in Proc : /\ state[p] = "USED" /\ pagetable'[p] # pagetable[p]
                            /\ pagetable[p] # Nil /\ x \in Held[pagetable[p]]
<1>0. PageTypes /\ TypeOK /\ Tables
  BY DEF IInv
<1> USE ConstantFacts
<1>1. CASE Own(x)
  BY <1>1 DEF PagesKept
<1>2. ASSUME NEW r \in Page, table[r].root, x \in Held[r], Known(r) PROVE Kept(x)
  <2>1. x \in Held'[r] \/ Kept(x)
    BY <1>2 DEF PagesKept
  <2>2. x \in Held'[r] => Referenced2(x)
    BY <1>2 DEF Known, Referenced2
  <2> QED BY <2>1, <2>2 DEF Kept
<1>3. ASSUME NEW r \in Page, x \in Held[r], table[r] = NewTable, freelist'[r] > 0
      PROVE  Kept(x)
  <2>1. table[r].low = <<>> /\ table[r].high = <<>> /\ table[r].pte = Unmapped
    BY <1>3 DEF NewTable, NoTable
  <2>2. x = r \/ x = Nil
    BY <1>0, <1>3, <2>1, HeldIs DEF Unmapped
  <2> QED BY <1>3, <2>2 DEF Kept, Free
<1>4. ASSUME NEW p \in Proc, pagetable[p] # Nil, x \in Held[pagetable[p]]
      PROVE  Kept(x) \/ (state[p] = "USED" /\ pagetable'[p] # pagetable[p])
  <2>1. pagetable[p] \in Page /\ table[pagetable[p]].root
    BY <1>0, <1>4 DEF TypeOK, Tables
  <2> QED BY <1>2, <1>4, <2>1 DEF TablesKnown
<1>5. ASSUME NEW p \in Proc, new[p] # Nil, x \in Held[new[p]] PROVE Kept(x)
  <2>1. new[p] \in Page /\ table[new[p]].root
    BY <1>0, <1>5 DEF TypeOK, Tables
  <2> QED BY <1>2, <1>3, <1>5, <2>1 DEF TablesKnown
<1> QED BY <1>1, <1>4, <1>5 DEF Referenced, Own

(***************************************************************************)
(* No step of fork, exec, sbrk, exit or wait loses a page, whatever fails, *)
(* but that of allocproc which overwrites the page table freeproc left in  *)
(* the slot; it loses the pages of that table and no others.               *)
(***************************************************************************)
THEOREM LostOnlyHolds == Spec => LostOnlyInAllocproc
<1>1. IInv /\ [Next]_vars => [Reachable \ Reachable' \subseteq Overwritten]_vars
  <2> SUFFICES ASSUME IInv, [Next]_vars, NEW x \in Reachable, x \notin Reachable'
               PROVE  x \in Overwritten
    OBVIOUS
  <2>1. PageTypes /\ TypeOK /\ Exclusive /\ TypeOK'
    BY NextIInv DEF IInv
  <2>2. PagesKept /\ TablesKnown
    BY <2>1, StepForms, PagesAreKept, TablesAreKnown DEF StepGood
  <2>3. x # Nil /\ (x \in Free \/ Referenced(x))
    BY <2>1, ReachableForm
  <2>4. ~Kept(x)
    <3>1. \A y : y \in Reachable' <=> y # Nil /\ (y \in Free' \/ Referenced2(y))
      BY <2>1, ReachableNext
    <3> QED BY <2>3, <3>1 DEF Kept
  <2>5. PICK p \in Proc : /\ state[p] = "USED" /\ pagetable'[p] # pagetable[p]
                          /\ pagetable[p] # Nil /\ x \in Held[pagetable[p]]
    BY <2>2, <2>3, <2>4, ReferencedKept DEF PagesKept
  <2>6. x \in PagesOf(pagetable[p])
    BY <2>1, <2>5, ConstantFacts DEF Held, TypeOK
  <2> QED BY <2>5, <2>6 DEF Overwritten
<1> QED BY <1>1, InductiveInvariant, PTL DEF Spec, LostOnlyInAllocproc
=============================================================================
