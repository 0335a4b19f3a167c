--------------------------------- MODULE Vm ---------------------------------
(***************************************************************************)
(* Physical pages: the allocator and the user page tables of               *)
(* src/kernel/vm.c, and the operations that take and give pages: fork,     *)
(* exec, exit and freeproc of proc.c and exec.c, and sbrk (growproc).      *)
(*                                                                         *)
(* A step is one critical section of kmem.lk, that is one kalloc or one    *)
(* kfree, with the private work of the process that follows it.  Sizes and *)
(* addresses are counted in pages; the code's sizes are whole pages        *)
(* between system calls (userinit, exec).  The addresses of a table have   *)
(* two sides: the user's, from 0, and the trampoline's with the trapframe, *)
(* below MAXVA.  Each side hangs on its own path of LEVELS tables below    *)
(* the root; user memory of more than one lowest-level table (2 MB) is     *)
(* left out, as are permissions and the contents of pages.                 *)
(*                                                                         *)
(* panic() spins, so a process that panics keeps what it has and others    *)
(* go on.  Which process waits for which is the subject of Proc: here any  *)
(* process may reap a ZOMBIE.                                              *)
(***************************************************************************)
EXTENDS Naturals, FiniteSets, FiniteSetsExt, Sequences, SequencesExt

CONSTANTS
  NPROC,      \* slots of procs[]
  PHYSPAGES,  \* pages that kinit leaves for processes
  MAXPAGE,    \* pages of user address space
  LEVELS,     \* tables on the path from the root to a PTE, 2 in the code
  SegmentEnd, \* where a segment of a program may end, in pages
  SbrkPages,  \* increments a program asks sbrk for, in pages
  Pick(_, _)  \* the page that kalloc gives to a process out of the free ones

Proc   == 1 .. NPROC
initp  == 1
Page   == 1 .. PHYSPAGES
VPage  == 0 .. MAXPAGE - 1
Nil    == 0
Stack  == 2             \* the guard page and the stack page of exec

\* The address space exceeds the memory (128M): a process that tries to fill
\* it exhausts kalloc.
ASSUME VmAssumption ==
  /\ NPROC \in Nat \ {0} /\ LEVELS \in Nat \ {0}
  /\ PHYSPAGES \in Nat /\ PHYSPAGES > 2 * LEVELS + 2
  /\ MAXPAGE \in Nat /\ MAXPAGE > PHYSPAGES
  /\ SegmentEnd \subseteq Nat /\ SbrkPages \subseteq Nat \ {0}
  /\ \A p \in Proc, S \in SUBSET Page : S # {} => Pick(p, S) \in S

VARIABLES
  freelist,   \* how often each page is on kmem.freelist
  table,      \* the page table with a given root, NoTable if there is none
  state,      \* p->state; "LIVE" for RUNNABLE, RUNNING and SLEEPING
  pagetable,  \* p->pagetable
  trapframe,  \* p->trapframe
  sz,         \* p->sz
  pc,         \* where each process is in the kernel; "user" outside
  op,         \* the operation it executes
  kid,        \* fork: the child
  new,        \* the page table it works on
  mem,        \* page allocated and not yet mapped
  a, lo, hi   \* uvmalloc, uvmcopy: next page, first page, end

proc  == <<state, pagetable, trapframe, sz>>
local == <<pc, op, kid, new, mem, a, lo, hi>>
vars  == <<freelist, table, state, pagetable, trapframe, sz, pc, op, kid, new,
           mem, a, lo, hi>>

\* low, high: the tables below the root on the two sides, top first.
Unmapped == [v \in VPage |-> Nil]
NoTable  == [root |-> FALSE, low |-> <<>>, high |-> <<>>, pte |-> Unmapped]
NewTable == [NoTable EXCEPT !.root = TRUE]

\* kinit, and userinit with allocproc, proc_pagetable and uvminit.
Init ==
  LET high == [l \in 1 .. LEVELS |-> 2 + l]
      low  == [l \in 1 .. LEVELS |-> 2 + LEVELS + l]
      code == 2 * LEVELS + 3
  IN /\ freelist = [x \in Page |-> IF x > code THEN 1 ELSE 0]
     /\ table = [r \in Page |->
          IF r = 2 THEN [root |-> TRUE, low |-> low, high |-> high,
                         pte |-> [Unmapped EXCEPT ![0] = code]]
                   ELSE NoTable]
     /\ state = [p \in Proc |-> IF p = initp THEN "LIVE" ELSE "UNUSED"]
     /\ pagetable = [p \in Proc |-> IF p = initp THEN 2 ELSE Nil]
     /\ trapframe = [p \in Proc |-> IF p = initp THEN 1 ELSE Nil]
     /\ sz = [p \in Proc |-> IF p = initp THEN 1 ELSE 0]
     /\ pc = [p \in Proc |-> "user"]
     /\ op = [p \in Proc |-> "none"]
     /\ kid = [p \in Proc |-> Nil]
     /\ new = [p \in Proc |-> Nil]
     /\ mem = [p \in Proc |-> Nil]
     /\ a = [p \in Proc |-> 0]
     /\ lo = [p \in Proc |-> 0]
     /\ hi = [p \in Proc |-> 0]

At(p, l) == pc[p] = l

Goto(p, l) == pc' = [pc EXCEPT ![p] = l]

Set(v, p, x) == [v EXCEPT ![p] = x]

\* A process in user mode, about to make a system call.  One with nothing
\* mapped cannot execute an instruction.
User(p) ==
  /\ At(p, "user") /\ state[p] = "LIVE"
  /\ \E v \in VPage : table[pagetable[p]].pte[v] # Nil

\* Back to user mode: the locals of the system call are gone.
Return(p) ==
  /\ Goto(p, "user")
  /\ op' = Set(op, p, "none")
  /\ kid' = Set(kid, p, Nil)
  /\ new' = Set(new, p, Nil)
  /\ a' = Set(a, p, 0)
  /\ lo' = Set(lo, p, 0)
  /\ hi' = Set(hi, p, 0)
  /\ UNCHANGED mem

Panic(p) == Goto(p, "panic") /\ UNCHANGED <<op, kid, new, mem, a, lo, hi>>

-----------------------------------------------------------------------------
(***************************************************************************)
(* The allocator.  The order of the free list is left out: Pick stands for *)
(* it, and which free page kalloc returns makes no difference to anyone.   *)
(***************************************************************************)
Free == {x \in Page : freelist[x] > 0}

Exhausted == Free = {}

FreePage(p) == Pick(p, Free)

kalloc(p) ==
  /\ ~Exhausted
  /\ freelist' = [freelist EXCEPT ![FreePage(p)] = @ - 1]

kfree(x) == freelist' = [freelist EXCEPT ![x] = @ + 1]

-----------------------------------------------------------------------------
(***************************************************************************)
(* uvmalloc(new, lo, hi), and uvmcopy of the pages below hi into new with  *)
(* lo = 0: the same loop but for what is put into the page.                *)
(***************************************************************************)
\* uvmcopy panics if the parent's page is not there.
SourceMissing(p) == op[p] = "fork" /\ table[pagetable[p]].pte[a[p]] = Nil

AllocPage(p) ==
  /\ At(p, "alloc") /\ a[p] < hi[p]
  /\ ~Exhausted
  /\ IF SourceMissing(p)
       THEN Panic(p) /\ UNCHANGED freelist
       ELSE /\ kalloc(p)
            /\ mem' = Set(mem, p, FreePage(p))
            /\ Goto(p, "map")
            /\ UNCHANGED <<op, kid, new, a, lo, hi>>
  /\ UNCHANGED <<table, proc>>

AllocNone(p) ==
  /\ At(p, "alloc") /\ a[p] < hi[p]
  /\ Exhausted
  /\ Goto(p, IF SourceMissing(p) THEN "panic" ELSE "unmap")
  /\ UNCHANGED <<freelist, table, proc, op, kid, new, mem, a, lo, hi>>

\* mappages: walk allocates the next table on the path.
MapTable(p) ==
  /\ At(p, "map") /\ Len(table[new[p]].low) < LEVELS
  /\ kalloc(p)
  /\ table' = [table EXCEPT ![new[p]].low = Append(@, FreePage(p))]
  /\ UNCHANGED <<proc, local>>

\* Faulty variant: the page that could not be mapped is forgotten.
MapNoneKeepsMem(p) ==
  /\ At(p, "map") /\ Len(table[new[p]].low) < LEVELS
  /\ Exhausted
  /\ mem' = Set(mem, p, Nil)
  /\ Goto(p, "unmap")
  /\ UNCHANGED <<freelist, table, proc, op, kid, new, a, lo, hi>>

\* walk fails: the page goes back.
MapNone(p) ==
  /\ At(p, "map") /\ Len(table[new[p]].low) < LEVELS
  /\ Exhausted
  /\ kfree(mem[p])
  /\ mem' = Set(mem, p, Nil)
  /\ Goto(p, "unmap")
  /\ UNCHANGED <<table, proc, op, kid, new, a, lo, hi>>

MapPage(p) ==
  /\ At(p, "map") /\ Len(table[new[p]].low) = LEVELS
  /\ table[new[p]].pte[a[p]] = Nil
  /\ table' = [table EXCEPT ![new[p]].pte[a[p]] = mem[p]]
  /\ mem' = Set(mem, p, Nil)
  /\ a' = Set(a, p, a[p] + 1)
  /\ Goto(p, "alloc")
  /\ UNCHANGED <<freelist, proc, op, kid, new, lo, hi>>

\* The address is mapped already.
Remap(p) ==
  /\ At(p, "map") /\ Len(table[new[p]].low) = LEVELS
  /\ table[new[p]].pte[a[p]] # Nil
  /\ Panic(p)
  /\ UNCHANGED <<freelist, table, proc>>

\* uvmunmap(new, lo, a - lo, 1): the failure paths of the loop above, and
\* uvmfree.  It panics on a page that is not mapped.
Unmap(p) ==
  /\ At(p, "unmap") /\ lo[p] < a[p]
  /\ LET x == table[new[p]].pte[lo[p]] IN
     IF x = Nil
       THEN Panic(p) /\ UNCHANGED <<freelist, table>>
       ELSE /\ kfree(x)
            /\ table' = [table EXCEPT ![new[p]].pte[lo[p]] = Nil]
            /\ lo' = Set(lo, p, lo[p] + 1)
            /\ UNCHANGED <<pc, op, kid, new, mem, a, hi>>
  /\ UNCHANGED proc

-----------------------------------------------------------------------------
(***************************************************************************)
(* proc_pagetable, for the child of a fork and for exec.                   *)
(***************************************************************************)
CreateRoot(p) ==
  /\ At(p, "root")
  /\ kalloc(p)
  /\ table' = [table EXCEPT ![FreePage(p)] = NewTable]
  /\ new' = Set(new, p, FreePage(p))
  /\ Goto(p, "high")
  /\ UNCHANGED <<proc, op, kid, mem, a, lo, hi>>

\* The tables of the trampoline and the trapframe.
CreateHigh(p) ==
  /\ At(p, "high") /\ Len(table[new[p]].high) < LEVELS
  /\ kalloc(p)
  /\ table' = [table EXCEPT ![new[p]].high = Append(@, FreePage(p))]
  /\ UNCHANGED <<proc, local>>

\* No page for the root or for a table: panic.
CreateNone(p) ==
  /\ \/ At(p, "root")
     \/ At(p, "high") /\ Len(table[new[p]].high) < LEVELS
  /\ Exhausted
  /\ Panic(p)
  /\ UNCHANGED <<freelist, table, proc>>

-----------------------------------------------------------------------------
(***************************************************************************)
(* fork.                                                                   *)
(***************************************************************************)
Unused == {q \in Proc : state[q] = "UNUSED"}

\* allocproc, up to the page of the trapframe.
Fork(p) ==
  /\ User(p) /\ Unused # {}
  /\ LET q == Min(Unused) IN
     /\ state' = Set(state, q, "USED")
     /\ kid' = Set(kid, p, q)
     /\ IF Exhausted
          THEN Goto(p, "panic") /\ UNCHANGED <<freelist, trapframe, op>>
          ELSE /\ kalloc(p)
               /\ trapframe' = Set(trapframe, q, FreePage(p))
               /\ op' = Set(op, p, "fork")
               /\ Goto(p, "root")
  /\ UNCHANGED <<table, pagetable, sz, new, mem, a, lo, hi>>

\* The rest of allocproc: what the slot's p->pagetable was is forgotten.
ForkTable(p) ==
  /\ At(p, "high") /\ op[p] = "fork" /\ Len(table[new[p]].high) = LEVELS
  /\ pagetable' = Set(pagetable, kid[p], new[p])
  /\ hi' = Set(hi, p, sz[p])
  /\ Goto(p, "alloc")
  /\ UNCHANGED <<freelist, table, state, trapframe, sz, op, kid, new, mem, a, lo>>

ForkDone(p) ==
  /\ At(p, "alloc") /\ op[p] = "fork" /\ a[p] >= hi[p]
  /\ sz' = Set(sz, kid[p], sz[p])
  /\ state' = Set(state, kid[p], "LIVE")
  /\ Return(p)
  /\ UNCHANGED <<freelist, table, pagetable, trapframe>>

\* freeproc(q): the trapframe is freed, the page table is not.
freeproc(q) ==
  /\ kfree(trapframe[q])
  /\ trapframe' = Set(trapframe, q, Nil)
  /\ state' = Set(state, q, "UNUSED")

ForkFailed(p) ==
  /\ At(p, "unmap") /\ op[p] = "fork" /\ lo[p] >= a[p]
  /\ freeproc(kid[p])
  /\ Return(p)
  /\ UNCHANGED <<table, pagetable, sz>>

-----------------------------------------------------------------------------
(***************************************************************************)
(* exec.                                                                   *)
(***************************************************************************)
Exec(p) ==
  /\ User(p)
  /\ op' = Set(op, p, "exec")
  /\ Goto(p, "root")
  /\ UNCHANGED <<freelist, table, proc, kid, new, mem, a, lo, hi>>

\* The path cannot be read (fetchstr), or the file does not exist: ilock(0).
ExecMissing(p) ==
  /\ User(p)
  /\ Panic(p)
  /\ UNCHANGED <<freelist, table, proc>>

ExecTable(p) ==
  /\ At(p, "high") /\ op[p] = "exec" /\ Len(table[new[p]].high) = LEVELS
  /\ Goto(p, "elf")
  /\ UNCHANGED <<freelist, table, proc, op, kid, new, mem, a, lo, hi>>

\* The file cannot be read, is not an ELF file, or has a bad segment, such as
\* an empty one at address 0, for which uvmalloc returns 0.
ExecBadFile(p) ==
  /\ At(p, "elf")
  /\ Panic(p)
  /\ UNCHANGED <<freelist, table, proc>>

\* The next segment to load; one that ends below hi needs no more memory.
ExecSegment(p) ==
  /\ At(p, "elf")
  /\ \E n \in SegmentEnd :
       /\ n > hi[p]
       /\ lo' = Set(lo, p, hi[p])
       /\ hi' = Set(hi, p, n)
  /\ Goto(p, "alloc")
  /\ UNCHANGED <<freelist, table, proc, op, kid, new, mem, a>>

ExecSegmentDone(p) ==
  /\ At(p, "alloc") /\ op[p] = "exec" /\ a[p] >= hi[p]
  /\ Goto(p, "elf")
  /\ UNCHANGED <<freelist, table, proc, op, kid, new, mem, a, lo, hi>>

ExecStack(p) ==
  /\ At(p, "elf")
  /\ lo' = Set(lo, p, hi[p])
  /\ hi' = Set(hi, p, hi[p] + Stack)
  /\ op' = Set(op, p, "stack")
  /\ Goto(p, "alloc")
  /\ UNCHANGED <<freelist, table, proc, kid, new, mem, a>>

\* uvmalloc has given back what it took, and exec panics.
ExecNoMemory(p) ==
  /\ At(p, "unmap") /\ op[p] \in {"exec", "stack"} /\ lo[p] >= a[p]
  /\ Panic(p)
  /\ UNCHANGED <<freelist, table, proc>>

\* Faulty variant: proc_freepagetable frees what the trapframe is mapped to.
ExecCommitFreesTrapframe(p) ==
  /\ At(p, "alloc") /\ op[p] = "stack" /\ a[p] >= hi[p]
  /\ pagetable' = Set(pagetable, p, new[p])
  /\ sz' = Set(sz, p, hi[p])
  /\ new' = Set(new, p, pagetable[p])
  /\ lo' = Set(lo, p, 0)
  /\ a' = Set(a, p, sz[p])
  /\ op' = Set(op, p, "free")
  /\ Goto(p, "unmap")
  /\ kfree(trapframe[p])
  /\ UNCHANGED <<table, state, trapframe, kid, mem, hi>>

\* The process has the new table and size; proc_freepagetable starts on the
\* old ones: it takes out the trampoline and the trapframe and frees neither.
ExecCommit(p) ==
  /\ At(p, "alloc") /\ op[p] = "stack" /\ a[p] >= hi[p]
  /\ pagetable' = Set(pagetable, p, new[p])
  /\ sz' = Set(sz, p, hi[p])
  /\ new' = Set(new, p, pagetable[p])
  /\ lo' = Set(lo, p, 0)
  /\ a' = Set(a, p, sz[p])
  /\ op' = Set(op, p, "free")
  /\ Goto(p, "unmap")
  /\ UNCHANGED <<freelist, table, state, trapframe, kid, mem, hi>>

\* freewalk frees the tables bottom up, the user's side first ...
FreeTable(p) ==
  /\ At(p, "unmap") /\ op[p] = "free" /\ lo[p] >= a[p]
  /\ table[new[p]].pte = Unmapped
  /\ \/ /\ table[new[p]].low # <<>>
        /\ kfree(Last(table[new[p]].low))
        /\ table' = [table EXCEPT ![new[p]].low = Front(@)]
     \/ /\ table[new[p]].low = <<>> /\ table[new[p]].high # <<>>
        /\ kfree(Last(table[new[p]].high))
        /\ table' = [table EXCEPT ![new[p]].high = Front(@)]
  /\ UNCHANGED <<proc, local>>

\* ... and the root last.
FreeRoot(p) ==
  /\ At(p, "unmap") /\ op[p] = "free" /\ lo[p] >= a[p]
  /\ table[new[p]] = NewTable
  /\ kfree(new[p])
  /\ table' = [table EXCEPT ![new[p]] = NoTable]
  /\ Return(p)
  /\ UNCHANGED proc

\* A page is still mapped at or above the old size: panic("freewalk: leaf").
FreeLeaf(p) ==
  /\ At(p, "unmap") /\ op[p] = "free" /\ lo[p] >= a[p]
  /\ table[new[p]].pte # Unmapped
  /\ Panic(p)
  /\ UNCHANGED <<freelist, table, proc>>

-----------------------------------------------------------------------------
(***************************************************************************)
(* sbrk.                                                                   *)
(***************************************************************************)
\* n > 0: uvmalloc(p->pagetable, sz, sz + n).
Sbrk(p) ==
  /\ User(p)
  /\ \E n \in SbrkPages : hi' = Set(hi, p, sz[p] + n)
  /\ lo' = Set(lo, p, sz[p])
  /\ a' = Set(a, p, sz[p])
  /\ new' = Set(new, p, pagetable[p])
  /\ op' = Set(op, p, "sbrk")
  /\ Goto(p, "alloc")
  /\ UNCHANGED <<freelist, table, proc, kid, mem>>

\* Faulty variant: the result of uvmalloc is not tested.
SbrkDoneUntested(p) ==
  /\ \/ At(p, "alloc") /\ a[p] >= hi[p]
     \/ At(p, "unmap") /\ lo[p] >= a[p]
  /\ op[p] = "sbrk"
  /\ sz' = Set(sz, p, hi[p])
  /\ Return(p)
  /\ UNCHANGED <<freelist, table, state, pagetable, trapframe>>

\* growproc compares sz with the result, new size or 0, where it means to
\* assign it: p->sz stays, whether the pages are there or not.
SbrkDone(p) ==
  /\ \/ At(p, "alloc") /\ a[p] >= hi[p]
     \/ At(p, "unmap") /\ lo[p] >= a[p]
  /\ op[p] = "sbrk"
  /\ Return(p)
  /\ UNCHANGED <<freelist, table, proc>>

\* n < 0 calls uvmalloc too.  With sz + n >= 0 that returns sz; with
\* sz + n < 0 the unsigned sum is close to 2^32, and uvmalloc fills the
\* address space from sz until memory runs out and returns 0.
SbrkUnderflow(p) ==
  /\ User(p)
  /\ hi' = Set(hi, p, MAXPAGE)
  /\ lo' = Set(lo, p, sz[p])
  /\ a' = Set(a, p, sz[p])
  /\ new' = Set(new, p, pagetable[p])
  /\ op' = Set(op, p, "underflow")
  /\ Goto(p, "alloc")
  /\ UNCHANGED <<freelist, table, proc, kid, mem>>

SbrkUnderflowDone(p) ==
  /\ At(p, "unmap") /\ op[p] = "underflow" /\ lo[p] >= a[p]
  /\ sz' = Set(sz, p, 0)
  /\ Return(p)
  /\ UNCHANGED <<freelist, table, state, pagetable, trapframe>>

-----------------------------------------------------------------------------
(***************************************************************************)
(* The end of a process.                                                   *)
(***************************************************************************)
\* exit gives back no memory; init's exit panics.
Exit(p) ==
  /\ User(p)
  /\ IF p = initp
       THEN Panic(p) /\ UNCHANGED state
       ELSE state' = Set(state, p, "ZOMBIE") /\ UNCHANGED local
  /\ UNCHANGED <<freelist, table, pagetable, trapframe, sz>>

\* wait finds a ZOMBIE.
Reap(p, q) ==
  /\ User(p) /\ state[q] = "ZOMBIE"
  /\ freeproc(q)
  /\ UNCHANGED <<table, pagetable, sz, local>>

\* usertrap: an access to a page that is not mapped; a bad address given to a
\* system call ends in the same way (walkaddr).
Fault(p) ==
  /\ At(p, "user") /\ state[p] = "LIVE"
  /\ Panic(p)
  /\ UNCHANGED <<freelist, table, proc>>

Memory(p) ==
  \/ AllocPage(p) \/ AllocNone(p)
  \/ MapTable(p) \/ MapNone(p) \/ MapPage(p) \/ Remap(p) \/ Unmap(p)
  \/ CreateRoot(p) \/ CreateHigh(p) \/ CreateNone(p)

Calls(p) ==
  \/ Fork(p) \/ ForkTable(p) \/ ForkDone(p) \/ ForkFailed(p)
  \/ Exec(p) \/ ExecMissing(p) \/ ExecTable(p) \/ ExecBadFile(p)
  \/ ExecSegment(p) \/ ExecSegmentDone(p) \/ ExecStack(p) \/ ExecNoMemory(p)
  \/ ExecCommit(p) \/ FreeTable(p) \/ FreeRoot(p) \/ FreeLeaf(p)
  \/ Sbrk(p) \/ SbrkDone(p) \/ SbrkUnderflow(p) \/ SbrkUnderflowDone(p)
  \/ Exit(p) \/ Fault(p)
  \/ \E q \in Proc : Reap(p, q)

Next == \E p \in Proc : Memory(p) \/ Calls(p)

Spec == Init /\ [][Next]_vars

-----------------------------------------------------------------------------
(***************************************************************************)
(* Properties.                                                             *)
(***************************************************************************)
Root == {r \in Page : table[r].root}

\* Each use of a page: the kind of use, where it is, and the page.
Uses ==
       (UNION {{<<"free", i, x>> : i \in 1 .. freelist[x]} : x \in Page})
  \cup {<<"trapframe", p, trapframe[p]>> : p \in Proc}
  \cup {<<"unmapped", p, mem[p]>> : p \in Proc}
  \cup {<<"root", r, r>> : r \in Root}
  \cup (UNION {{<<"low", <<r, l>>, table[r].low[l]>> :
                  l \in DOMAIN table[r].low} : r \in Root})
  \cup (UNION {{<<"high", <<r, l>>, table[r].high[l]>> :
                  l \in DOMAIN table[r].high} : r \in Root})
  \cup (UNION {{<<"user", <<r, v>>, table[r].pte[v]>> :
                  v \in VPage} : r \in Root})

(***************************************************************************)
(* A physical page has one use at a time: it is free once, or a trapframe, *)
(* or a table of one page table, or one page of one process's memory       *)
(* (kalloc and kfree; uvmcopy copies, exec frees the old table only).      *)
(***************************************************************************)
PageExclusive ==
  LET uses == {u \in Uses : u[3] # Nil}
  IN \A u, w \in uses : u # w => u[3] # w[3]

Mapped(p) == {v \in VPage : table[pagetable[p]].pte[v] # Nil}

(***************************************************************************)
(* The pages of a process that runs, sleeps in a system call or is dead    *)
(* lie without a gap from address 0 and reach p->sz at least, through      *)
(* failed sbrk, fork and exec: uvmcopy, uvmunmap and walkaddr panic        *)
(* otherwise.                                                              *)
(***************************************************************************)
MappedBelowSz ==
  \A p \in Proc : state[p] \in {"LIVE", "ZOMBIE"} =>
    /\ table[pagetable[p]].root
    /\ 0 .. sz[p] - 1 \subseteq Mapped(p)
    /\ At(p, "user") =>
         \A v \in Mapped(p) : 0 .. v \subseteq Mapped(p)

PagesOf(r) ==
  IF r = Nil THEN {}
  ELSE {r} \cup ToSet(table[r].low) \cup ToSet(table[r].high)
           \cup {table[r].pte[v] : v \in VPage}

Reachable ==
  (Free \cup UNION {
     {trapframe[p], mem[p]} \cup PagesOf(pagetable[p]) \cup PagesOf(new[p])
       : p \in Proc}) \ {Nil}

Overwritten ==
  UNION {PagesOf(pagetable[q]) :
           q \in {q \in Proc : state[q] = "USED" /\ pagetable'[q] # pagetable[q]}}

(***************************************************************************)
(* Every page stays on the free list or in reach of a process through      *)
(* every failure path of fork, exec and sbrk.  The one place that loses    *)
(* pages is allocproc: it overwrites the page table that freeproc left in  *)
(* the slot.                                                               *)
(***************************************************************************)
LostOnlyInAllocproc == [][Reachable \ Reachable' \subseteq Overwritten]_vars
=============================================================================
