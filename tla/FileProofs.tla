----------------------------- MODULE FileProofs -----------------------------
(***************************************************************************)
(* Proofs about File for any finite set of processes, any tables and any   *)
(* bound on the reference counts: its inductive invariant and the three    *)
(* properties of the reference counts.                                     *)
(***************************************************************************)
EXTENDS File, FiniteSetTheorems, WellFoundedInduction, TLAPS

-----------------------------------------------------------------------------
Labels == {"gone", "embryo", "idle", "dirlock", "lookup", "ilock", "filealloc",
           "fdalloc", "fileclose", "iput", "filedup", "readlock", "readi",
           "fork", "exit", "stuck", "panic"}

FileOrNil  == Files \cup {Nil}
InodeOrNil == Inodes \cup {Nil}

\* No inode has vaild = 1: iput never truncates.
TypeOK ==
  /\ openfs \in [Proc -> [Fd -> FileOrNil]]
  /\ pwd \in [Proc -> InodeOrNil]
  /\ fref \in [Files -> Nat]
  /\ ftype \in [Files -> {"none", "inode"}]
  /\ fip \in [Files -> InodeOrNil]
  /\ iref \in [Inodes -> Nat]
  /\ inum \in [Inodes -> Inum]
  /\ ilk \in [Inodes -> Proc \cup {NoProc}]
  /\ vaild \in [Inodes -> {0}]
  /\ pc \in [Proc -> Labels]
  /\ ret \in [Proc -> {"idle", "exit", "gone"}]
  /\ ip \in [Proc -> InodeOrNil]
  /\ dp \in [Proc -> InodeOrNil]
  /\ nf \in [Proc -> FileOrNil]
  /\ fd \in [Proc -> 1 .. OPENFILE + 1]
  /\ kid \in [Proc -> Proc]

\* A process at one of these labels has a file in hand; at filedup its two
\* descriptors for the file are in the table, one of them not counted yet.
InHand == {"fdalloc", "fileclose"}

FileInHand(p) ==
  /\ pc[p] \in InHand => nf[p] \in Files
  /\ pc[p] = "filedup" =>
       /\ nf[p] \in Files
       /\ \E d, e \in Fd : /\ d # e
                           /\ openfs[p][d] = nf[p]
                           /\ openfs[p][e] = nf[p]

\* Only fileclose and iput return to somewhere else than the user.
RetIdle(p) == pc[p] \notin {"fileclose", "iput"} => ret[p] = "idle"

\* What exit has closed stays closed: a process that is gone has no descriptor.
ExitCloses(p) ==
  /\ pc[p] = "gone" \/ ret[p] = "gone" => \A d \in Fd : openfs[p][d] = Nil
  /\ pc[p] = "exit" \/ ret[p] = "exit" =>
       \A d \in Fd : d < fd[p] => openfs[p][d] = Nil

\* fork fills a table of the child that nobody else writes.
KidApart(p) ==
  pc[p] = "fork" =>
    /\ pc[kid[p]] = "embryo"
    /\ \A d \in Fd : d >= fd[p] => openfs[kid[p]][d] = Nil
    /\ \A q \in Proc : pc[q] = "fork" /\ kid[q] = kid[p] => q = p

Control ==
  \A p \in Proc : FileInHand(p) /\ RetIdle(p) /\ ExitCloses(p) /\ KidApart(p)

\* A free entry of the file table refers to no inode.
FreeFileEmpty == \A f \in Files : fref[f] = 0 => ftype[f] = "none"

IInv ==
  /\ TypeOK /\ Control /\ FreeFileEmpty
  /\ FileRefExact /\ OneEntryPerInode /\ RefCovers

-----------------------------------------------------------------------------
(***************************************************************************)
(* The constants.                                                          *)
(***************************************************************************)
LEMMA ConstantFacts ==
  /\ Nil \notin Files /\ Nil \notin Inodes /\ NoProc \notin Proc
  /\ Fd \subseteq Nat /\ Files \subseteq Nat /\ Inodes \subseteq Nat
  /\ 1 \in Inodes /\ 1 \in Fd /\ 1 \in Files /\ initp \in Proc /\ ROOTINO \in Inum
BY FileAssumption DEF Files, Inodes, Fd, Nil

LEMMA FiniteFacts ==
  /\ IsFiniteSet(Proc) /\ IsFiniteSet(Files) /\ IsFiniteSet(Proc \X Fd)
<1>1. IsFiniteSet(Proc)
  BY FileAssumption
<1>2. IsFiniteSet(Files) /\ IsFiniteSet(Fd)
  BY FileAssumption, FS_Interval DEF Files, Fd
<1> QED BY <1>1, <1>2, FS_Product

(***************************************************************************)
(* The scans of filealloc, fdalloc and iget end at the least element.      *)
(***************************************************************************)
LEMMA MinIn ==
  ASSUME NEW S \in SUBSET Nat, S # {}
  PROVE  Min(S) \in S
<1> DEFINE R == OpToRel(<, Nat)
<1>1. \A x, y \in Nat : <<y, x>> \in R <=> y < x
  BY DEF OpToRel
<1>2. IsWellFoundedOn(R, Nat)
  BY NatLessThanWellFounded
<1> HIDE DEF R
<1>3. PICK x \in S : \A y \in S : ~(<<y, x>> \in R)
  BY <1>2, WFMin
<1>4. ASSUME NEW y \in S PROVE x =< y
  <2>1. x \in Nat /\ y \in Nat /\ ~(<<y, x>> \in R)
    BY <1>3
  <2>2. ~(y < x)
    BY <1>1, <2>1
  <2> QED BY <2>1, <2>2
<1> QED BY <1>4 DEF Min

LEMMA FreeFileIn ==
  ASSUME FreeFiles # {}
  PROVE  Min(FreeFiles) \in Files /\ fref[Min(FreeFiles)] = 0
<1>1. Min(FreeFiles) \in FreeFiles
  BY MinIn, ConstantFacts DEF FreeFiles
<1> QED BY <1>1 DEF FreeFiles

LEMMA FreeFdIn ==
  ASSUME NEW p \in Proc, FreeFds(p) # {}
  PROVE  Min(FreeFds(p)) \in Fd /\ openfs[p][Min(FreeFds(p))] = Nil
<1>1. Min(FreeFds(p)) \in FreeFds(p)
  BY MinIn, ConstantFacts DEF FreeFds
<1> QED BY <1>1 DEF FreeFds

\* iget gets an entry that is in use for k, or one that is free when no entry
\* is in use for k.
LEMMA GotFacts ==
  ASSUME NEW k \in Inum, CanGet(k)
  PROVE  /\ Got(k) \in Inodes
         /\ Hits(k) # {} => iref[Got(k)] > 0 /\ inum[Got(k)] = k
         /\ Hits(k) = {} => iref[Got(k)] = 0
<1>1. Hits(k) \in SUBSET Nat /\ Idle \in SUBSET Nat
  BY ConstantFacts DEF Hits, Idle
<1>2. CASE Hits(k) # {}
  <2>1. Got(k) \in Hits(k)
    BY <1>1, <1>2, MinIn DEF Got
  <2> QED BY <1>2, <2>1 DEF Hits
<1>3. CASE Hits(k) = {}
  <2>1. Got(k) \in Idle
    BY <1>1, <1>3, MinIn DEF Got, CanGet
  <2> QED BY <1>3, <2>1 DEF Idle
<1> QED BY <1>2, <1>3

(***************************************************************************)
(* Two sets that differ at most in one element.                            *)
(***************************************************************************)
Bit(b) == IF b THEN 1 ELSE 0

LEMMA Shift ==
  ASSUME NEW T, IsFiniteSet(T), NEW S \in SUBSET T, NEW S2 \in SUBSET T,
         NEW x \in T, \A y \in T : y # x => (y \in S <=> y \in S2)
  PROVE  /\ Cardinality(S) \in Nat /\ Cardinality(S2) \in Nat
         /\ Cardinality(S2) + Bit(x \in S) = Cardinality(S) + Bit(x \in S2)
<1>1. IsFiniteSet(S) /\ IsFiniteSet(S2)
  BY FS_Subset
<1>2. Cardinality(S) \in Nat /\ Cardinality(S2) \in Nat
  BY <1>1, FS_CardinalityType
<1>3. S \ {x} = S2 \ {x}
  OBVIOUS
<1>4. /\ x \in S => Cardinality(S \ {x}) = Cardinality(S) - 1
      /\ x \notin S => Cardinality(S \ {x}) = Cardinality(S)
  BY <1>1, FS_RemoveElement
<1>5. /\ x \in S2 => Cardinality(S2 \ {x}) = Cardinality(S2) - 1
      /\ x \notin S2 => Cardinality(S2 \ {x}) = Cardinality(S2)
  BY <1>1, FS_RemoveElement
<1>6. /\ x \in S => Bit(x \in S) = 1
      /\ x \notin S => Bit(x \in S) = 0
      /\ x \in S2 => Bit(x \in S2) = 1
      /\ x \notin S2 => Bit(x \in S2) = 0
  BY DEF Bit
<1> QED BY <1>2, <1>3, <1>4, <1>5, <1>6

-----------------------------------------------------------------------------
(***************************************************************************)
(* The parts of FileRefExact.                                              *)
(***************************************************************************)
Dups(f)  == {p \in Proc : pc[p] = "filedup" /\ nf[p] = f}
Hands(f) == {p \in Proc : pc[p] \in InHand /\ nf[p] = f}

Exact(f) ==
  fref[f] + Cardinality(Dups(f)) = Cardinality(Slots(f)) + Cardinality(Hands(f))

LEMMA ExactAll == FileRefExact <=> \A f \in Files : Exact(f)
BY DEF FileRefExact, Exact, Dups, Hands, InHand, At

LEMMA PartCounts ==
  ASSUME NEW f
  PROVE  /\ Dups(f) \in SUBSET Proc /\ Hands(f) \in SUBSET Proc
         /\ Slots(f) \in SUBSET (Proc \X Fd)
         /\ IsFiniteSet(Dups(f)) /\ IsFiniteSet(Hands(f)) /\ IsFiniteSet(Slots(f))
         /\ Cardinality(Dups(f)) \in Nat /\ Cardinality(Hands(f)) \in Nat
         /\ Cardinality(Slots(f)) \in Nat
<1>1. /\ Dups(f) \in SUBSET Proc /\ Hands(f) \in SUBSET Proc
      /\ Slots(f) \in SUBSET (Proc \X Fd)
  BY DEF Dups, Hands, Slots
<1>2. IsFiniteSet(Dups(f)) /\ IsFiniteSet(Hands(f)) /\ IsFiniteSet(Slots(f))
  BY <1>1, FiniteFacts, FS_Subset
<1> QED BY <1>1, <1>2, FS_CardinalityType

(***************************************************************************)
(* The processes that have yet to count a descriptor of f have a counted   *)
(* one each, besides any descriptor x.                                     *)
(***************************************************************************)
LEMMA DupsFit ==
  ASSUME Control, NEW f \in Files, NEW x \in Slots(f)
  PROVE  Cardinality(Dups(f)) < Cardinality(Slots(f))
<1> DEFINE T == Slots(f) \ {x}
<1>1. ASSUME NEW q \in Dups(f) PROVE \E y \in T : y[1] = q
  <2>1. q \in Proc /\ pc[q] = "filedup" /\ nf[q] = f
    BY DEF Dups
  <2>2. PICK d, e \in Fd : d # e /\ openfs[q][d] = f /\ openfs[q][e] = f
    BY <2>1 DEF Control, FileInHand
  <2>3. <<q, d>> \in Slots(f) /\ <<q, e>> \in Slots(f) /\ <<q, d>> # <<q, e>>
    BY <2>1, <2>2 DEF Slots
  <2>4. <<q, d>>[1] = q /\ <<q, e>>[1] = q
    OBVIOUS
  <2>5. <<q, d>> \in T \/ <<q, e>> \in T
    BY <2>3
  <2> QED BY <2>4, <2>5
<1> DEFINE F == [q \in Dups(f) |-> CHOOSE y \in T : y[1] = q]
<1>2. F \in [Dups(f) -> T] /\ \A q \in Dups(f) : F[q][1] = q
  BY <1>1
<1>3. IsFiniteSet(Slots(f)) /\ IsFiniteSet(Dups(f))
  BY PartCounts
<1>4. IsFiniteSet(T) /\ Cardinality(T) = Cardinality(Slots(f)) - 1
  BY <1>3, FS_RemoveElement
<1>5. /\ Cardinality(Dups(f)) \in Nat /\ Cardinality(T) \in Nat
      /\ Cardinality(Slots(f)) \in Nat
  BY <1>3, <1>4, FS_CardinalityType
<1> HIDE DEF F, T
<1>6. ~(Cardinality(T) < Cardinality(Dups(f)))
  <2> SUFFICES ASSUME Cardinality(T) < Cardinality(Dups(f)) PROVE FALSE
    OBVIOUS
  <2>1. \E a, b \in Dups(f) : a # b /\ F[a] = F[b]
    BY <1>2, <1>3, <1>4, FS_PigeonHole
  <2> QED BY <1>2, <2>1
<1> QED BY <1>4, <1>5, <1>6

(***************************************************************************)
(* A file that a descriptor names, or that a process has in hand, is       *)
(* counted: filedup and fileclose do not panic.                            *)
(***************************************************************************)
LEMMA Counted ==
  ASSUME TypeOK, Control, FileRefExact, NEW f \in Files,
         Slots(f) # {} \/ Hands(f) # {}
  PROVE  fref[f] >= 1
<1>1. Exact(f)
  BY ExactAll
<1>2. fref[f] \in Nat
  BY DEF TypeOK
<1>3. CASE Slots(f) # {}
  <2>1. Cardinality(Dups(f)) < Cardinality(Slots(f))
    BY <1>3, DupsFit
  <2> QED BY <1>1, <1>2, <2>1, PartCounts DEF Exact
<1>4. CASE Slots(f) = {}
  <2>1. Dups(f) = {}
    <3>1. ASSUME NEW q \in Dups(f) PROVE FALSE
      <4>1. q \in Proc /\ pc[q] = "filedup" /\ nf[q] = f
        BY DEF Dups
      <4>2. PICK d \in Fd : openfs[q][d] = f
        BY <4>1 DEF Control, FileInHand
      <4>3. <<q, d>> \in Slots(f)
        BY <4>1, <4>2 DEF Slots
      <4> QED BY <1>4, <4>3
    <3> QED BY <3>1
  <2>2. Cardinality(Slots(f)) = 0 /\ Cardinality(Dups(f)) = 0
    BY <1>4, <2>1, FS_EmptySet
  <2>3. Cardinality(Hands(f)) # 0
    BY <1>4, PartCounts, FS_EmptySet
  <2> QED BY <1>1, <1>2, <2>2, <2>3, PartCounts DEF Exact
<1> QED BY <1>3, <1>4

-----------------------------------------------------------------------------
(***************************************************************************)
(* References to an inode, and the parts of RefCovers.                     *)
(***************************************************************************)
Inside == {"ilock", "filealloc", "fdalloc", "iput"}

FileAt(f, i) == fref[f] > 0 /\ ftype[f] = "inode" /\ fip[f] = i
IpAt(p, i)   == ip[p] = i /\ pc[p] \in Inside

FileRefs(i) == {f \in Files : FileAt(f, i)}
PwdRefs(i)  == {p \in Proc : pwd[p] = i}
DpRefs(i)   == {p \in Proc : dp[p] = i}
IpRefs(i)   == {p \in Proc : IpAt(p, i)}

Covers(i) ==
  iref[i] >= Cardinality(FileRefs(i)) + Cardinality(PwdRefs(i))
               + Cardinality(DpRefs(i)) + Cardinality(IpRefs(i))

LEMMA CoversAll == RefCovers <=> \A i \in Inodes : Covers(i)
BY DEF RefCovers, IRefs, Covers, FileRefs, PwdRefs, DpRefs, IpRefs, FileAt,
       IpAt, Inside

LEMMA RefCounts ==
  ASSUME NEW i
  PROVE  /\ FileRefs(i) \in SUBSET Files /\ PwdRefs(i) \in SUBSET Proc
         /\ DpRefs(i) \in SUBSET Proc /\ IpRefs(i) \in SUBSET Proc
         /\ IsFiniteSet(FileRefs(i)) /\ IsFiniteSet(PwdRefs(i))
         /\ IsFiniteSet(DpRefs(i)) /\ IsFiniteSet(IpRefs(i))
         /\ Cardinality(FileRefs(i)) \in Nat /\ Cardinality(PwdRefs(i)) \in Nat
         /\ Cardinality(DpRefs(i)) \in Nat /\ Cardinality(IpRefs(i)) \in Nat
<1>1. /\ FileRefs(i) \in SUBSET Files /\ PwdRefs(i) \in SUBSET Proc
      /\ DpRefs(i) \in SUBSET Proc /\ IpRefs(i) \in SUBSET Proc
  BY DEF FileRefs, PwdRefs, DpRefs, IpRefs
<1>2. /\ IsFiniteSet(FileRefs(i)) /\ IsFiniteSet(PwdRefs(i))
      /\ IsFiniteSet(DpRefs(i)) /\ IsFiniteSet(IpRefs(i))
  BY <1>1, FiniteFacts, FS_Subset
<1> QED BY <1>1, <1>2, FS_CardinalityType

(***************************************************************************)
(* The entry of a current directory, and of an inode in hand, is in use.   *)
(***************************************************************************)
LEMMA InUse ==
  ASSUME TypeOK, RefCovers, NEW i \in Inodes, NEW p \in Proc,
         pwd[p] = i \/ IpAt(p, i)
  PROVE  iref[i] >= 1
<1>1. Covers(i)
  BY CoversAll
<1>2. PwdRefs(i) # {} \/ IpRefs(i) # {}
  BY DEF PwdRefs, IpRefs
<1>3. Cardinality(PwdRefs(i)) # 0 \/ Cardinality(IpRefs(i)) # 0
  BY <1>2, RefCounts, FS_EmptySet
<1>4. iref[i] \in Nat
  BY DEF TypeOK
<1> QED BY <1>1, <1>3, <1>4, RefCounts DEF Covers

LEMMA CountTypes ==
  ASSUME NEW S, NEW c \in [S -> Nat], NEW x
  PROVE  /\ [c EXCEPT ![x] = @ + 1] \in [S -> Nat]
         /\ (x \in S => c[x] >= 1) => [c EXCEPT ![x] = @ - 1] \in [S -> Nat]
<1>1. \A y \in S : c[y] \in Nat
  OBVIOUS
<1>2. \A n \in Nat : n + 1 \in Nat /\ (n >= 1 => n - 1 \in Nat)
  OBVIOUS
<1> QED BY <1>1, <1>2

LEMMA GetTypes ==
  ASSUME TypeOK, NEW k \in Inum, CanGet(k), iget(k)
  PROVE  /\ iref' \in [Inodes -> Nat] /\ inum' \in [Inodes -> Inum]
         /\ vaild' \in [Inodes -> {0}]
<1>1. Got(k) \in Inodes
  BY GotFacts
<1> QED BY <1>1 DEF iget, TypeOK

-----------------------------------------------------------------------------
(***************************************************************************)
(* Type correctness.                                                       *)
(***************************************************************************)
LEMMA LockTypes ==
  ASSUME TypeOK, NEW p \in Proc, NEW i, NEW l \in Labels, ilock(p, i, l)
  PROVE  /\ ilk' \in [Inodes -> Proc \cup {NoProc}] /\ vaild' \in [Inodes -> {0}]
         /\ pc' \in [Proc -> Labels]
<1>1. "stuck" \in Labels
  BY DEF Labels
<1>2. pc' \in [Proc -> Labels]
  BY <1>1 DEF ilock, Goto, TypeOK
<1> QED BY <1>2 DEF ilock, TypeOK

LEMMA TypeOpen ==
  ASSUME TypeOK, NEW p \in Proc, Open(p)
  PROVE  TypeOK'
<1> USE ConstantFacts DEF TypeOK, Labels, FileOrNil, InodeOrNil, ftable, itable,
        On, At, Goto, Set
<1>1. CASE OpenRoot(p)
  <2>1. Got(ROOTINO) \in Inodes
    BY <1>1, GotFacts DEF OpenRoot
  <2>2. /\ iref' \in [Inodes -> Nat] /\ inum' \in [Inodes -> Inum]
        /\ vaild' \in [Inodes -> {0}]
    BY <1>1, GetTypes DEF OpenRoot
  <2> QED BY <1>1, <2>1, <2>2 DEF OpenRoot
<1>2. CASE OpenName(p)
  <2>1. Got(ROOTINO) \in Inodes
    BY <1>2, GotFacts DEF OpenName
  <2>2. /\ iref' \in [Inodes -> Nat] /\ inum' \in [Inodes -> Inum]
        /\ vaild' \in [Inodes -> {0}]
    BY <1>2, GetTypes DEF OpenName
  <2> QED BY <1>2, <2>1, <2>2 DEF OpenName
<1>3. CASE DirLock(p)
  <2>1. UNCHANGED <<openfs, pwd, ftable, iref, inum, ret, ip, dp, nf, fd, kid>>
    BY <1>3 DEF DirLock
  <2> QED BY <1>3, <2>1, LockTypes DEF DirLock
<1>4. ASSUME NEW k \in Inum, LookupFound(p, k) PROVE TypeOK'
  <2>1. CASE CanGet(k)
    <3>1. Got(k) \in Inodes
      BY <2>1, GotFacts
    <3>2. /\ iref' \in [Inodes -> Nat] /\ inum' \in [Inodes -> Inum]
          /\ vaild' \in [Inodes -> {0}]
      BY <1>4, <2>1, GetTypes DEF LookupFound
    <3>3. /\ ip' = Set(ip, p, Got(k)) /\ ilk' = [ilk EXCEPT ![dp[p]] = NoProc]
          /\ Goto(p, "ilock") /\ dp' = Set(dp, p, Nil)
          /\ UNCHANGED <<openfs, pwd, ftable, ret, nf, fd, kid>>
      BY <1>4, <2>1 DEF LookupFound
    <3> QED BY <3>1, <3>2, <3>3
  <2>2. CASE ~CanGet(k)
    BY <1>4, <2>2 DEF LookupFound
  <2> QED BY <2>1, <2>2
<1>5. CASE LookupMissing(p)
  BY <1>5 DEF LookupMissing
<1>6. CASE OpenLock(p)
  <2>1. UNCHANGED <<openfs, pwd, ftable, iref, inum, ret, ip, dp, nf, fd, kid>>
    BY <1>6 DEF OpenLock
  <2> QED BY <1>6, <2>1, LockTypes DEF OpenLock
<1>7. CASE FileAlloc(p)
  <2>1. CASE FreeFiles # {}
    <3>1. Min(FreeFiles) \in Files
      BY <2>1, FreeFileIn
    <3>2. /\ fref' = [fref EXCEPT ![Min(FreeFiles)] = 1]
          /\ nf' = Set(nf, p, Min(FreeFiles))
          /\ Goto(p, "fdalloc")
          /\ UNCHANGED <<openfs, pwd, ftype, fip, itable, ret, ip, dp, fd, kid>>
      BY <1>7, <2>1 DEF FileAlloc
    <3> QED BY <3>1, <3>2
  <2>2. CASE FreeFiles = {}
    BY <1>7, <2>2 DEF FileAlloc
  <2> QED BY <2>1, <2>2
<1>8. CASE OpenDone(p)
  <2>1. Min(FreeFds(p)) \in Fd
    BY <1>8, FreeFdIn DEF OpenDone
  <2> QED BY <1>8, <2>1 DEF OpenDone
<1>9. CASE OpenNoFd(p)
  BY <1>9 DEF OpenNoFd
<1>10. CASE OpenBadMajor(p)
  BY <1>10 DEF OpenBadMajor
<1> QED BY <1>1, <1>2, <1>3, <1>4, <1>5, <1>6, <1>7, <1>8, <1>9, <1>10 DEF Open

LEMMA TypeUse ==
  ASSUME TypeOK, Control, RefCovers, NEW p \in Proc, Use(p)
  PROVE  TypeOK'
<1> USE ConstantFacts DEF TypeOK, Labels, FileOrNil, InodeOrNil, ftable, itable,
        On, At, Goto, Set
<1>1. ASSUME NEW d \in Fd, Close(p, d) PROVE TypeOK'
  BY <1>1 DEF Close
<1>2. ASSUME NEW d \in Fd, Dup(p, d) PROVE TypeOK'
  <2>1. Min(FreeFds(p)) \in Fd
    BY <1>2, FreeFdIn DEF Dup
  <2> QED BY <1>2, <2>1 DEF Dup
<1>3. ASSUME NEW d \in Fd, Read(p, d) \/ Fstat(p, d) PROVE TypeOK'
  <2>0. openfs[p][d] \in Files
    BY <1>3 DEF Read, Fstat
  <2>1. fip[openfs[p][d]] \in InodeOrNil
    BY <2>0
  <2>2. /\ ip' = Set(ip, p, fip[openfs[p][d]])
        /\ Goto(p, "readlock")
        /\ UNCHANGED <<openfs, pwd, ftable, itable, ret, dp, nf, fd, kid>>
    BY <1>3 DEF Read, Fstat
  <2> QED BY <2>1, <2>2
<1>4. ASSUME NEW d \in Fd, ReadBadFd(p, d) PROVE TypeOK'
  BY <1>4 DEF ReadBadFd
<1>5. CASE Fileclose(p)
  <2> DEFINE f == nf[p]
  <2>1. /\ nf' = Set(nf, p, Nil)
        /\ UNCHANGED <<openfs, pwd, fip, itable, dp, fd, kid>>
    BY <1>5 DEF Fileclose
  <2>2. f \in Files
    BY <1>5 DEF Fileclose, Control, FileInHand, InHand
  <2> HIDE DEF f
  <2>3. CASE fref[f] < 1
    <3>1. Goto(p, "panic") /\ UNCHANGED <<fref, ftype, ip, ret>>
      BY <1>5, <2>3 DEF Fileclose, f
    <3> QED BY <2>1, <3>1
  <2>4. CASE ~(fref[f] < 1)
    <3>1. fref' = [fref EXCEPT ![f] = @ - 1]
      BY <1>5, <2>4 DEF Fileclose, f
    <3>2. fref' \in [Files -> Nat]
      <4>1. fref[f] >= 1
        BY <2>2, <2>4
      <4> QED BY <3>1, <4>1, CountTypes
    <3>3. ftype' \in [Files -> {"none", "inode"}]
      <4>1. ftype' = ftype \/ ftype' = [ftype EXCEPT ![f] = "none"]
        BY <1>5, <2>4 DEF Fileclose, f
      <4> QED BY <4>1
    <3>4. /\ pc' \in [Proc -> Labels] /\ ip' \in [Proc -> InodeOrNil]
          /\ ret' \in [Proc -> {"idle", "exit", "gone"}]
      <4>1. CASE Goto(p, ret[p]) /\ ret' = Set(ret, p, "idle") /\ UNCHANGED ip
        BY <4>1
      <4>2. CASE ip' = Set(ip, p, fip[f]) /\ Goto(p, "iput") /\ UNCHANGED ret
        <5>1. fip[f] \in InodeOrNil
          BY <2>2
        <5> QED BY <4>2, <5>1
      <4> QED BY <1>5, <2>4, <4>1, <4>2 DEF Fileclose, f
    <3> QED BY <2>1, <3>2, <3>3, <3>4
  <2> QED BY <2>3, <2>4
<1>6. CASE Filedup(p)
  <2>1. /\ nf' = Set(nf, p, Nil)
        /\ UNCHANGED <<openfs, pwd, ftype, fip, itable, ret, ip, dp, fd, kid>>
    BY <1>6 DEF Filedup
  <2>2. CASE Goto(p, "panic") /\ UNCHANGED fref
    BY <2>1, <2>2
  <2>3. CASE Goto(p, "idle") /\ fref' = [fref EXCEPT ![nf[p]] = @ + 1]
    <3>1. fref' \in [Files -> Nat]
      BY <2>3, CountTypes
    <3> QED BY <2>1, <2>3, <3>1
  <2> QED BY <1>6, <2>2, <2>3 DEF Filedup
<1>7. CASE Iput(p)
  <2>1. ip[p] \in Inodes => iref[ip[p]] >= 1
    BY <1>7, InUse DEF Iput, IpAt, Inside
  <2>2. iref' = [iref EXCEPT ![ip[p]] = @ - 1]
    BY <1>7 DEF Iput
  <2>3. iref' \in [Inodes -> Nat]
    BY <2>1, <2>2, CountTypes
  <2> QED BY <1>7, <2>3 DEF Iput
<1>8. CASE ReadLock(p)
  <2>1. UNCHANGED <<openfs, pwd, ftable, iref, inum, ret, ip, dp, nf, fd, kid>>
    BY <1>8 DEF ReadLock
  <2> QED BY <1>8, <2>1, LockTypes DEF ReadLock
<1>9. CASE ReadDone(p)
  <2>1. /\ ip' = Set(ip, p, Nil)
        /\ UNCHANGED <<openfs, pwd, ftable, iref, inum, vaild, ret, dp, nf, fd, kid>>
    BY <1>9 DEF ReadDone
  <2>2. CASE Goto(p, "panic") /\ UNCHANGED ilk
    BY <2>1, <2>2
  <2>3. CASE Goto(p, "idle") /\ ilk' = [ilk EXCEPT ![ip[p]] = NoProc]
    BY <2>1, <2>3
  <2> QED BY <1>9, <2>2, <2>3 DEF ReadDone
<1> QED BY <1>1, <1>2, <1>3, <1>4, <1>5, <1>6, <1>7, <1>8, <1>9 DEF Use

LEMMA TypeLife ==
  ASSUME TypeOK, NEW p \in Proc, Life(p)
  PROVE  TypeOK'
<1> USE ConstantFacts, FileAssumption
        DEF TypeOK, Labels, FileOrNil, InodeOrNil, ftable, itable, On, At, Goto, Set
<1>1. ASSUME NEW q \in Proc, Fork(p, q) PROVE TypeOK'
  <2>1. 1 \in 1 .. OPENFILE + 1
    OBVIOUS
  <2>2. /\ kid' = [kid EXCEPT ![p] = q] /\ fd' = [fd EXCEPT ![p] = 1]
        /\ pc' = [pc EXCEPT ![p] = "fork", ![q] = "embryo"]
        /\ UNCHANGED <<openfs, pwd, ftable, itable, ret, ip, dp, nf>>
    BY <1>1 DEF Fork
  <2> QED BY <2>1, <2>2
<1>2. CASE ForkDup(p)
  <2>1. fd[p] \in Fd /\ fd[p] + 1 \in 1 .. OPENFILE + 1
    BY <1>2 DEF ForkDup, Fd
  <2>2. fd' = Set(fd, p, fd[p] + 1)
    BY <1>2 DEF ForkDup
  <2>3. fd' \in [Proc -> 1 .. OPENFILE + 1]
    BY <2>1, <2>2
  <2>4. UNCHANGED <<pwd, ftype, fip, itable, ret, ip, dp, nf, kid>>
    BY <1>2 DEF ForkDup
  <2>5. CASE UNCHANGED <<openfs, fref, pc>>
    BY <2>3, <2>4, <2>5
  <2>6. CASE Goto(p, "panic") /\ UNCHANGED <<openfs, fref>>
    BY <2>3, <2>4, <2>6
  <2>7. CASE /\ openfs' = [openfs EXCEPT ![kid[p]][fd[p]] = openfs[p][fd[p]]]
             /\ fref' = [fref EXCEPT ![openfs[p][fd[p]]] = @ + 1]
             /\ UNCHANGED pc
    <3>1. openfs' \in [Proc -> [Fd -> FileOrNil]]
      BY <2>1, <2>7
    <3>2. fref' \in [Files -> Nat]
      BY <2>7, CountTypes
    <3> QED BY <2>3, <2>4, <2>7, <3>1, <3>2
  <2> QED BY <1>2, <2>5, <2>6, <2>7 DEF ForkDup
<1>3. CASE ForkDone(p)
  <2>1. iref' = [iref EXCEPT ![pwd[p]] = @ + 1] /\ pwd' = Set(pwd, kid[p], pwd[p])
    BY <1>3 DEF ForkDone
  <2>2. iref' \in [Inodes -> Nat] /\ pwd' \in [Proc -> InodeOrNil]
    BY <2>1, CountTypes
  <2>3. 1 \in 1 .. OPENFILE + 1
    OBVIOUS
  <2>4. /\ pc' = [pc EXCEPT ![p] = "idle", ![kid[p]] = "idle"]
        /\ kid' = Set(kid, p, p) /\ fd' = Set(fd, p, 1)
        /\ UNCHANGED <<openfs, ftable, inum, ilk, vaild, ret, ip, dp, nf>>
    BY <1>3 DEF ForkDone
  <2> QED BY <2>2, <2>3, <2>4
<1>4. CASE Exit(p)
  BY <1>4 DEF Exit
<1>5. CASE ExitClose(p)
  <2>1. fd[p] \in Fd /\ fd[p] + 1 \in 1 .. OPENFILE + 1
    BY <1>5 DEF ExitClose, Fd
  <2>2. /\ openfs' = [openfs EXCEPT ![p][fd[p]] = Nil]
        /\ fd' = Set(fd, p, fd[p] + 1)
    BY <1>5 DEF ExitClose
  <2>3. openfs' \in [Proc -> [Fd -> FileOrNil]] /\ fd' \in [Proc -> 1 .. OPENFILE + 1]
    BY <2>1, <2>2
  <2>4. openfs[p][fd[p]] \in FileOrNil
    BY <2>1
  <2>5. /\ pc' \in [Proc -> Labels] /\ nf' \in [Proc -> FileOrNil]
        /\ ret' \in [Proc -> {"idle", "exit", "gone"}]
    <3>1. CASE UNCHANGED <<pc, ret, nf>>
      BY <3>1
    <3>2. CASE /\ nf' = Set(nf, p, openfs[p][fd[p]])
               /\ ret' = Set(ret, p, "exit")
               /\ Goto(p, "fileclose")
      BY <2>4, <3>2
    <3> QED BY <1>5, <3>1, <3>2 DEF ExitClose
  <2> QED BY <1>5, <2>3, <2>5 DEF ExitClose
<1>6. CASE ExitPwd(p)
  BY <1>6 DEF ExitPwd
<1> QED BY <1>1, <1>2, <1>3, <1>4, <1>5, <1>6 DEF Life

LEMMA TypeStep ==
  ASSUME TypeOK, Control, RefCovers, Next
  PROVE  TypeOK'
BY TypeOpen, TypeUse, TypeLife DEF Next

-----------------------------------------------------------------------------
(***************************************************************************)
(* Control.  All but fork's steps change one process only.                 *)
(***************************************************************************)
SameAt(q) ==
  /\ openfs'[q] = openfs[q] /\ pc'[q] = pc[q] /\ ret'[q] = ret[q]
  /\ nf'[q] = nf[q] /\ fd'[q] = fd[q] /\ kid'[q] = kid[q]

LocalTo(p) ==
  /\ pc[p] \notin {"gone", "embryo"}
  /\ pc'[p] # "fork"
  /\ \A q \in Proc : q # p => SameAt(q)

Own(p) == FileInHand(p) /\ RetIdle(p) /\ ExitCloses(p)

LEMMA ControlLocal ==
  ASSUME TypeOK, Control, NEW p \in Proc, LocalTo(p), Own(p)'
  PROVE  Control'
<1>1. ASSUME NEW q \in Proc PROVE Own(q)'
  <2>1. CASE q = p
    BY <2>1
  <2>2. CASE q # p
    <3>1. SameAt(q) /\ Own(q)
      BY <2>2 DEF LocalTo, Control, Own
    <3> QED BY <3>1 DEF SameAt, Own, FileInHand, RetIdle, ExitCloses
  <2> QED BY <2>1, <2>2
<1>2. ASSUME NEW q \in Proc, pc'[q] = "fork" PROVE KidApart(q)'
  <2>1. q # p /\ SameAt(q) /\ KidApart(q) /\ pc[q] = "fork" /\ kid[q] \in Proc
    BY <1>2 DEF LocalTo, Control, SameAt, TypeOK
  <2>2. kid[q] # p /\ SameAt(kid[q])
    BY <2>1 DEF LocalTo, KidApart
  <2>3. ASSUME NEW r \in Proc, pc'[r] = "fork", kid'[r] = kid'[q] PROVE r = q
    <3>1. r # p /\ SameAt(r)
      BY <2>3 DEF LocalTo
    <3> QED BY <2>1, <2>3, <3>1 DEF SameAt, KidApart
  <2> QED BY <2>1, <2>2, <2>3 DEF SameAt, KidApart
<1> QED BY <1>1, <1>2 DEF Control, Own, KidApart

LEMMA LocalOpen ==
  ASSUME TypeOK, Control, NEW p \in Proc, Open(p)
  PROVE  LocalTo(p) /\ Own(p)'
<1> USE ConstantFacts DEF TypeOK, On, At, Goto, Set, Control, LocalTo, SameAt,
        Own, FileInHand, RetIdle, ExitCloses, InHand
<1>1. CASE OpenRoot(p)
  BY <1>1 DEF OpenRoot
<1>2. CASE OpenName(p)
  BY <1>2 DEF OpenName
<1>3. CASE DirLock(p)
  BY <1>3 DEF DirLock, ilock
<1>4. ASSUME NEW k \in Inum, LookupFound(p, k) PROVE LocalTo(p) /\ Own(p)'
  BY <1>4 DEF LookupFound
<1>5. CASE LookupMissing(p)
  BY <1>5 DEF LookupMissing
<1>6. CASE OpenLock(p)
  BY <1>6 DEF OpenLock, ilock
<1>7. CASE FileAlloc(p)
  <2>1. CASE FreeFiles # {}
    <3>1. Min(FreeFiles) \in Files
      BY <2>1, FreeFileIn
    <3>2. /\ pc[p] = "filealloc" /\ nf' = Set(nf, p, Min(FreeFiles))
          /\ Goto(p, "fdalloc") /\ UNCHANGED <<openfs, ret, fd, kid>>
      BY <1>7, <2>1 DEF FileAlloc
    <3> QED BY <3>1, <3>2
  <2>2. CASE FreeFiles = {}
    BY <1>7, <2>2 DEF FileAlloc
  <2> QED BY <2>1, <2>2
<1>8. CASE OpenDone(p)
  <2>1. /\ pc[p] = "fdalloc" /\ Goto(p, "idle") /\ nf' = Set(nf, p, Nil)
        /\ UNCHANGED <<ret, fd, kid>>
        /\ openfs' = [openfs EXCEPT ![p][Min(FreeFds(p))] = nf[p]]
    BY <1>8 DEF OpenDone
  <2>2. \A q \in Proc : q # p => openfs'[q] = openfs[q]
    BY <2>1
  <2>3. LocalTo(p)
    BY <2>1, <2>2
  <2>4. pc'[p] = "idle" /\ ret'[p] = "idle"
    BY <2>1
  <2> QED BY <2>3, <2>4
<1>9. CASE OpenNoFd(p) \/ OpenBadMajor(p)
  BY <1>9 DEF OpenNoFd, OpenBadMajor
<1> QED BY <1>1, <1>2, <1>3, <1>4, <1>5, <1>6, <1>7, <1>8, <1>9 DEF Open

LEMMA LocalUse ==
  ASSUME TypeOK, Control, FileRefExact, NEW p \in Proc, Use(p)
  PROVE  LocalTo(p) /\ Own(p)'
<1> USE ConstantFacts DEF TypeOK, On, At, Goto, Set, Control, LocalTo, SameAt,
        Own, FileInHand, RetIdle, ExitCloses, InHand
<1>1. ASSUME NEW d \in Fd, Close(p, d) PROVE LocalTo(p) /\ Own(p)'
  BY <1>1 DEF Close, FileOrNil
<1>2. ASSUME NEW d \in Fd, Dup(p, d) PROVE LocalTo(p) /\ Own(p)'
  <2>1. Min(FreeFds(p)) \in Fd /\ openfs[p][Min(FreeFds(p))] = Nil
    BY <1>2, FreeFdIn DEF Dup
  <2> DEFINE e == Min(FreeFds(p))
             f == openfs[p][d]
  <2>2. f \in Files /\ e # d
    BY <1>2, <2>1 DEF Dup, FileOrNil
  <2>3. openfs' = [openfs EXCEPT ![p][e] = f]
    BY <1>2 DEF Dup
  <2> HIDE DEF e
  <2>4. openfs'[p][d] = f /\ openfs'[p][e] = f /\ e \in Fd
    BY <2>1, <2>2, <2>3 DEF e
  <2>5. /\ nf'[p] = f /\ pc'[p] = "filedup" /\ ret'[p] = "idle"
        /\ pc[p] = "idle"
    BY <1>2 DEF Dup
  <2>6. LocalTo(p)
    BY <1>2, <2>3 DEF Dup
  <2> QED BY <2>2, <2>4, <2>5, <2>6
<1>3. ASSUME NEW d \in Fd, Read(p, d) \/ Fstat(p, d) PROVE LocalTo(p) /\ Own(p)'
  BY <1>3 DEF Read, Fstat
<1>4. ASSUME NEW d \in Fd, ReadBadFd(p, d) PROVE LocalTo(p) /\ Own(p)'
  BY <1>4 DEF ReadBadFd
<1>5. CASE Fileclose(p)
  <2>1. /\ pc[p] = "fileclose" /\ openfs' = openfs /\ fd' = fd /\ kid' = kid
        /\ nf' = Set(nf, p, Nil)
    BY <1>5 DEF Fileclose
  <2>2. ~(fref[nf[p]] < 1)
    <3>1. nf[p] \in Files /\ p \in Hands(nf[p])
      BY <2>1 DEF Hands
    <3>2. fref[nf[p]] >= 1 /\ fref[nf[p]] \in Nat
      BY <3>1, Counted
    <3> QED BY <3>2
  <2>3. CASE Goto(p, ret[p]) /\ ret' = Set(ret, p, "idle")
    BY <2>1, <2>3
  <2>4. CASE Goto(p, "iput") /\ UNCHANGED ret
    BY <2>1, <2>4
  <2> QED BY <1>5, <2>2, <2>3, <2>4 DEF Fileclose
<1>6. CASE Filedup(p)
  BY <1>6 DEF Filedup
<1>7. CASE Iput(p)
  BY <1>7 DEF Iput
<1>8. CASE ReadLock(p)
  BY <1>8 DEF ReadLock, ilock
<1>9. CASE ReadDone(p)
  BY <1>9 DEF ReadDone
<1> QED BY <1>1, <1>2, <1>3, <1>4, <1>5, <1>6, <1>7, <1>8, <1>9 DEF Use

LEMMA LocalExit ==
  ASSUME TypeOK, Control, NEW p \in Proc, Exit(p) \/ ExitClose(p) \/ ExitPwd(p)
  PROVE  LocalTo(p) /\ Own(p)'
<1> USE ConstantFacts DEF TypeOK, On, At, Goto, Set, Control, LocalTo, SameAt,
        Own, FileInHand, RetIdle, ExitCloses, InHand
<1>1. CASE Exit(p)
  <2>1. \A d \in Fd : ~(d < 1)
    BY DEF Fd
  <2>2. LocalTo(p)
    BY <1>1 DEF Exit
  <2>3. Own(p)'
    BY <1>1, <2>1 DEF Exit
  <2> QED BY <2>2, <2>3
<1>2. CASE ExitClose(p)
  <2>1. /\ pc[p] = "exit" /\ ret[p] = "idle" /\ fd[p] \in Fd
        /\ openfs' = [openfs EXCEPT ![p][fd[p]] = Nil]
        /\ fd' = Set(fd, p, fd[p] + 1) /\ kid' = kid
    <3>1. fd[p] \in Fd
      BY <1>2, FileAssumption DEF ExitClose, Fd
    <3> QED BY <1>2, <3>1 DEF ExitClose
  <2>2. \A d \in Fd : d < fd'[p] => openfs'[p][d] = Nil
    <3>1. ASSUME NEW d \in Fd, d < fd'[p] PROVE d < fd[p] \/ d = fd[p]
      BY <2>1, <3>1, FileAssumption DEF Fd
    <3>2. \A d \in Fd : d < fd[p] => openfs[p][d] = Nil
      BY <2>1
    <3> QED BY <2>1, <3>1, <3>2
  <2>3. CASE openfs[p][fd[p]] = Nil
    <3>1. UNCHANGED <<pc, ret, nf>>
      BY <1>2, <2>3 DEF ExitClose
    <3> QED BY <2>1, <2>2, <3>1
  <2>4. CASE openfs[p][fd[p]] # Nil
    <3>1. /\ nf' = Set(nf, p, openfs[p][fd[p]]) /\ ret' = Set(ret, p, "exit")
          /\ Goto(p, "fileclose")
      BY <1>2, <2>4 DEF ExitClose
    <3>2. openfs[p][fd[p]] \in Files
      BY <2>1, <2>4 DEF FileOrNil
    <3> QED BY <2>1, <2>2, <3>1, <3>2
  <2> QED BY <2>3, <2>4
<1>3. CASE ExitPwd(p)
  <2>1. pc[p] = "exit" /\ \A d \in Fd : d < fd[p]
    BY <1>3, FileAssumption DEF ExitPwd, Fd
  <2>2. \A d \in Fd : openfs[p][d] = Nil
    BY <2>1
  <2> QED BY <1>3, <2>2 DEF ExitPwd
<1> QED BY <1>1, <1>2, <1>3

LEMMA ControlFork ==
  ASSUME TypeOK, Control, NEW p \in Proc, NEW q \in Proc, Fork(p, q)
  PROVE  Control'
<1> USE ConstantFacts DEF TypeOK
<1>1. /\ pc[p] = "idle" /\ pc[q] = "gone" /\ p # q
      /\ kid' = [kid EXCEPT ![p] = q] /\ fd' = [fd EXCEPT ![p] = 1]
      /\ pc' = [pc EXCEPT ![p] = "fork", ![q] = "embryo"]
      /\ openfs' = openfs /\ ret' = ret /\ nf' = nf
  BY DEF Fork, On, At, Set
<1>2. \A r \in Proc : /\ r # p /\ r # q => pc'[r] = pc[r]
                      /\ r # p => kid'[r] = kid[r] /\ fd'[r] = fd[r]
  BY <1>1
<1>3. pc'[p] = "fork" /\ pc'[q] = "embryo" /\ kid'[p] = q /\ fd'[p] = 1
  BY <1>1
<1>4. ASSUME NEW r \in Proc PROVE Own(r)'
  <2>1. Own(r)
    BY DEF Control, Own
  <2>2. CASE r = p \/ r = q
    BY <1>1, <1>3, <2>1, <2>2 DEF Own, FileInHand, RetIdle, ExitCloses, InHand
  <2>3. CASE r # p /\ r # q
    BY <1>1, <1>2, <2>1, <2>3 DEF Own, FileInHand, RetIdle, ExitCloses
  <2> QED BY <2>2, <2>3
<1>5. ASSUME NEW r \in Proc, pc'[r] = "fork" PROVE KidApart(r)'
  <2>1. CASE r = p
    <3>1. \A d \in Fd : openfs'[q][d] = Nil
      BY <1>1 DEF Control, ExitCloses
    <3>2. \A u \in Proc : u # p /\ pc'[u] = "fork" => kid'[u] # q
      <4>1. ASSUME NEW u \in Proc, u # p, pc'[u] = "fork" PROVE kid'[u] # q
        <5>1. u # q /\ pc[u] = "fork" /\ kid'[u] = kid[u]
          BY <1>2, <1>3, <4>1
        <5> QED BY <1>1, <5>1 DEF Control, KidApart
      <4> QED BY <4>1
    <3> QED BY <1>3, <2>1, <3>1, <3>2 DEF KidApart
  <2>2. CASE r # p
    <3>1. r # q /\ pc[r] = "fork" /\ kid'[r] = kid[r] /\ fd'[r] = fd[r] /\ kid[r] \in Proc
      BY <1>2, <1>3, <1>5, <2>2
    <3>2. KidApart(r) /\ pc[kid[r]] = "embryo"
      BY <3>1 DEF Control, KidApart
    <3>3. pc'[kid[r]] = "embryo"
      BY <1>1, <1>2, <3>1, <3>2
    <3>4. ASSUME NEW u \in Proc, pc'[u] = "fork", kid'[u] = kid'[r] PROVE u = r
      <4>1. u # p
        BY <1>1, <1>3, <3>1, <3>2, <3>4
      <4> QED BY <1>2, <1>3, <3>1, <3>2, <3>4, <4>1 DEF KidApart
    <3> QED BY <1>1, <3>1, <3>2, <3>3, <3>4 DEF KidApart
  <2> QED BY <2>1, <2>2
<1> QED BY <1>4, <1>5 DEF Control, Own, KidApart

\* fork's loop: the child's next descriptor is still free, and it becomes the
\* parent's.
DupsTo(p, f) ==
  /\ pc[p] = "fork" /\ fd[p] \in Fd /\ kid[p] \in Proc /\ f \in FileOrNil
  /\ f = openfs[p][fd[p]] /\ openfs[kid[p]][fd[p]] = Nil
  /\ openfs' = [openfs EXCEPT ![kid[p]][fd[p]] = f]
  /\ fref' = IF f = Nil THEN fref ELSE [fref EXCEPT ![f] = @ + 1]
  /\ f # Nil => fref[f] >= 1
  /\ fd' = [fd EXCEPT ![p] = @ + 1]
  /\ UNCHANGED <<pwd, ftype, fip, itable, pc, ret, ip, dp, nf, kid>>

LEMMA ForkDups ==
  ASSUME TypeOK, Control, FileRefExact, NEW p \in Proc, ForkDup(p)
  PROVE  \E f \in FileOrNil : DupsTo(p, f)
<1> DEFINE f == openfs[p][fd[p]]
<1>1. /\ pc[p] = "fork" /\ fd[p] \in Fd /\ kid[p] \in Proc
      /\ fd' = [fd EXCEPT ![p] = @ + 1]
      /\ UNCHANGED <<pwd, ftype, fip, itable, ret, ip, dp, nf, kid>>
  <2>1. fd[p] \in Fd
    BY FileAssumption DEF ForkDup, Fd, TypeOK
  <2> QED BY <2>1 DEF ForkDup, TypeOK, On, At, Set
<1>2. f \in FileOrNil
  BY <1>1 DEF TypeOK
<1>3. openfs[kid[p]][fd[p]] = Nil
  <2>1. fd[p] >= fd[p]
    BY <1>1, FileAssumption DEF Fd
  <2> QED BY <1>1, <2>1 DEF Control, KidApart
<1>4. CASE f = Nil
  <2>1. UNCHANGED <<openfs, fref, pc>>
    BY <1>4 DEF ForkDup
  <2>2. openfs = [openfs EXCEPT ![kid[p]][fd[p]] = f]
    BY <1>1, <1>3, <1>4 DEF TypeOK
  <2> QED BY <1>1, <1>2, <1>3, <1>4, <2>1, <2>2 DEF DupsTo
<1>5. CASE f # Nil
  <2>1. f \in Files /\ <<p, fd[p]>> \in Slots(f)
    BY <1>1, <1>2, <1>5 DEF FileOrNil, Slots
  <2>2. fref[f] >= 1 /\ fref[f] \in Nat
    BY <2>1, Counted DEF TypeOK
  <2>3. /\ openfs' = [openfs EXCEPT ![kid[p]][fd[p]] = f]
        /\ fref' = [fref EXCEPT ![f] = @ + 1]
        /\ UNCHANGED pc
    BY <1>5, <2>2 DEF ForkDup
  <2> QED BY <1>1, <1>2, <1>3, <1>5, <2>2, <2>3 DEF DupsTo
<1> QED BY <1>4, <1>5

LEMMA ControlDups ==
  ASSUME TypeOK, Control, NEW p \in Proc, NEW f \in FileOrNil, DupsTo(p, f)
  PROVE  Control'
<1> USE ConstantFacts DEF TypeOK
<1> DEFINE c == kid[p]
<1>1. /\ pc[p] = "fork" /\ fd[p] \in Fd /\ c \in Proc /\ pc[c] = "embryo"
      /\ openfs' = [openfs EXCEPT ![c][fd[p]] = f]
      /\ fd' = [fd EXCEPT ![p] = @ + 1]
      /\ UNCHANGED <<pc, ret, nf, kid>>
  BY DEF DupsTo, Control, KidApart
<1> HIDE DEF c
<1>2. \A r \in Proc : /\ r # c => openfs'[r] = openfs[r]
                      /\ r # p => fd'[r] = fd[r]
  BY <1>1
<1>3. ret[c] = "idle" /\ ret[p] = "idle" /\ c # p
  BY <1>1 DEF Control, RetIdle
<1>4. ASSUME NEW r \in Proc PROVE Own(r)'
  <2>1. Own(r)
    BY DEF Control, Own
  <2>2. CASE r = p \/ r = c
    BY <1>1, <1>3, <2>1, <2>2 DEF Own, FileInHand, RetIdle, ExitCloses, InHand
  <2>3. CASE r # p /\ r # c
    BY <1>1, <1>2, <2>1, <2>3 DEF Own, FileInHand, RetIdle, ExitCloses
  <2> QED BY <2>2, <2>3
<1>5. ASSUME NEW r \in Proc, pc'[r] = "fork" PROVE KidApart(r)'
  <2>1. KidApart(r) /\ kid[r] \in Proc /\ pc[r] = "fork" /\ kid'[r] = kid[r]
    BY <1>1, <1>5 DEF Control
  <2>2. \A d \in Fd : d >= fd'[r] => openfs'[kid[r]][d] = Nil
    <3>1. CASE r = p
      <4>1. ASSUME NEW d \in Fd, d >= fd'[p] PROVE d >= fd[p] /\ d # fd[p]
        BY <1>1, <4>1 DEF Fd
      <4>2. \A d \in Fd : d >= fd[p] => openfs[c][d] = Nil
        BY <2>1, <3>1 DEF KidApart, c
      <4>3. \A d \in Fd : d # fd[p] => openfs'[c][d] = openfs[c][d]
        BY <1>1
      <4> QED BY <3>1, <4>1, <4>2, <4>3 DEF c
    <3>2. CASE r # p
      <4>1. kid[r] # c
        BY <1>1, <2>1, <3>2 DEF KidApart, c
      <4> QED BY <1>2, <2>1, <3>2, <4>1 DEF KidApart
    <3> QED BY <3>1, <3>2
  <2> QED BY <1>1, <2>1, <2>2 DEF KidApart
<1> QED BY <1>4, <1>5 DEF Control, Own, KidApart

LEMMA ControlForked ==
  ASSUME TypeOK, Control, NEW p \in Proc, ForkDone(p)
  PROVE  Control'
<1> USE ConstantFacts DEF TypeOK
<1> DEFINE c == kid[p]
<1>1. /\ pc[p] = "fork" /\ c \in Proc /\ pc[c] = "embryo"
      /\ pc' = [pc EXCEPT ![p] = "idle", ![c] = "idle"]
      /\ kid' = [kid EXCEPT ![p] = p] /\ fd' = [fd EXCEPT ![p] = 1]
      /\ UNCHANGED <<openfs, ret, nf>>
  BY DEF ForkDone, Control, KidApart, On, At, Set
<1> HIDE DEF c
<1>2. \A r \in Proc : /\ r # p /\ r # c => pc'[r] = pc[r]
                      /\ r # p => fd'[r] = fd[r] /\ kid'[r] = kid[r]
  BY <1>1
<1>3. pc'[p] = "idle" /\ pc'[c] = "idle" /\ ret[p] = "idle" /\ ret[c] = "idle"
  BY <1>1 DEF Control, RetIdle
<1>4. ASSUME NEW r \in Proc PROVE Own(r)'
  <2>1. Own(r)
    BY DEF Control, Own
  <2>2. CASE r = p \/ r = c
    BY <1>1, <1>3, <2>2 DEF Own, FileInHand, RetIdle, ExitCloses, InHand
  <2>3. CASE r # p /\ r # c
    BY <1>1, <1>2, <2>1, <2>3 DEF Own, FileInHand, RetIdle, ExitCloses
  <2> QED BY <2>2, <2>3
<1>5. ASSUME NEW r \in Proc, pc'[r] = "fork" PROVE KidApart(r)'
  <2>1. r # p /\ r # c /\ pc[r] = "fork" /\ kid'[r] = kid[r] /\ fd'[r] = fd[r]
    BY <1>2, <1>3, <1>5
  <2>2. KidApart(r) /\ kid[r] \in Proc /\ kid[r] # c /\ kid[r] # p
    BY <1>1, <2>1 DEF Control, KidApart, c
  <2>3. pc'[kid[r]] = "embryo"
    BY <1>2, <2>1, <2>2 DEF KidApart
  <2>4. ASSUME NEW u \in Proc, pc'[u] = "fork", kid'[u] = kid'[r] PROVE u = r
    <3>1. u # p /\ u # c
      BY <1>3, <2>4
    <3> QED BY <1>2, <2>1, <2>2, <2>4, <3>1 DEF KidApart
  <2> QED BY <1>1, <2>1, <2>2, <2>3, <2>4 DEF KidApart
<1> QED BY <1>4, <1>5 DEF Control, Own, KidApart

LEMMA ControlStep ==
  ASSUME TypeOK, Control, FileRefExact, Next
  PROVE  Control'
<1>1. PICK p \in Proc : Open(p) \/ Use(p) \/ Life(p)
  BY DEF Next
<1>2. CASE Open(p)
  BY <1>2, LocalOpen, ControlLocal
<1>3. CASE Use(p)
  BY <1>3, LocalUse, ControlLocal
<1>4. CASE Life(p)
  <2>1. CASE \E q \in Proc : Fork(p, q)
    BY <2>1, ControlFork
  <2>2. CASE ForkDup(p)
    BY <2>2, ForkDups, ControlDups
  <2>3. CASE ForkDone(p)
    BY <2>3, ControlForked
  <2>4. CASE Exit(p) \/ ExitClose(p) \/ ExitPwd(p)
    BY <2>4, LocalExit, ControlLocal
  <2> QED BY <1>4, <2>1, <2>2, <2>3, <2>4 DEF Life
<1> QED BY <1>1, <1>2, <1>3, <1>4

-----------------------------------------------------------------------------
(***************************************************************************)
(* FileRefExact.  A step changes the hand of one process and one           *)
(* descriptor, or none.                                                    *)
(***************************************************************************)
DupAt(p, f)  == pc[p] = "filedup" /\ nf[p] = f
HandAt(p, f) == pc[p] \in InHand /\ nf[p] = f

Balanced(p, c, d, f) ==
  fref'[f] + Bit(DupAt(p, f)') + Bit(openfs[c][d] = f) + Bit(HandAt(p, f))
    = fref[f] + Bit(DupAt(p, f)) + Bit(openfs'[c][d] = f) + Bit(HandAt(p, f)')

Moved(p, c, d) ==
  /\ \A q \in Proc : q # p => pc'[q] = pc[q] /\ nf'[q] = nf[q]
  /\ \A q \in Proc, e \in Fd : q # c \/ e # d => openfs'[q][e] = openfs[q][e]
  /\ \A f \in Files : Balanced(p, c, d, f)

LEMMA ExactStep ==
  ASSUME TypeOK, TypeOK', FileRefExact, NEW p \in Proc, NEW c \in Proc,
         NEW d \in Fd, Moved(p, c, d)
  PROVE  FileRefExact'
<1> SUFFICES ASSUME NEW f \in Files PROVE Exact(f)'
  BY DEF FileRefExact, Exact, Dups, Hands, InHand, At
<1>0. Exact(f)
  BY ExactAll
<1> DEFINE D  == Dups(f)
           D2 == Dups(f)'
           H  == Hands(f)
           H2 == Hands(f)'
           S  == Slots(f)
           S2 == Slots(f)'
           x  == <<c, d>>
<1>1. /\ Cardinality(D) \in Nat /\ Cardinality(D2) \in Nat
      /\ Cardinality(D2) + Bit(p \in D) = Cardinality(D) + Bit(p \in D2)
  <2>1. D \in SUBSET Proc /\ D2 \in SUBSET Proc
    BY DEF Dups
  <2>2. \A q \in Proc : q # p => (q \in D <=> q \in D2)
    BY DEF Dups, Moved
  <2> HIDE DEF D, D2
  <2> QED BY <2>1, <2>2, Shift, FiniteFacts
<1>2. /\ Cardinality(H) \in Nat /\ Cardinality(H2) \in Nat
      /\ Cardinality(H2) + Bit(p \in H) = Cardinality(H) + Bit(p \in H2)
  <2>1. H \in SUBSET Proc /\ H2 \in SUBSET Proc
    BY DEF Hands
  <2>2. \A q \in Proc : q # p => (q \in H <=> q \in H2)
    BY DEF Hands, Moved
  <2> HIDE DEF H, H2
  <2> QED BY <2>1, <2>2, Shift, FiniteFacts
<1>3. /\ Cardinality(S) \in Nat /\ Cardinality(S2) \in Nat
      /\ Cardinality(S2) + Bit(x \in S) = Cardinality(S) + Bit(x \in S2)
  <2>1. S \in SUBSET (Proc \X Fd) /\ S2 \in SUBSET (Proc \X Fd) /\ x \in Proc \X Fd
    BY DEF Slots
  <2>2. ASSUME NEW y \in Proc \X Fd, y # x PROVE y \in S <=> y \in S2
    <3>1. y[1] \in Proc /\ y[2] \in Fd /\ (y[1] # c \/ y[2] # d)
      BY <2>2
    <3>2. openfs'[y[1]][y[2]] = openfs[y[1]][y[2]]
      BY <3>1 DEF Moved
    <3> QED BY <3>2 DEF Slots
  <2> HIDE DEF S, S2, x
  <2> QED BY <2>1, <2>2, Shift, FiniteFacts
<1>4. /\ p \in D <=> DupAt(p, f)
      /\ p \in D2 <=> DupAt(p, f)'
      /\ p \in H <=> HandAt(p, f)
      /\ p \in H2 <=> HandAt(p, f)'
      /\ x \in S <=> openfs[c][d] = f
      /\ x \in S2 <=> openfs'[c][d] = f
  BY DEF Dups, Hands, Slots, DupAt, HandAt
<1>5. /\ Bit(p \in D) = Bit(DupAt(p, f))
      /\ Bit(p \in D2) = Bit(DupAt(p, f)')
      /\ Bit(p \in H) = Bit(HandAt(p, f))
      /\ Bit(p \in H2) = Bit(HandAt(p, f)')
      /\ Bit(x \in S) = Bit(openfs[c][d] = f)
      /\ Bit(x \in S2) = Bit(openfs'[c][d] = f)
  BY <1>4 DEF Bit
<1>6. /\ Bit(DupAt(p, f)) \in Nat /\ Bit(DupAt(p, f)') \in Nat
      /\ Bit(HandAt(p, f)) \in Nat /\ Bit(HandAt(p, f)') \in Nat
      /\ Bit(openfs[c][d] = f) \in Nat /\ Bit(openfs'[c][d] = f) \in Nat
  BY DEF Bit
<1>7. fref[f] \in Nat /\ fref'[f] \in Nat /\ Balanced(p, c, d, f)
  BY DEF TypeOK, Moved
<1>8. fref[f] + Cardinality(D) = Cardinality(S) + Cardinality(H)
  BY <1>0 DEF Exact
<1>9. fref'[f] + Cardinality(D2) = Cardinality(S2) + Cardinality(H2)
  <2> HIDE DEF D, D2, H, H2, S, S2, x
  <2> QED BY <1>1, <1>2, <1>3, <1>5, <1>6, <1>7, <1>8 DEF Balanced
<1> QED BY <1>9 DEF Exact

\* A step that neither counts nor moves a file.
Busy == InHand \cup {"filedup"}

Quiet ==
  /\ openfs' = openfs /\ fref' = fref /\ nf' = nf
  /\ \A q \in Proc : \/ pc'[q] = pc[q]
                     \/ pc[q] \notin Busy /\ pc'[q] \notin Busy
                     \/ pc[q] \in InHand /\ pc'[q] \in InHand

LEMMA ExactQuiet ==
  ASSUME FileRefExact, Quiet
  PROVE  FileRefExact'
<1> SUFFICES ASSUME NEW f \in Files PROVE Exact(f)'
  BY DEF FileRefExact, Exact, Dups, Hands, InHand, At
<1>1. Exact(f)
  BY ExactAll
<1>2. Dups(f)' = Dups(f) /\ Hands(f)' = Hands(f) /\ Slots(f)' = Slots(f)
  BY DEF Quiet, Busy, InHand, Dups, Hands, Slots
<1> QED BY <1>1, <1>2 DEF Exact, Quiet

LEMMA ExactOpen ==
  ASSUME TypeOK, TypeOK', Control, FileRefExact, NEW p \in Proc, Open(p)
  PROVE  FileRefExact'
<1> USE ConstantFacts DEF TypeOK, On, At, Goto, Set
<1>1. CASE FileAlloc(p) /\ FreeFiles # {}
  <2> DEFINE g == Min(FreeFiles)
  <2>1. /\ g \in Files /\ fref[g] = 0 /\ fref' = [fref EXCEPT ![g] = 1]
        /\ pc[p] = "filealloc" /\ nf' = [nf EXCEPT ![p] = g]
        /\ pc' = [pc EXCEPT ![p] = "fdalloc"] /\ openfs' = openfs
    BY <1>1, FreeFileIn DEF FileAlloc
  <2> HIDE DEF g
  <2>2. PICK d \in Fd : TRUE
    BY ConstantFacts
  <2>3. ASSUME NEW f \in Files
        PROVE  Balanced(p, p, d, f)
    BY <2>1 DEF Balanced, Bit, DupAt, HandAt, InHand
  <2>9. Moved(p, p, d)
    BY <2>1, <2>3 DEF Moved
  <2> QED BY <2>1, <2>3, <2>9, ExactStep
<1>2. CASE OpenDone(p)
  <2> DEFINE d == Min(FreeFds(p))
             g == nf[p]
  <2>1. /\ d \in Fd /\ openfs[p][d] = Nil /\ g \in Files
        /\ openfs' = [openfs EXCEPT ![p][d] = g] /\ fref' = fref
        /\ pc[p] = "fdalloc" /\ nf' = [nf EXCEPT ![p] = Nil]
        /\ pc' = [pc EXCEPT ![p] = "idle"]
    BY <1>2, FreeFdIn DEF OpenDone, Control, FileInHand, InHand
  <2> HIDE DEF d
  <2>2. openfs'[p][d] = g /\ \A q \in Proc, e \in Fd :
          q # p \/ e # d => openfs'[q][e] = openfs[q][e]
    BY <2>1
  <2>3. ASSUME NEW f \in Files
        PROVE  Balanced(p, p, d, f)
    BY <2>1, <2>2 DEF Balanced, Bit, DupAt, HandAt, InHand
  <2>9. Moved(p, p, d)
    BY <2>1, <2>2, <2>3 DEF Moved
  <2> QED BY <2>1, <2>2, <2>3, <2>9, ExactStep
<1>3. CASE /\ ~(FileAlloc(p) /\ FreeFiles # {}) /\ ~OpenDone(p)
           /\ ~\E k \in Inum : LookupFound(p, k)
  <2>1. Quiet
    BY <1>3 DEF Open, OpenRoot, OpenName, DirLock, LookupMissing, OpenLock,
       ilock, OpenBadMajor, FileAlloc, OpenNoFd, Quiet, Busy, InHand, ftable
  <2> QED BY <2>1, ExactQuiet
<1>4. ASSUME NEW k \in Inum, LookupFound(p, k) PROVE FileRefExact'
  <2>1. Quiet
    BY <1>4 DEF LookupFound, Quiet, Busy, InHand, ftable
  <2> QED BY <2>1, ExactQuiet
<1> QED BY <1>1, <1>2, <1>3, <1>4

LEMMA ExactUse ==
  ASSUME TypeOK, TypeOK', Control, FileRefExact, NEW p \in Proc, Use(p)
  PROVE  FileRefExact'
<1> USE ConstantFacts DEF TypeOK, On, At, Goto, Set
<1>1. ASSUME NEW d \in Fd, Close(p, d) PROVE FileRefExact'
  <2> DEFINE g == openfs[p][d]
  <2>1. /\ g \in Files /\ openfs' = [openfs EXCEPT ![p][d] = Nil] /\ fref' = fref
        /\ pc[p] = "idle" /\ nf' = [nf EXCEPT ![p] = g]
        /\ pc' = [pc EXCEPT ![p] = "fileclose"]
    BY <1>1 DEF Close, FileOrNil, ftable
  <2>2. openfs'[p][d] = Nil /\ \A q \in Proc, e \in Fd :
          q # p \/ e # d => openfs'[q][e] = openfs[q][e]
    BY <2>1
  <2>3. ASSUME NEW f \in Files
        PROVE  Balanced(p, p, d, f)
    BY <2>1, <2>2 DEF Balanced, Bit, DupAt, HandAt, InHand
  <2>9. Moved(p, p, d)
    BY <2>1, <2>2, <2>3 DEF Moved
  <2> QED BY <2>1, <2>2, <2>3, <2>9, ExactStep
<1>2. ASSUME NEW b \in Fd, Dup(p, b) PROVE FileRefExact'
  <2> DEFINE d == Min(FreeFds(p))
             g == openfs[p][b]
  <2>1. /\ d \in Fd /\ openfs[p][d] = Nil /\ g \in Files
        /\ openfs' = [openfs EXCEPT ![p][d] = g] /\ fref' = fref
        /\ pc[p] = "idle" /\ nf' = [nf EXCEPT ![p] = g]
        /\ pc' = [pc EXCEPT ![p] = "filedup"]
    BY <1>2, FreeFdIn DEF Dup, FileOrNil, ftable
  <2> HIDE DEF d
  <2>2. openfs'[p][d] = g /\ \A q \in Proc, e \in Fd :
          q # p \/ e # d => openfs'[q][e] = openfs[q][e]
    BY <2>1
  <2>3. ASSUME NEW f \in Files
        PROVE  Balanced(p, p, d, f)
    BY <2>1, <2>2 DEF Balanced, Bit, DupAt, HandAt, InHand
  <2>9. Moved(p, p, d)
    BY <2>1, <2>2, <2>3 DEF Moved
  <2> QED BY <2>1, <2>2, <2>3, <2>9, ExactStep
<1>3. CASE Fileclose(p) \/ Filedup(p)
  <2> DEFINE g == nf[p]
  <2>1. g \in Files /\ fref[g] >= 1 /\ fref[g] \in Nat
    <3>1. g \in Files /\ (p \in Hands(g) \/ p \in Dups(g))
      BY <1>3 DEF Fileclose, Filedup, Hands, Dups, Control, FileInHand, InHand
    <3>2. CASE p \in Dups(g)
      <4>1. PICK d \in Fd : openfs[p][d] = g
        BY <3>2 DEF Control, FileInHand, Dups
      <4>2. <<p, d>> \in Slots(g)
        BY <4>1 DEF Slots
      <4> QED BY <3>1, <4>2, Counted
    <3> QED BY <3>1, <3>2, Counted
  <2>2. PICK d \in Fd : TRUE
    BY ConstantFacts
  <2>3. /\ openfs' = openfs /\ nf' = [nf EXCEPT ![p] = Nil]
        /\ \A q \in Proc : q # p => pc'[q] = pc[q]
    BY <1>3 DEF Fileclose, Filedup
  <2>4. ASSUME NEW f \in Files
        PROVE  Balanced(p, p, d, f)
    <3>1. CASE Fileclose(p)
      <4>1. fref' = [fref EXCEPT ![g] = @ - 1] /\ pc[p] = "fileclose"
        BY <2>1, <3>1 DEF Fileclose
      <4>2. nf'[p] = Nil /\ fref[f] \in Nat
        BY <2>3
      <4> HIDE DEF TypeOK
      <4>3. fref'[f] = IF f = g THEN fref[f] - 1 ELSE fref[f]
        BY <4>1 DEF TypeOK
      <4> QED BY <2>1, <2>3, <4>1, <4>2, <4>3 DEF Balanced, Bit, DupAt, HandAt, InHand
    <3>2. CASE Filedup(p)
      <4>1. fref' = [fref EXCEPT ![g] = @ + 1] /\ pc[p] = "filedup"
        BY <2>1, <3>2 DEF Filedup
      <4>2. nf'[p] = Nil /\ fref[f] \in Nat
        BY <2>3
      <4> HIDE DEF TypeOK
      <4>3. fref'[f] = IF f = g THEN fref[f] + 1 ELSE fref[f]
        BY <4>1 DEF TypeOK
      <4> QED BY <2>1, <2>3, <4>1, <4>2, <4>3 DEF Balanced, Bit, DupAt, HandAt, InHand
    <3> QED BY <1>3, <3>1, <3>2
  <2>9. Moved(p, p, d)
    BY <2>3, <2>4 DEF Moved
  <2> QED BY <2>3, <2>4, <2>9, ExactStep
<1>4. CASE Iput(p) \/ ReadLock(p) \/ ReadDone(p)
  <2>1. CASE Iput(p)
    <3>1. Quiet
      <4>1. /\ pc[p] = "iput" /\ pc' = [pc EXCEPT ![p] = ret[p]]
            /\ openfs' = openfs /\ fref' = fref /\ nf' = nf
        BY <2>1 DEF Iput, ftable
      <4>2. ret[p] \in {"idle", "exit", "gone"}
        OBVIOUS
      <4> QED BY <4>1, <4>2 DEF Quiet, Busy, InHand
    <3> QED BY <3>1, ExactQuiet
  <2>2. CASE ReadLock(p) \/ ReadDone(p)
    <3>1. Quiet
      BY <2>2 DEF ReadLock, ilock, ReadDone, Quiet, Busy, InHand, ftable
    <3> QED BY <3>1, ExactQuiet
  <2> QED BY <1>4, <2>1, <2>2
<1>5. ASSUME NEW d \in Fd, Read(p, d) \/ ReadBadFd(p, d) \/ Fstat(p, d)
      PROVE  FileRefExact'
  <2>1. Quiet
    BY <1>5 DEF Read, ReadBadFd, Fstat, Quiet, Busy, InHand, ftable
  <2> QED BY <2>1, ExactQuiet
<1> QED BY <1>1, <1>2, <1>3, <1>4, <1>5 DEF Use

LEMMA ExactLife ==
  ASSUME TypeOK, TypeOK', Control, FileRefExact, NEW p \in Proc, Life(p)
  PROVE  FileRefExact'
<1> USE ConstantFacts DEF TypeOK, On, At, Goto, Set
<1>1. ASSUME NEW q \in Proc, Fork(p, q) PROVE FileRefExact'
  <2>1. Quiet
    BY <1>1 DEF Fork, Quiet, Busy, InHand, ftable
  <2> QED BY <2>1, ExactQuiet
<1>2. CASE ForkDup(p)
  <2>1. PICK g \in FileOrNil : DupsTo(p, g)
    BY <1>2, ForkDups
  <2> DEFINE c == kid[p]
             d == fd[p]
  <2>2. /\ c \in Proc /\ d \in Fd /\ openfs[c][d] = Nil
        /\ openfs' = [openfs EXCEPT ![c][d] = g]
        /\ UNCHANGED <<pc, nf>>
        /\ fref' = IF g = Nil THEN fref ELSE [fref EXCEPT ![g] = @ + 1]
    BY <2>1 DEF DupsTo
  <2> HIDE DEF c, d
  <2>3. openfs'[c][d] = g /\ \A q \in Proc, e \in Fd :
          q # c \/ e # d => openfs'[q][e] = openfs[q][e]
    BY <2>2
  <2>4. ASSUME NEW f \in Files
        PROVE  Balanced(p, c, d, f)
    <3>1. fref'[f] = fref[f] + Bit(g = f) /\ fref[f] \in Nat
      BY <2>2 DEF Bit
    <3> QED BY <2>2, <2>3, <3>1 DEF Balanced, Bit, DupAt, HandAt
  <2>9. Moved(p, c, d)
    BY <2>2, <2>3, <2>4 DEF Moved
  <2> QED BY <2>2, <2>3, <2>4, <2>9, ExactStep
<1>3. CASE ForkDone(p)
  <2>1. pc[p] = "fork" /\ pc[kid[p]] = "embryo"
    BY <1>3 DEF ForkDone, Control, KidApart
  <2>2. Quiet
    BY <1>3, <2>1 DEF ForkDone, Quiet, Busy, InHand, ftable
  <2> QED BY <2>2, ExactQuiet
<1>4. CASE Exit(p) \/ ExitPwd(p) \/ (ExitClose(p) /\ openfs[p][fd[p]] = Nil)
  <2>1. CASE Exit(p) \/ ExitPwd(p)
    <3>1. Quiet
      BY <2>1 DEF Exit, ExitPwd, Quiet, Busy, InHand, ftable
    <3> QED BY <3>1, ExactQuiet
  <2>2. CASE ExitClose(p) /\ openfs[p][fd[p]] = Nil
    <3>1. openfs' = openfs
      BY <2>2 DEF ExitClose
    <3>2. Quiet
      BY <2>2, <3>1 DEF ExitClose, Quiet, ftable
    <3> QED BY <3>2, ExactQuiet
  <2> QED BY <1>4, <2>1, <2>2
<1>5. CASE ExitClose(p) /\ openfs[p][fd[p]] # Nil
  <2> DEFINE d == fd[p]
             g == openfs[p][d]
  <2>0. d \in Fd
    BY <1>5, FileAssumption DEF ExitClose, Fd
  <2>1. /\ g \in Files /\ openfs' = [openfs EXCEPT ![p][d] = Nil] /\ fref' = fref
        /\ pc[p] = "exit" /\ nf' = [nf EXCEPT ![p] = g]
        /\ pc' = [pc EXCEPT ![p] = "fileclose"]
    BY <1>5, <2>0 DEF ExitClose, FileOrNil, ftable
  <2> HIDE DEF d
  <2>2. openfs'[p][d] = Nil /\ \A q \in Proc, e \in Fd :
          q # p \/ e # d => openfs'[q][e] = openfs[q][e]
    BY <2>0, <2>1
  <2>3. ASSUME NEW f \in Files
        PROVE  Balanced(p, p, d, f)
    BY <2>1, <2>2 DEF Balanced, Bit, DupAt, HandAt, InHand
  <2>9. Moved(p, p, d)
    BY <2>0, <2>1, <2>2, <2>3 DEF Moved
  <2> QED BY <2>0, <2>1, <2>2, <2>3, <2>9, ExactStep
<1> QED BY <1>1, <1>2, <1>3, <1>4, <1>5 DEF Life

LEMMA ExactNext ==
  ASSUME TypeOK, TypeOK', Control, FileRefExact, Next
  PROVE  FileRefExact'
BY ExactOpen, ExactUse, ExactLife DEF Next

-----------------------------------------------------------------------------
(***************************************************************************)
(* FreeFileEmpty.                                                          *)
(***************************************************************************)
LEMMA FreeNext ==
  ASSUME TypeOK, TypeOK', Control, FileRefExact, FreeFileEmpty, Next
  PROVE  FreeFileEmpty'
<1>0. PICK p \in Proc : Open(p) \/ Use(p) \/ Life(p)
  BY DEF Next
<1>1. CASE FileAlloc(p)
  <2>1. CASE FreeFiles # {}
    <3>1. /\ fref' = [fref EXCEPT ![Min(FreeFiles)] = 1] /\ ftype' = ftype
          /\ Min(FreeFiles) \in Files
      BY <1>1, <2>1, FreeFileIn DEF FileAlloc
    <3> QED BY <3>1 DEF FreeFileEmpty, TypeOK
  <2>2. CASE FreeFiles = {}
    BY <1>1, <2>2 DEF FileAlloc, FreeFileEmpty
  <2> QED BY <2>1, <2>2
<1>2. CASE OpenDone(p)
  <2> DEFINE g == nf[p]
  <2>1. /\ g \in Files /\ p \in Hands(g) /\ fref' = fref
        /\ ftype' = [ftype EXCEPT ![g] = "inode"]
    BY <1>2 DEF OpenDone, On, At, Control, FileInHand, InHand, Hands
  <2>2. fref[g] >= 1 /\ fref[g] # 0
    BY <2>1, Counted DEF TypeOK
  <2> QED BY <2>1, <2>2 DEF FreeFileEmpty, TypeOK
<1>3. CASE Fileclose(p)
  <2> DEFINE g == nf[p]
  <2>1. g \in Files /\ p \in Hands(g) /\ fref[g] \in Nat
    BY <1>3 DEF Fileclose, On, At, Control, FileInHand, InHand, Hands, TypeOK
  <2>2. fref[g] >= 1
    BY <2>1, Counted
  <2>3. fref' = [fref EXCEPT ![g] = @ - 1]
    BY <1>3, <2>1, <2>2 DEF Fileclose
  <2> HIDE DEF g
  <2>4. CASE fref[g] > 1
    <3>1. ftype' = ftype
      BY <1>3, <2>1, <2>2, <2>4 DEF Fileclose, g
    <3>2. fref'[g] # 0 /\ \A f \in Files : f # g => fref'[f] = fref[f]
      BY <2>1, <2>3, <2>4 DEF TypeOK
    <3> QED BY <3>1, <3>2 DEF FreeFileEmpty
  <2>5. CASE ~(fref[g] > 1)
    <3>1. ftype' = [ftype EXCEPT ![g] = "none"]
      BY <1>3, <2>1, <2>2, <2>5 DEF Fileclose, g
    <3>2. \A f \in Files : f # g => fref'[f] = fref[f] /\ ftype'[f] = ftype[f]
      BY <2>1, <2>3, <3>1 DEF TypeOK
    <3>3. ftype'[g] = "none"
      BY <2>1, <3>1 DEF TypeOK
    <3> QED BY <3>2, <3>3 DEF FreeFileEmpty
  <2> QED BY <2>4, <2>5
<1>4. CASE Filedup(p)
  <2>1. ftype' = ftype
    BY <1>4 DEF Filedup
  <2>2. \A f \in Files : fref'[f] = 0 => fref[f] = 0
    <3>1. CASE fref' = fref
      BY <3>1
    <3>2. CASE fref' = [fref EXCEPT ![nf[p]] = @ + 1]
      BY <3>2 DEF TypeOK
    <3> QED BY <1>4, <3>1, <3>2 DEF Filedup
  <2> QED BY <2>1, <2>2 DEF FreeFileEmpty
<1>5. CASE ForkDup(p)
  <2>1. PICK g \in FileOrNil : DupsTo(p, g)
    BY <1>5, ForkDups
  <2>2. ftype' = ftype /\ fref' = IF g = Nil THEN fref ELSE [fref EXCEPT ![g] = @ + 1]
    BY <2>1 DEF DupsTo
  <2>3. \A f \in Files : fref'[f] = 0 => fref[f] = 0
    BY <2>2 DEF TypeOK
  <2> QED BY <2>2, <2>3 DEF FreeFileEmpty
<1>6. CASE /\ ~FileAlloc(p) /\ ~OpenDone(p) /\ ~Fileclose(p) /\ ~Filedup(p)
           /\ ~ForkDup(p)
  <2>1. CASE Open(p)
    <3>1. UNCHANGED <<fref, ftype>>
      BY <1>6, <2>1 DEF Open, OpenRoot, OpenName, DirLock, LookupMissing,
         LookupFound, OpenLock, OpenBadMajor, OpenNoFd, ftable
    <3> QED BY <3>1 DEF FreeFileEmpty
  <2>2. CASE Use(p)
    <3>1. UNCHANGED <<fref, ftype>>
      BY <1>6, <2>2 DEF Use, Close, Dup, Read, ReadBadFd, Fstat, Iput, ReadLock,
         ReadDone, ftable
    <3> QED BY <3>1 DEF FreeFileEmpty
  <2>3. CASE Life(p)
    <3>1. UNCHANGED <<fref, ftype>>
      BY <1>6, <2>3 DEF Life, Fork, ForkDone, Exit, ExitClose, ExitPwd, ftable
    <3> QED BY <3>1 DEF FreeFileEmpty
  <2> QED BY <1>0, <2>1, <2>2, <2>3
<1> QED BY <1>1, <1>2, <1>3, <1>4, <1>5, <1>6

-----------------------------------------------------------------------------
(***************************************************************************)
(* RefCovers.  A step gives up references, or moves the reference of one   *)
(* process, one directory and one file.                                    *)
(***************************************************************************)
Shrinks ==
  /\ iref' = iref
  /\ \A i \in Inodes :
       /\ \A f \in Files : FileAt(f, i)' => FileAt(f, i)
       /\ \A q \in Proc : /\ pwd'[q] = i => pwd[q] = i
                          /\ dp'[q] = i => dp[q] = i
                          /\ IpAt(q, i)' => IpAt(q, i)

LEMMA CoverShrinks ==
  ASSUME TypeOK, RefCovers, Shrinks
  PROVE  RefCovers'
<1> SUFFICES ASSUME NEW i \in Inodes PROVE Covers(i)'
  BY DEF RefCovers, IRefs, Covers, FileRefs, PwdRefs, DpRefs, IpRefs, FileAt,
         IpAt, Inside
<1> DEFINE F2 == FileRefs(i)'
           W2 == PwdRefs(i)'
           D2 == DpRefs(i)'
           I2 == IpRefs(i)'
<1>1. /\ F2 \in SUBSET FileRefs(i) /\ W2 \in SUBSET PwdRefs(i)
      /\ D2 \in SUBSET DpRefs(i) /\ I2 \in SUBSET IpRefs(i)
  BY DEF Shrinks, FileRefs, PwdRefs, DpRefs, IpRefs
<1>2. iref'[i] = iref[i] /\ Covers(i) /\ iref[i] \in Nat
  BY CoversAll DEF Shrinks, TypeOK
<1>3. \A S, T : IsFiniteSet(T) /\ S \in SUBSET T =>
        Cardinality(S) <= Cardinality(T) /\ Cardinality(S) \in Nat
  BY FS_Subset, FS_CardinalityType
<1> HIDE DEF F2, W2, D2, I2
<1>4. /\ Cardinality(F2) <= Cardinality(FileRefs(i)) /\ Cardinality(F2) \in Nat
      /\ Cardinality(W2) <= Cardinality(PwdRefs(i)) /\ Cardinality(W2) \in Nat
      /\ Cardinality(D2) <= Cardinality(DpRefs(i)) /\ Cardinality(D2) \in Nat
      /\ Cardinality(I2) <= Cardinality(IpRefs(i)) /\ Cardinality(I2) \in Nat
  BY <1>1, <1>3, RefCounts
<1>5. iref'[i] >= Cardinality(F2) + Cardinality(W2) + Cardinality(D2) + Cardinality(I2)
  BY <1>2, <1>4, RefCounts DEF Covers
<1> QED BY <1>5 DEF Covers, F2, W2, D2, I2

RefBalanced(p, c, g, i) ==
  iref'[i] + Bit(FileAt(g, i)) + Bit(pwd[c] = i) + Bit(dp[p] = i) + Bit(IpAt(p, i))
    >= iref[i] + Bit(FileAt(g, i)') + Bit(pwd'[c] = i) + Bit(dp'[p] = i)
         + Bit(IpAt(p, i)')

RefMoved(p, c, g) ==
  /\ \A q \in Proc : q # p => /\ dp'[q] = dp[q] /\ ip'[q] = ip[q]
                              /\ pc'[q] \in Inside <=> pc[q] \in Inside
  /\ \A q \in Proc : q # c => pwd'[q] = pwd[q]
  /\ \A f \in Files : f # g => /\ fref'[f] = fref[f] /\ ftype'[f] = ftype[f]
                               /\ fip'[f] = fip[f]
  /\ \A i \in Inodes : RefBalanced(p, c, g, i)

LEMMA CoverMoved ==
  ASSUME TypeOK, TypeOK', RefCovers, NEW p \in Proc, NEW c \in Proc,
         NEW g \in Files, RefMoved(p, c, g)
  PROVE  RefCovers'
<1> SUFFICES ASSUME NEW i \in Inodes PROVE Covers(i)'
  BY DEF RefCovers, IRefs, Covers, FileRefs, PwdRefs, DpRefs, IpRefs, FileAt,
         IpAt, Inside
<1> DEFINE F2 == FileRefs(i)'
           W2 == PwdRefs(i)'
           D2 == DpRefs(i)'
           I2 == IpRefs(i)'
           F == FileRefs(i)
           W == PwdRefs(i)
           D == DpRefs(i)
           I == IpRefs(i)
<1>1. /\ Cardinality(F) \in Nat /\ Cardinality(F2) \in Nat
      /\ Cardinality(F2) + Bit(g \in F) = Cardinality(F) + Bit(g \in F2)
  <2>1. F \in SUBSET Files /\ F2 \in SUBSET Files
    BY DEF FileRefs
  <2>2. \A f \in Files : f # g => (f \in F <=> f \in F2)
    BY DEF FileRefs, RefMoved, FileAt
  <2> HIDE DEF F, F2
  <2> QED BY <2>1, <2>2, Shift, FiniteFacts
<1>2. /\ Cardinality(W) \in Nat /\ Cardinality(W2) \in Nat
      /\ Cardinality(W2) + Bit(c \in W) = Cardinality(W) + Bit(c \in W2)
  <2>1. W \in SUBSET Proc /\ W2 \in SUBSET Proc
    BY DEF PwdRefs
  <2>2. \A q \in Proc : q # c => (q \in W <=> q \in W2)
    BY DEF PwdRefs, RefMoved
  <2> HIDE DEF W, W2
  <2> QED BY <2>1, <2>2, Shift, FiniteFacts
<1>3. /\ Cardinality(D) \in Nat /\ Cardinality(D2) \in Nat
      /\ Cardinality(D2) + Bit(p \in D) = Cardinality(D) + Bit(p \in D2)
  <2>1. D \in SUBSET Proc /\ D2 \in SUBSET Proc
    BY DEF DpRefs
  <2>2. \A q \in Proc : q # p => (q \in D <=> q \in D2)
    BY DEF DpRefs, RefMoved
  <2> HIDE DEF D, D2
  <2> QED BY <2>1, <2>2, Shift, FiniteFacts
<1>4. /\ Cardinality(I) \in Nat /\ Cardinality(I2) \in Nat
      /\ Cardinality(I2) + Bit(p \in I) = Cardinality(I) + Bit(p \in I2)
  <2>1. I \in SUBSET Proc /\ I2 \in SUBSET Proc
    BY DEF IpRefs
  <2>2. \A q \in Proc : q # p => (q \in I <=> q \in I2)
    BY DEF IpRefs, RefMoved, IpAt
  <2> HIDE DEF I, I2
  <2> QED BY <2>1, <2>2, Shift, FiniteFacts
<1>5. /\ g \in F <=> FileAt(g, i)
      /\ g \in F2 <=> FileAt(g, i)'
      /\ c \in W <=> pwd[c] = i
      /\ c \in W2 <=> pwd'[c] = i
      /\ p \in D <=> dp[p] = i
      /\ p \in D2 <=> dp'[p] = i
      /\ p \in I <=> IpAt(p, i)
      /\ p \in I2 <=> IpAt(p, i)'
  BY DEF FileRefs, PwdRefs, DpRefs, IpRefs
<1>6. /\ Bit(g \in F) = Bit(FileAt(g, i))
      /\ Bit(g \in F2) = Bit(FileAt(g, i)')
      /\ Bit(c \in W) = Bit(pwd[c] = i)
      /\ Bit(c \in W2) = Bit(pwd'[c] = i)
      /\ Bit(p \in D) = Bit(dp[p] = i)
      /\ Bit(p \in D2) = Bit(dp'[p] = i)
      /\ Bit(p \in I) = Bit(IpAt(p, i))
      /\ Bit(p \in I2) = Bit(IpAt(p, i)')
  BY <1>5 DEF Bit
<1>7. /\ Bit(FileAt(g, i)) \in Nat /\ Bit(FileAt(g, i)') \in Nat
      /\ Bit(pwd[c] = i) \in Nat /\ Bit(pwd'[c] = i) \in Nat
      /\ Bit(dp[p] = i) \in Nat /\ Bit(dp'[p] = i) \in Nat
      /\ Bit(IpAt(p, i)) \in Nat /\ Bit(IpAt(p, i)') \in Nat
  BY DEF Bit
<1>8. iref[i] \in Nat /\ iref'[i] \in Nat /\ RefBalanced(p, c, g, i)
  BY DEF TypeOK, RefMoved
<1>9. iref[i] >= Cardinality(F) + Cardinality(W) + Cardinality(D) + Cardinality(I)
  BY CoversAll DEF Covers
<1>10. iref'[i] >= Cardinality(F2) + Cardinality(W2) + Cardinality(D2) + Cardinality(I2)
  <2> HIDE DEF F, F2, W, W2, D, D2, I, I2
  <2> QED BY <1>1, <1>2, <1>3, <1>4, <1>6, <1>7, <1>8, <1>9 DEF RefBalanced
<1> QED BY <1>10 DEF Covers

-----------------------------------------------------------------------------
(***************************************************************************)
(* The steps that take or move a reference to an inode.                    *)
(***************************************************************************)
LEMMA GetEntry ==
  ASSUME TypeOK, OneEntryPerInode, NEW k \in Inum, CanGet(k), iget(k)
  PROVE  OneEntryPerInode'
<1> DEFINE g == Got(k)
<1>1. /\ g \in Inodes
      /\ Hits(k) # {} => iref[g] > 0 /\ inum[g] = k
      /\ Hits(k) = {} => iref[g] = 0
  BY GotFacts
<1>2. iref' = [iref EXCEPT ![g] = @ + 1] /\ inum' = [inum EXCEPT ![g] = k]
  BY DEF iget
<1> HIDE DEF g
<1>3. \A i \in Inodes : i # g => iref'[i] = iref[i] /\ inum'[i] = inum[i]
  BY <1>2 DEF TypeOK
<1>4. inum'[g] = k
  BY <1>1, <1>2 DEF TypeOK
<1>5. ASSUME NEW i \in Inodes, i # g, iref'[i] > 0 PROVE inum'[i] # k
  <2>1. iref[i] > 0 /\ inum'[i] = inum[i]
    BY <1>3, <1>5
  <2>2. CASE Hits(k) = {}
    BY <2>1, <2>2 DEF Hits
  <2>3. CASE Hits(k) # {}
    BY <1>1, <1>5, <2>1, <2>3 DEF OneEntryPerInode
  <2> QED BY <2>2, <2>3
<1> QED BY <1>3, <1>4, <1>5 DEF OneEntryPerInode

EntriesKept ==
  inum' = inum /\ \A i \in Inodes : iref'[i] > 0 => iref[i] > 0

LEMMA KeptEntry ==
  ASSUME OneEntryPerInode, EntriesKept
  PROVE  OneEntryPerInode'
BY DEF OneEntryPerInode, EntriesKept

LEMMA MovesGet ==
  ASSUME TypeOK, TypeOK', OneEntryPerInode, RefCovers, NEW p \in Proc,
         NEW k \in Inum, CanGet(k), iget(k),
         UNCHANGED <<pwd, fref, ftype, fip>>,
         \/ /\ pc[p] \notin Inside /\ dp' = [dp EXCEPT ![p] = Got(k)]
            /\ ip' = ip /\ pc' = [pc EXCEPT ![p] = "dirlock"]
         \/ /\ pc[p] \notin Inside /\ ip' = [ip EXCEPT ![p] = Got(k)]
            /\ dp' = dp \/ dp' = [dp EXCEPT ![p] = Nil]
            /\ pc' = [pc EXCEPT ![p] = "ilock"]
  PROVE  OneEntryPerInode' /\ RefCovers'
<1> DEFINE g == Got(k)
<1>1. g \in Inodes
  BY GotFacts
<1>2. iref' = [iref EXCEPT ![g] = @ + 1]
  BY DEF iget
<1> HIDE DEF g
<1>3. ASSUME NEW i \in Inodes PROVE RefBalanced(p, p, 1, i)
  <2>1. iref'[i] = iref[i] + Bit(i = g) /\ iref[i] \in Nat
    BY <1>1, <1>2 DEF TypeOK, Bit
  <2>2. /\ FileAt(1, i)' <=> FileAt(1, i)
        /\ pwd'[p] = pwd[p] /\ ~IpAt(p, i)
    BY DEF FileAt, IpAt
  <2>3. CASE dp' = [dp EXCEPT ![p] = g] /\ ip' = ip /\ pc' = [pc EXCEPT ![p] = "dirlock"]
    <3>1. dp'[p] = g /\ ~IpAt(p, i)'
      BY <2>3 DEF TypeOK, IpAt, Inside
    <3> QED BY <2>1, <2>2, <3>1 DEF RefBalanced, Bit
  <2>4. CASE /\ ip' = [ip EXCEPT ![p] = g]
             /\ dp' = dp \/ dp' = [dp EXCEPT ![p] = Nil]
             /\ pc' = [pc EXCEPT ![p] = "ilock"]
    <3>1. dp'[p] = i => dp[p] = i
      BY <2>4, ConstantFacts DEF TypeOK
    <3>2. ip'[p] = g /\ pc'[p] = "ilock"
      BY <2>4 DEF TypeOK
    <3>3. IpAt(p, i)' <=> i = g
      BY <3>2 DEF IpAt, Inside
    <3> QED BY <2>1, <2>2, <3>1, <3>3 DEF RefBalanced, Bit
  <2> QED BY <2>3, <2>4 DEF g
<1>4. RefMoved(p, p, 1)
  BY <1>3 DEF RefMoved, TypeOK
<1>5. RefCovers'
  BY <1>4, CoverMoved, ConstantFacts
<1> QED BY <1>5, GetEntry

LEMMA CoverOpen ==
  ASSUME TypeOK, TypeOK', Control, FileRefExact, FreeFileEmpty, OneEntryPerInode,
         RefCovers, NEW p \in Proc, Open(p)
  PROVE  OneEntryPerInode' /\ RefCovers'
<1> USE ConstantFacts DEF On, At, Goto, Set, ftable, itable
<1>1. CASE OpenRoot(p) \/ OpenName(p)
  <2>1. /\ ROOTINO \in Inum /\ CanGet(ROOTINO) /\ iget(ROOTINO)
        /\ UNCHANGED <<pwd, fref, ftype, fip>> /\ pc[p] \notin Inside
    BY <1>1 DEF OpenRoot, OpenName, Inside
  <2>2. CASE OpenRoot(p)
    <3>1. /\ ip' = [ip EXCEPT ![p] = Got(ROOTINO)] /\ dp' = dp
          /\ pc' = [pc EXCEPT ![p] = "ilock"]
      BY <2>2 DEF OpenRoot
    <3> QED BY <2>1, <3>1, MovesGet
  <2>3. CASE OpenName(p)
    <3>1. /\ dp' = [dp EXCEPT ![p] = Got(ROOTINO)] /\ ip' = ip
          /\ pc' = [pc EXCEPT ![p] = "dirlock"]
      BY <2>3 DEF OpenName
    <3> QED BY <2>1, <3>1, MovesGet
  <2> QED BY <1>1, <2>2, <2>3
<1>2. ASSUME NEW k \in Inum, LookupFound(p, k), CanGet(k)
      PROVE  OneEntryPerInode' /\ RefCovers'
  <2>1. /\ iget(k) /\ UNCHANGED <<pwd, fref, ftype, fip>> /\ pc[p] \notin Inside
        /\ ip' = [ip EXCEPT ![p] = Got(k)] /\ dp' = [dp EXCEPT ![p] = Nil]
        /\ pc' = [pc EXCEPT ![p] = "ilock"]
    BY <1>2 DEF LookupFound, Inside
  <2> QED BY <1>2, <2>1, MovesGet
<1>3. CASE OpenDone(p)
  <2> DEFINE j == ip[p]
  <2>0. PICK g \in Files : g = nf[p]
    BY <1>3 DEF OpenDone, Control, FileInHand, InHand
  <2>1. /\ pc[p] = "fdalloc" /\ fref' = fref /\ iref' = iref
        /\ ftype' = [ftype EXCEPT ![g] = "inode"] /\ fip' = [fip EXCEPT ![g] = j]
        /\ ip' = [ip EXCEPT ![p] = Nil] /\ pc' = [pc EXCEPT ![p] = "idle"]
        /\ UNCHANGED <<pwd, dp, inum>>
    BY <1>3, <2>0 DEF OpenDone
  <2> HIDE DEF j
  <2>2. ASSUME NEW i \in Inodes PROVE RefBalanced(p, p, g, i)
    <3>1. ~IpAt(p, i)' /\ (IpAt(p, i) <=> j = i)
      BY <2>1 DEF IpAt, Inside, TypeOK, j
    <3>2. FileAt(g, i)' => j = i
      BY <2>1 DEF FileAt, TypeOK
    <3>3. iref'[i] = iref[i] /\ iref[i] \in Nat /\ pwd'[p] = pwd[p] /\ dp'[p] = dp[p]
      BY <2>1 DEF TypeOK
    <3> QED BY <3>1, <3>2, <3>3 DEF RefBalanced, Bit
  <2>3. RefMoved(p, p, g)
    BY <2>1, <2>2 DEF RefMoved, TypeOK
  <2>4. EntriesKept
    BY <2>1 DEF EntriesKept
  <2> QED BY <2>1, <2>3, <2>4, CoverMoved, KeptEntry
<1>4. CASE FileAlloc(p)
  <2>1. EntriesKept
    BY <1>4 DEF FileAlloc, EntriesKept
  <2>2. CASE FreeFiles # {}
    <3> DEFINE g == Min(FreeFiles)
    <3>1. /\ g \in Files /\ ftype[g] = "none" /\ fref' = [fref EXCEPT ![g] = 1]
          /\ pc[p] = "filealloc" /\ pc' = [pc EXCEPT ![p] = "fdalloc"]
          /\ UNCHANGED <<iref, pwd, ftype, fip, ip, dp>>
      BY <1>4, <2>2, FreeFileIn DEF FileAlloc, FreeFileEmpty
    <3> HIDE DEF g
    <3>2. ASSUME NEW i \in Inodes, NEW f \in Files, FileAt(f, i)' PROVE FileAt(f, i)
      <4>1. f # g
        BY <3>1, <3>2 DEF FileAt
      <4> QED BY <3>1, <3>2, <4>1 DEF FileAt, TypeOK
    <3>3. ASSUME NEW i \in Inodes, NEW q \in Proc, IpAt(q, i)' PROVE IpAt(q, i)
      BY <3>1, <3>3 DEF IpAt, Inside, TypeOK
    <3>4. Shrinks
      BY <3>1, <3>2, <3>3 DEF Shrinks
    <3> QED BY <2>1, <3>4, CoverShrinks, KeptEntry
  <2>3. CASE FreeFiles = {}
    <3>1. /\ UNCHANGED <<iref, pwd, fref, ftype, fip, ip, dp>>
          /\ pc' = [pc EXCEPT ![p] = "panic"]
      BY <1>4, <2>3 DEF FileAlloc
    <3>2. Shrinks
      BY <3>1 DEF Shrinks, FileAt, IpAt, Inside, TypeOK
    <3> QED BY <2>1, <3>2, CoverShrinks, KeptEntry
  <2> QED BY <2>2, <2>3
<1>5. CASE \/ DirLock(p) \/ LookupMissing(p) \/ OpenLock(p) \/ OpenBadMajor(p)
           \/ OpenNoFd(p)
  <2>1. EntriesKept
    BY <1>5 DEF DirLock, LookupMissing, OpenLock, OpenBadMajor, OpenNoFd, EntriesKept
  <2>2. /\ UNCHANGED <<iref, pwd, fref, ftype, fip>>
        /\ dp' = dp \/ dp' = [dp EXCEPT ![p] = Nil]
        /\ ip' = ip \/ ip' = [ip EXCEPT ![p] = Nil]
    BY <1>5 DEF DirLock, LookupMissing, OpenLock, OpenBadMajor, OpenNoFd
  <2>3. \A q \in Proc : pc'[q] \in Inside => pc[q] \in Inside \/ ip'[q] = Nil
    BY <1>5 DEF DirLock, LookupMissing, OpenLock, OpenBadMajor, OpenNoFd, ilock, TypeOK,
                Inside
  <2>4. Shrinks
    BY <2>2, <2>3 DEF Shrinks, FileAt, IpAt, TypeOK
  <2> QED BY <2>1, <2>4, CoverShrinks, KeptEntry
<1>6. ASSUME NEW k \in Inum, LookupFound(p, k), ~CanGet(k)
      PROVE  OneEntryPerInode' /\ RefCovers'
  <2>1. /\ UNCHANGED <<iref, inum, pwd, fref, ftype, fip, ip>>
        /\ dp' = [dp EXCEPT ![p] = Nil] /\ pc' = [pc EXCEPT ![p] = "panic"]
    BY <1>6 DEF LookupFound
  <2>2. EntriesKept
    BY <2>1 DEF EntriesKept
  <2>3. Shrinks
    BY <2>1 DEF Shrinks, FileAt, IpAt, TypeOK, Inside
  <2> QED BY <2>2, <2>3, CoverShrinks, KeptEntry
<1> QED BY <1>1, <1>2, <1>3, <1>4, <1>5, <1>6 DEF Open

LEMMA CoverUse ==
  ASSUME TypeOK, TypeOK', Control, FileRefExact, FreeFileEmpty, OneEntryPerInode,
         RefCovers, NEW p \in Proc, Use(p)
  PROVE  OneEntryPerInode' /\ RefCovers'
<1> USE ConstantFacts DEF On, At, Goto, Set, ftable, itable
<1>1. ASSUME NEW d \in Fd, \/ Close(p, d) \/ Dup(p, d) \/ Read(p, d)
                           \/ ReadBadFd(p, d) \/ Fstat(p, d)
      PROVE  OneEntryPerInode' /\ RefCovers'
  <2>1. UNCHANGED <<iref, inum, pwd, fref, ftype, fip, dp>>
    BY <1>1 DEF Close, Dup, Read, ReadBadFd, Fstat
  <2>2. /\ \A q \in Proc : q # p => ip'[q] = ip[q] /\ pc'[q] = pc[q]
        /\ pc'[p] \notin Inside
    BY <1>1 DEF Close, Dup, Read, ReadBadFd, Fstat, TypeOK, Inside
  <2>3. EntriesKept
    BY <2>1 DEF EntriesKept
  <2>4. Shrinks
    BY <2>1, <2>2 DEF Shrinks, FileAt, IpAt
  <2> QED BY <2>3, <2>4, CoverShrinks, KeptEntry
<1>2. CASE Fileclose(p)
  <2>0. PICK g \in Files : g = nf[p]
    BY <1>2 DEF Fileclose, Control, FileInHand, InHand
  <2>1. /\ p \in Hands(g) /\ fref[g] \in Nat /\ pc[p] = "fileclose"
        /\ UNCHANGED <<iref, inum, pwd, fip, dp>>
    BY <1>2, <2>0 DEF Fileclose, InHand, Hands, TypeOK
  <2>2. fref[g] >= 1
    BY <2>1, Counted
  <2>3. fref' = [fref EXCEPT ![g] = @ - 1]
    BY <1>2, <2>0, <2>1, <2>2 DEF Fileclose
  <2>4. EntriesKept
    BY <2>1 DEF EntriesKept
  <2>5. ret[p] \notin Inside
    BY DEF TypeOK, Inside
  <2>6. CASE fref[g] > 1 \/ ftype[g] # "inode"
    <3>1. /\ ip' = ip /\ pc' = [pc EXCEPT ![p] = ret[p]]
          /\ ftype' = ftype \/ ftype' = [ftype EXCEPT ![g] = "none"]
      BY <1>2, <2>0, <2>1, <2>2, <2>6 DEF Fileclose
    <3>2. ASSUME NEW i \in Inodes, NEW f \in Files, FileAt(f, i)' PROVE FileAt(f, i)
      <4>1. ftype[f] = "inode" /\ fip[f] = i
        BY <2>1, <3>1, <3>2 DEF FileAt, TypeOK
      <4>2. fref[f] > 0
        BY <2>1, <2>2, <2>3, <3>2 DEF FileAt, TypeOK
      <4> QED BY <4>1, <4>2 DEF FileAt
    <3>3. Shrinks
      BY <2>1, <2>5, <3>1, <3>2 DEF Shrinks, IpAt, TypeOK
    <3> QED BY <2>4, <3>3, CoverShrinks, KeptEntry
  <2>7. CASE ~(fref[g] > 1) /\ ftype[g] = "inode"
    <3> DEFINE j == fip[g]
    <3>1. /\ ip' = [ip EXCEPT ![p] = j] /\ pc' = [pc EXCEPT ![p] = "iput"]
          /\ ftype' = [ftype EXCEPT ![g] = "none"]
      BY <1>2, <2>0, <2>1, <2>2, <2>7 DEF Fileclose
    <3>2. ASSUME NEW i \in Inodes PROVE RefBalanced(p, p, g, i)
      <4>1. ~IpAt(p, i) /\ ip'[p] = j
        BY <2>1, <3>1 DEF IpAt, Inside, TypeOK
      <4>2. IpAt(p, i)' => j = i
        BY <4>1 DEF IpAt
      <4>3. ~FileAt(g, i)'
        BY <2>1, <3>1 DEF FileAt, TypeOK
      <4>4. FileAt(g, i) <=> j = i
        BY <2>1, <2>2, <2>7 DEF FileAt
      <4>5. iref'[i] = iref[i] /\ iref[i] \in Nat /\ pwd'[p] = pwd[p] /\ dp'[p] = dp[p]
        BY <2>1 DEF TypeOK
      <4> QED BY <4>1, <4>2, <4>3, <4>4, <4>5 DEF RefBalanced, Bit
    <3>3. RefMoved(p, p, g)
      BY <2>1, <2>3, <3>1, <3>2 DEF RefMoved, TypeOK
    <3> QED BY <2>1, <2>4, <3>3, CoverMoved, KeptEntry
  <2> QED BY <2>6, <2>7
<1>3. CASE Filedup(p)
  <2> DEFINE g == nf[p]
  <2>1. /\ g \in Files /\ pc[p] = "filedup"
        /\ UNCHANGED <<iref, inum, pwd, ftype, fip, ip, dp>>
    BY <1>3 DEF Filedup, Control, FileInHand
  <2>2. fref[g] >= 1 /\ fref[g] \in Nat
    <3>1. PICK d \in Fd : openfs[p][d] = g
      BY <2>1 DEF Control, FileInHand
    <3>2. <<p, d>> \in Slots(g)
      BY <3>1 DEF Slots
    <3> QED BY <2>1, <3>2, Counted DEF TypeOK
  <2>3. fref' = [fref EXCEPT ![g] = @ + 1] /\ pc' = [pc EXCEPT ![p] = "idle"]
    BY <1>3, <2>2 DEF Filedup
  <2> HIDE DEF g
  <2>4. \A f \in Files : fref'[f] > 0 => fref[f] > 0
    BY <2>1, <2>2, <2>3 DEF TypeOK
  <2>5. Shrinks
    BY <2>1, <2>3, <2>4 DEF Shrinks, FileAt, IpAt, Inside, TypeOK
  <2>6. EntriesKept
    BY <2>1 DEF EntriesKept
  <2> QED BY <2>5, <2>6, CoverShrinks, KeptEntry
<1>4. CASE Iput(p)
  <2> DEFINE j == ip[p]
  <2>1. /\ pc[p] = "iput" /\ iref' = [iref EXCEPT ![j] = @ - 1]
        /\ ip' = [ip EXCEPT ![p] = Nil] /\ pc' = [pc EXCEPT ![p] = ret[p]]
        /\ UNCHANGED <<inum, pwd, fref, ftype, fip, dp>>
    BY <1>4 DEF Iput
  <2>2. ASSUME NEW i \in Inodes PROVE RefBalanced(p, p, 1, i)
    <3>1. ~IpAt(p, i)' /\ (IpAt(p, i) <=> j = i)
      BY <2>1 DEF IpAt, Inside, TypeOK
    <3>2. (FileAt(1, i)' <=> FileAt(1, i)) /\ pwd'[p] = pwd[p] /\ dp'[p] = dp[p]
      BY <2>1 DEF FileAt
    <3>3. iref'[i] = iref[i] - Bit(j = i) /\ iref[i] \in Nat
      BY <2>1 DEF Bit, TypeOK
    <3> QED BY <3>1, <3>2, <3>3 DEF RefBalanced, Bit
  <2>3. RefMoved(p, p, 1)
    BY <2>1, <2>2 DEF RefMoved, TypeOK
  <2>4. EntriesKept
    BY <2>1 DEF EntriesKept, TypeOK
  <2> QED BY <2>3, <2>4, CoverMoved, KeptEntry
<1>5. CASE ReadLock(p) \/ ReadDone(p)
  <2>1. UNCHANGED <<iref, inum, pwd, fref, ftype, fip, dp>>
    BY <1>5 DEF ReadLock, ReadDone
  <2>2. /\ \A q \in Proc : q # p => ip'[q] = ip[q] /\ pc'[q] = pc[q]
        /\ pc'[p] \notin Inside
    BY <1>5 DEF ReadLock, ilock, ReadDone, TypeOK, Inside
  <2>3. EntriesKept
    BY <2>1 DEF EntriesKept
  <2>4. Shrinks
    BY <2>1, <2>2 DEF Shrinks, FileAt, IpAt
  <2> QED BY <2>3, <2>4, CoverShrinks, KeptEntry
<1> QED BY <1>1, <1>2, <1>3, <1>4, <1>5 DEF Use

LEMMA CoverLife ==
  ASSUME TypeOK, TypeOK', Control, FileRefExact, FreeFileEmpty, OneEntryPerInode,
         RefCovers, NEW p \in Proc, Life(p)
  PROVE  OneEntryPerInode' /\ RefCovers'
<1> USE ConstantFacts DEF On, At, Goto, Set, ftable, itable
<1>1. CASE \/ \E q \in Proc : Fork(p, q)
           \/ Exit(p) \/ ExitClose(p)
  <2>1. UNCHANGED <<iref, inum, pwd, fref, ftype, fip, ip, dp>>
    BY <1>1 DEF Fork, Exit, ExitClose
  <2>2. \A r \in Proc : pc'[r] \in Inside => pc[r] \in Inside
    <3>1. CASE \E q \in Proc : Fork(p, q)
      BY <3>1 DEF Fork, TypeOK, Inside
    <3>2. CASE Exit(p) \/ ExitClose(p)
      BY <3>2 DEF Exit, ExitClose, TypeOK, Inside
    <3> QED BY <1>1, <3>1, <3>2
  <2>3. EntriesKept
    BY <2>1 DEF EntriesKept
  <2>4. Shrinks
    BY <2>1, <2>2 DEF Shrinks, FileAt, IpAt
  <2> QED BY <2>3, <2>4, CoverShrinks, KeptEntry
<1>2. CASE ForkDup(p)
  <2>1. PICK g \in FileOrNil : DupsTo(p, g)
    BY <1>2, ForkDups
  <2>2. /\ UNCHANGED <<iref, inum, pwd, ftype, fip, ip, dp, pc>>
        /\ fref' = IF g = Nil THEN fref ELSE [fref EXCEPT ![g] = @ + 1]
        /\ g # Nil => fref[g] >= 1
    BY <2>1 DEF DupsTo
  <2>3. \A f \in Files : fref'[f] > 0 => fref[f] > 0
    BY <2>2 DEF TypeOK
  <2>4. EntriesKept
    BY <2>2 DEF EntriesKept
  <2>5. Shrinks
    BY <2>2, <2>3 DEF Shrinks, FileAt, IpAt
  <2> QED BY <2>4, <2>5, CoverShrinks, KeptEntry
<1>3. CASE ForkDone(p)
  <2> DEFINE j == pwd[p]
             c == kid[p]
  <2>1. /\ pc[p] = "fork" /\ pc[c] = "embryo" /\ c \in Proc
        /\ iref' = [iref EXCEPT ![j] = @ + 1] /\ pwd' = [pwd EXCEPT ![c] = j]
        /\ pc' = [pc EXCEPT ![p] = "idle", ![c] = "idle"]
        /\ UNCHANGED <<inum, fref, ftype, fip, ip, dp>>
    BY <1>3 DEF ForkDone, Control, KidApart, TypeOK
  <2>2. j \in Inodes => iref[j] >= 1
    BY InUse
  <2> HIDE DEF j, c
  <2>3. ASSUME NEW i \in Inodes PROVE RefBalanced(p, c, 1, i)
    <3>1. iref'[i] = iref[i] + Bit(j = i) /\ iref[i] \in Nat
      BY <2>1 DEF Bit, TypeOK
    <3>2. (FileAt(1, i)' <=> FileAt(1, i)) /\ dp'[p] = dp[p] /\ pwd'[c] = j
      BY <2>1 DEF FileAt, TypeOK
    <3>3. ~IpAt(p, i)'
      BY <2>1 DEF IpAt, Inside, TypeOK
    <3> QED BY <3>1, <3>2, <3>3 DEF RefBalanced, Bit
  <2>4. \A q \in Proc : pc'[q] \in Inside <=> pc[q] \in Inside
    BY <2>1 DEF TypeOK, Inside
  <2>5. RefMoved(p, c, 1)
    BY <2>1, <2>3, <2>4 DEF RefMoved, TypeOK
  <2>6. EntriesKept
    BY <2>1, <2>2 DEF EntriesKept, TypeOK
  <2> QED BY <2>1, <2>5, <2>6, CoverMoved, KeptEntry
<1>4. CASE ExitPwd(p)
  <2> DEFINE j == pwd[p]
  <2>1. /\ pc[p] = "exit" /\ ip' = [ip EXCEPT ![p] = j]
        /\ pwd' = [pwd EXCEPT ![p] = Nil] /\ pc' = [pc EXCEPT ![p] = "iput"]
        /\ UNCHANGED <<iref, inum, fref, ftype, fip, dp>>
    BY <1>4 DEF ExitPwd
  <2>2. ASSUME NEW i \in Inodes PROVE RefBalanced(p, p, 1, i)
    <3>1. ~IpAt(p, i) /\ (IpAt(p, i)' => j = i)
      BY <2>1 DEF IpAt, Inside, TypeOK
    <3>2. (FileAt(1, i)' <=> FileAt(1, i)) /\ dp'[p] = dp[p] /\ pwd'[p] # i
      BY <2>1 DEF FileAt, TypeOK
    <3>3. iref'[i] = iref[i] /\ iref[i] \in Nat
      BY <2>1 DEF TypeOK
    <3> QED BY <3>1, <3>2, <3>3 DEF RefBalanced, Bit
  <2>3. RefMoved(p, p, 1)
    BY <2>1, <2>2 DEF RefMoved, TypeOK
  <2>4. EntriesKept
    BY <2>1 DEF EntriesKept
  <2> QED BY <2>3, <2>4, CoverMoved, KeptEntry
<1> QED BY <1>1, <1>2, <1>3, <1>4 DEF Life

LEMMA CoverNext ==
  ASSUME TypeOK, TypeOK', Control, FileRefExact, FreeFileEmpty, OneEntryPerInode,
         RefCovers, Next
  PROVE  OneEntryPerInode' /\ RefCovers'
BY CoverOpen, CoverUse, CoverLife DEF Next

-----------------------------------------------------------------------------
(***************************************************************************)
(* The theorems.                                                           *)
(***************************************************************************)
LEMMA InvInit == Init => IInv
<1> SUFFICES ASSUME Init PROVE IInv
  OBVIOUS
<1> USE ConstantFacts
<1>1. TypeOK
  <2>1. 1 \in 1 .. OPENFILE + 1
    BY FileAssumption
  <2> QED BY <2>1 DEF Init, TypeOK, Labels, FileOrNil, InodeOrNil
<1>2. Control
  BY DEF Init, Control, FileInHand, RetIdle, ExitCloses, KidApart, InHand
<1>3. FreeFileEmpty
  BY DEF Init, FreeFileEmpty
<1>4. FileRefExact
  <2> SUFFICES ASSUME NEW f \in Files PROVE Exact(f)
    BY ExactAll
  <2>1. Dups(f) = {} /\ Hands(f) = {}
    BY DEF Init, Dups, Hands, InHand
  <2>2. Slots(f) = {}
    <3>1. ASSUME NEW x \in Proc \X Fd PROVE openfs[x[1]][x[2]] # f
      <4>1. x[1] \in Proc /\ x[2] \in Fd
        OBVIOUS
      <4> QED BY <4>1 DEF Init
    <3> QED BY <3>1 DEF Slots
  <2> QED BY <2>1, <2>2, FS_EmptySet DEF Init, Exact
<1>5. OneEntryPerInode
  BY DEF Init, OneEntryPerInode
<1>6. RefCovers
  <2> SUFFICES ASSUME NEW i \in Inodes PROVE Covers(i)
    BY CoversAll
  <2>1. FileRefs(i) = {} /\ DpRefs(i) = {} /\ IpRefs(i) = {}
    BY DEF Init, FileRefs, DpRefs, IpRefs, FileAt, IpAt
  <2>2. Cardinality(PwdRefs(i)) = IF i = 1 THEN 1 ELSE 0
    <3>1. CASE i = 1
      <4>1. PwdRefs(i) = {initp}
        BY <3>1 DEF Init, PwdRefs
      <4> QED BY <3>1, <4>1, FS_Singleton
    <3>2. CASE i # 1
      <4>1. PwdRefs(i) = {}
        BY <3>2 DEF Init, PwdRefs
      <4> QED BY <3>2, <4>1, FS_EmptySet
    <3> QED BY <3>1, <3>2
  <2> QED BY <2>1, <2>2, FS_EmptySet DEF Init, Covers
<1> QED BY <1>1, <1>2, <1>3, <1>4, <1>5, <1>6 DEF IInv

LEMMA InvNext == IInv /\ [Next]_vars => IInv'
<1> SUFFICES ASSUME IInv, [Next]_vars PROVE IInv'
  OBVIOUS
<1>1. CASE Next
  <2>1. TypeOK'
    BY <1>1, TypeStep DEF IInv
  <2>2. Control'
    BY <1>1, ControlStep DEF IInv
  <2>3. FileRefExact'
    BY <1>1, <2>1, ExactNext DEF IInv
  <2>4. FreeFileEmpty'
    BY <1>1, <2>1, FreeNext DEF IInv
  <2>5. OneEntryPerInode' /\ RefCovers'
    BY <1>1, <2>1, CoverNext DEF IInv
  <2> QED BY <2>1, <2>2, <2>3, <2>4, <2>5 DEF IInv
<1>2. CASE UNCHANGED vars
  <2>1. TypeOK' /\ FreeFileEmpty' /\ OneEntryPerInode'
    BY <1>2 DEF vars, IInv, TypeOK, FreeFileEmpty, OneEntryPerInode
  <2>2. Control'
    BY <1>2 DEF vars, IInv, Control, FileInHand, RetIdle, ExitCloses, KidApart
  <2>3. Quiet /\ Shrinks
    BY <1>2 DEF vars, Quiet, Shrinks, FileAt, IpAt
  <2>4. FileRefExact' /\ RefCovers'
    BY <2>3, ExactQuiet, CoverShrinks DEF IInv
  <2> QED BY <2>1, <2>2, <2>4 DEF IInv
<1> QED BY <1>1, <1>2

(***************************************************************************)
(* The invariant of the file table, the inode cache and the system calls   *)
(* in progress holds in every state.                                       *)
(***************************************************************************)
THEOREM FileInvariant == Spec => []IInv
BY InvInit, InvNext, PTL DEF Spec

(***************************************************************************)
(* f->ref is the number of descriptors that name the file, whatever order  *)
(* open, close, dup, fork and exit of any processes interleave in.         *)
(***************************************************************************)
THEOREM FileRefExactHolds == Spec => []FileRefExact
<1>1. IInv => FileRefExact
  BY DEF IInv
<1> QED BY <1>1, FileInvariant, PTL

(***************************************************************************)
(* iget never gives one inode two entries of the cache.                    *)
(***************************************************************************)
THEOREM OneEntryPerInodeHolds == Spec => []OneEntryPerInode
<1>1. IInv => OneEntryPerInode
  BY DEF IInv
<1> QED BY <1>1, FileInvariant, PTL

(***************************************************************************)
(* i->ref covers every open file, current directory and system call that   *)
(* uses the inode: iget does not recycle an entry under its users.         *)
(***************************************************************************)
THEOREM RefCoversHolds == Spec => []RefCovers
<1>1. IInv => RefCovers
  BY DEF IInv
<1> QED BY <1>1, FileInvariant, PTL

(***************************************************************************)
(* filedup and fileclose are called on a file that is counted: their       *)
(* panics, and fork's, are unreachable.                                    *)
(***************************************************************************)
NoFilePanic ==
  \A p \in Proc :
    /\ pc[p] \in {"filedup", "fileclose"} => fref[nf[p]] >= 1
    /\ pc[p] = "fork" =>
         \A d \in Fd : openfs[p][d] # Nil => fref[openfs[p][d]] >= 1

\* No call of filedup, fileclose or fork meets a file whose count is 0, so the
\* panics of filedup and fileclose are never reached (NoFilePanic).
THEOREM NoFilePanicHolds == Spec => []NoFilePanic
<1>1. IInv => NoFilePanic
  <2> SUFFICES ASSUME IInv, NEW p \in Proc
               PROVE  /\ pc[p] \in {"filedup", "fileclose"} => fref[nf[p]] >= 1
                      /\ \A d \in Fd : openfs[p][d] # Nil => fref[openfs[p][d]] >= 1
    BY DEF NoFilePanic
  <2>0. TypeOK /\ Control /\ FileRefExact
    BY DEF IInv
  <2>1. ASSUME NEW d \in Fd, openfs[p][d] # Nil
        PROVE  openfs[p][d] \in Files /\ fref[openfs[p][d]] >= 1
    <3>1. openfs[p][d] \in Files /\ <<p, d>> \in Slots(openfs[p][d])
      BY <2>0, <2>1 DEF TypeOK, FileOrNil, Slots
    <3> QED BY <2>0, <3>1, Counted
  <2>2. CASE pc[p] = "fileclose"
    <3>1. nf[p] \in Files /\ p \in Hands(nf[p])
      BY <2>0, <2>2 DEF Control, FileInHand, InHand, Hands
    <3>2. fref[nf[p]] >= 1
      BY <2>0, <3>1, Counted
    <3> QED BY <2>1, <3>2
  <2>3. CASE pc[p] = "filedup"
    <3>1. PICK d \in Fd : openfs[p][d] = nf[p] /\ nf[p] \in Files
      BY <2>0, <2>3 DEF Control, FileInHand
    <3>2. openfs[p][d] # Nil
      BY <3>1, ConstantFacts
    <3> QED BY <2>1, <3>1, <3>2
  <2> QED BY <2>1, <2>2, <2>3
<1> QED BY <1>1, FileInvariant, PTL
=============================================================================
