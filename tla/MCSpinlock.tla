----------------------------- MODULE MCSpinlock -----------------------------
(* Two CPUs, two threads, and a lock of each kind. *)
EXTENDS Spinlock, TLC
CONSTANTS c1, c2, t1, t2, o1, i1
Cpus    == {c1, c2}
Threads == {t1, t2}
Outers  == {o1}
Inners  == {i1}
Symm    == Permutations(Cpus) \cup Permutations(Threads)
=============================================================================
