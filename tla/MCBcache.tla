------------------------------ MODULE MCBcache ------------------------------
(* Three processes, two buffers and four blocks. *)
EXTENDS Bcache, TLC
CONSTANTS t1, t2, t3, k1, k2, k3, k4, v1, v2
Threads == {t1, t2, t3}
Blocks4 == {k1, k2, k3, k4}
Values  == {v1, v2}
Symm    == Permutations(Threads) \cup Permutations(Blocks4)
             \cup Permutations(Values)
=============================================================================
