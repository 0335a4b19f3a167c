------------------------------- MODULE MCProc -------------------------------
(* Instances of Proc for TLC: init and the slots of two more processes. *)
EXTENDS ProcInv, TLC
CONSTANTS c1, c2
TwoCpus == {c1, c2}
OneCpu  == {c1}
CpuSymmetry == Permutations(TwoCpus)
=============================================================================
