------------------------------- MODULE MCFile -------------------------------
(* Two processes, the root directory and two files in it. *)
EXTENDS File
CONSTANTS p1, p2, k1, k2, k3
Procs == {p1, p2}
Inums == {k1, k2, k3}
=============================================================================
