----------------------------- MODULE MCVirtDisk -----------------------------
(* Three threads share the disk of a one-CPU machine: one more than the      *)
(* eight descriptors can serve at a time.                                    *)
EXTENDS VirtDisk, TLC
CONSTANTS t1, t2, t3
ThreeThreads == {t1, t2, t3}
=============================================================================
