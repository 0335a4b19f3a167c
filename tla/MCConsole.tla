------------------------------ MODULE MCConsole ------------------------------
(* Two readers share a ring of three characters. *)
EXTENDS Console, TLC
CONSTANTS t1, t2, x
Readers == {t1, t2}
Chars   == {x}
=============================================================================
