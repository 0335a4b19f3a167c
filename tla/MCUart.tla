------------------------------- MODULE MCUart -------------------------------
(* Two processes write two characters through a ring of three. *)
EXTENDS Uart
CONSTANTS t1, t2, x, y
Writers == {t1, t2}
Chars   == {x, y}
=============================================================================
