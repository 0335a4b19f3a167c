------------------------------ MODULE TxQueue ------------------------------
(***************************************************************************)
(* What uartputc of src/kernel/memlayout.c promises: the characters given  *)
(* to it reach the line once each and in the order in which they were      *)
(* given.                                                                  *)
(***************************************************************************)
EXTENDS Naturals, Sequences

CONSTANTS Char, NoChar

VARIABLES
  queue,   \* characters given and not yet on the line
  sent     \* the one sent last

vars == <<queue, sent>>

Init == queue = <<>> /\ sent = NoChar

Put(c) == queue' = Append(queue, c) /\ UNCHANGED sent

Send ==
  /\ queue # <<>>
  /\ sent' = Head(queue)
  /\ queue' = Tail(queue)

Next == Send \/ \E c \in Char : Put(c)

Spec == Init /\ [][Next]_vars
=============================================================================
