------------------------------ MODULE LineQueue ------------------------------
(***************************************************************************)
(* What the console of src/kernel/console.c promises: characters are typed *)
(* into a line that can be edited until it is complete; complete lines     *)
(* form a queue, from which readers take one character after the other, in *)
(* order.  An end-of-file character ends a read, and is used up only by a  *)
(* read that it leaves empty.  There is no ring buffer here.               *)
(***************************************************************************)
EXTENDS Naturals, Sequences

CONSTANTS
  Reader, Char, Nl, Eof,
  INPUT_MAX   \* characters that fit in line and queue together

VARIABLES
  queue,   \* characters ready to be read
  line,    \* characters that can still be erased
  got      \* what the read in progress of each reader has copied out

vars == <<queue, line, got>>

Init == queue = <<>> /\ line = <<>> /\ got = [t \in Reader |-> <<>>]

\* A line is complete at its end, and when there is no room for more of it.
Enter(c) ==
  /\ Len(queue) + Len(line) < INPUT_MAX
  /\ IF c \in {Nl, Eof} \/ Len(queue) + Len(line) + 1 = INPUT_MAX
     THEN queue' = queue \o Append(line, c) /\ line' = <<>>
     ELSE queue' = queue /\ line' = Append(line, c)
  /\ UNCHANGED got

Erase ==
  /\ line # <<>>
  /\ line' = SubSeq(line, 1, Len(line) - 1)
  /\ UNCHANGED <<queue, got>>

Kill == line' = <<>> /\ UNCHANGED <<queue, got>>

Deliver(t) ==
  /\ queue # <<>> /\ Head(queue) # Eof
  /\ queue' = Tail(queue)
  /\ got' = [got EXCEPT ![t] = Append(@, Head(queue))]
  /\ UNCHANGED line

\* The reader's buffer cannot be written: the character is gone.
Lose(t) ==
  /\ queue # <<>> /\ Head(queue) # Eof
  /\ queue' = Tail(queue)
  /\ UNCHANGED <<line, got>>

TakeEof(t) ==
  /\ queue # <<>> /\ Head(queue) = Eof
  /\ got[t] = <<>>
  /\ queue' = Tail(queue)
  /\ UNCHANGED <<line, got>>

Return(t) ==
  /\ got' = [got EXCEPT ![t] = <<>>]
  /\ UNCHANGED <<queue, line>>

Next ==
  \/ \E c \in Char \cup {Nl, Eof} : Enter(c)
  \/ Erase \/ Kill
  \/ \E t \in Reader : Deliver(t) \/ Lose(t) \/ TakeEof(t) \/ Return(t)

Spec == Init /\ [][Next]_vars
=============================================================================
