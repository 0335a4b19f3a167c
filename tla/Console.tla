------------------------------- MODULE Console -------------------------------
(***************************************************************************)
(* The console input of src/kernel/console.c: consoleintr fills the ring   *)
(* cons.buf from the keyboard's interrupts, processes empty it in          *)
(* consoleread.                                                            *)
(*                                                                         *)
(* consoleintr is one critical section of cons.slock and one step.  A read *)
(* takes one step for each character, with the lock held, and sleeps on    *)
(* &cons.r without it.  The indices are uint, counted modulo IdxMod.       *)
(* Left out: the echo of typed characters, and the test of p->killed,      *)
(* which nothing in the kernel ever sets.                                  *)
(***************************************************************************)
EXTENDS Naturals, Sequences, FiniteSets, FiniteSetsExt

CONSTANTS
  INPUT_MAX,   \* entries of cons.buf
  IdxMod,      \* 2^32 in the code
  Reader,      \* processes that read the console
  NoReader,    \* cons.slock is free
  Char,        \* ordinary characters
  Nl, Eof,     \* '\n' (or '\r'), C('D')
  NoChar,      \* an entry never written
  MaxRead      \* longest read that is tried

ASSUME ConsoleAssumption ==
  /\ INPUT_MAX \in Nat \ {0}
  /\ IdxMod \in Nat /\ IdxMod > INPUT_MAX /\ IdxMod % INPUT_MAX = 0
  /\ NoReader \notin Reader
  /\ MaxRead \in Nat
  /\ Nl # Eof /\ {Nl, Eof, NoChar} \cap Char = {} /\ NoChar \notin {Nl, Eof}

VARIABLES
  buf,      \* cons.buf
  r, w, e,  \* cons.r, cons.w, cons.e
  slock,    \* reader that holds cons.slock
  pc,       \* where each reader is in consoleread
  n,        \* characters its read still asks for
  target,   \* characters its read asked for
  got       \* characters copied to the user's buffer

cons  == <<buf, r, w, e>>
reads == <<n, target, got>>
vars  == <<buf, r, w, e, slock, pc, n, target, got>>

Init ==
  /\ buf = [i \in 0 .. INPUT_MAX - 1 |-> NoChar]
  /\ r = 0 /\ w = 0 /\ e = 0
  /\ slock = NoReader
  /\ pc = [t \in Reader |-> "idle"]
  /\ n = [t \in Reader |-> 0]
  /\ target = [t \in Reader |-> 0]
  /\ got = [t \in Reader |-> <<>>]

\* uint arithmetic.
Add(i, k) == (i + k) % IdxMod
Sub(i, k) == (i + IdxMod - k) % IdxMod

CharAt(i) == buf[i % INPUT_MAX]

At(t, l)   == pc[t] = l
Goto(t, l) == pc' = [pc EXCEPT ![t] = l]

-----------------------------------------------------------------------------
(***************************************************************************)
(* consoleintr(c), by the kind of c.                                       *)
(***************************************************************************)
\* wakeup(&cons.r)
Woken == [t \in Reader |-> IF pc[t] = "asleep" THEN "relock" ELSE pc[t]]

\* C('U'): erase back to the end of the line before, or to cons.w.
IntrKill ==
  /\ slock = NoReader
  /\ LET stops == {k \in 0 .. Sub(e, w) :
                     k = 0 \/ CharAt(Add(w, k - 1)) = Nl}
     IN  e' = Add(w, Max(stops))
  /\ UNCHANGED <<buf, r, w, slock, pc, reads>>

\* Faulty variant: what was handed over to the readers can be erased.
IntrEraseCommitted ==
  /\ slock = NoReader
  /\ e # r
  /\ e' = Sub(e, 1)
  /\ UNCHANGED <<buf, r, w, slock, pc, reads>>

\* C('H') and DEL.
IntrErase ==
  /\ slock = NoReader
  /\ e # w
  /\ e' = Sub(e, 1)
  /\ UNCHANGED <<buf, r, w, slock, pc, reads>>

\* Faulty variant: a full ring is handed over without wakeup.
IntrCharFullQuiet(c) ==
  /\ slock = NoReader
  /\ Sub(e, r) < INPUT_MAX
  /\ buf' = [buf EXCEPT ![e % INPUT_MAX] = c]
  /\ e' = Add(e, 1)
  /\ w' = IF c \in {Nl, Eof} \/ e' = Add(r, INPUT_MAX) THEN e' ELSE w
  /\ pc' = IF c \in {Nl, Eof} THEN Woken ELSE pc
  /\ UNCHANGED <<r, slock, reads>>

\* Any other character, while there is room.  The line is handed over at its
\* end, and when the ring is full.
IntrChar(c) ==
  /\ slock = NoReader
  /\ Sub(e, r) < INPUT_MAX
  /\ buf' = [buf EXCEPT ![e % INPUT_MAX] = c]
  /\ e' = Add(e, 1)
  /\ IF c \in {Nl, Eof} \/ e' = Add(r, INPUT_MAX)
     THEN w' = e' /\ pc' = Woken
     ELSE UNCHANGED <<w, pc>>
  /\ UNCHANGED <<r, slock, reads>>

-----------------------------------------------------------------------------
(***************************************************************************)
(* consoleread(user_dst, dst, k).                                          *)
(***************************************************************************)
Read(t, k) ==
  /\ At(t, "idle")
  /\ slock = NoReader
  /\ slock' = t
  /\ n' = [n EXCEPT ![t] = k]
  /\ target' = [target EXCEPT ![t] = k]
  /\ Goto(t, "loop")
  /\ UNCHANGED <<cons, got>>

\* while (cons.r == cons.w) sleep(&cons.r, &cons.slock)
ReadSleep(t) ==
  /\ At(t, "loop") /\ n[t] > 0
  /\ r = w
  /\ slock' = NoReader
  /\ Goto(t, "asleep")
  /\ UNCHANGED <<cons, reads>>

ReadRelock(t) ==
  /\ At(t, "relock")
  /\ slock = NoReader
  /\ slock' = t
  /\ Goto(t, "loop")
  /\ UNCHANGED <<cons, reads>>

\* An end of file after other characters is put back for the next read.
ReadEof(t) ==
  /\ At(t, "loop") /\ n[t] > 0
  /\ r # w
  /\ CharAt(r) = Eof
  /\ r' = IF n[t] < target[t] THEN Sub(Add(r, 1), 1) ELSE Add(r, 1)
  /\ Goto(t, "done")
  /\ UNCHANGED <<buf, w, e, slock, reads>>

ReadChar(t) ==
  /\ At(t, "loop") /\ n[t] > 0
  /\ r # w
  /\ CharAt(r) # Eof
  /\ r' = Add(r, 1)
  /\ got' = [got EXCEPT ![t] = Append(@, CharAt(r))]
  /\ n' = [n EXCEPT ![t] = @ - 1]
  /\ Goto(t, IF CharAt(r) = Nl THEN "done" ELSE "loop")
  /\ UNCHANGED <<buf, w, e, slock, target>>

\* either_copyout returns -1, for an address from MAXVA on: the character was
\* taken all the same.
ReadFault(t) ==
  /\ At(t, "loop") /\ n[t] > 0
  /\ r # w
  /\ CharAt(r) # Eof
  /\ r' = Add(r, 1)
  /\ Goto(t, "done")
  /\ UNCHANGED <<buf, w, e, slock, reads>>

\* An address below MAXVA that no user page backs: walkaddr() panics inside
\* either_copyout, after the character was taken and with cons.slock held.
ReadPanic(t) ==
  /\ At(t, "loop") /\ n[t] > 0
  /\ r # w
  /\ CharAt(r) # Eof
  /\ r' = Add(r, 1)
  /\ Goto(t, "panic")
  /\ UNCHANGED <<buf, w, e, slock, reads>>

\* The loop of panic(), with interrupts off: nobody gets cons.slock again.
Halt(t) == At(t, "panic") /\ UNCHANGED vars

\* Faulty variant: a read that an end of file or a line's end stops returns
\* without releasing cons.slock.
ReadReturnKeepsLock(t) ==
  /\ At(t, "done") \/ (At(t, "loop") /\ n[t] = 0)
  /\ slock' = IF At(t, "done") THEN slock ELSE NoReader
  /\ n' = [n EXCEPT ![t] = 0]
  /\ target' = [target EXCEPT ![t] = 0]
  /\ got' = [got EXCEPT ![t] = <<>>]
  /\ Goto(t, "idle")
  /\ UNCHANGED cons

\* release, return target - n
ReadReturn(t) ==
  /\ At(t, "done") \/ (At(t, "loop") /\ n[t] = 0)
  /\ slock' = NoReader
  /\ n' = [n EXCEPT ![t] = 0]
  /\ target' = [target EXCEPT ![t] = 0]
  /\ got' = [got EXCEPT ![t] = <<>>]
  /\ Goto(t, "idle")
  /\ UNCHANGED cons

-----------------------------------------------------------------------------
Intr == IntrKill \/ IntrErase \/ \E c \in Char \cup {Nl, Eof} : IntrChar(c)

ReadStep(t) == \/ ReadSleep(t) \/ ReadRelock(t) \/ ReadEof(t)
               \/ ReadChar(t) \/ ReadFault(t) \/ ReadPanic(t)
               \/ ReadReturn(t)

Next == \/ Intr
        \/ \E t \in Reader :
             ReadStep(t) \/ Halt(t) \/ \E k \in 0 .. MaxRead : Read(t, k)

Spec == Init /\ [][Next]_vars

(***************************************************************************)
(* Fairness: a reader that can go on is scheduled.  The kernel runs on one *)
(* CPU and holds cons.slock with interrupts off, so a reader that is       *)
(* scheduled finds the lock free: hence strong fairness.  (After ReadPanic *)
(* nobody is scheduled; no step of another reader is enabled then.)        *)
(* Nobody has to type, and nobody has to read.                             *)
(***************************************************************************)
FairSpec == Spec /\ \A t \in Reader : SF_vars(ReadStep(t))

-----------------------------------------------------------------------------
(***************************************************************************)
(* No reader sleeps on input that is there: the test r == w and the sleep  *)
(* cannot be separated from consoleintr's update of w and its wakeup.  And *)
(* the keyboard can get a sleeping reader going again: a full ring has     *)
(* been handed over, so there is room for the character that ends the line. *)
(***************************************************************************)
NoSleepOnInput ==
  \A t \in Reader : At(t, "asleep") => r = w /\ Sub(e, r) < INPUT_MAX

(***************************************************************************)
(* A reader that was woken comes back to its caller, unless the others     *)
(* took all the input, or a read into an unmapped buffer has panicked with *)
(* cons.slock held.  (Every other way out of consoleread gives the lock    *)
(* back.)                                                                  *)
(***************************************************************************)
WokenReaderReturns ==
  \A t \in Reader :
    At(t, "relock") ~> \/ At(t, "idle") \/ r = w
                       \/ \E u \in Reader : At(u, "panic")

-----------------------------------------------------------------------------
(***************************************************************************)
(* The ring implements LineQueue: cons.r .. cons.w is the queue of         *)
(* complete lines and cons.w .. cons.e the line being typed, through every *)
(* wrap of the ring and of the indices.                                    *)
(***************************************************************************)
Span(i, j) == [k \in 1 .. Sub(j, i) |-> CharAt(Add(i, k - 1))]

Abs == INSTANCE LineQueue WITH queue <- Span(r, w), line <- Span(w, e)

ImplementsLineQueue == Abs!Spec
=============================================================================
