-------------------------------- MODULE Uart --------------------------------
(***************************************************************************)
(* The UART's transmitter in src/kernel/memlayout.c: uartputc and          *)
(* uartinterrupt feed a ring through uartstart under uart_tx_lock, and     *)
(* uartputc_sync writes to the same register without the lock.             *)
(*                                                                         *)
(* The kernel runs on one CPU.  A holder of uart_tx_lock has interrupts    *)
(* off, and so has uartputc_sync: neither can start before the other is    *)
(* done.  One pass of uartstart's loop is a step.  The device is external: *)
(* it sends the character in THR, is idle again and raises its interrupt.  *)
(* Left out: receiving (see Console), registers set at start-up, and the   *)
(* test of `panicked'.                                                     *)
(***************************************************************************)
EXTENDS Naturals, Sequences

CONSTANTS
  UART_TX_BUF_SIZE,
  TxMod,     \* ring indices are uint64: 2^64 in the code
  Writer,    \* processes in consolewrite
  TxIntr,    \* the interrupt handler, as a holder of the lock
  Nobody,    \* uart_tx_lock is free
  TxChar,    \* characters that are written
  Echo,      \* a character from uartputc_sync
  NoTx       \* THR is empty

ASSUME UartAssumption ==
  /\ UART_TX_BUF_SIZE \in Nat \ {0}
  /\ TxMod \in Nat /\ TxMod > UART_TX_BUF_SIZE
  /\ TxMod % UART_TX_BUF_SIZE = 0
  /\ TxIntr # Nobody /\ {TxIntr, Nobody} \cap Writer = {}
  /\ Echo # NoTx /\ {Echo, NoTx} \cap TxChar = {}

VARIABLES
  tx_buf,     \* uart_tx_buf
  tx_w, tx_r, \* uart_tx_w, uart_tx_r
  tx_lock,    \* holder of uart_tx_lock
  wpc,        \* where each writer is in uartputc
  thr,        \* the transmit holding register; LSR_TX_IDLE if it is empty
  irq,        \* the transmitter's interrupt is pending
  sent        \* the last character of the ring that went out

txVars == <<tx_buf, tx_w, tx_r, tx_lock, wpc, thr, irq, sent>>

TxInit ==
  /\ tx_buf = [i \in 0 .. UART_TX_BUF_SIZE - 1 |-> NoTx]
  /\ tx_w = 0 /\ tx_r = 0
  /\ tx_lock = Nobody
  /\ wpc = [t \in Writer |-> "idle"]
  /\ thr = NoTx
  /\ irq = FALSE
  /\ sent = NoTx

Succ(i) == (i + 1) % TxMod

Used == (tx_w + TxMod - tx_r) % TxMod

Full == tx_w = (tx_r + UART_TX_BUF_SIZE) % TxMod

TxAt(t, l) == wpc[t] = l

TxGoto(t, l) == wpc' = [wpc EXCEPT ![t] = l]

-----------------------------------------------------------------------------
(***************************************************************************)
(* uartputc(c).                                                            *)
(***************************************************************************)
Lock(t) ==
  /\ TxAt(t, "idle") \/ TxAt(t, "relock")
  /\ tx_lock = Nobody
  /\ tx_lock' = t
  /\ TxGoto(t, "putc")
  /\ UNCHANGED <<tx_buf, tx_w, tx_r, thr, irq, sent>>

\* sleep(&uart_tx_r, &uart_tx_lock)
PutSleep(t) ==
  /\ TxAt(t, "putc")
  /\ Full
  /\ tx_lock' = Nobody
  /\ TxGoto(t, "asleep")
  /\ UNCHANGED <<tx_buf, tx_w, tx_r, thr, irq, sent>>

\* Faulty variant: uartputc returns without uartstart.
PutNoStart(t, c) ==
  /\ TxAt(t, "putc")
  /\ ~Full
  /\ tx_buf' = [tx_buf EXCEPT ![tx_w % UART_TX_BUF_SIZE] = c]
  /\ tx_w' = Succ(tx_w)
  /\ tx_lock' = Nobody
  /\ TxGoto(t, "idle")
  /\ UNCHANGED <<tx_r, thr, irq, sent>>

\* The character goes into the ring.
Put(t, c) ==
  /\ TxAt(t, "putc")
  /\ ~Full
  /\ tx_buf' = [tx_buf EXCEPT ![tx_w % UART_TX_BUF_SIZE] = c]
  /\ tx_w' = Succ(tx_w)
  /\ TxGoto(t, "start")
  /\ UNCHANGED <<tx_r, tx_lock, thr, irq, sent>>

-----------------------------------------------------------------------------
(***************************************************************************)
(* uartstart(), called by x with the lock: one pass of its loop, and its   *)
(* return with the release that follows in both callers.                   *)
(***************************************************************************)
Starting(x) == tx_lock = x /\ (x # TxIntr => wpc[x] = "start")

\* wakeup(&uart_tx_r)
TxWoken == [t \in Writer |-> IF wpc[t] = "asleep" THEN "relock" ELSE wpc[t]]

\* Faulty variant: the writers are not woken.
StartSendQuiet(x) ==
  /\ Starting(x)
  /\ tx_r # tx_w
  /\ thr = NoTx
  /\ thr' = tx_buf[tx_r % UART_TX_BUF_SIZE]
  /\ tx_r' = Succ(tx_r)
  /\ UNCHANGED <<tx_buf, tx_w, tx_lock, wpc, irq, sent>>

\* Faulty variant: THR is written without a test of LSR_TX_IDLE.
StartSendBusy(x) ==
  /\ Starting(x)
  /\ tx_r # tx_w
  /\ thr' = tx_buf[tx_r % UART_TX_BUF_SIZE]
  /\ tx_r' = Succ(tx_r)
  /\ wpc' = TxWoken
  /\ UNCHANGED <<tx_buf, tx_w, tx_lock, irq, sent>>

StartSend(x) ==
  /\ Starting(x)
  /\ tx_r # tx_w
  /\ thr = NoTx
  /\ thr' = tx_buf[tx_r % UART_TX_BUF_SIZE]
  /\ tx_r' = Succ(tx_r)
  /\ wpc' = TxWoken
  /\ UNCHANGED <<tx_buf, tx_w, tx_lock, irq, sent>>

StartReturn(x) ==
  /\ Starting(x)
  /\ tx_r = tx_w \/ thr # NoTx
  /\ tx_lock' = Nobody
  /\ wpc' = IF x = TxIntr THEN wpc ELSE [wpc EXCEPT ![x] = "idle"]
  /\ UNCHANGED <<tx_buf, tx_w, tx_r, thr, irq, sent>>

\* uartinterrupt() takes the lock; interrupts are off while it is held.
Interrupt ==
  /\ irq
  /\ tx_lock = Nobody
  /\ irq' = FALSE
  /\ tx_lock' = TxIntr
  /\ UNCHANGED <<tx_buf, tx_w, tx_r, wpc, thr, sent>>

\* uartputc_sync waits for the transmitter, with interrupts off.
PutSync ==
  /\ tx_lock = Nobody
  /\ thr = NoTx
  /\ thr' = Echo
  /\ UNCHANGED <<tx_buf, tx_w, tx_r, tx_lock, wpc, irq, sent>>

-----------------------------------------------------------------------------
\* The device.
Transmit ==
  /\ thr # NoTx
  /\ sent' = IF thr = Echo THEN sent ELSE thr
  /\ thr' = NoTx
  /\ irq' = TRUE
  /\ UNCHANGED <<tx_buf, tx_w, tx_r, tx_lock, wpc>>

-----------------------------------------------------------------------------
Putc(t) == PutSleep(t) \/ \E c \in TxChar : Put(t, c)

Start(x) == StartSend(x) \/ StartReturn(x)

TxNext ==
  \/ \E t \in Writer : Lock(t) \/ Putc(t) \/ Start(t)
  \/ Start(TxIntr) \/ Interrupt \/ PutSync \/ Transmit

TxSpec == TxInit /\ [][TxNext]_txVars

(***************************************************************************)
(* Fairness: the device sends, a pending interrupt is taken once they are  *)
(* on again and again, and a process that holds the lock goes on.  Nobody  *)
(* has to write, and a process may be late for the room it was woken for.  *)
(***************************************************************************)
TxFairness ==
  /\ WF_txVars(Transmit)
  /\ SF_txVars(Interrupt)
  /\ \A t \in Writer : WF_txVars(Putc(t)) /\ WF_txVars(Start(t))
  /\ WF_txVars(Start(TxIntr))

TxFairSpec == TxSpec /\ TxFairness

-----------------------------------------------------------------------------
(***************************************************************************)
(* The transmitter does not stall: while characters wait in the ring, the  *)
(* UART is sending, or its interrupt is pending, or somebody is on the way *)
(* through uartstart; in spite of uartputc_sync, which uses up idle times. *)
(***************************************************************************)
NoStall ==
  tx_r # tx_w =>
    \/ thr # NoTx
    \/ irq
    \/ tx_lock = TxIntr
    \/ \E t \in Writer : TxAt(t, "start")

(***************************************************************************)
(* A process that sleeps in uartputc is woken, if the kernel's own output  *)
(* through uartputc_sync comes to an end: as long as it goes on it may     *)
(* take every idle moment of the transmitter for itself.                   *)
(***************************************************************************)
WriterWakes ==
  <>[][~PutSync]_txVars =>
    \A t \in Writer : TxAt(t, "asleep") ~> ~TxAt(t, "asleep")

-----------------------------------------------------------------------------
(***************************************************************************)
(* The ring and THR implement TxQueue: no character is lost, sent twice or *)
(* overtaken, whether uartputc or the interrupt handler passes it on.      *)
(***************************************************************************)
InThr == IF thr \in TxChar THEN <<thr>> ELSE <<>>

InRing == [k \in 1 .. Used |-> tx_buf[(tx_r + k - 1) % UART_TX_BUF_SIZE]]

TxAbs == INSTANCE TxQueue WITH
  Char <- TxChar, NoChar <- NoTx, queue <- InThr \o InRing

ImplementsTxQueue == TxAbs!Spec
=============================================================================
